------------------------------- MODULE Payloads -------------------------------
(***************************************************************************)
(* The payload of a private proposal, which only its hash stands for on    *)
(* the chain, and its record in a history file.  ProposalRecords writes    *)
(* these records, PrivateExecution reads them.                             *)
(***************************************************************************)

(* BLAKE3 over a domain, the same for both types, and a JSON text whose shape  *)
(* tells the type: two payloads have the same hash only if they are the same.  *)
PayloadHash(type, salt, entries) == [kind |-> type, salt |-> salt, entries |-> entries]

(* dbRecord *)
Record(index, salt, hash, entries) ==
  [txIndex |-> index, salt |-> salt, payloadHash |-> hash, entries |-> entries]
=============================================================================
