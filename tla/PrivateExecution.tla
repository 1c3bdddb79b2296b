--------------------------- MODULE PrivateExecution ---------------------------
(***************************************************************************)
(* execute_private_proposal: members' clients that execute private         *)
(* proposals side by side, while the chain goes on.  An execution collects *)
(* the shares of the treasury key (ShareCollector), fetches the proposal   *)
(* and its payload hash, loads the payload from the history file           *)
(* (ProposalRecords), compares the hashes and then has the Cloak pool      *)
(* spend one note per entry.  Nothing of this is an instruction of the     *)
(* multisig program, and none of its accounts remembers it.                *)
(*                                                                         *)
(* Cloak is not in this repository: a note is spent at most once and only  *)
(* with the treasury's key.                                                *)
(***************************************************************************)
EXTENDS FortisMultisig, Payloads, SequencesExt

CONSTANTS
  Executions,      (* runs of execute_private_proposal                      *)
  Notes,           (* commitments of the treasury's notes                   *)
  NoteAmount,      (* amount a note is worth                                *)
  RecordedNotes,   (* notes in treasury_utxos.json; no record is ever       *)
                   (* marked spent                                          *)
  HistoryRecords   (* [type, record]: what a read of a history file may     *)
                   (* find, written by a create command or edited since     *)

VARIABLES
  execution,       (* where a run is and what it has fetched                *)
  unspent,         (* notes without a nullifier                             *)
  payments,        (* withdrawals and swaps the pool has executed           *)
  ratified         (* history: what has been Approved at some time          *)

(* A file that parses as a record has a list of entries. *)
ASSUME HistoryAssumption ==
  \A h \in HistoryRecords : h.record.entries \in Seq(ToSet(h.record.entries))

executionVars == <<execution, unspent, payments>>

At(e, pc) == execution[e].pc = pc

Goes(e, pc) == execution' = [execution EXCEPT ![e].pc = pc]

ExecutionInit ==
  /\ Init
  /\ execution = [e \in Executions |->
       [pc |-> "start", index |-> 0, type |-> Public, hash |-> ZeroHash, entries |-> <<>>,
        results |-> {}, failures |-> {}]]
  /\ unspent = Notes
  /\ payments = <<>>
  /\ ratified = {}

------------------------------------------------------------------------------
(* Steps of an execution up to the payments. *)

(* reconstructTreasuryKeyViaShamir.  A collection that fails ends the run; a    *)
(* share that is not one of the treasury's makes the key wrong, and then the    *)
(* pool refuses every withdrawal.                                              *)
Collect(e, index) ==
  /\ At(e, "start")
  /\ multisig # NoAccount
  /\ execution' = [execution EXCEPT ![e].pc = "collected", ![e].index = index]
  /\ UNCHANGED <<vars, unspent, payments, ratified>>

FetchProposalMutNoStatus(e) ==
  LET p == proposal[execution[e].index] IN
  /\ At(e, "collected")
  /\ IF p # NoAccount
       THEN execution' = [execution EXCEPT ![e].pc = "fetched", ![e].type = p.proposal_type]
       ELSE Goes(e, "thrown")
  /\ UNCHANGED <<vars, unspent, payments, ratified>>

FetchProposal(e) ==
  LET p == proposal[execution[e].index] IN
  /\ At(e, "collected")
  /\ IF p # NoAccount /\ p.status = Approved
       THEN execution' = [execution EXCEPT ![e].pc = "fetched", ![e].type = p.proposal_type]
       ELSE Goes(e, "thrown")
  /\ UNCHANGED <<vars, unspent, payments, ratified>>

(* Another request; the accounts may be closed in between. *)
FetchTransaction(e) ==
  LET t == transaction[execution[e].index] IN
  /\ At(e, "fetched")
  /\ IF t = NoAccount THEN Goes(e, "thrown")
     ELSE execution' = [execution EXCEPT ![e].pc = "hashed", ![e].hash = t.content]
  /\ UNCHANGED <<vars, unspent, payments, ratified>>

(* enforceHash: recomputed = on-chain and recomputed = stored. *)
HashEnforcedMutStoredOnly(e, r) ==
  PayloadHash(execution[e].type, r.salt, r.entries) = r.payloadHash

HashEnforced(e, r) ==
  LET recomputed == PayloadHash(execution[e].type, r.salt, r.entries) IN
  recomputed = execution[e].hash /\ recomputed = r.payloadHash

(* loadRecord finds a record of the index in the file of the type, or none     *)
(* (also while the file is being written).  For any type but the two private   *)
(* ones the command throws, and what was read of a message is no hash.         *)
LoadRecord(e) ==
  /\ At(e, "hashed")
  /\ \/ \E h \in HistoryRecords :
          /\ h.type = execution[e].type /\ h.record.txIndex = execution[e].index
          /\ IF HashEnforced(e, h.record)
               THEN execution' = [execution EXCEPT ![e].pc = "paying",
                                                   ![e].entries = h.record.entries]
               ELSE Goes(e, "thrown")
     \/ Goes(e, "thrown")
  /\ UNCHANGED <<vars, unspent, payments, ratified>>

------------------------------------------------------------------------------
(* executeTransfers, one entry after the other, and executeSwap, whose only    *)
(* entry is the first.                                                        *)

Next1(e) == Cardinality(execution[e].results) + Cardinality(execution[e].failures) + 1

Entry(e) == execution[e].entries[Next1(e)]

Paying(e) == At(e, "paying") /\ Next1(e) <= Len(execution[e].entries)

Succeeds(e) == execution' = [execution EXCEPT ![e].results = @ \cup {Next1(e)}]

Fails(e) == execution' = [execution EXCEPT ![e].failures = @ \cup {Next1(e)}]

(* What the pool pays out: fullWithdraw all that the note is worth, whatever   *)
(* the entry says, swapWithChange the amount of the entry.                    *)
Paid(e) ==
  IF execution[e].type = PrivateTransfer THEN NoteAmount[Entry(e).commitment]
  ELSE Entry(e).amount

(* The pool (external), called with the right key. *)
Spends(e) ==
  /\ Entry(e).commitment \in unspent
  /\ Paid(e) <= NoteAmount[Entry(e).commitment]
  /\ unspent' = unspent \ {Entry(e).commitment}
  /\ payments' = Append(payments, [index |-> execution[e].index, entry |-> Entry(e),
                                   amount |-> Paid(e)])

(* The note is spent and the call returns, or throws all the same: a timeout   *)
(* after the transaction was sent.                                            *)
WithdrawMutBoth(e) ==
  /\ Paying(e) /\ Entry(e).commitment \in RecordedNotes
  /\ Spends(e)
  /\ \/ Succeeds(e)
     \/ execution' = [execution EXCEPT ![e].results = @ \cup {Next1(e)},
                                       ![e].failures = @ \cup {Next1(e)}]
  /\ UNCHANGED <<vars, ratified>>

Withdraw(e) ==
  /\ Paying(e) /\ Entry(e).commitment \in RecordedNotes
  /\ Spends(e)
  /\ Succeeds(e) \/ Fails(e)
  /\ UNCHANGED <<vars, ratified>>

(* The commitment is not in the file, or the pool refuses: the note is spent, the  *)
(* key is wrong, the relay is down.                                            *)
WithdrawFailsMutReported(e) ==
  /\ Paying(e)
  /\ Succeeds(e)
  /\ UNCHANGED <<vars, unspent, payments, ratified>>

WithdrawFails(e) ==
  /\ Paying(e)
  /\ Fails(e)
  /\ UNCHANGED <<vars, unspent, payments, ratified>>

(* Throws only if every entry failed. *)
Finish(e) ==
  /\ At(e, "paying") /\ Next1(e) > Len(execution[e].entries)
  /\ Goes(e, IF execution[e].failures # {} /\ execution[e].results = {}
               THEN "thrown" ELSE "executed successfully")
  /\ UNCHANGED <<vars, unspent, payments, ratified>>

(* The process ends in the middle. *)
Crash(e) ==
  /\ execution[e].pc \in {"collected", "fetched", "hashed", "paying"}
  /\ Goes(e, "thrown")
  /\ UNCHANGED <<vars, unspent, payments, ratified>>

------------------------------------------------------------------------------
(* What happens on the chain, with proposals of every type whose hash need not  *)
(* be one of that type, and what becomes approved by it.                       *)

Ratified(i) == [index |-> i, type |-> proposal'[i].proposal_type,
                content |-> transaction'[i].content]

ChainStep ==
  /\ Next
  /\ ratified' = ratified \cup
       { Ratified(i) : i \in { j \in Indices : proposal'[j] # NoAccount
                                               /\ proposal'[j].status = Approved } }
  /\ UNCHANGED executionVars

ExecutionNext ==
  \/ ChainStep
  \/ \E e \in Executions :
       \/ \E index \in Indices : Collect(e, index)
       \/ FetchProposal(e)
       \/ FetchTransaction(e)
       \/ LoadRecord(e)
       \/ Withdraw(e)
       \/ WithdrawFails(e)
       \/ Finish(e)
       \/ Crash(e)

ExecutionSpec == ExecutionInit /\ [][ExecutionNext]_<<vars, executionVars, ratified>>

------------------------------------------------------------------------------
(* Properties. *)

(* Type invariant of the executions: an entry is a result or a failure, in the
   order of the entries, and the spent notes are those that were paid from. *)
ExecutionTypeOK ==
  /\ \A e \in Executions :
       /\ execution[e].pc \in {"start", "collected", "fetched", "hashed", "paying",
                               "executed successfully", "thrown"}
       /\ execution[e].results \cap execution[e].failures = {}
       /\ execution[e].results \cup execution[e].failures = 1..Next1(e) - 1
       /\ Next1(e) - 1 <= Len(execution[e].entries)
  /\ Notes \ unspent = { p.entry.commitment : p \in ToSet(payments) }

(* The approved payloads: a public proposal has a message instead. *)
RatifiedPayloads == { r \in ratified : r.content \in Hashes }

(* Money leaves the pool only for an entry of the payload whose hash the members
   approved under that index, although the executing client has read the status,
   the hash and the payload at different times from different places: "Throws
   before any UTXO is touched if anything doesn't match". *)
PaidAuthorized ==
  \A p \in ToSet(payments) :
    \E r \in RatifiedPayloads : r.index = p.index /\ p.entry \in ToSet(r.content.entries)

(* A transfer that is reported as submitted was paid, and only to one of the
   executions of its proposal it is reported, side by side or one after the other
   has failed: no file and no account remembers the first execution. *)
ReportedIsPaid ==
  \A e \in Executions : \A n \in execution[e].results :
    /\ \E p \in ToSet(payments) :
         p.index = execution[e].index /\ p.entry = execution[e].entries[n]
    /\ \A f \in Executions \ {e} :
         execution[f].index = execution[e].index => n \notin execution[f].results

(* The promise, read off the executions: what was ratified, what was paid, and
   what the runs hold as results. *)
GrantOf(r) == [index |-> r.index, entries |-> r.content.entries]

GrantedBar == { GrantOf(r) : r \in RatifiedPayloads }

PaidBar == [k \in DOMAIN payments |->
              [index |-> payments[k].index, entry |-> payments[k].entry]]

ReportsOf(e) == { <<execution[e].index, n>> : n \in execution[e].results }

ReportedBar == UNION { ReportsOf(e) : e \in Executions }

Payments ==
  INSTANCE PrivatePayments WITH
    Indices <- Indices, EntryLists <- { h.entries : h \in Hashes }, Notes <- Notes,
    granted <- GrantedBar, unspent <- unspent, paid <- PaidBar, reported <- ReportedBar

(* The executions, with the chain under them, keep the promise of PrivatePayments:
   a proposal is granted one payload for ever, a payment is one of its entries by a
   note that was not used, and is reported in the very step that makes it, by one
   run, whatever other runs have read, lost or failed to hear. *)
ImplementsPayments == Payments!PSpec

(* "Amount: ${entry.amount} lamports" (executePrivateProposal.ts:579), reported
   again as the amount of the result: what is paid is the amount in the payload
   that the members have verified. *)
PaidAsVoted ==
  \A p \in ToSet(payments) : p.amount = p.entry.amount
=============================================================================
