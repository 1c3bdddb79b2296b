---------------------------- MODULE PrivatePayments ----------------------------
(***************************************************************************)
(* What private execution promises, without clients, files and reads: an   *)
(* index is granted a list of entries once and for all, by the members'    *)
(* approval; money leaves the pool only as one entry of a granted list at  *)
(* a time, by a note that nothing was paid from before; a payment may be   *)
(* reported when it is made and at no other time, and what was granted,    *)
(* paid or reported stays so.  PrivateExecution implements this            *)
(* specification.                                                          *)
(***************************************************************************)
EXTENDS Integers, Sequences

CONSTANTS
  Indices,     (* the numbers a proposal may have                          *)
  EntryLists,  (* what a proposal may ask to pay                           *)
  Notes        (* the treasury's notes in the pool                         *)

VARIABLES
  granted,     (* [index, entries] of the approved proposals               *)
  unspent,     (* notes nothing was paid from                              *)
  paid,        (* [index, entry] of every payment, in their order          *)
  reported     (* <<index, number of the entry>> that some client reports  *)

paymentVars == <<granted, unspent, paid, reported>>

PInit ==
  /\ granted = {}
  /\ unspent = Notes
  /\ paid = <<>>
  /\ reported = {}

Grant(i, entries) ==
  /\ \A g \in granted : g.index # i
  /\ granted' = granted \cup {[index |-> i, entries |-> entries]}
  /\ UNCHANGED <<unspent, paid, reported>>

Pay(g, n) ==
  /\ g.entries[n].commitment \in unspent
  /\ unspent' = unspent \ {g.entries[n].commitment}
  /\ paid' = Append(paid, [index |-> g.index, entry |-> g.entries[n]])
  /\ reported' \in {reported, reported \cup {<<g.index, n>>}}
  /\ UNCHANGED granted

PNext ==
  \/ \E i \in Indices, entries \in EntryLists : Grant(i, entries)
  \/ \E g \in granted : \E n \in 1..Len(g.entries) : Pay(g, n)

PSpec == PInit /\ [][PNext]_paymentVars
=============================================================================
