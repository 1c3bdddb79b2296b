-------------------------- MODULE MCPrivateExecution --------------------------
(* A transfer of two entries and a swap over the same notes, whose payloads are *)
(* in the history files, or were edited there.                                 *)
EXTENDS PrivateExecution

CONSTANTS m1, m2, s1, n1, n2, n3, alice, bob, x, y

MCSymmetry == Permutations(Executions) \cup Permutations(Keys)

MCMemberLists == {<<m1, m2>>, <<m2, m1>>}
MCShareLists == {<<s1, s1>>}

(* n1 is worth more than the entries that spend it; n3 is in no file. *)
MCNoteAmount == [n \in Notes |-> IF n = n1 THEN 2 ELSE 1]

MCEntry(commitment, recipient) ==
  [commitment |-> commitment, amount |-> 1, recipient |-> recipient]

MCTransfer == <<MCEntry(n2, alice), MCEntry(n1, bob)>>
MCSwap == <<MCEntry(n1, alice)>>
MCEdited == <<MCEntry(n2, bob), MCEntry(n3, bob)>>

MCHashes ==
  { PayloadHash(PrivateTransfer, 0, MCTransfer), PayloadHash(PrivateTransfer, 1, MCTransfer),
    PayloadHash(PrivateSwap, 1, MCSwap) }

(* One of the hashes reads as a message without instructions. *)
MCEmptyMessages == { PayloadHash(PrivateSwap, 1, MCSwap) }

MCWritten(type, salt, entries) ==
  [type |-> type,
   record |-> Record(salt + 1, salt, PayloadHash(type, salt, entries), entries)]

MCHistoryRecords ==
  { MCWritten(PrivateTransfer, 0, MCTransfer), MCWritten(PrivateTransfer, 1, MCTransfer),
    MCWritten(PrivateSwap, 1, MCSwap), MCWritten(PrivateTransfer, 0, MCEdited),
    [type |-> PrivateTransfer,
     record |-> Record(1, 0, PayloadHash(PrivateTransfer, 0, MCTransfer), MCEdited)] }

(* Two transfers about one note, one of the amount it is worth. *)
MCPlain == <<MCEntry(n2, alice)>>
MCShort == <<MCEntry(n1, alice)>>
MCShortHashes == { PayloadHash(PrivateTransfer, 0, MCPlain), PayloadHash(PrivateTransfer, 0, MCShort) }
MCShortRecords ==
  { MCWritten(PrivateTransfer, 0, MCPlain), MCWritten(PrivateTransfer, 0, MCShort) }
=============================================================================
