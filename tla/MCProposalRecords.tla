-------------------------- MODULE MCProposalRecords --------------------------
(* Three commands, two of them about the same transfer, one a swap. *)
EXTENDS ProposalRecords

CONSTANTS m1, m2, s1

(* Which member runs a command or votes makes no difference. *)
MCSymmetry == Permutations(Keys)
MCMemberLists == {<<m1, m2>>, <<m2, m1>>}
MCShareLists == {<<s1, s1>>}
MCCreatorOf == [c \in Commands |-> IF c = "a" THEN m1 ELSE m2]
MCTypeOf == [c \in Commands |-> IF c = "swap" THEN PrivateSwap ELSE PrivateTransfer]
MCEntriesOf == [c \in Commands |-> IF c = "swap" THEN "entry" ELSE "entries"]
MCHashes ==
  { PayloadHash(TypeOf[c], salt, EntriesOf[c]) : c \in Commands, salt \in 0..MaxIndex }

(* One of the swap's hashes reads as a message without instructions. *)
MCEmptyMessages == { PayloadHash(PrivateSwap, 0, "entry") }
=============================================================================
