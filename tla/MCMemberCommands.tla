--------------------------- MODULE MCMemberCommands ---------------------------
(* Workloads: a member creates the multisig twice at the same time, once with a *)
(* list that repeats a member; deposits are typed in hexadecimal, or for a      *)
(* multisig that never comes to be; two of three members vote on a transfer,    *)
(* while one of them repeats the command, or another transfer is proposed, or   *)
(* two runs execute it.                                                        *)
EXTENDS TreasuryNotes

CONSTANTS m1, m2, m3

MCPublicKeyOf == [k \in {1, 11, 38} |-> CASE k = 1 -> 18 [] k = 11 -> 43 [] k = 38 -> 3]

MCCreate(signer, members, threshold, secret) ==
  [kind |-> "create_multisig", signer |-> signer, members |-> members,
   threshold |-> threshold, secret |-> secret]

MCPropose(signer, amount) ==
  [kind |-> "create_transfer_proposal", signer |-> signer,
   message |-> [to |-> "payee", amount |-> amount]]

MCOf(kind, signer, index) == [kind |-> kind, signer |-> signer, index |-> index]

MCArguments ==
  [c \in Commands |->
    CASE c = "create" -> MCCreate(m1, <<m1, m2, m3>>, 2, 1)
      [] c = "create again" -> MCCreate(m1, <<m1, m1, m2, m3>>, 3, 11)
      [] c = "create alone" -> MCCreate(m1, <<m1>>, 1, 38)
      [] c = "propose" -> MCPropose(m1, 1)
      [] c = "propose too" -> MCPropose(m2, 2)
      [] c = "approve 1" -> MCOf("approve_proposal", m1, 1)
      [] c = "approve again" -> MCOf("approve_proposal", m1, 1)
      [] c = "approve 2" -> MCOf("approve_proposal", m2, 1)
      [] c = "execute" -> MCOf("execute_proposal", m1, 1)
      [] c = "execute again" -> MCOf("execute_proposal", m1, 1)
      [] c = "deposit" -> [kind |-> "public_deposit", signer |-> m2, amount |-> 2]]

MCTypedAs ==
  [d \in Deposits |->
    CASE d = "first" -> [printedBy |-> "create", hexadecimal |-> FALSE]
      [] d = "second" -> [printedBy |-> "create again", hexadecimal |-> FALSE]
      [] d = "third" -> [printedBy |-> "create", hexadecimal |-> TRUE]
      [] d = "fourth" -> [printedBy |-> "create alone", hexadecimal |-> FALSE]]

MCVote == {"create", "propose", "approve 1", "approve 2"}

MCWorkloads ==
  { {"create", "create again", "first", "second"}, {"create", "first", "third"},
    {"create alone", "fourth"}, MCVote \cup {"approve again"}, MCVote \cup {"propose too"},
    MCVote \cup {"deposit", "execute", "execute again"} }

MCShareLists ==
  { SharesOfKey(MCArguments[c].secret, MCArguments[c].members, threshold) :
      c \in {"create", "create again"}, threshold \in {2, 3, 4} }

MCMemberLists == { <<m1, m2, m3>>, <<m1, m1, m2, m3>>, <<m1>> }
=============================================================================
