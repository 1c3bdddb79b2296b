----------------------- MODULE FortisMultisigRefinement -----------------------
(***************************************************************************)
(* FortisMultisig implements ProposalLifecycle, for every value of the     *)
(* constants: under the mapping of FortisMultisig every instruction is one *)
(* step of the abstract lifecycle or none.                                 *)
(***************************************************************************)
EXTENDS FortisMultisigProofs

LEMMA InitRefines == Init => Lifecycle!LInit
<1> SUFFICES ASSUME Init PROVE Lifecycle!LInit
  OBVIOUS
<1>1. \A i \in Indices : PhaseAt(i) = "unused" /\ VotesAt(i) = {}
  BY DEF Init, PhaseAt, VotesAt, LatestBar, Live, Indices
<1>2. CouncilBar = NoAccount /\ LatestBar = 0
  BY DEF Init, CouncilBar, LatestBar
<1> QED
  BY <1>1, <1>2 DEF Lifecycle!LInit

(***************************************************************************)
(* A step that changes the accounts of one index only, and neither members *)
(* nor threshold, changes the abstract state of that index only, unless it *)
(* moves the current index past another one.                               *)
(***************************************************************************)
LEMMA BarFrame ==
  ASSUME NEW j \in Indices, proposal'[j] = proposal[j],
         j <= LatestBar <=> j <= LatestBar'
  PROVE  PhaseAt(j)' = PhaseAt(j) /\ VotesAt(j)' = VotesAt(j)
  BY DEF PhaseAt, VotesAt, Live, Votes

(* The council is the same as long as members and threshold are. *)
LEMMA CouncilFrame ==
  ASSUME multisig # NoAccount, multisig' # NoAccount,
         multisig'.members = multisig.members,
         multisig'.threshold = multisig.threshold
  PROVE  CouncilBar' = CouncilBar
  BY DEF CouncilBar, MemberSet

(* The cardinality of the lifecycle's own copy of FiniteSets is the usual one. *)
LEMMA SameCardinality == \A S : Lifecycle!Cardinality(S) = Cardinality(S)
  BY DEF Lifecycle!Cardinality, Cardinality

(* A founded council is not the absent one. *)
LEMMA CouncilExists ==
  ASSUME TypeOK, multisig # NoAccount
  PROVE  CouncilBar # NoAccount
<1>1. /\ multisig.members \in Seq(Keys)
      /\ multisig.threshold \in Thresholds
  BY KeysAssumption DEF TypeOK, Multisigs
<1>2. MemberSet \subseteq Keys
  BY <1>1 DEF MemberSet
<1>3. CouncilBar \in Councils
  BY <1>1, <1>2 DEF CouncilBar, Councils
<1> QED
  BY <1>3, KeysAssumption

LEMMA FoundStep ==
  ASSUME IInv, NEW threshold \in Thresholds, NEW collector \in RentCollectors,
         NEW members \in MemberLists, NEW shares \in ShareLists,
         CreateMultisig(threshold, collector, members, shares)
  PROVE  Lifecycle!LNext
<1> DEFINE M == {members[j] : j \in DOMAIN members}
<1>1. /\ multisig = NoAccount /\ proposal' = proposal
      /\ multisig'.members = members /\ multisig'.threshold = threshold
      /\ multisig'.transaction_index = 0
  BY DEF CreateMultisig
<1>2. multisig' # NoAccount
  <2>1. multisig' \in Multisigs
    BY BoundsAssumption DEF CreateMultisig, Multisigs
  <2> QED
    BY <2>1, KeysAssumption
<1>3. M \in SUBSET Keys
  <2>1. members \in Seq(Keys)
    BY KeysAssumption
  <2> QED
    BY <2>1
<1>4. CouncilBar = NoAccount /\ CouncilBar' = [members |-> M, threshold |-> threshold]
  BY <1>1, <1>2 DEF CouncilBar, MemberSet
<1>5. LatestBar = 0 /\ LatestBar' = 0
  BY <1>1, <1>2 DEF LatestBar
<1>6. \A i \in Indices : PhaseAt(i)' = PhaseAt(i) /\ VotesAt(i)' = VotesAt(i)
  BY <1>1, <1>5, BarFrame
<1>7. Lifecycle!Found(M, threshold)
  BY <1>4, <1>5, <1>6 DEF Lifecycle!Found
<1> QED
  BY <1>3, <1>7 DEF Lifecycle!LNext

LEMMA OpenStep ==
  ASSUME IInv, multisig # NoAccount, NEW i \in Indices, NEW deadline \in Deadlines,
         NEW type \in {Public} \cup PrivateTypes, NEW content,
         OpenIndex(i, deadline, type, content)
  PROVE  Lifecycle!LNext
<1>1. multisig \in Multisigs /\ multisig.transaction_index \in 0..MaxIndex
  BY AccountTypes DEF IInv
<1>2. /\ i = multisig.transaction_index + 1
      /\ multisig' = [multisig EXCEPT !.transaction_index = i]
      /\ proposal[i] = NoAccount
      /\ proposal' = [proposal EXCEPT ![i] = NewProposal(i, deadline, type)]
  BY DEF OpenIndex
<1>3. /\ multisig'.members = multisig.members
      /\ multisig'.threshold = multisig.threshold
      /\ multisig'.transaction_index = i
      /\ multisig' # NoAccount
  BY <1>1, <1>2, NextIndexTypes DEF Multisigs
<1>4. i \in Nat /\ LatestBar = i - 1 /\ LatestBar' = i
  BY <1>1, <1>2, <1>3 DEF LatestBar, Indices
<1>5. CouncilBar' = CouncilBar /\ CouncilBar # NoAccount
  BY <1>3, CouncilFrame, CouncilExists DEF IInv
<1>6. /\ PhaseAt(i) = "unused" /\ PhaseAt(i)' = "voting"
      /\ VotesAt(i) = {} /\ VotesAt(i)' = {}
  <2>1. proposal'[i] = NewProposal(i, deadline, type)
    BY <1>2 DEF IInv, TypeOK
  <2>2. /\ NewProposal(i, deadline, type).status = Active
        /\ Votes(NewProposal(i, deadline, type)) = {}
        /\ NewProposal(i, deadline, type) # NoAccount
    BY NewProposalType DEF NewProposal, Votes, IInv
  <2>3. ~(i <= LatestBar)
    BY <1>4
  <2> QED
    BY <1>2, <2>1, <2>2, <2>3 DEF PhaseAt, VotesAt, Live, Votes
<1>7. \A j \in Indices \ {i} : PhaseAt(j)' = PhaseAt(j) /\ VotesAt(j)' = VotesAt(j)
  <2> SUFFICES ASSUME NEW j \in Indices, j # i
               PROVE  PhaseAt(j)' = PhaseAt(j) /\ VotesAt(j)' = VotesAt(j)
    OBVIOUS
  <2>1. proposal'[j] = proposal[j]
    BY <1>2 DEF IInv, TypeOK
  <2>2. j <= LatestBar <=> j <= LatestBar'
    BY <1>4 DEF Indices
  <2> QED
    BY <2>1, <2>2, BarFrame
<1>8. [j \in Indices |-> PhaseAt(j)]' = [[j \in Indices |-> PhaseAt(j)] EXCEPT ![i] = "voting"]
  BY <1>6, <1>7
<1>9. [j \in Indices |-> VotesAt(j)]' = [j \in Indices |-> VotesAt(j)]
  BY <1>6, <1>7
<1>10. i = LatestBar + 1
  BY <1>4
<1>11. Lifecycle!Open(i)
  BY <1>4, <1>5, <1>6, <1>8, <1>9, <1>10 DEF Lifecycle!Open
<1> QED
  BY <1>11 DEF Lifecycle!LNext

LEMMA VoteStep ==
  ASSUME IInv, NEW member \in Keys, NEW i \in Indices, Approve(member, i)
  PROVE  Lifecycle!LNext
<1> DEFINE p == proposal[i]
           q == proposal'[i]
           k == p.approvers_len + 1
<1>1. /\ Live(i) /\ member \in MemberSet
      /\ proposal' = [proposal EXCEPT ![i] = q]
      /\ q \in Proposals /\ q.approvers_len = k
      /\ IF k >= multisig.threshold THEN q.status = Approved ELSE q.status = Active
      /\ member \notin Votes(p)
      /\ Votes(q) = Votes(p) \cup {member}
  BY ApproveEffect
<1>2. /\ multisig' = multisig /\ multisig # NoAccount
      /\ i = multisig.transaction_index /\ p.status = Active
  BY <1>1 DEF Approve, IsMember
<1>3. LatestBar = i /\ LatestBar' = i
  BY <1>2 DEF LatestBar
<1>4. /\ CouncilBar' = CouncilBar
      /\ CouncilBar.members = MemberSet
      /\ CouncilBar.threshold = multisig.threshold
  BY <1>2 DEF CouncilBar, MemberSet
<1>5. Live(i)'
  BY <1>1, KeysAssumption DEF Live
<1>6. Cardinality(Votes(p) \cup {member}) = k
  <2>1. IInv' /\ TallyAt(i)'
    BY ApprovePreserves DEF IInv, IndexInv
  <2>2. Votes(p)' = Votes(q)
    BY DEF Votes
  <2> QED
    BY <1>1, <1>5, <2>1, <2>2 DEF TallyAt
<1>7. /\ PhaseAt(i) = "voting"
      /\ PhaseAt(i)' = IF k >= multisig.threshold THEN "approved" ELSE "voting"
  BY <1>1, <1>2, <1>5 DEF PhaseAt, Active, Approved
<1>8. VotesAt(i) = Votes(p) /\ VotesAt(i)' = Votes(p) \cup {member}
  <2>1. Votes(p)' = Votes(q)
    BY DEF Votes
  <2> QED
    BY <1>1, <1>5, <2>1 DEF VotesAt
<1>9. \A j \in Indices \ {i} : PhaseAt(j)' = PhaseAt(j) /\ VotesAt(j)' = VotesAt(j)
  <2> SUFFICES ASSUME NEW j \in Indices, j # i
               PROVE  PhaseAt(j)' = PhaseAt(j) /\ VotesAt(j)' = VotesAt(j)
    OBVIOUS
  <2>1. proposal'[j] = proposal[j]
    BY <1>1 DEF IInv, TypeOK
  <2> QED
    BY <1>3, <2>1, BarFrame
<1>10. [j \in Indices |-> VotesAt(j)]' =
         [[j \in Indices |-> VotesAt(j)] EXCEPT ![i] = @ \cup {member}]
  BY <1>8, <1>9
<1>11. Cardinality([j \in Indices |-> VotesAt(j)][i] \cup {member}) >= CouncilBar.threshold
         <=> k >= multisig.threshold
  BY <1>4, <1>6, <1>8
<1>12. [j \in Indices |-> PhaseAt(j)]' =
         [[j \in Indices |-> PhaseAt(j)] EXCEPT ![i] =
            IF Cardinality([j \in Indices |-> VotesAt(j)][i] \cup {member}) >= CouncilBar.threshold
              THEN "approved" ELSE "voting"]
  <2>1. CASE k >= multisig.threshold
    BY <1>7, <1>9, <1>11, <2>1
  <2>2. CASE ~(k >= multisig.threshold)
    BY <1>7, <1>9, <1>11, <2>2
  <2> QED
    BY <2>1, <2>2
<1>13. /\ [j \in Indices |-> PhaseAt(j)][i] = "voting"
       /\ member \in CouncilBar.members \ [j \in Indices |-> VotesAt(j)][i]
  BY <1>1, <1>4, <1>7, <1>8
<1>14. Lifecycle!Vote(i, member)
  BY <1>3, <1>4, <1>10, <1>12, <1>13, SameCardinality DEF Lifecycle!Vote
<1> QED
  BY <1>14 DEF Lifecycle!LNext

LEMMA EnactStep ==
  ASSUME IInv, NEW member \in Keys, NEW i \in Indices,
         CanExecute(member, i), MarkExecuted(i), multisig' = multisig
  PROVE  Lifecycle!LNext
<1> DEFINE p == proposal[i]
           q == proposal'[i]
<1>1. /\ Live(i) /\ p \in Proposals /\ p.status = Approved
      /\ multisig # NoAccount /\ i = multisig.transaction_index
  BY AccountTypes DEF CanExecute, IsMember, IInv, Live
<1>2. /\ q = [p EXCEPT !.status = Executed, !.timestamp = now]
      /\ \A j \in Indices \ {i} : proposal'[j] = proposal[j]
  BY DEF MarkExecuted, IInv, TypeOK
<1>3. q \in Proposals /\ q.status = Executed /\ q.approvers = p.approvers
  <2>1. now \in 0..MaxTime
    BY DEF IInv, TypeOK
  <2> QED
    BY <1>1, <1>2, <2>1 DEF Proposals
<1>4. Live(i)'
  BY <1>3, KeysAssumption DEF Live
<1>5. LatestBar = i /\ LatestBar' = i /\ CouncilBar' = CouncilBar
  BY <1>1, CouncilFrame DEF LatestBar
<1>6. PhaseAt(i) = "approved" /\ PhaseAt(i)' = "executed"
  BY <1>1, <1>3, <1>4 DEF PhaseAt, Active, Approved, Executed
<1>7. VotesAt(i)' = VotesAt(i)
  BY <1>1, <1>3, <1>4 DEF VotesAt, Votes
<1>8. \A j \in Indices \ {i} : PhaseAt(j)' = PhaseAt(j) /\ VotesAt(j)' = VotesAt(j)
  BY <1>2, <1>5, BarFrame
<1>9. Lifecycle!Enact(i)
  BY <1>5, <1>6, <1>7, <1>8 DEF Lifecycle!Enact
<1> QED
  BY <1>9 DEF Lifecycle!LNext

LEMMA RetireStep ==
  ASSUME IInv, NEW i \in Indices, NEW collector \in RentCollectors, Close(i, collector)
  PROVE  Lifecycle!LNext
<1>1. /\ Live(i) /\ transaction[i].transaction_index = i
      /\ multisig # NoAccount /\ i <= multisig.transaction_index
      /\ multisig.transaction_index \in 0..MaxIndex
  BY AccountTypes DEF Close, IInv, IndexInv, PairedAt
<1>2. /\ proposal' = [proposal EXCEPT ![i] = NoAccount]
      /\ multisig' = multisig
      /\ Closable(proposal[i])
  BY <1>1 DEF Close
<1>3. ~Live(i)' /\ \A j \in Indices \ {i} : proposal'[j] = proposal[j]
  BY <1>2 DEF Live, IInv, TypeOK
<1>4. LatestBar' = LatestBar /\ i <= LatestBar /\ CouncilBar' = CouncilBar
  BY <1>1, <1>2, CouncilFrame DEF LatestBar
<1>5. PhaseAt(i) \in {"voting", "executed"} /\ PhaseAt(i)' = "retired"
  BY <1>1, <1>2, <1>3, <1>4 DEF PhaseAt, Closable, Active, Approved, Executed
<1>6. VotesAt(i)' = {}
  BY <1>3 DEF VotesAt
<1>7. \A j \in Indices \ {i} : PhaseAt(j)' = PhaseAt(j) /\ VotesAt(j)' = VotesAt(j)
  BY <1>3, <1>4, BarFrame
<1>8. Lifecycle!Retire(i)
  BY <1>4, <1>5, <1>6, <1>7 DEF Lifecycle!Retire
<1> QED
  BY <1>8 DEF Lifecycle!LNext

(* Deposits, ticks and stuttering are invisible to the lifecycle. *)
LEMMA OutsideStep ==
  ASSUME multisig' = multisig, proposal' = proposal
  PROVE  UNCHANGED Lifecycle!lifecycleVars
<1>1. CouncilBar' = CouncilBar /\ LatestBar' = LatestBar
  BY DEF CouncilBar, LatestBar, MemberSet
<1>2. \A j \in Indices : PhaseAt(j)' = PhaseAt(j) /\ VotesAt(j)' = VotesAt(j)
  BY <1>1, BarFrame
<1> QED
  BY <1>1, <1>2 DEF Lifecycle!lifecycleVars

LEMMA NextRefines == IInv /\ IInv' /\ [Next]_vars => [Lifecycle!LNext]_Lifecycle!lifecycleVars
<1> SUFFICES ASSUME IInv, IInv', [Next]_vars
             PROVE  Lifecycle!LNext \/ UNCHANGED Lifecycle!lifecycleVars
  OBVIOUS
<1>1. ASSUME NEW threshold \in Thresholds, NEW collector \in RentCollectors,
             NEW members \in MemberLists, NEW shares \in ShareLists,
             CreateMultisig(threshold, collector, members, shares)
      PROVE  Lifecycle!LNext
  BY <1>1, FoundStep
<1>2. ASSUME NEW key \in Keys, NEW i \in Indices, NEW deadline \in Deadlines,
             NEW message \in Messages, CreateProposal(key, i, deadline, message)
      PROVE  Lifecycle!LNext
  BY <1>2, OpenStep DEF CreateProposal, IsMember
<1>3. ASSUME NEW key \in Keys, NEW i \in Indices, NEW deadline \in Deadlines,
             NEW type \in PrivateTypes, NEW hash \in Hashes,
             CreatePrivateProposal(key, i, deadline, type, hash)
      PROVE  Lifecycle!LNext
  BY <1>3, OpenStep DEF CreatePrivateProposal, IsMember
<1>4. ASSUME NEW key \in Keys, NEW i \in Indices, Approve(key, i)
      PROVE  Lifecycle!LNext
  BY <1>4, VoteStep
<1>5. ASSUME NEW key \in Keys, NEW i \in Indices, NEW effect \in Effects,
             ExecutePublic(key, i, effect)
      PROVE  Lifecycle!LNext
  BY <1>5, EnactStep DEF ExecutePublic
<1>6. ASSUME NEW key \in Keys, NEW i \in Indices,
             ExecuteTransfer(key, i) \/ ExecuteHash(key, i)
      PROVE  Lifecycle!LNext
  BY <1>6, EnactStep DEF ExecuteTransfer, ExecuteHash
<1>7. ASSUME NEW i \in Indices, NEW collector \in RentCollectors, Close(i, collector)
      PROVE  Lifecycle!LNext
  BY <1>7, RetireStep
<1>8. ASSUME multisig' = multisig, proposal' = proposal
      PROVE  UNCHANGED Lifecycle!lifecycleVars
  BY <1>8, OutsideStep
<1> QED
  BY <1>1, <1>2, <1>3, <1>4, <1>5, <1>6, <1>7, <1>8 DEF Next, Deposit, Tick, vars

(* The on-chain program implements the abstract lifecycle. *)
THEOREM Refinement == Spec => ImplementsLifecycle
<1>1. Init => Lifecycle!LInit
  BY InitRefines
<1>2. IInv /\ IInv' /\ [Next]_vars => [Lifecycle!LNext]_Lifecycle!lifecycleVars
  BY NextRefines
<1>3. Spec => Lifecycle!LSpec
  BY <1>1, <1>2, Invariance, PTL DEF Spec, Lifecycle!LSpec
<1> QED
  BY <1>3 DEF ImplementsLifecycle
=============================================================================
