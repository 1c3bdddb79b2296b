------------------------- MODULE FortisMultisigProofs -------------------------
(***************************************************************************)
(* Proofs about FortisMultisig for every value of its constants.           *)
(*                                                                         *)
(* IInv strengthens the invariants that the runs check until they are      *)
(* inductive: the approval loop is only right because the slots are filled *)
(* from the front and agree with the counter (ApprovalTally), because a    *)
(* threshold never exceeds the number of slots (ThresholdReachable), and   *)
(* because an index has accounts only up to the current one.               *)
(*                                                                         *)
(* LamportsConserved sums over wallets and indices; what the library's     *)
(* fold computes is proved by induction on the size of the set.            *)
(***************************************************************************)
EXTENDS FortisMultisig, FiniteSetTheorems, SequenceTheorems, WellFoundedInduction, TLAPS

(* create_multisig's guard, kept for the life of the account. *)
ThresholdReachable ==
  multisig # NoAccount =>
    Len(multisig.members) # 0 /\ multisig.threshold <= Len(multisig.members)

(* All that IInv says of one index. *)
IndexInv(i) ==
  /\ PairedAt(i)
  /\ Live(i) => IsFiniteSet(Votes(proposal[i]))
  /\ TallyAt(i)
  /\ QuorumAt(i)
  /\ InTimeAt(i)
  /\ PaidOnceAt(i)

IInv ==
  /\ TypeOK
  /\ ThresholdReachable
  /\ \A i \in Indices : IndexInv(i)

------------------------------------------------------------------------------
(* Operators. *)

(* Min picks the element that is below all others. *)
LEMMA MinIs ==
  ASSUME NEW S \in SUBSET Nat, NEW e \in S, \A y \in S : e <= y
  PROVE  Min(S) = e
<1>1. \E x \in S : \A y \in S : x <= y
  OBVIOUS
<1>2. /\ Min(S) \in S
      /\ \A y \in S : Min(S) <= y
  BY <1>1 DEF Min
<1>3. \A x \in S : x \in Int
  OBVIOUS
<1>4. Min(S) <= e /\ e <= Min(S)
  BY <1>2
<1>5. \A a, b \in Int : a <= b /\ b <= a => a = b
  OBVIOUS
<1> QED
  BY <1>2, <1>3, <1>4, <1>5, Zenon

(* A function on 1..n is a sequence. *)
LEMMA FunctionIsSeq ==
  ASSUME NEW S, NEW n \in Nat, NEW f \in [1..n -> S]
  PROVE  f \in Seq(S) /\ Len(f) = n /\ DOMAIN f = 1..n
<1>1. f \in Seq(S)
  BY SeqDef
<1> QED
  BY <1>1

(* Typing facts every step of the handlers uses. *)
LEMMA AccountTypes ==
  ASSUME TypeOK, NEW i \in Indices
  PROVE  /\ Live(i) => proposal[i] \in Proposals
         /\ transaction[i] # NoAccount => transaction[i] \in Transactions
         /\ multisig # NoAccount => /\ multisig \in Multisigs
                                    /\ multisig.members \in Seq(Keys)
                                    /\ Len(multisig.members) \in Nat
                                    /\ DOMAIN multisig.members = 1..Len(multisig.members)
                                    /\ multisig.threshold \in Nat
                                    /\ multisig.transaction_index \in 0..MaxIndex
<1>1. multisig # NoAccount => multisig \in Multisigs
  BY DEF TypeOK
<1>2. multisig \in Multisigs => multisig.members \in Seq(Keys) /\ multisig.threshold \in Nat
  BY BoundsAssumption, KeysAssumption DEF Multisigs
<1>3. multisig.members \in Seq(Keys) =>
        /\ Len(multisig.members) \in Nat
        /\ DOMAIN multisig.members = 1..Len(multisig.members)
  OBVIOUS
<1>4. multisig \in Multisigs => multisig.transaction_index \in 0..MaxIndex
  BY DEF Multisigs
<1> QED
  BY <1>1, <1>2, <1>3, <1>4 DEF TypeOK, Live

(***************************************************************************)
(* What the approval loop does to a proposal that takes votes: it finds an *)
(* empty slot, the first one is the one after the last counted approval,   *)
(* and the member was not among the voters.                                *)
(***************************************************************************)
LEMMA ApprovalLoop ==
  ASSUME IInv, NEW i \in Indices, NEW member \in Keys, Live(i),
         proposal[i].status = Active, ~HasApproved(proposal[i], member)
  PROVE  LET p == proposal[i]  k == proposal[i].approvers_len + 1
         IN  /\ k \in DOMAIN p.approvers
             /\ RecordApproval(p, member) =
                  [p EXCEPT !.approvers[k] = member, !.approvers_len = k]
             /\ member \notin Votes(p)
             /\ p.approvers[k] = ZeroKey
<1> DEFINE p == proposal[i]
           k == p.approvers_len + 1
           n == Len(multisig.members)
<1>1. p \in Proposals /\ multisig # NoAccount
  BY AccountTypes DEF IInv, IndexInv, PairedAt, Live
<1>2. /\ multisig.threshold \in Nat
      /\ n \in Nat
      /\ n # 0
      /\ multisig.threshold <= n
  BY <1>1, AccountTypes DEF IInv, ThresholdReachable
<1>3. p.approvers_len \in Nat
  BY <1>1 DEF Proposals
<1>4. /\ DOMAIN p.approvers = 1..n
      /\ \A j \in 1..n : p.approvers[j] = ZeroKey <=> j > p.approvers_len
      /\ p.approvers_len = 0 \/ p.approvers_len < multisig.threshold
  BY DEF IInv, IndexInv, TallyAt
<1>5. k \in 1..n /\ p.approvers[k] = ZeroKey
  BY <1>2, <1>3, <1>4
<1>6. member # ZeroKey
  BY KeysAssumption
<1>7. k \in Stops(p, member) /\ Stops(p, member) \subseteq 1..n
  BY <1>4, <1>5 DEF Stops
<1>8. \A j \in 1..n : p.approvers[j] # member
  <2> SUFFICES ASSUME NEW j \in 1..n, p.approvers[j] = member
               PROVE  FALSE
    OBVIOUS
  <2>1. j \in Stops(p, member)
    BY <1>4 DEF Stops
  <2>2. \A y \in Stops(p, member) : j <= y
    <3> SUFFICES ASSUME NEW y \in 1..n, p.approvers[y] \in {member, ZeroKey}
                 PROVE  j <= y
      BY <1>4 DEF Stops
    <3>1. CASE p.approvers[y] = ZeroKey
      BY <3>1, <1>3, <1>4, <1>6
    <3>2. CASE p.approvers[y] = member
      BY <3>2, <1>4, <1>6 DEF IInv, IndexInv, TallyAt
    <3> QED
      BY <3>1, <3>2
  <2>3. Min(Stops(p, member)) = j
    BY <2>1, <2>2, <1>7, MinIs
  <2> QED
    BY <2>1, <2>3 DEF HasApproved
<1>9. Min(Stops(p, member)) = k
  <2>1. \A y \in Stops(p, member) : k <= y
    BY <1>3, <1>4, <1>8 DEF Stops
  <2> QED
    BY <2>1, <1>7, MinIs
<1>10. RecordApproval(p, member) = [p EXCEPT !.approvers[k] = member, !.approvers_len = k]
  BY <1>7, <1>9 DEF RecordApproval
<1>11. member \notin Votes(p)
  BY <1>4, <1>8 DEF Votes
<1> QED
  BY <1>4, <1>5, <1>10, <1>11

(* The proposal an approve_proposal instruction leaves behind. *)
LEMMA ApproveEffect ==
  ASSUME IInv, NEW member \in Keys, NEW i \in Indices, Approve(member, i)
  PROVE  LET p == proposal[i]  k == proposal[i].approvers_len + 1  q == proposal'[i]
         IN  /\ Live(i) /\ member \in MemberSet /\ member # ZeroKey
             /\ proposal' = [proposal EXCEPT ![i] = q]
             /\ k \in DOMAIN p.approvers /\ p.approvers[k] = ZeroKey
             /\ q \in Proposals
             /\ q.approvers = [p.approvers EXCEPT ![k] = member]
             /\ q.approvers_len = k
             /\ q.transaction_index = p.transaction_index
             /\ q.deadline = p.deadline
             /\ q.proposal_type = p.proposal_type
             /\ IF k >= multisig.threshold
                  THEN q.status = Approved /\ q.timestamp = now
                  ELSE q.status = Active
             /\ member \notin Votes(p)
             /\ Votes(q) = Votes(p) \cup {member}
<1> DEFINE p == proposal[i]
           k == p.approvers_len + 1
           q == proposal'[i]
           r == [p EXCEPT !.approvers[k] = member, !.approvers_len = k]
<1>1. /\ Live(i) /\ p.status = Active /\ ~HasApproved(p, member)
      /\ proposal' = [proposal EXCEPT ![i] = Tally(RecordApproval(p, member))]
  BY DEF Approve, Live
<1>2. p \in Proposals
  BY <1>1, AccountTypes DEF IInv
<1>3. /\ k \in DOMAIN p.approvers
      /\ RecordApproval(p, member) = r
      /\ member \notin Votes(p)
      /\ p.approvers[k] = ZeroKey
  BY <1>1, ApprovalLoop
<1>4. q = Tally(r) /\ proposal' = [proposal EXCEPT ![i] = q]
  BY <1>1, <1>3 DEF IInv, TypeOK
<1>5. member \in MemberSet
  BY DEF Approve, IsMember, MemberSet
<1>6. member # ZeroKey
  BY KeysAssumption
<1>7. r.approvers \in Seq(Keys \cup {ZeroKey}) /\ k \in Nat
  BY <1>2, <1>3 DEF Proposals
<1>8. now \in 0..MaxTime
  BY DEF IInv, TypeOK
<1>9. /\ r \in Proposals
      /\ r.approvers = [p.approvers EXCEPT ![k] = member]
      /\ r.approvers_len = k
      /\ r.transaction_index = p.transaction_index
      /\ r.deadline = p.deadline
      /\ r.proposal_type = p.proposal_type
      /\ r.status = p.status
  BY <1>2, <1>7 DEF Proposals
<1>10. /\ q \in Proposals
       /\ q.approvers = r.approvers
       /\ q.approvers_len = k
       /\ q.transaction_index = p.transaction_index
       /\ q.deadline = p.deadline
       /\ q.proposal_type = p.proposal_type
       /\ IF k >= multisig.threshold
            THEN q.status = Approved /\ q.timestamp = now
            ELSE q.status = Active
  <2> DEFINE a == [r EXCEPT !.status = Approved, !.timestamp = now]
  <2>1. q = IF r.approvers_len >= multisig.threshold THEN a ELSE r
    BY <1>4 DEF Tally
  <2>2. /\ a \in Proposals
        /\ a.approvers = r.approvers
        /\ a.approvers_len = k
        /\ a.transaction_index = p.transaction_index
        /\ a.deadline = p.deadline
        /\ a.proposal_type = p.proposal_type
        /\ a.status = Approved
        /\ a.timestamp = now
    BY <1>8, <1>9 DEF Proposals, Approved, Active, Executed
  <2> HIDE DEF a, r, p, k, q
  <2> QED
    BY <1>1, <1>9, <2>1, <2>2
<1>11. Votes(q) = Votes(p) \cup {member}
  <2>1. p.approvers \in Seq(Keys \cup {ZeroKey})
    BY <1>2 DEF Proposals
  <2>2. DOMAIN q.approvers = DOMAIN p.approvers
    BY <1>9, <1>10
  <2>3. \A j \in DOMAIN p.approvers :
          q.approvers[j] = IF j = k THEN member ELSE p.approvers[j]
    BY <1>9, <1>10
  <2> QED
    BY <1>3, <1>6, <2>2, <2>3 DEF Votes
<1> QED
  BY <1>1, <1>3, <1>4, <1>5, <1>6, <1>9, <1>10, <1>11

------------------------------------------------------------------------------
(* Preservation of IInv. *)

(***************************************************************************)
(* An index whose accounts a step leaves alone keeps its invariant, as     *)
(* long as the members and the threshold stay and the current index does   *)
(* not go back.                                                            *)
(***************************************************************************)
LEMMA IndexFrame ==
  ASSUME NEW j \in Indices, IndexInv(j), TypeOK, TypeOK',
         proposal'[j] = proposal[j], transaction'[j] = transaction[j],
         payouts'[j] = payouts[j],
         multisig # NoAccount => /\ multisig' # NoAccount
                                 /\ multisig'.members = multisig.members
                                 /\ multisig'.threshold = multisig.threshold
                                 /\ multisig'.transaction_index >= multisig.transaction_index
  PROVE  IndexInv(j)'
<1>1. /\ Live(j)' <=> Live(j)
      /\ Live(j) => multisig # NoAccount
  BY DEF Live, IndexInv, PairedAt
<1>2. multisig # NoAccount => MemberSet' = MemberSet
  BY DEF MemberSet
<1>3. Votes(proposal[j])' = Votes(proposal[j])
  BY DEF Votes
<1>4. multisig # NoAccount /\ j <= multisig.transaction_index => j <= multisig'.transaction_index
  BY DEF TypeOK, Multisigs, Indices
<1>5. PairedAt(j)'
  BY <1>1, <1>4 DEF IndexInv, PairedAt, Messages
<1>6. TallyAt(j)'
  BY <1>1, <1>2, <1>3 DEF IndexInv, TallyAt
<1>7. QuorumAt(j)'
  BY <1>1, <1>2, <1>3 DEF IndexInv, QuorumAt
<1>8. InTimeAt(j)'
  BY <1>1 DEF IndexInv, InTimeAt
<1>9. PaidOnceAt(j)'
  BY <1>1, <1>4 DEF IndexInv, PaidOnceAt
<1> QED
  BY <1>1, <1>3, <1>5, <1>6, <1>7, <1>8, <1>9 DEF IndexInv

LEMMA ApprovePreserves ==
  ASSUME IInv, NEW member \in Keys, NEW i \in Indices, Approve(member, i)
  PROVE  IInv'
<1> DEFINE p == proposal[i]
           k == p.approvers_len + 1
           q == proposal'[i]
           n == Len(multisig.members)
<1> USE DEF Live
<1>1. /\ Live(i) /\ Live(i)' /\ member \in MemberSet /\ member # ZeroKey
      /\ proposal' = [proposal EXCEPT ![i] = q]
      /\ k \in DOMAIN p.approvers /\ p.approvers[k] = ZeroKey
      /\ q \in Proposals
      /\ q.approvers = [p.approvers EXCEPT ![k] = member]
      /\ q.approvers_len = k
      /\ q.transaction_index = p.transaction_index
      /\ q.deadline = p.deadline
      /\ q.proposal_type = p.proposal_type
      /\ IF k >= multisig.threshold
           THEN q.status = Approved /\ q.timestamp = now
           ELSE q.status = Active
      /\ member \notin Votes(p)
      /\ Votes(q) = Votes(p) \cup {member}
  BY ApproveEffect, KeysAssumption
<1>2. UNCHANGED <<now, multisig, transaction, lamports, payouts>>
  BY DEF Approve
<1>3. TypeOK'
  BY <1>1, <1>2 DEF IInv, TypeOK
<1>4. ThresholdReachable'
  BY <1>2 DEF IInv, ThresholdReachable
<1>5. multisig # NoAccount /\ n \in Nat /\ multisig.threshold \in Nat
  BY <1>1, AccountTypes DEF IInv, IndexInv, PairedAt
<1>6. p \in Proposals
  BY <1>1, AccountTypes DEF IInv
<1>7. p.approvers_len \in Nat /\ DOMAIN q.approvers = DOMAIN p.approvers
  BY <1>1, <1>6 DEF Proposals
<1>8. /\ DOMAIN p.approvers = 1..n
      /\ p.approvers_len <= n
      /\ Cardinality(Votes(p)) = p.approvers_len
      /\ IsFiniteSet(Votes(p))
      /\ \A j \in 1..n :
           /\ p.approvers[j] = ZeroKey <=> j > p.approvers_len
           /\ p.approvers[j] \in MemberSet \cup {ZeroKey}
           /\ \A l \in 1..n : p.approvers[j] = p.approvers[l] /\ p.approvers[j] # ZeroKey => j = l
  BY <1>1 DEF IInv, IndexInv, TallyAt
<1>9. MemberSet' = MemberSet
  BY <1>2 DEF MemberSet
<1>10. IsFiniteSet(Votes(q)) /\ Cardinality(Votes(q)) = k
  BY <1>1, <1>8, FS_AddElement
<1>11. \A j \in 1..n : q.approvers[j] = IF j = k THEN member ELSE p.approvers[j]
  BY <1>1, <1>8
<1>12. \A j \in 1..n : p.approvers[j] # member
  BY <1>1, <1>8 DEF Votes
<1>13. \A j \in 1..n :
         /\ q.approvers[j] = ZeroKey <=> j > k
         /\ q.approvers[j] \in MemberSet \cup {ZeroKey}
         /\ \A l \in 1..n : q.approvers[j] = q.approvers[l] /\ q.approvers[j] # ZeroKey => j = l
  BY <1>1, <1>7, <1>8, <1>11, <1>12
<1>14. Votes(q) \subseteq MemberSet
  BY <1>7, <1>8, <1>13 DEF Votes
<1>15. p.status = Active /\ now <= p.deadline
  BY DEF Approve
<1>16. IndexInv(i)'
  <2>1. PairedAt(i)'
    BY <1>1, <1>2, <1>6 DEF IInv, IndexInv, PairedAt, Messages
  <2>2. TallyAt(i)'
    <3>1. k <= n
      BY <1>1, <1>8
    <3>2. q.status = Active => k < multisig.threshold
      BY <1>1, <1>5, <1>7 DEF Active, Approved
    <3> QED
      BY <1>1, <1>2, <1>7, <1>8, <1>9, <1>10, <1>13, <3>1, <3>2 DEF TallyAt
  <2>3. QuorumAt(i)'
    <3>1. q.status # Active => k >= multisig.threshold
      BY <1>1
    <3> QED
      BY <1>1, <1>2, <1>9, <1>10, <1>14, <3>1 DEF QuorumAt
  <2>4. InTimeAt(i)'
    BY <1>1, <1>2, <1>15 DEF InTimeAt, Active, Approved
  <2>5. PaidOnceAt(i)'
    BY <1>1, <1>2, <1>15 DEF IInv, IndexInv, PaidOnceAt, TypeOK, Active, Executed
  <2> QED
    BY <1>1, <1>10, <2>1, <2>2, <2>3, <2>4, <2>5 DEF IndexInv
<1>17. ASSUME NEW j \in Indices, j # i
       PROVE  IndexInv(j)'
  <2>1. multisig # NoAccount => multisig.transaction_index >= multisig.transaction_index
    BY AccountTypes, <1>17 DEF IInv, Indices
  <2>2. proposal'[j] = proposal[j]
    BY <1>1, <1>17 DEF IInv, TypeOK
  <2> QED
    BY <1>2, <1>3, <1>17, <2>1, <2>2, IndexFrame DEF IInv
<1> QED
  BY <1>3, <1>4, <1>16, <1>17 DEF IInv

LEMMA CreateMultisigPreserves ==
  ASSUME IInv, NEW threshold \in Thresholds, NEW collector \in RentCollectors,
         NEW members \in MemberLists, NEW shares \in ShareLists,
         CreateMultisig(threshold, collector, members, shares)
  PROVE  IInv'
<1> USE DEF Live
<1>1. /\ multisig = NoAccount
      /\ UNCHANGED <<now, proposal, transaction, payouts>>
      /\ \A i \in Indices : ~Live(i) /\ transaction[i] = NoAccount /\ payouts[i] # 1
  BY DEF CreateMultisig, IInv, IndexInv, PairedAt, PaidOnceAt
<1>2. /\ multisig' \in Multisigs
      /\ multisig'.members = members /\ multisig'.threshold = threshold
      /\ multisig' # NoAccount
  <2>1. multisig' \in Multisigs
    BY BoundsAssumption DEF CreateMultisig, Multisigs
  <2>2. multisig' # NoAccount
    BY <2>1, KeysAssumption
  <2> QED
    BY <2>1, <2>2 DEF CreateMultisig
<1>3. lamports' \in [Holders -> Nat]
  <2>1. lamports["payers"] - (MultisigRent + CreationFee) \in Nat
    BY BoundsAssumption DEF CreateMultisig, IInv, TypeOK, Holders
  <2>2. lamports \in [Holders -> Nat] /\ "payers" \in Holders /\ "wallet" \in Holders
    BY DEF IInv, TypeOK, Holders
  <2> QED
    BY <2>1, <2>2, BoundsAssumption DEF CreateMultisig
<1>4. TypeOK'
  BY <1>1, <1>2, <1>3 DEF IInv, TypeOK
<1>5. ThresholdReachable'
  BY <1>2 DEF CreateMultisig, ThresholdReachable
<1>6. ASSUME NEW i \in Indices PROVE IndexInv(i)'
  <2>1. /\ ~Live(i)' /\ transaction'[i] = NoAccount
        /\ payouts'[i] \in Nat /\ payouts'[i] <= 1 /\ payouts'[i] # 1
    BY <1>1, <1>6 DEF IInv, IndexInv, PaidOnceAt, TypeOK
  <2> QED
    BY <2>1 DEF IndexInv, PairedAt, TallyAt, QuorumAt, InTimeAt, PaidOnceAt
<1> QED
  BY <1>4, <1>5, <1>6 DEF IInv

(* A new proposal account is one of the type, with a slot for every member. *)
LEMMA NewProposalType ==
  ASSUME TypeOK, multisig # NoAccount, NEW i \in Indices, NEW deadline \in Deadlines,
         NEW type \in {Public} \cup PrivateTypes
  PROVE  LET q == NewProposal(i, deadline, type)
         IN  /\ q \in Proposals /\ q # NoAccount
             /\ DOMAIN q.approvers = 1..Len(multisig.members)
<1> DEFINE n == Len(multisig.members)
           q == NewProposal(i, deadline, type)
           f == [j \in 1..n |-> ZeroKey]
<1>1. n \in Nat
  BY AccountTypes
<1>2. f \in [1..n -> Keys \cup {ZeroKey}]
  OBVIOUS
<1>3. f \in Seq(Keys \cup {ZeroKey}) /\ DOMAIN f = 1..n
  BY <1>1, <1>2, FunctionIsSeq
<1>4. now \in 0..MaxTime /\ ProposalRent \in Nat
  BY BoundsAssumption DEF TypeOK
<1>5. q \in Proposals
  BY <1>3, <1>4 DEF NewProposal, Proposals
<1> QED
  BY <1>3, <1>5, KeysAssumption DEF NewProposal

(* Taking the next index keeps the multisig account an account. *)
LEMMA NextIndexTypes ==
  ASSUME IInv, multisig # NoAccount, NEW i \in Indices,
         multisig' = [multisig EXCEPT !.transaction_index = i]
  PROVE  multisig' \in Multisigs /\ multisig' # NoAccount
<1>1. multisig \in Multisigs
  BY AccountTypes DEF IInv
<1>2. multisig' \in Multisigs
  BY <1>1 DEF Multisigs, Indices
<1> QED
  BY <1>2, KeysAssumption

(* Both create handlers: only the public one is given a message. *)
LEMMA OpenIndexPreserves ==
  ASSUME IInv, multisig # NoAccount, NEW i \in Indices, NEW deadline \in Deadlines,
         NEW type \in {Public} \cup PrivateTypes,
         NEW content \in Messages \cup Hashes, content \in Messages => type = Public,
         OpenIndex(i, deadline, type, content)
  PROVE  IInv'
<1> DEFINE n == Len(multisig.members)
           q == NewProposal(i, deadline, type)
           t == NewTransaction(i, content)
<1> USE DEF Live
<1>1. /\ multisig \in Multisigs /\ n \in Nat
      /\ multisig.transaction_index \in 0..MaxIndex
      /\ multisig.threshold \in Nat
  BY AccountTypes DEF IInv
<1>2. /\ i = multisig.transaction_index + 1
      /\ multisig' = [multisig EXCEPT !.transaction_index = i]
      /\ proposal' = [proposal EXCEPT ![i] = q]
      /\ transaction' = [transaction EXCEPT ![i] = t]
      /\ UNCHANGED <<now, payouts>>
  BY DEF OpenIndex
<1>3. multisig' \in Multisigs /\ multisig' # NoAccount
  BY <1>2, NextIndexTypes
<1>4. /\ multisig'.members = multisig.members
      /\ multisig'.threshold = multisig.threshold
      /\ multisig'.transaction_index = i
  BY <1>1, <1>2 DEF Multisigs
<1>5. q \in Proposals /\ q # NoAccount /\ DOMAIN q.approvers = 1..n
  BY NewProposalType DEF IInv
<1>6. /\ q.approvers_len = 0 /\ q.status = Active /\ q.transaction_index = i
      /\ q.proposal_type = type
      /\ \A j \in 1..n : q.approvers[j] = ZeroKey
  BY DEF NewProposal
<1>7. /\ t \in Transactions /\ t # NoAccount
      /\ t.transaction_index = i /\ t.content = content
  <2>1. t \in Transactions
    BY BoundsAssumption DEF NewTransaction, Transactions
  <2> QED
    BY <2>1, KeysAssumption DEF NewTransaction
<1>8. lamports' \in [Holders -> Nat]
  <2>1. lamports \in [Holders -> Nat] /\ "payers" \in Holders
    BY DEF IInv, TypeOK, Holders
  <2>2. lamports["payers"] - (TransactionRent + ProposalRent) \in Nat
    BY <2>1, BoundsAssumption DEF OpenIndex
  <2> QED
    BY <2>1, <2>2 DEF OpenIndex
<1>9. TypeOK'
  <2>1. proposal' \in [Indices -> Proposals \cup {NoAccount}]
    BY <1>2, <1>5 DEF IInv, TypeOK
  <2>2. transaction' \in [Indices -> Transactions \cup {NoAccount}]
    BY <1>2, <1>7 DEF IInv, TypeOK
  <2> QED
    BY <1>2, <1>3, <1>8, <2>1, <2>2 DEF IInv, TypeOK
<1>10. ThresholdReachable'
  BY <1>4 DEF IInv, ThresholdReachable
<1>11. /\ proposal'[i] = q /\ transaction'[i] = t
       /\ \A j \in Indices \ {i} : proposal'[j] = proposal[j] /\ transaction'[j] = transaction[j]
  BY <1>2 DEF IInv, TypeOK
<1>12. IndexInv(i)'
  <2>1. Votes(q) = {} /\ IsFiniteSet(Votes(q)) /\ Cardinality(Votes(q)) = 0
    <3>1. Votes(q) = {}
      BY <1>5, <1>6 DEF Votes
    <3> QED
      BY <3>1, FS_EmptySet
  <2>2. PairedAt(i)'
    BY <1>1, <1>3, <1>4, <1>5, <1>6, <1>7, <1>11 DEF PairedAt, Messages, Indices
  <2>3. TallyAt(i)'
    BY <1>1, <1>4, <1>5, <1>6, <1>11, <2>1 DEF TallyAt
  <2>4. QuorumAt(i)' /\ InTimeAt(i)'
    BY <1>6, <1>11 DEF QuorumAt, InTimeAt, Active, Approved
  <2>5. PaidOnceAt(i)'
    <3>1. ~(i <= multisig.transaction_index)
      BY <1>1, <1>2
    <3> QED
      BY <1>2, <3>1 DEF IInv, IndexInv, PaidOnceAt
  <2> QED
    BY <1>11, <2>1, <2>2, <2>3, <2>4, <2>5 DEF IndexInv
<1>13. ASSUME NEW j \in Indices, j # i PROVE IndexInv(j)'
  <2>1. multisig'.transaction_index >= multisig.transaction_index
    BY <1>1, <1>2, <1>4
  <2> QED
    BY <1>2, <1>3, <1>4, <1>9, <1>11, <1>13, <2>1, IndexFrame DEF IInv
<1> QED
  BY <1>9, <1>10, <1>12, <1>13 DEF IInv

(***************************************************************************)
(* The three kinds of execution mark an approved proposal executed; what   *)
(* differs is the money, and that only a public one may count a payout.    *)
(***************************************************************************)
LEMMA ExecutePreserves ==
  ASSUME IInv, NEW member \in Keys, NEW i \in Indices,
         CanExecute(member, i), MarkExecuted(i),
         UNCHANGED <<now, multisig, transaction>>,
         lamports' \in [Holders -> Nat],
         \/ payouts' = payouts
         \/ proposal[i].proposal_type = Public /\ payouts' = [payouts EXCEPT ![i] = @ + 1]
  PROVE  IInv'
<1> DEFINE p == proposal[i]
           q == proposal'[i]
<1> USE DEF Live
<1>1. Live(i) /\ p \in Proposals /\ p.status = Approved /\ multisig # NoAccount
  BY AccountTypes DEF CanExecute, IsMember, IInv
<1>2. /\ q = [p EXCEPT !.status = Executed, !.timestamp = now]
      /\ proposal' = [proposal EXCEPT ![i] = q]
      /\ \A j \in Indices \ {i} : proposal'[j] = proposal[j]
  BY DEF MarkExecuted, IInv, TypeOK
<1>3. /\ q \in Proposals /\ q # NoAccount
      /\ q.status = Executed
      /\ q.approvers = p.approvers /\ q.approvers_len = p.approvers_len
      /\ q.transaction_index = p.transaction_index /\ q.proposal_type = p.proposal_type
  <2>1. now \in 0..MaxTime
    BY DEF IInv, TypeOK
  <2>2. q \in Proposals
    BY <1>1, <1>2, <2>1 DEF Proposals
  <2> QED
    BY <1>1, <1>2, <2>2, KeysAssumption DEF Proposals
<1>4. payouts[i] = 0 /\ payouts \in [Indices -> Nat]
  BY <1>1 DEF IInv, IndexInv, PaidOnceAt, TypeOK, Approved, Executed
<1>5. payouts' \in [Indices -> Nat] /\ \A j \in Indices \ {i} : payouts'[j] = payouts[j]
  BY <1>4
<1>6. TypeOK'
  <2>1. proposal' \in [Indices -> Proposals \cup {NoAccount}]
    BY <1>2, <1>3 DEF IInv, TypeOK
  <2> QED
    BY <1>5, <2>1 DEF IInv, TypeOK
<1>7. ThresholdReachable'
  BY DEF IInv, ThresholdReachable
<1>8. Votes(q) = Votes(p) /\ MemberSet' = MemberSet
  BY <1>3 DEF Votes, MemberSet
<1>9. IndexInv(i)'
  <2>1. PairedAt(i)'
    BY <1>1, <1>3 DEF IInv, IndexInv, PairedAt, Messages
  <2>2. TallyAt(i)'
    BY <1>1, <1>3, <1>8 DEF IInv, IndexInv, TallyAt, Active, Executed
  <2>3. QuorumAt(i)'
    BY <1>1, <1>3, <1>8 DEF IInv, IndexInv, QuorumAt, Active, Approved
  <2>4. InTimeAt(i)'
    BY <1>3 DEF InTimeAt, Approved, Executed
  <2>5. PaidOnceAt(i)'
    BY <1>1, <1>3, <1>4 DEF IInv, IndexInv, PaidOnceAt, PairedAt
  <2> QED
    BY <1>1, <1>8, <2>1, <2>2, <2>3, <2>4, <2>5 DEF IInv, IndexInv
<1>10. ASSUME NEW j \in Indices, j # i PROVE IndexInv(j)'
  <2>1. multisig.transaction_index >= multisig.transaction_index
    BY <1>1, <1>10, AccountTypes DEF IInv, Indices
  <2> QED
    BY <1>2, <1>5, <1>6, <1>10, <2>1, IndexFrame DEF IInv
<1> QED
  BY <1>6, <1>7, <1>9, <1>10 DEF IInv

LEMMA EffectTypes ==
  ASSUME NEW effect \in Effects
  PROVE  effect.to \in Payees /\ effect.amount \in Nat
<1>1. effect.to \in Payees /\ effect.amount \in Amounts \cup {0}
  BY DEF Effects
<1>2. \A a \in Amounts \cup {0} : a \in Nat
  BY BoundsAssumption
<1> QED
  BY <1>1, <1>2

LEMMA ExecutePublicPreserves ==
  ASSUME IInv, NEW member \in Keys, NEW i \in Indices, NEW effect \in Effects,
         ExecutePublic(member, i, effect)
  PROVE  IInv'
<1>1. proposal[i].proposal_type = Public
  BY DEF ExecutePublic, CanExecute, IInv, IndexInv, PairedAt, Live
<1>2. /\ effect.to \in Holders /\ effect.amount \in Nat /\ "vault" \in Holders
      /\ effect.to # "vault"
      /\ lamports \in [Holders -> Nat]
  BY EffectTypes, HoldersAssumption DEF Holders, IInv, TypeOK
<1>3. lamports["vault"] - effect.amount \in Nat /\ lamports[effect.to] + effect.amount \in Nat
  BY <1>2 DEF ExecutePublic
<1>4. lamports' \in [Holders -> Nat]
  BY <1>2, <1>3 DEF ExecutePublic
<1> QED
  BY <1>1, <1>4, ExecutePreserves DEF ExecutePublic

LEMMA ClosePreserves ==
  ASSUME IInv, NEW i \in Indices, NEW collector \in RentCollectors, Close(i, collector)
  PROVE  IInv'
<1> USE DEF Live
<1>1. /\ Live(i) /\ transaction[i] # NoAccount
      /\ transaction[i].transaction_index = i
      /\ multisig # NoAccount
  BY DEF Close, IInv, IndexInv, PairedAt
<1>2. /\ proposal' = [proposal EXCEPT ![i] = NoAccount]
      /\ transaction' = [transaction EXCEPT ![i] = NoAccount]
      /\ lamports' = [lamports EXCEPT ![collector] =
                        @ + transaction[i].lamports + proposal[i].lamports]
      /\ UNCHANGED <<now, multisig, payouts>>
  BY <1>1 DEF Close
<1>3. lamports' \in [Holders -> Nat]
  <2>1. transaction[i].lamports \in Nat /\ proposal[i].lamports \in Nat
    BY <1>1, AccountTypes DEF IInv, Proposals, Transactions
  <2>2. lamports \in [Holders -> Nat] /\ collector \in Holders
    BY DEF IInv, TypeOK, Holders
  <2> QED
    BY <1>2, <2>1, <2>2
<1>4. TypeOK'
  <2>1. proposal' \in [Indices -> Proposals \cup {NoAccount}]
    BY <1>2 DEF IInv, TypeOK
  <2>2. transaction' \in [Indices -> Transactions \cup {NoAccount}]
    BY <1>2 DEF IInv, TypeOK
  <2> QED
    BY <1>2, <1>3, <2>1, <2>2 DEF IInv, TypeOK
<1>5. ThresholdReachable'
  BY <1>2 DEF IInv, ThresholdReachable
<1>6. /\ proposal'[i] = NoAccount /\ transaction'[i] = NoAccount
      /\ \A j \in Indices \ {i} : proposal'[j] = proposal[j] /\ transaction'[j] = transaction[j]
  BY <1>2 DEF IInv, TypeOK
<1>7. IndexInv(i)'
  <2>1. PaidOnceAt(i)'
    BY <1>2, <1>6 DEF IInv, IndexInv, PaidOnceAt
  <2> QED
    BY <1>6, <2>1 DEF IndexInv, PairedAt, TallyAt, QuorumAt, InTimeAt
<1>8. ASSUME NEW j \in Indices, j # i PROVE IndexInv(j)'
  <2>1. multisig.transaction_index >= multisig.transaction_index
    BY <1>1, <1>8, AccountTypes DEF IInv, Indices
  <2> QED
    BY <1>2, <1>4, <1>6, <1>8, <2>1, IndexFrame DEF IInv
<1> QED
  BY <1>4, <1>5, <1>7, <1>8 DEF IInv

(* Deposits, clock ticks and stuttering leave the program's accounts alone. *)
LEMMA OutsidePreserves ==
  ASSUME IInv, TypeOK', UNCHANGED <<multisig, proposal, transaction, payouts>>
  PROVE  IInv'
<1>1. ThresholdReachable'
  BY DEF IInv, ThresholdReachable
<1>2. ASSUME NEW j \in Indices PROVE IndexInv(j)'
  <2>1. multisig # NoAccount => multisig.transaction_index >= multisig.transaction_index
    BY <1>2, AccountTypes DEF IInv, Indices
  <2> QED
    BY <1>2, <2>1, IndexFrame DEF IInv
<1> QED
  BY <1>1, <1>2 DEF IInv

LEMMA InitIInv == Init => IInv
<1> SUFFICES ASSUME Init PROVE IInv
  OBVIOUS
<1>1. TypeOK
  BY BoundsAssumption DEF Init, TypeOK
<1> QED
  BY <1>1 DEF Init, IInv, ThresholdReachable, IndexInv, PairedAt, TallyAt, QuorumAt,
              InTimeAt, PaidOnceAt, Live

LEMMA NextIInv == IInv /\ [Next]_vars => IInv'
<1> SUFFICES ASSUME IInv, [Next]_vars PROVE IInv'
  OBVIOUS
<1>1. ASSUME NEW threshold \in Thresholds, NEW collector \in RentCollectors,
             NEW members \in MemberLists, NEW shares \in ShareLists,
             CreateMultisig(threshold, collector, members, shares)
      PROVE  IInv'
  BY <1>1, CreateMultisigPreserves
<1>2. ASSUME NEW key \in Keys, NEW i \in Indices, NEW deadline \in Deadlines,
             NEW message \in Messages, CreateProposal(key, i, deadline, message)
      PROVE  IInv'
  BY <1>2, OpenIndexPreserves DEF CreateProposal, IsMember
<1>3. ASSUME NEW key \in Keys, NEW i \in Indices, NEW deadline \in Deadlines,
             NEW type \in PrivateTypes, NEW hash \in Hashes,
             CreatePrivateProposal(key, i, deadline, type, hash)
      PROVE  IInv'
  <2>1. hash \notin Messages
    BY TypesAssumption
  <2> QED
    BY <1>3, <2>1, OpenIndexPreserves DEF CreatePrivateProposal, IsMember
<1>4. ASSUME NEW key \in Keys, NEW i \in Indices, Approve(key, i)
      PROVE  IInv'
  BY <1>4, ApprovePreserves
<1>5. ASSUME NEW key \in Keys, NEW i \in Indices, NEW effect \in Effects,
             ExecutePublic(key, i, effect)
      PROVE  IInv'
  BY <1>5, ExecutePublicPreserves
<1>6. ASSUME NEW key \in Keys, NEW i \in Indices,
             ExecuteTransfer(key, i) \/ ExecuteHash(key, i)
      PROVE  IInv'
  <2>1. lamports' \in [Holders -> Nat]
    BY <1>6 DEF ExecuteTransfer, ExecuteHash, IInv, TypeOK
  <2> QED
    BY <1>6, <2>1, ExecutePreserves DEF ExecuteTransfer, ExecuteHash
<1>7. ASSUME NEW i \in Indices, NEW collector \in RentCollectors, Close(i, collector)
      PROVE  IInv'
  BY <1>7, ClosePreserves
<1>8. ASSUME NEW amount \in Amounts, Deposit(amount)
      PROVE  IInv'
  <2>1. /\ lamports \in [Holders -> Nat] /\ "payers" \in Holders /\ "vault" \in Holders
        /\ amount \in Nat
    BY BoundsAssumption DEF IInv, TypeOK, Holders
  <2>2. lamports' \in [Holders -> Nat]
    BY <1>8, <2>1 DEF Deposit
  <2>3. TypeOK'
    BY <1>8, <2>2 DEF Deposit, IInv, TypeOK
  <2> QED
    BY <1>8, <2>3, OutsidePreserves DEF Deposit
<1>9. CASE Tick
  <2>1. now' \in 0..MaxTime
    BY <1>9, BoundsAssumption DEF Tick, IInv, TypeOK
  <2>2. TypeOK'
    BY <1>9, <2>1 DEF Tick, IInv, TypeOK
  <2> QED
    BY <1>9, <2>2, OutsidePreserves DEF Tick
<1>10. CASE UNCHANGED vars
  <2>1. TypeOK'
    BY <1>10 DEF vars, IInv, TypeOK
  <2> QED
    BY <1>10, <2>1, OutsidePreserves DEF vars
<1> QED
  BY <1>1, <1>2, <1>3, <1>4, <1>5, <1>6, <1>7, <1>8, <1>9, <1>10 DEF Next

------------------------------------------------------------------------------
(* Theorems. *)

(* The inductive invariant holds in every reachable state of the program. *)
THEOREM Invariance == Spec => []IInv
  BY InitIInv, NextIInv, PTL DEF Spec

(* Every account and every wallet holds a value of its type: in particular no
   handler writes past the slots it allocated or overdraws a wallet. *)
THEOREM TypeCorrect == Spec => []TypeOK
<1>1. IInv => TypeOK
  BY DEF IInv
<1> QED
  BY <1>1, Invariance, PTL

(* Accounts exist in pairs, under the index they store, up to the current one, and
   a message only in those of a public proposal, whatever types the instruction
   for private ones is given. *)
THEOREM Paired == Spec => []AccountsPaired
<1>1. IInv => AccountsPaired
  BY DEF IInv, IndexInv, AccountsPaired
<1> QED
  BY <1>1, Invariance, PTL

(* Slots and counter of a proposal always agree on the distinct members voted for. *)
THEOREM Tallied == Spec => []ApprovalTally
<1>1. IInv => ApprovalTally
  BY DEF IInv, IndexInv, ApprovalTally
<1> QED
  BY <1>1, Invariance, PTL

(* No proposal is approved or executed before its slots name threshold distinct
   members.  The votes are votes in the members' names: the program asks for no
   signature, so the theorem says what it counts, not who sent it. *)
THEOREM Quorum == Spec => []QuorumBehindApproval
<1>1. IInv => QuorumBehindApproval
  BY DEF IInv, IndexInv, QuorumBehindApproval
<1> QED
  BY <1>1, Invariance, PTL

(* The approval loop finds a slot as long as a proposal takes votes: what the
   comment at proposal_approve.rs:96 claims, for every member list (repeated
   members included) and every threshold create_multisig accepts. *)
THEOREM SlotsSuffice == Spec => []SpaceForApprover
<1>1. IInv => SpaceForApprover
  <2> SUFFICES ASSUME IInv, NEW i \in Indices, Live(i), proposal[i].status = Active
               PROVE  \E j \in DOMAIN proposal[i].approvers :
                        proposal[i].approvers[j] = ZeroKey
    BY DEF SpaceForApprover
  <2> DEFINE p == proposal[i]
             n == Len(multisig.members)
  <2>1. multisig # NoAccount /\ p \in Proposals
    BY AccountTypes DEF IInv, IndexInv, PairedAt
  <2>2. n \in Nat /\ n # 0 /\ multisig.threshold \in Nat /\ multisig.threshold <= n
    BY <2>1, AccountTypes DEF IInv, ThresholdReachable
  <2>3. p.approvers_len \in Nat
    BY <2>1 DEF Proposals
  <2>4. /\ DOMAIN p.approvers = 1..n
        /\ \A j \in 1..n : p.approvers[j] = ZeroKey <=> j > p.approvers_len
        /\ p.approvers_len = 0 \/ p.approvers_len < multisig.threshold
    BY DEF IInv, IndexInv, TallyAt
  <2> QED
    BY <2>2, <2>3, <2>4
<1> QED
  BY <1>1, Invariance, PTL

(* An approval is never late. *)
THEOREM InTime == Spec => []VotesInTime
<1>1. IInv => VotesInTime
  BY DEF IInv, IndexInv, VotesInTime
<1> QED
  BY <1>1, Invariance, PTL

(* The message of a proposal runs at most once. *)
THEOREM PaysOnce == Spec => []PaidOnce
<1>1. IInv => PaidOnce
  BY DEF IInv, IndexInv, PaidOnce
<1> QED
  BY <1>1, Invariance, PTL

(* Only a close changes the accounts of an index before the current one. *)
THEOREM Frozen == Spec => SupersededFrozen
<1> DEFINE Frame == \A i \in Indices : Live(i) /\ i < multisig.transaction_index =>
                      proposal'[i] \in {proposal[i], NoAccount}
<1>1. IInv /\ [Next]_vars => [Frame]_vars
  <2> SUFFICES ASSUME IInv, Next, NEW i \in Indices, Live(i),
                      i < multisig.transaction_index
               PROVE  proposal'[i] \in {proposal[i], NoAccount}
    OBVIOUS
  <2>1. multisig # NoAccount /\ multisig.transaction_index \in Int
    BY AccountTypes DEF IInv, IndexInv, PairedAt, Indices
  <2>2. ASSUME NEW j \in Indices, NEW deadline, NEW type, NEW content,
               OpenIndex(j, deadline, type, content)
        PROVE  proposal'[i] = proposal[i]
    BY <2>1, <2>2 DEF OpenIndex, Indices, IInv, TypeOK
  <2>3. ASSUME NEW key \in Keys, NEW j \in Indices, Approve(key, j)
        PROVE  proposal'[i] = proposal[i]
    BY <2>1, <2>3 DEF Approve, Indices, IInv, TypeOK
  <2>4. ASSUME NEW key \in Keys, NEW j \in Indices, CanExecute(key, j), MarkExecuted(j)
        PROVE  proposal'[i] = proposal[i]
    BY <2>1, <2>4 DEF CanExecute, MarkExecuted, Indices, IInv, TypeOK
  <2>5. ASSUME NEW j \in Indices, NEW collector, Close(j, collector)
        PROVE  proposal'[i] \in {proposal[i], NoAccount}
    BY <2>5 DEF Close, IInv, TypeOK
  <2> QED
    BY <2>1, <2>2, <2>3, <2>4, <2>5
       DEF Next, CreateMultisig, CreateProposal, CreatePrivateProposal,
           ExecutePublic, ExecuteTransfer, ExecuteHash, Deposit, Tick
<1>2. Spec => [][Frame]_vars
  BY <1>1, Invariance, PTL DEF Spec
<1> QED
  BY <1>2 DEF SupersededFrozen

(* The vault's balance falls only in the execution of an approved proposal with a
   message, of the current index, whose slots name threshold distinct members, and
   which is marked executed with it; for every effect the passed accounts may have. *)
THEOREM VaultGuarded == Spec => VaultPaysOnlyByQuorum
<1> DEFINE Paid(i) ==
             /\ Live(i) /\ i = multisig.transaction_index
             /\ transaction[i].content \in Messages
             /\ proposal[i].proposal_type = Public /\ proposal[i].status = Approved
             /\ Votes(proposal[i]) \subseteq MemberSet
             /\ Cardinality(Votes(proposal[i])) >= multisig.threshold
             /\ proposal'[i].status = Executed
           Guarded == lamports'["vault"] < lamports["vault"] => \E i \in Indices : Paid(i)
<1>1. IInv /\ [Next]_vars => [Guarded]_vars
  <2> SUFFICES ASSUME IInv, Next, lamports'["vault"] < lamports["vault"]
               PROVE  \E i \in Indices : Paid(i)
    OBVIOUS
  <2>1. /\ lamports \in [Holders -> Nat] /\ "vault" \in Holders
        /\ lamports["vault"] \in Nat
    BY DEF IInv, TypeOK, Holders
  <2>2. ~(lamports["vault"] < lamports["vault"])
    BY <2>1
  <2>3. ASSUME NEW threshold, NEW collector, NEW members, NEW shares,
               CreateMultisig(threshold, collector, members, shares)
        PROVE  FALSE
    BY <2>1, <2>2, <2>3 DEF CreateMultisig
  <2>4. ASSUME NEW j, NEW deadline, NEW type, NEW content,
               OpenIndex(j, deadline, type, content)
        PROVE  FALSE
    BY <2>1, <2>2, <2>4 DEF OpenIndex
  <2>5. ASSUME NEW j \in Indices, NEW collector \in RentCollectors, Close(j, collector)
        PROVE  FALSE
    <3>1. collector # "vault"
      BY HoldersAssumption
    <3> QED
      BY <2>1, <2>2, <2>5, <3>1 DEF Close
  <2>6. ASSUME NEW amount \in Amounts, Deposit(amount)
        PROVE  FALSE
    <3>1. lamports'["vault"] = lamports["vault"] + amount /\ amount \in Nat
      BY <2>1, <2>6, BoundsAssumption DEF Deposit
    <3> QED
      BY <2>1, <3>1
  <2>7. ASSUME NEW key \in Keys, NEW i \in Indices, NEW effect \in Effects,
             ExecutePublic(key, i, effect)
        PROVE  Paid(i)
    <3>1. /\ Live(i) /\ proposal[i].status = Approved /\ i = multisig.transaction_index
          /\ transaction[i].content \in Messages
      BY <2>7 DEF ExecutePublic, CanExecute, Live
    <3>2. proposal[i].proposal_type = Public
      BY <3>1 DEF IInv, IndexInv, PairedAt
    <3>3. Votes(proposal[i]) \subseteq MemberSet
          /\ Cardinality(Votes(proposal[i])) >= multisig.threshold
      BY <3>1 DEF IInv, IndexInv, QuorumAt, Active, Approved
    <3>4. proposal'[i].status = Executed
      <4>1. proposal[i] \in Proposals /\ i \in DOMAIN proposal
        BY <3>1, AccountTypes DEF IInv, TypeOK
      <4> QED
        BY <2>7, <4>1 DEF ExecutePublic, MarkExecuted, Proposals
    <3> QED
      BY <3>1, <3>2, <3>3, <3>4
  <2> QED
    BY <2>2, <2>3, <2>4, <2>5, <2>6, <2>7
       DEF Next, CreateProposal, CreatePrivateProposal, Approve,
           ExecuteTransfer, ExecuteHash, Tick
<1>2. Spec => [][Guarded]_vars
  BY <1>1, Invariance, PTL DEF Spec
<1> QED
  BY <1>2 DEF VaultPaysOnlyByQuorum

------------------------------------------------------------------------------
(* What no later step takes back, for the modules that build on this chain. *)

(* What stays true of the accounts of an index as long as they exist. *)
Kept(i) ==
  /\ Live(i)
  /\ transaction'[i].content = transaction[i].content
  /\ proposal'[i].proposal_type = proposal[i].proposal_type
  /\ Votes(proposal[i]) \subseteq Votes(proposal'[i])
  /\ proposal[i].status # Active => proposal'[i].status # Active
  /\ proposal[i].status = Executed => proposal'[i].status = Executed

(* An index whose accounts are not touched keeps all. *)
LEMMA Untouched ==
  ASSUME NEW i \in Indices, proposal'[i] = proposal[i], transaction'[i] = transaction[i],
         Live(i)'
  PROVE  Kept(i)
  BY DEF Kept, Live, Votes

(* No instruction takes back votes, a status or a message. *)
LEMMA ContentFrame ==
  ASSUME IInv, Next, multisig # NoAccount, NEW i \in Indices,
         i <= multisig.transaction_index, Live(i)'
  PROVE  Kept(i)
<1>1. multisig.transaction_index \in 0..MaxIndex
  BY AccountTypes DEF IInv
<1>2. ASSUME NEW j \in Indices, NEW deadline, NEW type, NEW content,
             OpenIndex(j, deadline, type, content)
      PROVE  Kept(i)
  <2>1. j # i
    BY <1>1, <1>2 DEF OpenIndex, Indices
  <2>2. proposal'[i] = proposal[i] /\ transaction'[i] = transaction[i]
    BY <1>2, <2>1 DEF OpenIndex, IInv, TypeOK
  <2> QED
    BY <2>2, Untouched
<1>3. ASSUME NEW key \in Keys, NEW j \in Indices, Approve(key, j)
      PROVE  Kept(i)
  <2>1. transaction'[i] = transaction[i]
    BY <1>3 DEF Approve
  <2>2. CASE j # i
    <3>1. proposal'[i] = proposal[i]
      BY <1>3, <2>2 DEF Approve, IInv, TypeOK
    <3> QED
      BY <2>1, <3>1, Untouched
  <2>3. CASE j = i
    <3>1. Live(i) /\ proposal[i].status = Active
      BY <1>3, <2>3 DEF Approve, Live
    <3>2. /\ Votes(proposal'[i]) = Votes(proposal[i]) \cup {key}
          /\ proposal'[i].proposal_type = proposal[i].proposal_type
      BY <1>3, <2>3, ApproveEffect
    <3> QED
      BY <2>1, <3>1, <3>2 DEF Kept, Active, Executed
  <2> QED
    BY <2>2, <2>3
<1>4. ASSUME NEW key \in Keys, NEW j \in Indices, CanExecute(key, j), MarkExecuted(j),
             transaction' = transaction
      PROVE  Kept(i)
  <2>1. CASE j # i
    <3>1. proposal'[i] = proposal[i]
      BY <1>4, <2>1 DEF MarkExecuted, IInv, TypeOK
    <3> QED
      BY <1>4, <3>1, Untouched
  <2>2. CASE j = i
    <3>1. Live(i) /\ proposal[i] \in Proposals
      BY <1>4, <2>2, AccountTypes DEF CanExecute, Live, IInv
    <3>2. /\ proposal'[i].status = Executed
          /\ proposal'[i].approvers = proposal[i].approvers
          /\ proposal'[i].proposal_type = proposal[i].proposal_type
      BY <1>4, <2>2, <3>1 DEF MarkExecuted, Proposals, IInv, TypeOK
    <3>3. Votes(proposal'[i]) = Votes(proposal[i])
      BY <3>2 DEF Votes
    <3> QED
      BY <1>4, <3>1, <3>2, <3>3 DEF Kept, Active, Executed
  <2> QED
    BY <2>1, <2>2
<1>5. ASSUME NEW j \in Indices, NEW collector, Close(j, collector)
      PROVE  Kept(i)
  <2>1. /\ transaction[j].transaction_index = j
        /\ proposal' = [proposal EXCEPT ![j] = NoAccount]
        /\ transaction' = [transaction EXCEPT ![j] = NoAccount]
    BY <1>5 DEF Close, IInv, IndexInv, PairedAt
  <2>2. j # i
    BY <2>1 DEF Live, IInv, TypeOK
  <2> QED
    BY <2>1, <2>2, Untouched DEF IInv, TypeOK
<1>6. ASSUME proposal' = proposal, transaction' = transaction
      PROVE  Kept(i)
  BY <1>6, Untouched
<1> QED
  BY <1>2, <1>3, <1>4, <1>5, <1>6
     DEF Next, CreateMultisig, CreateProposal, CreatePrivateProposal,
         ExecutePublic, ExecuteTransfer, ExecuteHash, Deposit, Tick

(* The multisig account, once created, only counts up; and what was paid once was
   paid once. *)
LEMMA AccountFrame ==
  ASSUME IInv, Next, IInv'
  PROVE  /\ multisig # NoAccount =>
              /\ multisig' # NoAccount
              /\ multisig'.members = multisig.members
              /\ multisig'.threshold = multisig.threshold
              /\ multisig'.shares = multisig.shares
              /\ multisig'.transaction_index >= multisig.transaction_index
         /\ \A i \in Indices : payouts[i] = 1 => payouts'[i] = 1
<1>1. multisig # NoAccount => multisig \in Multisigs /\ multisig.transaction_index \in 0..MaxIndex
  BY DEF IInv, TypeOK, Multisigs
<1>2. payouts \in [Indices -> Nat] /\ \A i \in Indices : payouts'[i] <= 1
  BY DEF IInv, IndexInv, PaidOnceAt, TypeOK
<1>3. ASSUME multisig # NoAccount, NEW j \in Indices, NEW deadline, NEW type, NEW content,
             OpenIndex(j, deadline, type, content)
      PROVE  /\ multisig' # NoAccount
             /\ multisig'.members = multisig.members
             /\ multisig'.threshold = multisig.threshold
             /\ multisig'.shares = multisig.shares
             /\ multisig'.transaction_index >= multisig.transaction_index
             /\ payouts' = payouts
  <2>1. multisig' = [multisig EXCEPT !.transaction_index = j] /\ payouts' = payouts
    BY <1>3 DEF OpenIndex
  <2>2. multisig' # NoAccount
    BY <1>3, <2>1, NextIndexTypes
  <2>3. j = multisig.transaction_index + 1
    BY <1>3 DEF OpenIndex
  <2> QED
    BY <1>1, <1>3, <2>1, <2>2, <2>3 DEF Multisigs
<1>4. ASSUME NEW key \in Keys, NEW j \in Indices, NEW effect \in Effects,
             ExecutePublic(key, j, effect)
      PROVE  multisig' = multisig /\ \A i \in Indices : payouts[i] = 1 => payouts'[i] = 1
  <2>1. multisig' = multisig /\ payouts' = [payouts EXCEPT ![j] = @ + 1]
    BY <1>4 DEF ExecutePublic
  <2>2. payouts[j] # 1
    BY <1>2, <2>1
  <2> QED
    BY <1>2, <2>1, <2>2
<1>5. ASSUME multisig' = multisig, payouts' = payouts
      PROVE  /\ multisig # NoAccount => multisig'.transaction_index >= multisig.transaction_index
             /\ \A i \in Indices : payouts[i] = 1 => payouts'[i] = 1
  BY <1>1, <1>5
<1>6. multisig # NoAccount => multisig.transaction_index >= multisig.transaction_index
  BY <1>1
<1> QED
  BY <1>3, <1>4, <1>5, <1>6
     DEF Next, CreateMultisig, CreateProposal, CreatePrivateProposal, IsMember, Approve,
         ExecuteTransfer, ExecuteHash, Close, Deposit, Tick

(* What a step of the chain leaves to a proposal that was created. *)
LEMMA ProposalFrame ==
  ASSUME IInv, [Next]_vars, IInv', multisig # NoAccount, NEW i \in Indices,
         i <= multisig.transaction_index
  PROVE  /\ multisig' # NoAccount /\ i <= multisig'.transaction_index
         /\ Live(i)' => /\ Live(i)
                        /\ proposal'[i].proposal_type = proposal[i].proposal_type
                        /\ transaction'[i].content = transaction[i].content
<1>1. multisig.transaction_index \in Nat
  BY DEF IInv, TypeOK, Multisigs
<1>2. multisig' # NoAccount => multisig'.transaction_index \in Nat
  BY DEF IInv, TypeOK, Multisigs
<1>3. CASE Next
  <2>1. multisig' # NoAccount /\ multisig'.transaction_index >= multisig.transaction_index
    BY <1>3, AccountFrame
  <2>2. Live(i)' => Kept(i)
    BY <1>3, ContentFrame
  <2> QED
    BY <1>1, <1>2, <2>1, <2>2 DEF Kept, Indices
<1>4. CASE UNCHANGED vars
  BY <1>4 DEF vars, Live
<1> QED
  BY <1>3, <1>4

------------------------------------------------------------------------------
(* Sums over finite functions. *)

(***************************************************************************)
(* Induction over the natural numbers as a fact about sets, from the       *)
(* library's theorem that they are well founded: a nonempty set of numbers *)
(* has a least element, so a set that holds 0 and every successor of its   *)
(* elements has no least number outside it.                                *)
(***************************************************************************)
LEMMA NatInduct ==
  ASSUME NEW T \in SUBSET Nat, 0 \in T, \A n \in T : n + 1 \in T
  PROVE  \A n \in Nat : n \in T
<1> DEFINE Out == Nat \ T
<1> SUFFICES ASSUME Out # {} PROVE FALSE
  OBVIOUS
<1>1. IsWellFoundedOn(OpToRel(<, Nat), Nat)
  BY NatLessThanWellFounded
<1>2. PICK n \in Out : \A m \in Out : <<m, n>> \notin OpToRel(<, Nat)
  BY <1>1, WFMin
<1>3. \A m \in Out : ~(m < n)
  BY <1>2 DEF OpToRel
<1>4. n \in Nat /\ n # 0 /\ n \notin T
  OBVIOUS
<1>5. n - 1 \in Nat /\ n - 1 < n /\ (n - 1) + 1 = n
  BY <1>4
<1>6. n - 1 \in T
  BY <1>3, <1>5
<1> QED
  BY <1>4, <1>5, <1>6

(* SumFunction picks the elements of a set one by one. *)
Some(s) == CHOOSE x \in s : TRUE

Rest(s) == s \ {Some(s)}

Added(g, f, s) == IF s = {} THEN 0 ELSE f[Some(s)] + g[Rest(s)]

(* g sums f over the subsets of S. *)
Adds(g, f, S) == g = [s \in SUBSET S |-> Added(g, f, s)]

(* Picking an element leaves a smaller set. *)
LEMMA RestSmaller ==
  ASSUME NEW S, IsFiniteSet(S), NEW s \in SUBSET S, s # {}
  PROVE  /\ Some(s) \in s /\ Some(s) \in S /\ Rest(s) \in SUBSET S
         /\ IsFiniteSet(s) /\ IsFiniteSet(Rest(s))
         /\ Cardinality(s) \in Nat /\ Cardinality(Rest(s)) \in Nat
         /\ Cardinality(Rest(s)) = Cardinality(s) - 1
<1>1. Some(s) \in s
  BY DEF Some
<1>2. IsFiniteSet(s)
  BY FS_Subset
<1> QED
  BY <1>1, <1>2, FS_RemoveElement, FS_CardinalityType DEF Rest

(* The recursion that sums a function over the subsets of a finite set has a
   solution: a function that solves it up to n elements extends to n + 1. *)
LEMMA AdderExists ==
  ASSUME NEW S, IsFiniteSet(S), NEW f \in [S -> Int]
  PROVE  \E g : Adds(g, f, S)
<1> DEFINE Good(n) == \E g \in [SUBSET S -> Int] :
                        \A s \in SUBSET S : Cardinality(s) <= n => g[s] = Added(g, f, s)
<1>1. \A s \in SUBSET S : Cardinality(s) \in Nat /\ (Cardinality(s) = 0 <=> s = {})
  BY FS_Subset, FS_CardinalityType, FS_EmptySet
<1>2. Good(0)
  <2> DEFINE g == [s \in SUBSET S |-> 0]
  <2>1. g \in [SUBSET S -> Int] /\ \A s \in SUBSET S : g[s] = 0
    OBVIOUS
  <2> HIDE DEF g
  <2>2. \A s \in SUBSET S : Cardinality(s) <= 0 => g[s] = Added(g, f, s)
    BY <1>1, <2>1 DEF Added
  <2> QED
    BY <2>1, <2>2
<1>3. ASSUME NEW n \in Nat, Good(n)
      PROVE  Good(n + 1)
  <2>1. PICK g \in [SUBSET S -> Int] :
          \A s \in SUBSET S : Cardinality(s) <= n => g[s] = Added(g, f, s)
    BY <1>3
  <2> DEFINE h == [s \in SUBSET S |-> Added(g, f, s)]
  <2>2. \A s \in SUBSET S : Added(g, f, s) \in Int
    BY RestSmaller DEF Added
  <2>3. h \in [SUBSET S -> Int] /\ \A s \in SUBSET S : h[s] = Added(g, f, s)
    BY <2>2
  <2> HIDE DEF h
  <2>4. ASSUME NEW s \in SUBSET S, Cardinality(s) <= n + 1
        PROVE  h[s] = Added(h, f, s)
    <3>1. CASE s = {}
      BY <2>3, <3>1 DEF Added
    <3>2. CASE s # {}
      <4>1. Rest(s) \in SUBSET S /\ Cardinality(Rest(s)) <= n
        BY <2>4, <3>2, RestSmaller
      <4>2. h[Rest(s)] = g[Rest(s)]
        BY <2>1, <2>3, <4>1
      <4> QED
        BY <2>3, <3>2, <4>2 DEF Added
    <3> QED
      BY <3>1, <3>2
  <2> QED
    BY <2>3, <2>4
<1>4. \A n \in Nat : Good(n)
  <2> HIDE DEF Good
  <2> DEFINE T == {n \in Nat : Good(n)}
  <2>1. T \in SUBSET Nat /\ 0 \in T /\ \A n \in T : n + 1 \in T
    BY <1>2, <1>3
  <2> QED
    BY <2>1, NatInduct
<1>5. PICK g \in [SUBSET S -> Int] :
        \A s \in SUBSET S : Cardinality(s) <= Cardinality(S) => g[s] = Added(g, f, s)
  BY <1>4, FS_CardinalityType DEF Good
<1>6. \A s \in SUBSET S : Cardinality(s) <= Cardinality(S)
  BY FS_Subset
<1>7. g = [s \in SUBSET S |-> Added(g, f, s)]
  BY <1>5, <1>6
<1> QED
  BY <1>7 DEF Adds

(* The library's SumFunction is the value at the whole set of such a solution. *)
LEMMA SumAdds ==
  ASSUME NEW S, IsFiniteSet(S), NEW f \in [S -> Int]
  PROVE  \E g : Adds(g, f, S) /\ SumFunction(f) = g[S]
<1> DEFINE g == CHOOSE g : Adds(g, f, S)
<1>1. Adds(g, f, S)
  BY AdderExists
<1>2. SumFunction(f) = g[S]
  BY DEF SumFunction, SumFunctionOnSet, FoldFunctionOnSet, MapThenFoldSet, Adds, Added, Some, Rest
<1> QED
  BY <1>1, <1>2

(* A sum changes by what one entry changes by. *)
LEMMA SumChanges ==
  ASSUME NEW S, IsFiniteSet(S), NEW f \in [S -> Int], NEW e \in [S -> Int],
         NEW x \in S, \A y \in S \ {x} : e[y] = f[y]
  PROVE  /\ SumFunction(f) \in Int
         /\ SumFunction(e) = SumFunction(f) + (e[x] - f[x])
<1>1. PICK g : Adds(g, f, S) /\ SumFunction(f) = g[S]
  BY SumAdds
<1>2. PICK h : Adds(h, e, S) /\ SumFunction(e) = h[S]
  BY SumAdds
<1> DEFINE Change(s) == IF x \in s THEN e[x] - f[x] ELSE 0
           Good(n) == \A s \in SUBSET S :
                        Cardinality(s) = n => g[s] \in Int /\ h[s] = g[s] + Change(s)
<1>3. \A s \in SUBSET S : /\ Cardinality(s) \in Nat /\ (Cardinality(s) = 0 <=> s = {})
                          /\ g[s] = Added(g, f, s) /\ h[s] = Added(h, e, s)
  BY <1>1, <1>2, FS_Subset, FS_CardinalityType, FS_EmptySet DEF Adds
<1>4. Good(0)
  BY <1>3 DEF Added
<1>5. ASSUME NEW n \in Nat, Good(n)
      PROVE  Good(n + 1)
  <2> SUFFICES ASSUME NEW s \in SUBSET S, Cardinality(s) = n + 1
               PROVE  g[s] \in Int /\ h[s] = g[s] + Change(s)
    OBVIOUS
  <2>1. s # {}
    BY <1>3
  <2>2. Some(s) \in s /\ Some(s) \in S /\ Rest(s) \in SUBSET S /\ Cardinality(Rest(s)) = n
    BY <2>1, RestSmaller
  <2>3. g[Rest(s)] \in Int /\ h[Rest(s)] = g[Rest(s)] + Change(Rest(s))
    BY <1>5, <2>2
  <2>4. g[s] = f[Some(s)] + g[Rest(s)] /\ h[s] = e[Some(s)] + h[Rest(s)]
    BY <1>3, <2>1 DEF Added
  <2>5. f[Some(s)] \in Int /\ e[Some(s)] \in Int /\ f[x] \in Int /\ e[x] \in Int
    BY <2>2
  <2>6. CASE Some(s) = x
    <3>1. Change(s) = e[x] - f[x] /\ Change(Rest(s)) = 0
      BY <2>2, <2>6 DEF Rest
    <3> QED
      BY <2>3, <2>4, <2>5, <2>6, <3>1
  <2>7. CASE Some(s) # x
    <3>1. Change(s) = Change(Rest(s)) /\ e[Some(s)] = f[Some(s)] /\ Change(s) \in Int
      BY <2>2, <2>5, <2>7 DEF Rest
    <3> QED
      BY <2>3, <2>4, <2>5, <3>1
  <2> QED
    BY <2>6, <2>7
<1>6. Good(Cardinality(S))
  <2> HIDE DEF Good
  <2> DEFINE T == {n \in Nat : Good(n)}
  <2>1. T \in SUBSET Nat /\ 0 \in T /\ \A n \in T : n + 1 \in T
    BY <1>4, <1>5
  <2>2. Cardinality(S) \in T
    BY <2>1, NatInduct, FS_CardinalityType
  <2> QED
    BY <2>2
<1> QED
  BY <1>1, <1>2, <1>6

(* A sum of zeroes is zero. *)
LEMMA SumZero ==
  ASSUME NEW S, IsFiniteSet(S), NEW f \in [S -> Int], \A x \in S : f[x] = 0
  PROVE  SumFunction(f) = 0
<1>1. PICK g : Adds(g, f, S) /\ SumFunction(f) = g[S]
  BY SumAdds
<1> DEFINE Good(n) == \A s \in SUBSET S : Cardinality(s) = n => g[s] = 0
<1>2. \A s \in SUBSET S : /\ Cardinality(s) \in Nat /\ (Cardinality(s) = 0 <=> s = {})
                          /\ g[s] = Added(g, f, s)
  BY <1>1, FS_Subset, FS_CardinalityType, FS_EmptySet DEF Adds
<1>3. Good(0)
  BY <1>2 DEF Added
<1>4. ASSUME NEW n \in Nat, Good(n)
      PROVE  Good(n + 1)
  <2> SUFFICES ASSUME NEW s \in SUBSET S, Cardinality(s) = n + 1
               PROVE  g[s] = 0
    OBVIOUS
  <2>1. s # {}
    BY <1>2
  <2>2. Some(s) \in S /\ Rest(s) \in SUBSET S /\ Cardinality(Rest(s)) = n
    BY <2>1, RestSmaller
  <2>3. g[Rest(s)] = 0 /\ f[Some(s)] = 0
    BY <1>4, <2>2
  <2> QED
    BY <1>2, <2>1, <2>3 DEF Added
<1>5. Good(Cardinality(S))
  <2> HIDE DEF Good
  <2> DEFINE T == {n \in Nat : Good(n)}
  <2>1. T \in SUBSET Nat /\ 0 \in T /\ \A n \in T : n + 1 \in T
    BY <1>3, <1>4
  <2>2. Cardinality(S) \in T
    BY <2>1, NatInduct, FS_CardinalityType
  <2> QED
    BY <2>2
<1> QED
  BY <1>1, <1>5

(* A sum changes by what two entries change by. *)
LEMMA SumMoves ==
  ASSUME NEW S, IsFiniteSet(S), NEW f \in [S -> Int], NEW e \in [S -> Int],
         NEW x \in S, NEW y \in S, x # y, \A z \in S \ {x, y} : e[z] = f[z]
  PROVE  /\ SumFunction(f) \in Int
         /\ SumFunction(e) = SumFunction(f) + (e[x] - f[x]) + (e[y] - f[y])
<1> DEFINE m == [f EXCEPT ![x] = e[x]]
<1>1. /\ m \in [S -> Int] /\ m[x] = e[x] /\ m[y] = f[y]
      /\ \A z \in S \ {x} : m[z] = f[z]
      /\ \A z \in S \ {y} : e[z] = m[z]
  OBVIOUS
<1> HIDE DEF m
<1>2. SumFunction(f) \in Int /\ SumFunction(m) = SumFunction(f) + (m[x] - f[x])
  BY <1>1, SumChanges
<1>3. SumFunction(e) = SumFunction(m) + (e[y] - m[y])
  BY <1>1, SumChanges
<1>4. e[x] \in Int /\ f[x] \in Int /\ e[y] \in Int /\ f[y] \in Int
  OBVIOUS
<1> QED
  BY <1>1, <1>2, <1>3, <1>4

------------------------------------------------------------------------------
(* Conservation of lamports. *)

(* The lamports of an account, of both accounts of every index, and of all. *)
AccountLamports(a) == IF a = NoAccount THEN 0 ELSE a.lamports

IndexLamports ==
  [i \in Indices |-> AccountLamports(proposal[i]) + AccountLamports(transaction[i])]

Total == AccountLamports(multisig) + SumFunction(lamports) + SumFunction(IndexLamports)

(* What LamportsConserved says, with its sums named. *)
LEMMA TotalIs == LamportsConserved <=> Total = Funds
  BY DEF LamportsConserved, Total, IndexLamports, AccountLamports

(* There are finitely many wallets and indices to sum over. *)
LEMMA Addresses ==
  /\ IsFiniteSet(Holders) /\ IsFiniteSet(Indices)
  /\ "payers" \in Holders /\ "vault" \in Holders /\ "wallet" \in Holders
  /\ RentCollectors \subseteq Holders /\ Payees \subseteq Holders
<1>1. IsFiniteSet(Indices)
  BY BoundsAssumption, FS_Interval DEF Indices
<1>2. IsFiniteSet({"payers", "vault", "wallet"})
  <2>1. IsFiniteSet({} \cup {"payers"})
    BY FS_EmptySet, FS_AddElement
  <2>2. IsFiniteSet(({} \cup {"payers"}) \cup {"vault"})
    BY <2>1, FS_AddElement
  <2>3. IsFiniteSet((({} \cup {"payers"}) \cup {"vault"}) \cup {"wallet"})
    BY <2>2, FS_AddElement
  <2>4. {"payers", "vault", "wallet"} = (({} \cup {"payers"}) \cup {"vault"}) \cup {"wallet"}
    OBVIOUS
  <2> QED
    BY <2>3, <2>4
<1>3. IsFiniteSet({"payers", "vault", "wallet"} \cup RentCollectors)
  BY <1>2, AddressesAssumption, FS_Union
<1>4. IsFiniteSet(Holders)
  BY <1>3, AddressesAssumption, FS_Union DEF Holders
<1> QED
  BY <1>1, <1>4 DEF Holders

LamportsTyped ==
  /\ AccountLamports(multisig) \in Int
  /\ lamports \in [Holders -> Int]
  /\ \A i \in Indices : /\ AccountLamports(proposal[i]) \in Int
                        /\ AccountLamports(transaction[i]) \in Int
  /\ IndexLamports \in [Indices -> Int]
  /\ SumFunction(lamports) \in Int
  /\ SumFunction(IndexLamports) \in Int

(* Everything that is summed is a number. *)
LEMMA LamportsTypes == TypeOK => LamportsTyped
<1> SUFFICES ASSUME TypeOK PROVE LamportsTyped
  OBVIOUS
<1>1. AccountLamports(multisig) \in Int
  BY DEF TypeOK, Multisigs, AccountLamports
<1>2. lamports \in [Holders -> Int] /\ "payers" \in Holders
  BY DEF TypeOK, Holders
<1>3. ASSUME NEW i \in Indices
      PROVE  AccountLamports(proposal[i]) \in Int /\ AccountLamports(transaction[i]) \in Int
  <2>1. proposal[i] \in Proposals \cup {NoAccount} /\ transaction[i] \in Transactions \cup {NoAccount}
    BY DEF TypeOK
  <2> QED
    BY <2>1 DEF Proposals, Transactions, AccountLamports
<1>4. IndexLamports \in [Indices -> Int]
  BY <1>3 DEF IndexLamports
<1>5. SumFunction(lamports) \in Int
  BY <1>2, Addresses, SumChanges
<1>6. SumFunction(IndexLamports) \in Int
  <2>1. CASE Indices = {}
    <3>1. \A i \in Indices : IndexLamports[i] = 0
      BY <2>1
    <3>2. SumFunction(IndexLamports) = 0
      BY <1>4, <3>1, Addresses, SumZero
    <3> QED
      BY <3>2
  <2>2. CASE Indices # {}
    <3>1. PICK i : i \in Indices
      BY <2>2
    <3> QED
      BY <1>4, <3>1, Addresses, SumChanges
  <2> QED
    BY <2>1, <2>2
<1> QED
  BY <1>1, <1>2, <1>3, <1>4, <1>5, <1>6 DEF LamportsTyped

(* The same of the next state. *)
LEMMA LamportsTypesNext == TypeOK' => LamportsTyped'
  BY LamportsTypes, PTL

(* At first the members' wallets hold all of it. *)
LEMMA InitConserved == Init => Total = Funds
<1> SUFFICES ASSUME Init PROVE Total = Funds
  OBVIOUS
<1>1. AccountLamports(multisig) = 0
  BY DEF Init, AccountLamports
<1>2. /\ IndexLamports \in [Indices -> Int]
      /\ \A i \in Indices : IndexLamports[i] = 0
  BY DEF Init, AccountLamports, IndexLamports
<1>3. SumFunction(IndexLamports) = 0
  BY <1>2, Addresses, SumZero
<1> DEFINE none == [h \in Holders |-> 0]
<1>4. none \in [Holders -> Int] /\ \A h \in Holders : none[h] = 0
  OBVIOUS
<1> HIDE DEF none
<1>5. SumFunction(none) = 0
  BY <1>4, Addresses, SumZero
<1>6. /\ lamports \in [Holders -> Int] /\ lamports["payers"] = Funds
      /\ \A h \in Holders \ {"payers"} : lamports[h] = none[h]
  BY <1>4, Addresses, BoundsAssumption DEF Init
<1>7. SumFunction(lamports) = SumFunction(none) + (lamports["payers"] - none["payers"])
  BY <1>4, <1>6, Addresses, SumChanges
<1>8. SumFunction(lamports) = Funds
  BY <1>4, <1>5, <1>6, <1>7, Addresses, BoundsAssumption
<1> QED
  BY <1>1, <1>3, <1>8, BoundsAssumption DEF Total

(* A step that touches two wallets. *)
LEMMA WalletsPay ==
  ASSUME TypeOK, TypeOK', NEW x \in Holders, NEW y \in Holders, x # y,
         \A h \in Holders \ {x, y} : lamports'[h] = lamports[h]
  PROVE  SumFunction(lamports') = SumFunction(lamports) + (lamports'[x] - lamports[x])
                                                        + (lamports'[y] - lamports[y])
  BY LamportsTypes, LamportsTypesNext, Addresses, SumMoves DEF LamportsTyped

(* A step that touches one wallet. *)
LEMMA OneWallet ==
  ASSUME TypeOK, TypeOK', NEW x \in Holders,
         \A h \in Holders \ {x} : lamports'[h] = lamports[h]
  PROVE  SumFunction(lamports') = SumFunction(lamports) + (lamports'[x] - lamports[x])
  BY LamportsTypes, LamportsTypesNext, Addresses, SumChanges DEF LamportsTyped

(* A step that touches the accounts of one index. *)
LEMMA OneIndex ==
  ASSUME TypeOK, TypeOK', NEW i \in Indices,
         \A j \in Indices \ {i} : proposal'[j] = proposal[j] /\ transaction'[j] = transaction[j]
  PROVE  SumFunction(IndexLamports') =
           SumFunction(IndexLamports)
             + (AccountLamports(proposal'[i]) + AccountLamports(transaction'[i]))
             - (AccountLamports(proposal[i]) + AccountLamports(transaction[i]))
<1>1. IndexLamports \in [Indices -> Int] /\ IndexLamports' \in [Indices -> Int]
  BY LamportsTypes, LamportsTypesNext DEF LamportsTyped
<1>2. /\ \A j \in Indices : IndexLamports[j] =
           AccountLamports(proposal[j]) + AccountLamports(transaction[j])
      /\ \A j \in Indices : IndexLamports'[j] =
           AccountLamports(proposal'[j]) + AccountLamports(transaction'[j])
  BY DEF IndexLamports, AccountLamports
<1>3. \A j \in Indices \ {i} : IndexLamports'[j] = IndexLamports[j]
  BY <1>2
<1>4. SumFunction(IndexLamports') =
        SumFunction(IndexLamports) + (IndexLamports'[i] - IndexLamports[i])
  BY <1>1, <1>3, Addresses, SumChanges
<1>5. SumFunction(IndexLamports) \in Int /\ IndexLamports'[i] \in Int /\ IndexLamports[i] \in Int
  BY <1>1, LamportsTypes DEF LamportsTyped
<1>6. /\ AccountLamports(proposal[i]) \in Int /\ AccountLamports(transaction[i]) \in Int
      /\ AccountLamports(proposal'[i]) \in Int /\ AccountLamports(transaction'[i]) \in Int
  <2>1. \A j \in Indices : AccountLamports(proposal'[j]) \in Int /\ AccountLamports(transaction'[j]) \in Int
    BY LamportsTypesNext DEF LamportsTyped, AccountLamports
  <2> QED
    BY <2>1, LamportsTypes DEF LamportsTyped
<1> QED
  BY <1>2, <1>4, <1>5, <1>6

(* Accounts whose rent does not change. *)
LEMMA RentStays ==
  ASSUME \A i \in Indices : /\ AccountLamports(proposal'[i]) = AccountLamports(proposal[i])
                            /\ transaction'[i] = transaction[i]
  PROVE  IndexLamports' = IndexLamports
  BY DEF IndexLamports, AccountLamports

(* The creators' wallets pay the fee to the treasury wallet and the rent to the multisig. *)
LEMMA CreateMultisigConserves ==
  ASSUME TypeOK, TypeOK', NEW threshold \in Thresholds, NEW collector \in RentCollectors,
         NEW members \in MemberLists, NEW shares \in ShareLists,
         CreateMultisig(threshold, collector, members, shares)
  PROVE  Total' = Total
<1>1. /\ AccountLamports(multisig) = 0
      /\ AccountLamports(multisig') = MultisigRent
  <2>1. multisig'.lamports = MultisigRent
    BY DEF CreateMultisig
  <2>2. multisig' # NoAccount
    <3>1. multisig' \in Multisigs
      BY BoundsAssumption, KeysAssumption DEF CreateMultisig, Multisigs
    <3> QED
      BY <3>1, KeysAssumption
  <2> QED
    BY <2>1, <2>2 DEF CreateMultisig, AccountLamports
<1>2. IndexLamports' = IndexLamports
  BY RentStays DEF CreateMultisig
<1>3. /\ lamports'["payers"] = lamports["payers"] - (MultisigRent + CreationFee)
      /\ lamports'["wallet"] = lamports["wallet"] + CreationFee
      /\ \A h \in Holders \ {"payers", "wallet"} : lamports'[h] = lamports[h]
  BY Addresses DEF CreateMultisig, TypeOK
<1>4. SumFunction(lamports') = SumFunction(lamports)
                                 + (lamports'["payers"] - lamports["payers"])
                                 + (lamports'["wallet"] - lamports["wallet"])
  BY <1>3, Addresses, WalletsPay
<1>5. /\ lamports["payers"] \in Int /\ lamports["wallet"] \in Int
      /\ SumFunction(lamports) \in Int /\ SumFunction(IndexLamports) \in Int
  BY LamportsTypes, Addresses DEF LamportsTyped
<1>6. SumFunction(lamports') = SumFunction(lamports) - MultisigRent
  BY <1>3, <1>4, <1>5, BoundsAssumption
<1> QED
  BY <1>1, <1>2, <1>5, <1>6, BoundsAssumption DEF Total, AccountLamports

(* The creator pays the rent of both accounts. *)
LEMMA OpenIndexConserves ==
  ASSUME IInv, TypeOK', multisig # NoAccount, NEW i \in Indices, NEW deadline \in Deadlines,
         NEW type \in {Public} \cup PrivateTypes,
         NEW content \in Messages \cup Hashes, OpenIndex(i, deadline, type, content)
  PROVE  Total' = Total
<1> DEFINE rent == TransactionRent + ProposalRent
<1>1. AccountLamports(multisig') = AccountLamports(multisig)
  <2>1. multisig \in Multisigs /\ multisig' = [multisig EXCEPT !.transaction_index = i]
    BY AccountTypes DEF OpenIndex, IInv
  <2>2. multisig' # NoAccount
    BY <2>1, NextIndexTypes
  <2>3. multisig'.lamports = multisig.lamports
    BY <2>1 DEF Multisigs
  <2> QED
    BY <2>2, <2>3 DEF AccountLamports
<1>2. /\ proposal'[i] = NewProposal(i, deadline, type)
      /\ transaction'[i] = NewTransaction(i, content)
      /\ \A j \in Indices \ {i} : proposal'[j] = proposal[j] /\ transaction'[j] = transaction[j]
  BY DEF OpenIndex, IInv, TypeOK
<1>3. AccountLamports(proposal[i]) = 0 /\ AccountLamports(transaction[i]) = 0
  BY DEF OpenIndex, AccountLamports
<1>4. AccountLamports(proposal'[i]) = ProposalRent
  <2>1. NewProposal(i, deadline, type) # NoAccount
    BY NewProposalType DEF IInv
  <2> QED
    BY <1>2, <2>1 DEF AccountLamports, NewProposal
<1>5. AccountLamports(transaction'[i]) = TransactionRent
  <2>1. NewTransaction(i, content) \in Transactions
    BY BoundsAssumption DEF NewTransaction, Transactions
  <2> QED
    BY <1>2, <2>1, KeysAssumption DEF AccountLamports, NewTransaction
<1>6. SumFunction(IndexLamports') = SumFunction(IndexLamports)
        + (AccountLamports(proposal'[i]) + AccountLamports(transaction'[i]))
        - (AccountLamports(proposal[i]) + AccountLamports(transaction[i]))
  BY <1>2, OneIndex DEF IInv
<1>7. /\ lamports'["payers"] = lamports["payers"] - rent
      /\ \A h \in Holders \ {"payers"} : lamports'[h] = lamports[h]
  BY Addresses DEF OpenIndex, IInv, TypeOK
<1>8. SumFunction(lamports') = SumFunction(lamports) + (lamports'["payers"] - lamports["payers"])
  BY <1>7, Addresses, OneWallet DEF IInv
<1>9. /\ lamports["payers"] \in Int /\ AccountLamports(multisig) \in Int
      /\ SumFunction(lamports) \in Int /\ SumFunction(IndexLamports) \in Int
  BY LamportsTypes, Addresses DEF LamportsTyped, IInv
<1>10. SumFunction(lamports') = SumFunction(lamports) - rent
  BY <1>7, <1>8, <1>9, BoundsAssumption
<1>11. SumFunction(IndexLamports') = SumFunction(IndexLamports) + rent
  BY <1>3, <1>4, <1>5, <1>6, <1>9, BoundsAssumption
<1> QED
  BY <1>1, <1>9, <1>10, <1>11, BoundsAssumption DEF Total, AccountLamports

(* A vote or a mark does not touch the rent of the proposal account. *)
LEMMA MarksConserve ==
  ASSUME IInv, NEW i \in Indices, Live(i), Live(i)', TypeOK',
         proposal' = [proposal EXCEPT ![i] = proposal'[i]],
         proposal'[i].lamports = proposal[i].lamports,
         multisig' = multisig, transaction' = transaction
  PROVE  AccountLamports(multisig') = AccountLamports(multisig) /\ IndexLamports' = IndexLamports
<1>1. \A j \in Indices : AccountLamports(proposal'[j]) = AccountLamports(proposal[j])
  <2> SUFFICES ASSUME NEW j \in Indices
               PROVE  AccountLamports(proposal'[j]) = AccountLamports(proposal[j])
    OBVIOUS
  <2>1. CASE j = i
    BY <2>1 DEF AccountLamports, Live
  <2>2. CASE j # i
    <3>1. proposal'[j] = proposal[j]
      BY <2>2 DEF IInv, TypeOK
    <3> QED
      BY <3>1 DEF AccountLamports
  <2> QED
    BY <2>1, <2>2
<1> QED
  BY <1>1, RentStays DEF AccountLamports

(* A vote moves nothing. *)
LEMMA ApproveConserves ==
  ASSUME IInv, IInv', NEW member \in Keys, NEW i \in Indices, Approve(member, i)
  PROVE  Total' = Total
<1> DEFINE p == proposal[i]  k == proposal[i].approvers_len + 1
           r == [p EXCEPT !.approvers[k] = member, !.approvers_len = k]
<1>1. Live(i) /\ p.status = Active /\ ~HasApproved(p, member)
  BY DEF Approve, Live
<1>2. p \in Proposals
  BY <1>1, AccountTypes DEF IInv
<1>3. RecordApproval(p, member) = r
  BY <1>1, ApprovalLoop
<1>4. proposal'[i] = Tally(r) /\ proposal' = [proposal EXCEPT ![i] = proposal'[i]]
  BY <1>3 DEF Approve, IInv, TypeOK
<1>5. r.lamports = p.lamports /\ r = [r EXCEPT !.lamports = p.lamports]
  BY <1>2 DEF Proposals
<1>6. Tally(r).lamports = r.lamports
  <2>1. r \in [DOMAIN p -> {r[x] : x \in DOMAIN p}] /\ "lamports" \in DOMAIN p
    BY <1>2 DEF Proposals
  <2> HIDE DEF r
  <2> QED
    BY <2>1 DEF Tally
<1>7. Live(i)'
  <2>1. proposal'[i] \in Proposals
    BY ApproveEffect
  <2> QED
    BY <2>1, KeysAssumption DEF Live
<1>8. AccountLamports(multisig') = AccountLamports(multisig) /\ IndexLamports' = IndexLamports
  BY <1>1, <1>4, <1>5, <1>6, <1>7, MarksConserve DEF Approve, IInv
<1> QED
  BY <1>8 DEF Approve, Total

(* What MarkExecuted leaves alone. *)
LEMMA MarkConserves ==
  ASSUME IInv, TypeOK', NEW member \in Keys, NEW i \in Indices, CanExecute(member, i),
         MarkExecuted(i), multisig' = multisig, transaction' = transaction
  PROVE  AccountLamports(multisig') = AccountLamports(multisig) /\ IndexLamports' = IndexLamports
<1>1. Live(i) /\ proposal[i] \in Proposals
  BY AccountTypes DEF CanExecute, Live, IInv
<1>2. /\ proposal'[i] = [proposal[i] EXCEPT !.status = Executed, !.timestamp = now]
      /\ proposal' = [proposal EXCEPT ![i] = proposal'[i]]
  BY DEF MarkExecuted, IInv, TypeOK
<1>3. proposal'[i] \in Proposals /\ proposal'[i].lamports = proposal[i].lamports
  <2>1. now \in 0..MaxTime
    BY DEF IInv, TypeOK
  <2> QED
    BY <1>1, <1>2, <2>1 DEF Proposals, Executed
<1>4. Live(i)'
  BY <1>3, KeysAssumption DEF Live
<1> QED
  BY <1>1, <1>2, <1>3, <1>4, MarksConserve

(* What the vault loses the payee of the effect has. *)
LEMMA ExecutePublicConserves ==
  ASSUME IInv, TypeOK', NEW member \in Keys, NEW i \in Indices, NEW effect \in Effects,
         ExecutePublic(member, i, effect)
  PROVE  Total' = Total
<1>1. /\ effect.to \in Holders /\ effect.to # "vault" /\ effect.amount \in Int
  <2>1. effect.to \in Payees /\ effect.amount \in Nat
    BY EffectTypes
  <2>2. effect.to # "vault"
    BY <2>1, HoldersAssumption
  <2> QED
    BY <2>1, <2>2, Addresses
<1>2. /\ lamports'["vault"] = lamports["vault"] - effect.amount
      /\ lamports'[effect.to] = lamports[effect.to] + effect.amount
      /\ \A h \in Holders \ {"vault", effect.to} : lamports'[h] = lamports[h]
  BY <1>1, Addresses DEF ExecutePublic, IInv, TypeOK
<1>3. SumFunction(lamports') = SumFunction(lamports)
        + (lamports'["vault"] - lamports["vault"]) + (lamports'[effect.to] - lamports[effect.to])
  BY <1>1, <1>2, Addresses, WalletsPay DEF IInv
<1>4. /\ lamports["vault"] \in Int /\ lamports[effect.to] \in Int /\ SumFunction(lamports) \in Int
  BY <1>1, LamportsTypes, Addresses DEF LamportsTyped, IInv
<1>5. SumFunction(lamports') = SumFunction(lamports)
  BY <1>1, <1>2, <1>3, <1>4
<1>6. AccountLamports(multisig') = AccountLamports(multisig) /\ IndexLamports' = IndexLamports
  BY MarkConserves DEF ExecutePublic
<1> QED
  BY <1>5, <1>6 DEF Total

(* The rent of both accounts goes to the collector; account_close finds the proposal
   by the index that the transaction account stores, which is its own. *)
LEMMA CloseConserves ==
  ASSUME IInv, TypeOK', NEW i \in Indices, NEW collector \in RentCollectors, Close(i, collector)
  PROVE  Total' = Total
<1>1. /\ Live(i) /\ transaction[i] # NoAccount
      /\ transaction[i].transaction_index = i
  BY DEF Close, IInv, IndexInv, PairedAt, Live
<1>2. /\ proposal' = [proposal EXCEPT ![i] = NoAccount]
      /\ transaction' = [transaction EXCEPT ![i] = NoAccount]
      /\ lamports' = [lamports EXCEPT ![collector] =
                        @ + transaction[i].lamports + proposal[i].lamports]
      /\ multisig' = multisig
  BY <1>1 DEF Close
<1>3. /\ AccountLamports(proposal'[i]) = 0 /\ AccountLamports(transaction'[i]) = 0
      /\ \A j \in Indices \ {i} : proposal'[j] = proposal[j] /\ transaction'[j] = transaction[j]
  BY <1>2 DEF AccountLamports, IInv, TypeOK
<1>4. /\ AccountLamports(proposal[i]) = proposal[i].lamports
      /\ AccountLamports(transaction[i]) = transaction[i].lamports
  BY <1>1 DEF AccountLamports, Live
<1>5. SumFunction(IndexLamports') = SumFunction(IndexLamports)
        + (AccountLamports(proposal'[i]) + AccountLamports(transaction'[i]))
        - (AccountLamports(proposal[i]) + AccountLamports(transaction[i]))
  BY <1>3, OneIndex DEF IInv
<1>6. /\ lamports'[collector] = lamports[collector] + transaction[i].lamports + proposal[i].lamports
      /\ \A h \in Holders \ {collector} : lamports'[h] = lamports[h]
  BY <1>2, Addresses DEF IInv, TypeOK
<1>7. SumFunction(lamports') = SumFunction(lamports) + (lamports'[collector] - lamports[collector])
  BY <1>6, Addresses, OneWallet DEF IInv
<1>8. /\ lamports[collector] \in Int
      /\ SumFunction(lamports) \in Int /\ SumFunction(IndexLamports) \in Int
      /\ AccountLamports(multisig) \in Int
      /\ AccountLamports(proposal[i]) \in Int /\ AccountLamports(transaction[i]) \in Int
  BY LamportsTypes, Addresses DEF LamportsTyped, IInv
<1>9. AccountLamports(multisig') = AccountLamports(multisig)
  BY <1>2 DEF AccountLamports
<1>10. /\ SumFunction(lamports') = SumFunction(lamports) + proposal[i].lamports + transaction[i].lamports
       /\ SumFunction(IndexLamports') = SumFunction(IndexLamports)
                                          - proposal[i].lamports - transaction[i].lamports
  BY <1>3, <1>4, <1>5, <1>6, <1>7, <1>8
<1> QED
  BY <1>4, <1>8, <1>9, <1>10 DEF Total

(* A deposit goes from the members' wallets to the vault. *)
LEMMA DepositConserves ==
  ASSUME IInv, TypeOK', NEW amount \in Amounts, Deposit(amount)
  PROVE  Total' = Total
<1>1. /\ lamports'["payers"] = lamports["payers"] - amount
      /\ lamports'["vault"] = lamports["vault"] + amount
      /\ \A h \in Holders \ {"payers", "vault"} : lamports'[h] = lamports[h]
  BY Addresses DEF Deposit, IInv, TypeOK
<1>2. SumFunction(lamports') = SumFunction(lamports)
        + (lamports'["payers"] - lamports["payers"]) + (lamports'["vault"] - lamports["vault"])
  BY <1>1, Addresses, WalletsPay DEF IInv
<1>3. /\ lamports["vault"] \in Int /\ lamports["payers"] \in Int
      /\ SumFunction(lamports) \in Int /\ amount \in Int
  BY LamportsTypes, Addresses, BoundsAssumption DEF LamportsTyped, IInv
<1>4. SumFunction(lamports') = SumFunction(lamports)
  BY <1>1, <1>2, <1>3
<1>5. AccountLamports(multisig') = AccountLamports(multisig) /\ IndexLamports' = IndexLamports
  BY RentStays DEF Deposit, AccountLamports
<1> QED
  BY <1>4, <1>5 DEF Total

(* No step changes the total. *)
LEMMA NextConserves == IInv /\ IInv' /\ [Next]_vars => Total' = Total
<1> SUFFICES ASSUME IInv, IInv', [Next]_vars PROVE Total' = Total
  OBVIOUS
<1>1. TypeOK /\ TypeOK'
  BY DEF IInv
<1>2. ASSUME NEW threshold \in Thresholds, NEW collector \in RentCollectors,
             NEW members \in MemberLists, NEW shares \in ShareLists,
             CreateMultisig(threshold, collector, members, shares)
      PROVE  Total' = Total
  BY <1>1, <1>2, CreateMultisigConserves
<1>3. ASSUME NEW key \in Keys, NEW i \in Indices, NEW deadline \in Deadlines,
             NEW message \in Messages, CreateProposal(key, i, deadline, message)
      PROVE  Total' = Total
  BY <1>1, <1>3, OpenIndexConserves DEF CreateProposal, IsMember
<1>4. ASSUME NEW key \in Keys, NEW i \in Indices, NEW deadline \in Deadlines,
             NEW type \in PrivateTypes, NEW hash \in Hashes,
             CreatePrivateProposal(key, i, deadline, type, hash)
      PROVE  Total' = Total
  BY <1>1, <1>4, OpenIndexConserves DEF CreatePrivateProposal, IsMember
<1>5. ASSUME NEW key \in Keys, NEW i \in Indices, Approve(key, i)
      PROVE  Total' = Total
  BY <1>5, ApproveConserves
<1>6. ASSUME NEW key \in Keys, NEW i \in Indices, NEW effect \in Effects,
             ExecutePublic(key, i, effect)
      PROVE  Total' = Total
  BY <1>1, <1>6, ExecutePublicConserves
<1>7. ASSUME NEW key \in Keys, NEW i \in Indices,
             ExecuteTransfer(key, i) \/ ExecuteHash(key, i)
      PROVE  Total' = Total
  <2>1. AccountLamports(multisig') = AccountLamports(multisig) /\ IndexLamports' = IndexLamports
    BY <1>1, <1>7, MarkConserves DEF ExecuteTransfer, ExecuteHash
  <2> QED
    BY <1>7, <2>1 DEF Total, ExecuteTransfer, ExecuteHash
<1>8. ASSUME NEW i \in Indices, NEW collector \in RentCollectors, Close(i, collector)
      PROVE  Total' = Total
  BY <1>1, <1>8, CloseConserves
<1>9. ASSUME NEW amount \in Amounts, Deposit(amount)
      PROVE  Total' = Total
  BY <1>1, <1>9, DepositConserves
<1>10. CASE Tick \/ UNCHANGED vars
  BY <1>10 DEF Tick, vars, Total, AccountLamports, IndexLamports
<1> QED
  BY <1>2, <1>3, <1>4, <1>5, <1>6, <1>7, <1>8, <1>9, <1>10 DEF Next

(* No instruction creates or loses a lamport: what the accounts and the wallets hold
   together is what the members' wallets held at first. *)
THEOREM Conserved == Spec => []LamportsConserved
<1> DEFINE Inv == IInv /\ Total = Funds
<1>1. Init => Inv
  BY InitIInv, InitConserved
<1>2. Inv /\ [Next]_vars => Inv'
  <2> SUFFICES ASSUME IInv, Total = Funds, [Next]_vars PROVE Inv'
    OBVIOUS
  <2>1. IInv'
    BY NextIInv
  <2>2. Total' = Total
    BY <2>1, NextConserves
  <2> QED
    BY <2>1, <2>2
<1>3. Inv => LamportsConserved
  BY TotalIs
<1> QED
  BY <1>1, <1>2, <1>3, PTL DEF Spec
=============================================================================
