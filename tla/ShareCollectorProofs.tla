------------------------- MODULE ShareCollectorProofs -------------------------
(***************************************************************************)
(* Safety of ShareCollector for any number of names and commands.  The     *)
(* invariant says what the map of collected shares holds at any moment,    *)
(* not only when the promise is decided.                                   *)
(***************************************************************************)
EXTENDS ShareCollector, FiniteSetTheorems, TLAPS

(* The map holds exactly the shares that were answered with 200: not empty, and
   under distinct names. *)
MapInv ==
  /\ \A s \in Submissions : s \in collected <=> request[s].code = 200
  /\ \A s \in Submissions : request[s].state \in {"idle", "open"} => request[s].code = 0
  /\ \A s \in collected : NameIn[s] \in allowed /\ s \notin EmptyShares
  /\ \A s, t \in collected : NameIn[s] = NameIn[t] => s = t

(* When and with what the promise is decided. *)
DecisionInv ==
  /\ settled = "complete" => Cardinality(collected) >= Threshold
  /\ closeScheduled \/ server \in {"closing", "closed"} => settled # "no"
  /\ server = "closed" => \A s \in Submissions : request[s].state # "open"
  /\ server = "closed" => ~closeScheduled
  /\ server = "closing" => ~closeScheduled
  /\ promise.state = "resolved" => settled = "complete" /\ promise.shares = collected

IInv == TypeOK /\ MapInv /\ DecisionInv

(* Adding a share to the finite map does not make it smaller. *)
LEMMA Grows ==
  ASSUME collected \subseteq Submissions, NEW s \in Submissions
  PROVE  /\ Cardinality(collected) \in Nat
         /\ Cardinality(collected \cup {s}) \in Nat
         /\ Cardinality(collected) <= Cardinality(collected \cup {s})
<1>1. IsFiniteSet(collected) /\ IsFiniteSet(collected \cup {s})
  BY CollectorAssumption, FS_Subset
<1>2. collected \subseteq collected \cup {s}
  OBVIOUS
<1> QED
  BY <1>1, <1>2, FS_CardinalityType, FS_Subset

LEMMA InitIInv == Init => IInv
<1> SUFFICES ASSUME Init PROVE IInv
  OBVIOUS
<1>1. TypeOK
  BY DEF Init, TypeOK, Pending, Idle
<1>2. MapInv
  BY DEF Init, MapInv, Idle
<1>3. DecisionInv
  <2>1. promise.state = "pending"
    BY DEF Init, Pending
  <2> QED
    BY <2>1 DEF Init, DecisionInv
<1> QED
  BY <1>1, <1>2, <1>3 DEF IInv

LEMMA NextIInv == IInv /\ [Next]_vars => IInv'
<1> SUFFICES ASSUME IInv, [Next]_vars PROVE IInv'
  OBVIOUS
<1> USE DEF IInv, TypeOK, MapInv, DecisionInv, Pending
<1>1. CASE Listen
  BY <1>1 DEF Listen
<1>2. CASE ListenFails
  BY <1>2 DEF ListenFails, Settle
<1>3. CASE Timeout
  BY <1>3 DEF Timeout, Settle
<1>4. CASE Close
  <2>1. /\ closeScheduled /\ closeScheduled' = FALSE
        /\ server' = "closing"
        /\ UNCHANGED <<allowed, timer, settled, collected, promise, request>>
    BY <1>4 DEF Close
  <2>2. server # "closed" /\ settled # "no"
    BY <2>1
  <2>3. TypeOK'
    BY <2>1, <2>2
  <2>4. MapInv'
    BY <2>1
  <2>5. DecisionInv'
    BY <2>1, <2>2
  <2> QED
    BY <2>3, <2>4, <2>5
<1>5. CASE Closed
  <2>1. promise' \in [state : {"pending", "resolved", "rejected"}, shares : SUBSET Submissions]
        /\ promise' # Pending
    <3>1. CASE settled = "complete"
      <4>1. promise' = [state |-> "resolved", shares |-> collected]
        BY <1>5, <3>1 DEF Closed
      <4> QED
        BY <4>1
    <3>2. CASE settled # "complete"
      <4>1. promise' = [state |-> "rejected", shares |-> {}]
        BY <1>5, <3>2 DEF Closed
      <4> QED
        BY <4>1
    <3> QED
      BY <3>1, <3>2
  <2>2. promise'.state = "resolved" => settled = "complete" /\ promise'.shares = collected
    BY <1>5 DEF Closed
  <2>3. /\ server = "closing" /\ server' = "closed"
        /\ \A s \in Submissions : request[s].state # "open"
        /\ UNCHANGED <<allowed, timer, settled, closeScheduled, collected, request>>
    BY <1>5 DEF Closed
  <2>4. TypeOK'
    BY <2>1, <2>3
  <2>5. MapInv'
    BY <2>3
  <2>6. DecisionInv'
    BY <2>2, <2>3
  <2> QED
    BY <2>4, <2>5, <2>6
<1>6. ASSUME NEW s \in Submissions, Submit(s) PROVE IInv'
  BY <1>6 DEF Submit, Open
<1>7. ASSUME NEW s \in Submissions, Refuse(s) PROVE IInv'
  BY <1>7 DEF Refuse, Answer, Refusal
<1>8. ASSUME NEW s \in Submissions, Accept(s) PROVE IInv'
  <2>1. /\ request[s].state = "open" /\ request[s].code = 0
        /\ NameIn[s] \in allowed /\ s \notin EmptyShares
        /\ \A t \in collected : NameIn[t] # NameIn[s]
        /\ collected' = collected \cup {s}
        /\ UNCHANGED <<allowed, server, promise>>
    BY <1>8 DEF Accept, Refusal, Collected
  <2> DEFINE complete == Cardinality(collected \cup {s}) >= Threshold
  <2>2. /\ complete \in BOOLEAN
        /\ complete <=> Cardinality(collected') >= Threshold
        /\ Answer(s, 200, complete)
        /\ IF complete THEN Settle("complete")
             ELSE UNCHANGED <<settled, timer, closeScheduled>>
    BY <1>8, <2>1 DEF Accept
  <2> HIDE DEF complete
  <2>3. request' = [request EXCEPT ![s] = [state |-> "answered", code |-> 200, complete |-> complete]]
    BY <2>2 DEF Answer
  <2>4. server # "closed" /\ promise = Pending /\ promise.state = "pending"
    <3>1. server # "closed"
      BY <2>1
    <3> QED
      BY <3>1
  <2>5. MapInv'
    BY <2>1, <2>3
  <2>6. DecisionInv'
    <3>1. Cardinality(collected') >= Cardinality(collected) /\ Threshold \in Nat
          /\ Cardinality(collected) \in Nat /\ Cardinality(collected') \in Nat
      BY <2>1, Grows, CollectorAssumption
    <3>2. settled' = "complete" => Cardinality(collected') >= Threshold
      BY <2>2, <3>1 DEF Settle
    <3> QED
      BY <2>1, <2>2, <2>3, <2>4, <3>2 DEF Settle
  <2>7. TypeOK'
    <3>1. request' \in [Submissions ->
             [state : {"idle", "open", "answered", "done", "failed"},
              code : {0, 200, 400, 403, 409}, complete : BOOLEAN]]
      <4>1. complete \in BOOLEAN
        BY <2>2
      <4>2. [state |-> "answered", code |-> 200, complete |-> complete] \in
              [state : {"idle", "open", "answered", "done", "failed"},
               code : {0, 200, 400, 403, 409}, complete : BOOLEAN]
        BY <4>1
      <4> QED
        BY <2>3, <4>2
    <3>2. timer' = "armed" <=> settled' = "no"
      BY <2>2 DEF Settle
    <3>3. /\ timer' \in {"armed", "cleared"} /\ closeScheduled' \in BOOLEAN
          /\ settled' \in {"no", "complete", "timeout", "error"}
      BY <2>2 DEF Settle
    <3>4. promise' = Pending <=> server' # "closed"
      BY <2>1, <2>4
    <3>5. /\ allowed' \in Allowlists
          /\ collected' \subseteq Submissions
          /\ server' \in {"starting", "listening", "closing", "closed"}
          /\ promise' \in [state : {"pending", "resolved", "rejected"}, shares : SUBSET Submissions]
      BY <2>1
    <3> QED
      BY <3>1, <3>2, <3>3, <3>4, <3>5
  <2> QED
    BY <2>5, <2>6, <2>7
<1>9. ASSUME NEW s \in Submissions, Receive(s) PROVE IInv'
  BY <1>9 DEF Receive
<1>10. ASSUME NEW s \in Submissions, Abort(s) PROVE IInv'
  BY <1>10 DEF Abort
<1>11. CASE UNCHANGED vars
  BY <1>11 DEF vars
<1> QED
  BY <1>1, <1>2, <1>3, <1>4, <1>5, <1>6, <1>7, <1>8, <1>9, <1>10, <1>11 DEF Next

LEMMA Invariance == Spec => []IInv
  BY InitIInv, NextIInv, PTL DEF Spec

(* The type invariant. *)
THEOREM TypeCorrect == Spec => []TypeOK
<1>1. IInv => TypeOK
  BY DEF IInv
<1> QED
  BY <1>1, Invariance, PTL

(* Whatever the interleaving of requests and timeout, the promise resolves with
   at least Threshold shares under distinct names that the collector takes. *)
THEOREM Quorum == Spec => []ResolvesWithQuorum
<1>1. IInv => ResolvesWithQuorum
  BY DEF IInv, MapInv, DecisionInv, ResolvesWithQuorum
<1> QED
  BY <1>1, Invariance, PTL

(* No accepted share is left out. *)
THEOREM AllUsed == Spec => []AcceptedIsUsed
<1>1. IInv => AcceptedIsUsed
  BY DEF IInv, MapInv, DecisionInv, AcceptedIsUsed
<1> QED
  BY <1>1, Invariance, PTL

(* The first cause and the decision stand. *)
THEOREM Once == Spec => SettledOnce
<1>1. IInv /\ [Next]_vars =>
        [/\ settled # "no" => settled' = settled
         /\ promise # Pending => promise' = promise]_vars
  <2> SUFFICES ASSUME IInv, Next
               PROVE  /\ settled # "no" => settled' = settled
                      /\ promise # Pending => promise' = promise
    OBVIOUS
  <2> QED
    BY DEF IInv, TypeOK, DecisionInv, Next, Listen, ListenFails, Timeout, Close, Closed,
           Submit, Refuse, Accept, Answer, Receive, Abort, Settle
<1> QED
  BY <1>1, Invariance, PTL DEF Spec, SettledOnce
=============================================================================
