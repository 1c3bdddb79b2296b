------------------------- MODULE PrivateExecutionProofs -------------------------
(***************************************************************************)
(* Proofs about PrivateExecution for any number of executions, proposals,  *)
(* notes and history records.                                              *)
(*                                                                         *)
(* An execution reads the status, the hash and the payload at different    *)
(* times.  XInv says what each read is worth later on: the content of a    *)
(* ratified index never changes (RatifiedAt), and so what was read before  *)
(* agrees with what is read after.                                         *)
(***************************************************************************)
EXTENDS PrivateExecution, FortisMultisigProofs

EntrySet == UNION { ToSet(h.record.entries) : h \in HistoryRecords }

PaymentSet ==
  [index : Indices, entry : EntrySet,
   amount : { NoteAmount[t.commitment] : t \in EntrySet } \cup { t.amount : t \in EntrySet }]

(* What was ratified is what the chain has, as long as it has it. *)
RatifiedAt(r) ==
  /\ multisig # NoAccount /\ r.index \in Indices /\ r.index <= multisig.transaction_index
  /\ Live(r.index) => transaction[r.index].content = r.content

ApprovedAt(i) ==
  Live(i) /\ proposal[i].status = Approved =>
    \E r \in ratified : r.index = i

(* The entries of a run are those of a payload that was ratified for its index. *)
Authorized(e) ==
  /\ \E r \in RatifiedPayloads :
       r.index = execution[e].index /\ r.content.entries = execution[e].entries
  /\ execution[e].entries \in Seq(EntrySet)

(* What a run has read is worth. *)
RunAt(e) ==
  LET run == execution[e] IN
  /\ run.pc # "start" => run.index \in Indices
  /\ run.pc \in {"start", "collected", "fetched", "hashed"} =>
       run.results = {} /\ run.failures = {}
  /\ run.pc = "fetched" => \E r \in ratified : r.index = run.index
  /\ run.pc = "hashed" => \E r \in ratified : r.index = run.index /\ r.content = run.hash
  /\ run.pc = "paying" \/ run.results # {} => Authorized(e)
  /\ IsFiniteSet(run.results) /\ IsFiniteSet(run.failures)

PaidAt(p) ==
  /\ p.entry.commitment \notin unspent
  /\ \E r \in RatifiedPayloads : r.index = p.index /\ p.entry \in ToSet(r.content.entries)

(* ReportedIsPaid of one run. *)
ReportedAt(e) ==
  \A n \in execution[e].results :
    /\ \E p \in ToSet(payments) :
         p.index = execution[e].index /\ p.entry = execution[e].entries[n]
    /\ \A f \in Executions \ {e} :
         execution[f].index = execution[e].index => n \notin execution[f].results

RunStates ==
  [pc : {"start", "collected", "fetched", "hashed", "paying", "executed successfully", "thrown"},
   index : Indices \cup {0}, type : {Public} \cup PrivateTypes,
   hash : {ZeroHash} \cup Hashes \cup Messages,
   entries : {<<>>} \cup { h.record.entries : h \in HistoryRecords },
   results : SUBSET Nat, failures : SUBSET Nat]

XInv ==
  /\ IInv
  /\ execution \in [Executions -> RunStates]
  /\ payments \in Seq(PaymentSet)
  /\ \A r \in ratified : RatifiedAt(r)
  /\ \A r, s \in ratified : r.index = s.index => r.content = s.content
  /\ \A r \in ratified : r.content \in Messages \cup Hashes
  /\ \A i \in Indices : ApprovedAt(i)
  /\ \A e \in Executions : RunAt(e) /\ ReportedAt(e)
  /\ \A p \in ToSet(payments) : PaidAt(p)

------------------------------------------------------------------------------
(* Steps of the chain. *)

LEMMA ChainStepPreserves ==
  ASSUME XInv, ChainStep
  PROVE  XInv'
<1>1. /\ Next /\ IInv /\ IInv'
  BY NextIInv DEF ChainStep, XInv
<1>2. /\ execution' = execution /\ unspent' = unspent /\ payments' = payments
      /\ ratified' = ratified \cup
           { Ratified(i) : i \in { j \in Indices : proposal'[j] # NoAccount
                                                   /\ proposal'[j].status = Approved } }
  BY DEF ChainStep, executionVars
<1>3. ASSUME NEW r \in ratified
      PROVE  RatifiedAt(r)'
  <2>1. RatifiedAt(r)
    BY DEF XInv
  <2>2. /\ multisig' # NoAccount /\ r.index <= multisig'.transaction_index
        /\ Live(r.index)' => /\ Live(r.index)
                             /\ transaction'[r.index].content = transaction[r.index].content
    BY <1>1, <2>1, ProposalFrame DEF RatifiedAt
  <2> QED
    BY <2>1, <2>2 DEF RatifiedAt, Live
<1>4. ASSUME NEW i \in Indices, Live(i)', NEW r, r = Ratified(i)
      PROVE  RatifiedAt(r)' /\ r.index = i /\ r.content = transaction'[i].content
  <2>1. r.index = i /\ r.content = transaction'[i].content
    BY <1>4 DEF Ratified
  <2>2. multisig' # NoAccount /\ i <= multisig'.transaction_index
    BY <1>1, <1>4 DEF IInv, IndexInv, PairedAt, Live
  <2>3. Live(r.index)' => transaction'[r.index].content = r.content
    BY <2>1
  <2> QED
    BY <2>1, <2>2, <2>3 DEF RatifiedAt
<1>5. ASSUME NEW r \in ratified'
      PROVE  /\ RatifiedAt(r)'
             /\ r \notin ratified =>
                  Live(r.index)' /\ r.content = transaction'[r.index].content
  <2>1. CASE r \in ratified
    BY <1>3, <2>1
  <2>2. CASE r \notin ratified
    <3>1. PICK i \in Indices : proposal'[i] # NoAccount /\ r = Ratified(i)
      BY <1>2, <2>2
    <3>2. Live(i)'
      BY <3>1 DEF Live
    <3>3. RatifiedAt(r)' /\ r.index = i /\ r.content = transaction'[i].content
      BY <1>4, <3>1, <3>2
    <3> QED
      BY <3>2, <3>3 DEF Live
  <2> QED
    BY <2>1, <2>2
<1>6. ASSUME NEW r \in ratified', NEW s \in ratified', r.index = s.index
      PROVE  r.content = s.content
  <2>1. CASE r \in ratified /\ s \in ratified
    BY <1>6, <2>1 DEF XInv
  <2>2. CASE r \notin ratified \/ s \notin ratified
    <3>1. Live(r.index)' /\ Live(s.index)'
      BY <1>5, <1>6, <2>2 DEF Live
    <3>2. r.content = transaction'[r.index].content /\ s.content = transaction'[s.index].content
      BY <1>5, <3>1 DEF RatifiedAt, Live
    <3> QED
      BY <1>6, <3>2
  <2> QED
    BY <2>1, <2>2
<1>7. ASSUME NEW i \in Indices
      PROVE  ApprovedAt(i)'
  <2>1. SUFFICES ASSUME Live(i)', proposal'[i].status = Approved
                 PROVE  \E r \in ratified' : r.index = i
    BY DEF ApprovedAt, Live, Approved
  <2>2. Ratified(i) \in ratified'
    BY <1>2, <2>1 DEF Live
  <2> QED
    BY <2>2 DEF Ratified
<1>8. ratified \subseteq ratified' /\ RatifiedPayloads \subseteq RatifiedPayloads'
  BY <1>2 DEF RatifiedPayloads
<1>9. ASSUME NEW e \in Executions
      PROVE  RunAt(e)' /\ ReportedAt(e)'
  <2>1. RunAt(e) /\ ReportedAt(e)
    BY DEF XInv
  <2>2. Authorized(e) => Authorized(e)'
    BY <1>2, <1>8 DEF Authorized
  <2>3. RunAt(e)'
    BY <1>2, <1>8, <2>1, <2>2 DEF RunAt
  <2>4. ReportedAt(e)'
    BY <1>2, <2>1 DEF ReportedAt
  <2> QED
    BY <2>3, <2>4
<1>10. \A p \in ToSet(payments') : PaidAt(p)'
  BY <1>2, <1>8 DEF XInv, PaidAt
<1>11. ASSUME NEW r \in ratified'
       PROVE  r.content \in Messages \cup Hashes
  <2>1. CASE r \in ratified
    BY <2>1 DEF XInv
  <2>2. CASE r \notin ratified
    <3>1. Live(r.index)' /\ r.content = transaction'[r.index].content /\ r.index \in Indices
      BY <1>5, <2>2 DEF RatifiedAt
    <3>2. transaction'[r.index] \in Transactions
      BY <1>1, <3>1 DEF IInv, IndexInv, PairedAt, TypeOK, Live
    <3> QED
      BY <3>1, <3>2 DEF Transactions
  <2> QED
    BY <2>1, <2>2
<1> QED
  BY <1>1, <1>2, <1>5, <1>6, <1>7, <1>9, <1>10, <1>11 DEF XInv

------------------------------------------------------------------------------
(* Steps of a run. *)

(* A run moves, and nothing is paid. *)
LEMMA RunMoves ==
  ASSUME XInv, UNCHANGED <<vars, unspent, payments, ratified>>, NEW e \in Executions,
         NEW r \in RunStates, execution' = [execution EXCEPT ![e] = r],
         RunAt(e)',
         r.results # {} =>
           /\ r.results = execution[e].results /\ r.index = execution[e].index
           /\ r.entries = execution[e].entries
  PROVE  XInv'
<1>1. UNCHANGED <<now, multisig, proposal, transaction, lamports, payouts>> /\ [Next]_vars
  BY DEF vars
<1>2. IInv'
  BY <1>1, NextIInv DEF XInv
<1>3. execution' \in [Executions -> RunStates] /\ execution'[e] = r
  BY DEF XInv
<1>4. \A s \in ratified' : RatifiedAt(s)'
  BY <1>1 DEF XInv, RatifiedAt, Live
<1>5. \A i \in Indices : ApprovedAt(i)'
  BY <1>1 DEF XInv, ApprovedAt, Live
<1>6. ASSUME NEW f \in Executions \ {e}
      PROVE  RunAt(f)' /\ execution'[f] = execution[f]
  <2>1. execution'[f] = execution[f]
    OBVIOUS
  <2>2. RunAt(f)
    BY DEF XInv
  <2> QED
    BY <2>1, <2>2 DEF RunAt, Authorized, RatifiedPayloads
<1>7. ASSUME NEW f \in Executions
      PROVE  ReportedAt(f)'
  <2>1. ASSUME NEW g \in Executions
        PROVE  /\ execution'[g].results # {} =>
                    /\ execution'[g].results = execution[g].results
                    /\ execution'[g].index = execution[g].index
                    /\ execution'[g].entries = execution[g].entries
    BY <1>3, <1>6
  <2>2. SUFFICES ASSUME NEW n \in execution'[f].results
                 PROVE  /\ \E p \in ToSet(payments) :
                             p.index = execution'[f].index /\ p.entry = execution'[f].entries[n]
                        /\ \A g \in Executions \ {f} :
                             execution'[g].index = execution'[f].index
                               => n \notin execution'[g].results
    BY DEF ReportedAt
  <2>3. /\ n \in execution[f].results
        /\ execution'[f].index = execution[f].index
        /\ execution'[f].entries = execution[f].entries
    BY <2>1, <2>2
  <2>4. ReportedAt(f)
    BY DEF XInv
  <2> QED
    BY <2>1, <2>3, <2>4 DEF ReportedAt
<1>8. \A p \in ToSet(payments') : PaidAt(p)'
  BY DEF XInv, PaidAt, RatifiedPayloads
<1> QED
  BY <1>2, <1>3, <1>4, <1>5, <1>6, <1>7, <1>8 DEF XInv

(* A run that ends keeps what it has. *)
LEMMA EndsPreserves ==
  ASSUME XInv, UNCHANGED <<vars, unspent, payments, ratified>>, NEW e \in Executions,
         NEW pc \in {"thrown", "executed successfully"}, Goes(e, pc), ~At(e, "start")
  PROVE  XInv'
<1> DEFINE r == [execution[e] EXCEPT !.pc = pc]
<1>1. execution' = [execution EXCEPT ![e] = r]
  BY DEF Goes
<1>2. /\ r \in RunStates /\ r.pc = pc /\ r.index = execution[e].index
      /\ r.results = execution[e].results /\ r.failures = execution[e].failures
      /\ r.entries = execution[e].entries
  <2>1. execution[e] \in RunStates
    BY DEF XInv
  <2> QED
    BY <2>1 DEF RunStates
<1>3. execution'[e] = r
  BY <1>1 DEF XInv
<1> HIDE DEF r
<1>4. RunAt(e)
  BY DEF XInv
<1>5. RunAt(e)'
  BY <1>2, <1>3, <1>4 DEF RunAt, Authorized, At, RatifiedPayloads
<1> QED
  BY <1>1, <1>2, <1>5, RunMoves

LEMMA CollectPreserves ==
  ASSUME XInv, NEW e \in Executions, NEW index \in Indices, Collect(e, index)
  PROVE  XInv'
<1> DEFINE r == [execution[e] EXCEPT !.pc = "collected", !.index = index]
<1>1. execution' = [execution EXCEPT ![e] = r] /\ At(e, "start")
  BY DEF Collect
<1>2. /\ r \in RunStates /\ r.pc = "collected" /\ r.index = index
      /\ r.results = execution[e].results /\ r.failures = execution[e].failures
  <2>1. execution[e] \in RunStates
    BY DEF XInv
  <2> QED
    BY <2>1 DEF RunStates
<1>3. execution'[e] = r
  BY <1>1 DEF XInv
<1> HIDE DEF r
<1>4. RunAt(e)
  BY DEF XInv
<1>5. RunAt(e)' /\ r.results = {}
  BY <1>1, <1>2, <1>3, <1>4 DEF RunAt, At
<1> QED
  BY <1>1, <1>2, <1>5, RunMoves DEF Collect

(* The proposal is approved: it is ratified. *)
LEMMA FetchProposalPreserves ==
  ASSUME XInv, NEW e \in Executions, FetchProposal(e)
  PROVE  XInv'
<1> DEFINE i == execution[e].index
           r == [execution[e] EXCEPT !.pc = "fetched", !.type = proposal[i].proposal_type]
<1>1. At(e, "collected") /\ UNCHANGED <<vars, unspent, payments, ratified>>
  BY DEF FetchProposal
<1>2. CASE Goes(e, "thrown")
  BY <1>1, <1>2, EndsPreserves DEF At
<1>3. CASE ~Goes(e, "thrown")
  <2>1. /\ proposal[i] # NoAccount /\ proposal[i].status = Approved
        /\ execution' = [execution EXCEPT ![e] = r]
    BY <1>3 DEF FetchProposal
  <2>2. RunAt(e)
    BY DEF XInv
  <2>3. i \in Indices
    BY <1>1, <2>2 DEF RunAt, At
  <2>4. proposal[i].proposal_type \in {Public} \cup PrivateTypes
    BY <2>1, <2>3 DEF XInv, IInv, TypeOK, Proposals
  <2>5. \E s \in ratified : s.index = i
    BY <2>1, <2>3 DEF XInv, ApprovedAt, Live
  <2>6. /\ r \in RunStates /\ r.pc = "fetched" /\ r.index = i
        /\ r.results = execution[e].results /\ r.failures = execution[e].failures
    <3>1. execution[e] \in RunStates
      BY DEF XInv
    <3> QED
      BY <2>4, <3>1 DEF RunStates
  <2>7. execution'[e] = r
    BY <2>1 DEF XInv
  <2> HIDE DEF r
  <2>8. RunAt(e)' /\ r.results = {}
    BY <1>1, <2>2, <2>3, <2>5, <2>6, <2>7 DEF RunAt, At
  <2> QED
    BY <1>1, <2>1, <2>6, <2>8, RunMoves
<1> QED
  BY <1>2, <1>3

(* The content that is fetched is the one that was ratified. *)
LEMMA FetchTransactionPreserves ==
  ASSUME XInv, NEW e \in Executions, FetchTransaction(e)
  PROVE  XInv'
<1> DEFINE i == execution[e].index
           r == [execution[e] EXCEPT !.pc = "hashed", !.hash = transaction[i].content]
<1>1. At(e, "fetched") /\ UNCHANGED <<vars, unspent, payments, ratified>>
  BY DEF FetchTransaction
<1>2. CASE Goes(e, "thrown")
  BY <1>1, <1>2, EndsPreserves DEF At
<1>3. CASE ~Goes(e, "thrown")
  <2>1. /\ transaction[i] # NoAccount
        /\ execution' = [execution EXCEPT ![e] = r]
    BY <1>3 DEF FetchTransaction
  <2>2. RunAt(e)
    BY DEF XInv
  <2>3. i \in Indices
    BY <1>1, <2>2 DEF RunAt, At
  <2>4. Live(i) /\ transaction[i].content \in Messages \cup Hashes
    <3>1. transaction[i] \in Transactions
      BY <2>1, <2>3, AccountTypes DEF XInv, IInv
    <3>2. Live(i)
      BY <2>1, <2>3 DEF XInv, IInv, IndexInv, PairedAt
    <3> QED
      BY <3>1, <3>2 DEF Transactions
  <2>5. \E s \in ratified : s.index = i /\ s.content = transaction[i].content
    <3>1. PICK s \in ratified : s.index = i
      BY <1>1, <2>2 DEF RunAt, At
    <3>2. RatifiedAt(s)
      BY DEF XInv
    <3> QED
      BY <2>4, <3>1, <3>2 DEF RatifiedAt
  <2>6. /\ r \in RunStates /\ r.pc = "hashed" /\ r.index = i
        /\ r.hash = transaction[i].content
        /\ r.results = execution[e].results /\ r.failures = execution[e].failures
    <3>1. execution[e] \in RunStates
      BY DEF XInv
    <3> QED
      BY <2>4, <3>1 DEF RunStates
  <2>7. execution'[e] = r
    BY <2>1 DEF XInv
  <2> HIDE DEF r
  <2>8. RunAt(e)' /\ r.results = {}
    BY <1>1, <2>2, <2>3, <2>5, <2>6, <2>7 DEF RunAt, At
  <2> QED
    BY <1>1, <2>1, <2>6, <2>8, RunMoves
<1> QED
  BY <1>2, <1>3

(* enforceHash: the entries of the record are those of the ratified payload. *)
LEMMA LoadRecordPreserves ==
  ASSUME XInv, NEW e \in Executions, LoadRecord(e)
  PROVE  XInv'
<1>1. At(e, "hashed") /\ UNCHANGED <<vars, unspent, payments, ratified>>
  BY DEF LoadRecord
<1>2. CASE Goes(e, "thrown")
  BY <1>1, <1>2, EndsPreserves DEF At
<1>3. CASE ~Goes(e, "thrown")
  <2>1. PICK h \in HistoryRecords :
          /\ HashEnforced(e, h.record)
          /\ execution' = [execution EXCEPT ![e].pc = "paying",
                                            ![e].entries = h.record.entries]
    BY <1>3 DEF LoadRecord
  <2> DEFINE entries == h.record.entries
             r == [execution[e] EXCEPT !.pc = "paying", !.entries = entries]
  <2>2. execution' = [execution EXCEPT ![e] = r]
    BY <2>1
  <2>3. RunAt(e)
    BY DEF XInv
  <2>4. entries = execution[e].hash.entries /\ execution[e].hash \notin Messages
    <3>1. /\ execution[e].hash.entries = entries
          /\ DOMAIN execution[e].hash = {"kind", "salt", "entries"}
      BY <2>1 DEF HashEnforced, PayloadHash
    <3>2. \A m \in Messages : DOMAIN m = {"to", "amount"}
      BY DEF Messages
    <3> QED
      BY <3>1, <3>2
  <2>5. \E s \in RatifiedPayloads :
          s.index = execution[e].index /\ s.content.entries = entries
    BY <1>1, <2>3, <2>4 DEF RunAt, At, XInv, RatifiedPayloads
  <2>6. entries \in Seq(EntrySet)
    <3>1. entries \in Seq(ToSet(entries)) /\ ToSet(entries) \subseteq EntrySet
      BY HistoryAssumption DEF EntrySet
    <3> HIDE DEF entries
    <3> QED
      BY <3>1
  <2>7. /\ r \in RunStates /\ r.pc = "paying" /\ r.index = execution[e].index
        /\ r.entries = entries
        /\ r.results = execution[e].results /\ r.failures = execution[e].failures
    <3>1. execution[e] \in RunStates
      BY DEF XInv
    <3> QED
      BY <3>1 DEF RunStates
  <2>8. execution'[e] = r
    BY <2>2 DEF XInv
  <2> HIDE DEF r, entries
  <2>9. RunAt(e)' /\ r.results = {}
    BY <1>1, <2>3, <2>5, <2>6, <2>7, <2>8 DEF RunAt, At, Authorized, RatifiedPayloads
  <2> QED
    BY <1>1, <2>2, <2>7, <2>9, RunMoves
<1> QED
  BY <1>2, <1>3

(* The entry a run is at. *)
LEMMA AtEntry ==
  ASSUME XInv, NEW e \in Executions, Paying(e)
  PROVE  /\ At(e, "paying") /\ Authorized(e) /\ RunAt(e)
         /\ Next1(e) \in Nat /\ Next1(e) \in 1..Len(execution[e].entries)
         /\ Entry(e) = execution[e].entries[Next1(e)] /\ Entry(e) \in EntrySet
         /\ execution[e].index \in Indices
<1>1. RunAt(e) /\ At(e, "paying")
  BY DEF XInv, Paying
<1>2. Authorized(e) /\ execution[e].index \in Indices
  BY <1>1 DEF RunAt, At
<1>3. /\ Cardinality(execution[e].results) \in Nat
      /\ Cardinality(execution[e].failures) \in Nat
  BY <1>1, FS_CardinalityType DEF RunAt
<1>4. Next1(e) \in Nat /\ Next1(e) >= 1
  BY <1>3 DEF Next1
<1>5. execution[e].entries \in Seq(EntrySet)
  BY <1>2 DEF Authorized
<1>6. Next1(e) \in 1..Len(execution[e].entries)
  BY <1>4, <1>5 DEF Paying
<1>7. Entry(e) = execution[e].entries[Next1(e)]
  BY DEF Entry
<1>8. Entry(e) \in EntrySet
  BY <1>5, <1>6, <1>7
<1> QED
  BY <1>1, <1>2, <1>4, <1>6, <1>7, <1>8

(* The entry counts as failed. *)
LEMMA FailsState ==
  ASSUME XInv, NEW e \in Executions, Paying(e), Fails(e)
  PROVE  \E r \in RunStates :
           /\ execution' = [execution EXCEPT ![e] = r]
           /\ r.pc = execution[e].pc /\ r.index = execution[e].index
           /\ r.entries = execution[e].entries /\ r.results = execution[e].results
           /\ r.failures = execution[e].failures \cup {Next1(e)}
           /\ IsFiniteSet(r.failures)
<1> DEFINE r == [execution[e] EXCEPT !.failures = @ \cup {Next1(e)}]
<1>1. execution' = [execution EXCEPT ![e] = r]
  BY DEF Fails
<1>2. execution[e] \in RunStates /\ Next1(e) \in Nat /\ IsFiniteSet(execution[e].failures)
  BY AtEntry DEF XInv, RunAt
<1>3. IsFiniteSet(execution[e].failures \cup {Next1(e)})
  BY <1>2, FS_AddElement
<1>4. /\ r \in RunStates /\ r.pc = execution[e].pc /\ r.index = execution[e].index
      /\ r.entries = execution[e].entries /\ r.results = execution[e].results
      /\ r.failures = execution[e].failures \cup {Next1(e)}
  BY <1>2 DEF RunStates
<1> HIDE DEF r
<1> QED
  BY <1>1, <1>3, <1>4

LEMMA SucceedsState ==
  ASSUME XInv, NEW e \in Executions, Paying(e), Succeeds(e)
  PROVE  \E r \in RunStates :
           /\ execution' = [execution EXCEPT ![e] = r]
           /\ r.pc = execution[e].pc /\ r.index = execution[e].index
           /\ r.entries = execution[e].entries /\ r.failures = execution[e].failures
           /\ r.results = execution[e].results \cup {Next1(e)}
           /\ IsFiniteSet(r.results)
<1> DEFINE r == [execution[e] EXCEPT !.results = @ \cup {Next1(e)}]
<1>1. execution' = [execution EXCEPT ![e] = r]
  BY DEF Succeeds
<1>2. execution[e] \in RunStates /\ Next1(e) \in Nat /\ IsFiniteSet(execution[e].results)
  BY AtEntry DEF XInv, RunAt
<1>3. IsFiniteSet(execution[e].results \cup {Next1(e)})
  BY <1>2, FS_AddElement
<1>4. /\ r \in RunStates /\ r.pc = execution[e].pc /\ r.index = execution[e].index
      /\ r.entries = execution[e].entries /\ r.failures = execution[e].failures
      /\ r.results = execution[e].results \cup {Next1(e)}
  BY <1>2 DEF RunStates
<1> HIDE DEF r
<1> QED
  BY <1>1, <1>3, <1>4

LEMMA WithdrawFailsPreserves ==
  ASSUME XInv, NEW e \in Executions, WithdrawFails(e)
  PROVE  XInv'
<1>1. Paying(e) /\ Fails(e) /\ UNCHANGED <<vars, unspent, payments, ratified>>
  BY DEF WithdrawFails
<1>2. PICK r \in RunStates :
        /\ execution' = [execution EXCEPT ![e] = r]
        /\ r.pc = execution[e].pc /\ r.index = execution[e].index
        /\ r.entries = execution[e].entries /\ r.results = execution[e].results
        /\ IsFiniteSet(r.failures)
  BY <1>1, FailsState
<1>3. execution'[e] = r
  BY <1>2 DEF XInv
<1>4. RunAt(e)'
  BY <1>1, <1>2, <1>3, AtEntry DEF RunAt, Authorized, At, RatifiedPayloads
<1> QED
  BY <1>1, <1>2, <1>4, RunMoves

(* What a payment changes. *)
LEMMA Pays ==
  ASSUME XInv, NEW e \in Executions, Paying(e), Spends(e)
  PROVE  /\ payments' \in Seq(PaymentSet)
         /\ \A q \in ToSet(payments) : q \in ToSet(payments')
         /\ \A q \in ToSet(payments') :
              \/ q \in ToSet(payments)
              \/ q.index = execution[e].index /\ q.entry = Entry(e)
         /\ \E q \in ToSet(payments') : q.index = execution[e].index /\ q.entry = Entry(e)
         /\ unspent' = unspent \ {Entry(e).commitment}
         /\ Entry(e).commitment \in unspent
<1>1. PICK p : p = [index |-> execution[e].index, entry |-> Entry(e), amount |-> Paid(e)]
  OBVIOUS
<1>2. /\ payments' = Append(payments, p)
      /\ unspent' = unspent \ {Entry(e).commitment}
      /\ Entry(e).commitment \in unspent
  BY <1>1 DEF Spends
<1>3. Paid(e) \in { NoteAmount[t.commitment] : t \in EntrySet } \cup { t.amount : t \in EntrySet }
  BY AtEntry DEF Paid
<1>4. p \in PaymentSet /\ p.index = execution[e].index /\ p.entry = Entry(e)
  BY <1>1, <1>3, AtEntry DEF PaymentSet
<1>5. payments \in Seq(PaymentSet)
  BY DEF XInv
<1>6. /\ payments' \in Seq(PaymentSet) /\ Len(payments) \in Nat
      /\ DOMAIN payments = 1..Len(payments) /\ DOMAIN payments' = 1..Len(payments) + 1
      /\ \A j \in 1..Len(payments) : payments'[j] = payments[j]
      /\ payments'[Len(payments) + 1] = p
  BY <1>2, <1>4, <1>5
<1>7. ToSet(payments') = ToSet(payments) \cup {p}
  <2>1. ASSUME NEW j \in DOMAIN payments'
        PROVE  payments'[j] \in ToSet(payments) \cup {p}
    <3>1. j \in 1..Len(payments) \/ j = Len(payments) + 1
      BY <1>6
    <3> QED
      BY <1>6, <3>1 DEF ToSet
  <2>2. ToSet(payments) \subseteq ToSet(payments')
    <3>1. \A j \in DOMAIN payments : j \in DOMAIN payments' /\ payments'[j] = payments[j]
      BY <1>6
    <3> QED
      BY <3>1 DEF ToSet
  <2>3. p \in ToSet(payments')
    <3>1. Len(payments) + 1 \in DOMAIN payments'
      BY <1>6
    <3> QED
      BY <1>6, <3>1 DEF ToSet
  <2> QED
    BY <2>1, <2>2, <2>3 DEF ToSet
<1> QED
  BY <1>2, <1>4, <1>6, <1>7


(* No execution of the proposal reports an entry whose note is unspent. *)
LEMMA NotReported ==
  ASSUME XInv, NEW e \in Executions, Paying(e), Entry(e).commitment \in unspent,
         NEW f \in Executions, execution[f].index = execution[e].index
  PROVE  Next1(e) \notin execution[f].results
<1> SUFFICES ASSUME Next1(e) \in execution[f].results
             PROVE  FALSE
  OBVIOUS
<1>1. ReportedAt(f) /\ RunAt(f)
  BY DEF XInv
<1>2. PICK p \in ToSet(payments) :
        p.index = execution[f].index /\ p.entry = execution[f].entries[Next1(e)]
  BY <1>1 DEF ReportedAt
<1>3. Authorized(e) /\ Authorized(f)
  BY <1>1, AtEntry DEF RunAt
<1>4. execution[f].entries = execution[e].entries
  BY <1>3 DEF Authorized, XInv, RatifiedPayloads
<1>5. p.entry = Entry(e)
  BY <1>2, <1>4, AtEntry
<1>6. p.entry.commitment \notin unspent
  BY <1>2 DEF XInv, PaidAt
<1> QED
  BY <1>5, <1>6

LEMMA WithdrawPreserves ==
  ASSUME XInv, NEW e \in Executions, Withdraw(e)
  PROVE  XInv'
<1>1. /\ Paying(e) /\ Spends(e) /\ (Succeeds(e) \/ Fails(e))
      /\ UNCHANGED <<now, multisig, proposal, transaction, lamports, payouts, ratified>>
      /\ [Next]_vars
  BY DEF Withdraw, vars
<1>2. IInv'
  BY <1>1, NextIInv DEF XInv
<1>3. PICK n : n = Next1(e)
  OBVIOUS
<1>4. PICK t : t = Entry(e)
  OBVIOUS
<1>5. /\ Authorized(e) /\ At(e, "paying") /\ RunAt(e) /\ t = execution[e].entries[n]
      /\ n \in 1..Len(execution[e].entries)
  BY <1>1, <1>3, <1>4, AtEntry
<1>6. /\ payments' \in Seq(PaymentSet)
      /\ \A q \in ToSet(payments) : q \in ToSet(payments')
      /\ \A q \in ToSet(payments') :
           \/ q \in ToSet(payments)
           \/ q.index = execution[e].index /\ q.entry = t
      /\ \E q \in ToSet(payments') : q.index = execution[e].index /\ q.entry = t
      /\ unspent' = unspent \ {t.commitment}
      /\ t.commitment \in unspent
  BY <1>1, <1>4, Pays
<1>7. PICK r \in RunStates :
        /\ execution' = [execution EXCEPT ![e] = r]
        /\ r.pc = execution[e].pc /\ r.index = execution[e].index
        /\ r.entries = execution[e].entries
        /\ r.results = execution[e].results \/ r.results = execution[e].results \cup {n}
        /\ IsFiniteSet(r.results) /\ IsFiniteSet(r.failures)
  <2>1. CASE Succeeds(e)
    BY <1>1, <1>3, <1>5, <2>1, SucceedsState DEF RunAt
  <2>2. CASE Fails(e)
    BY <1>1, <1>5, <2>2, FailsState DEF RunAt
  <2> QED
    BY <1>1, <2>1, <2>2
<1>8. /\ execution' \in [Executions -> RunStates] /\ execution'[e] = r
      /\ \A f \in Executions \ {e} : execution'[f] = execution[f]
  BY <1>7 DEF XInv
<1>9. \A s \in ratified' : RatifiedAt(s)'
  BY <1>1 DEF XInv, RatifiedAt, Live
<1>10. \A i \in Indices : ApprovedAt(i)'
  BY <1>1 DEF XInv, ApprovedAt, Live
<1>11. ASSUME NEW f \in Executions
       PROVE  RunAt(f)'
  <2>1. RunAt(f)
    BY DEF XInv
  <2>2. CASE f = e
    BY <1>1, <1>5, <1>7, <1>8, <2>2 DEF RunAt, Authorized, At, RatifiedPayloads
  <2>3. CASE f # e
    <3>1. execution'[f] = execution[f] /\ ratified' = ratified
      BY <1>1, <1>8, <2>3
    <3> QED
      BY <2>1, <3>1 DEF RunAt, Authorized, RatifiedPayloads
  <2> QED
    BY <2>2, <2>3
<1>12. ASSUME NEW f \in Executions
       PROVE  ReportedAt(f)'
  <2>1. /\ \A g \in Executions :
             /\ execution'[g].index = execution[g].index
             /\ execution'[g].entries = execution[g].entries
             /\ \A m \in execution'[g].results :
                  m \in execution[g].results \/ (g = e /\ m = n)
    BY <1>7, <1>8
  <2>2. SUFFICES ASSUME NEW m \in execution'[f].results
                 PROVE  /\ \E p \in ToSet(payments') :
                             p.index = execution[f].index /\ p.entry = execution[f].entries[m]
                        /\ \A g \in Executions \ {f} :
                             execution[g].index = execution[f].index
                               => m \notin execution'[g].results
    BY <2>1 DEF ReportedAt
  <2>3. \A g \in Executions :
          execution[g].index = execution[e].index => n \notin execution[g].results
    BY <1>1, <1>3, <1>4, <1>6, NotReported
  <2>4. CASE m \in execution[f].results
    <3>1. ReportedAt(f)
      BY DEF XInv
    <3>2. \E p \in ToSet(payments') :
            p.index = execution[f].index /\ p.entry = execution[f].entries[m]
      BY <1>6, <2>4, <3>1 DEF ReportedAt
    <3>3. ASSUME NEW g \in Executions \ {f}, execution[g].index = execution[f].index,
                 m \in execution'[g].results
          PROVE  FALSE
      <4>1. m \notin execution[g].results
        BY <2>4, <3>1, <3>3 DEF ReportedAt
      <4>2. g = e /\ m = n
        BY <2>1, <3>3, <4>1
      <4> QED
        BY <2>3, <2>4, <3>3, <4>2
    <3> QED
      BY <3>2, <3>3
  <2>5. CASE f = e /\ m = n
    <3>1. \E p \in ToSet(payments') :
            p.index = execution[f].index /\ p.entry = execution[f].entries[m]
      BY <1>5, <1>6, <2>5
    <3>2. \A g \in Executions \ {f} :
            execution[g].index = execution[f].index => m \notin execution'[g].results
      BY <2>1, <2>3, <2>5
    <3> QED
      BY <3>1, <3>2
  <2> QED
    BY <2>1, <2>2, <2>4, <2>5
<1>13. ASSUME NEW q \in ToSet(payments')
       PROVE  PaidAt(q)'
  <2>1. CASE q \in ToSet(payments)
    <3>1. PaidAt(q)
      BY <2>1 DEF XInv
    <3> QED
      BY <1>1, <1>6, <3>1 DEF PaidAt, RatifiedPayloads
  <2>2. CASE q.index = execution[e].index /\ q.entry = t
    <3>1. PICK s \in RatifiedPayloads :
            s.index = execution[e].index /\ s.content.entries = execution[e].entries
      BY <1>5 DEF Authorized
    <3>2. t \in ToSet(s.content.entries)
      <4>1. execution[e].entries \in Seq(EntrySet)
        BY <1>5 DEF Authorized
      <4>2. n \in DOMAIN execution[e].entries
        BY <1>5, <4>1
      <4> QED
        BY <1>5, <3>1, <4>2 DEF ToSet
    <3> QED
      BY <1>1, <1>6, <2>2, <3>1, <3>2 DEF PaidAt, RatifiedPayloads
  <2> QED
    BY <1>6, <2>1, <2>2
<1>14. \A s1, s2 \in ratified' : s1.index = s2.index => s1.content = s2.content
  BY <1>1 DEF XInv
<1>15. \A s \in ratified' : s.content \in Messages \cup Hashes
  BY <1>1 DEF XInv
<1> QED
  BY <1>2, <1>6, <1>8, <1>9, <1>10, <1>11, <1>12, <1>13, <1>14, <1>15 DEF XInv


------------------------------------------------------------------------------
(* The invariant and the theorems. *)

LEMMA RunPreserves ==
  ASSUME XInv, NEW e \in Executions,
         \/ \E index \in Indices : Collect(e, index)
         \/ FetchProposal(e) \/ FetchTransaction(e) \/ LoadRecord(e)
         \/ Withdraw(e) \/ WithdrawFails(e) \/ Finish(e) \/ Crash(e)
  PROVE  XInv'
<1>1. CASE \E index \in Indices : Collect(e, index)
  BY <1>1, CollectPreserves
<1>2. CASE FetchProposal(e)
  BY <1>2, FetchProposalPreserves
<1>3. CASE FetchTransaction(e)
  BY <1>3, FetchTransactionPreserves
<1>4. CASE LoadRecord(e)
  BY <1>4, LoadRecordPreserves
<1>5. CASE Withdraw(e)
  BY <1>5, WithdrawPreserves
<1>6. CASE WithdrawFails(e)
  BY <1>6, WithdrawFailsPreserves
<1>7. CASE Finish(e)
  <2>1. /\ Goes(e, "thrown") \/ Goes(e, "executed successfully")
        /\ UNCHANGED <<vars, unspent, payments, ratified>> /\ ~At(e, "start")
    BY <1>7 DEF Finish, At
  <2> QED
    BY <2>1, EndsPreserves
<1>8. CASE Crash(e)
  <2>1. /\ Goes(e, "thrown") /\ ~At(e, "start")
        /\ UNCHANGED <<vars, unspent, payments, ratified>>
    BY <1>8 DEF Crash, At
  <2> QED
    BY <2>1, EndsPreserves
<1> QED
  BY <1>1, <1>2, <1>3, <1>4, <1>5, <1>6, <1>7, <1>8

LEMMA NextXInv == XInv /\ [ExecutionNext]_<<vars, executionVars, ratified>> => XInv'
<1> SUFFICES ASSUME XInv, [ExecutionNext]_<<vars, executionVars, ratified>>
             PROVE  XInv'
  OBVIOUS
<1>1. CASE ChainStep
  BY <1>1, ChainStepPreserves
<1>2. CASE \E e \in Executions :
             \/ \E index \in Indices : Collect(e, index)
             \/ FetchProposal(e) \/ FetchTransaction(e) \/ LoadRecord(e)
             \/ Withdraw(e) \/ WithdrawFails(e) \/ Finish(e) \/ Crash(e)
  BY <1>2, RunPreserves
<1>3. CASE UNCHANGED <<vars, executionVars, ratified>>
  <2>1. /\ UNCHANGED <<now, multisig, proposal, transaction, lamports, payouts>>
        /\ UNCHANGED <<execution, unspent, payments, ratified>> /\ [Next]_vars
    BY <1>3 DEF vars, executionVars
  <2>2. IInv'
    BY <2>1, NextIInv DEF XInv
  <2>3. /\ \A r \in ratified' : RatifiedAt(r)'
        /\ \A i \in Indices : ApprovedAt(i)'
        /\ \A p \in ToSet(payments') : PaidAt(p)'
    BY <2>1 DEF XInv, RatifiedAt, ApprovedAt, PaidAt, Live, RatifiedPayloads
  <2>4. \A e \in Executions : RunAt(e)' /\ ReportedAt(e)'
    BY <2>1 DEF XInv, RunAt, ReportedAt, Authorized, RatifiedPayloads
  <2>5. \A r, s \in ratified' : r.index = s.index => r.content = s.content
    BY <2>1 DEF XInv
  <2> QED
    BY <2>1, <2>2, <2>3, <2>4, <2>5 DEF XInv
<1> QED
  BY <1>1, <1>2, <1>3 DEF ExecutionNext

LEMMA InitXInv == ExecutionInit => XInv
<1> SUFFICES ASSUME ExecutionInit
             PROVE  XInv
  OBVIOUS
<1>1. IInv
  BY InitIInv DEF ExecutionInit
<1>2. PICK r : r = [pc |-> "start", index |-> 0, type |-> Public, hash |-> ZeroHash,
                    entries |-> <<>>, results |-> {}, failures |-> {}]
  OBVIOUS
<1>3. execution = [e \in Executions |-> r]
  BY <1>2 DEF ExecutionInit
<1>4. r \in RunStates /\ r.pc = "start" /\ r.results = {} /\ r.failures = {}
  BY <1>2 DEF RunStates
<1>5. IsFiniteSet({})
  BY FS_EmptySet
<1>6. \A e \in Executions : RunAt(e) /\ ReportedAt(e)
  BY <1>3, <1>4, <1>5 DEF RunAt, ReportedAt
<1>7. \A i \in Indices : ~Live(i)
  BY DEF ExecutionInit, Init, Live
<1>8. ToSet(payments) = {} /\ payments \in Seq(PaymentSet) /\ ratified = {}
  BY DEF ExecutionInit, ToSet
<1> QED
  BY <1>1, <1>3, <1>4, <1>6, <1>7, <1>8 DEF XInv, ApprovedAt

(* The invariant of the executions and of the chain under them. *)
THEOREM ExecutionInvariance == ExecutionSpec => []XInv
<1>1. ExecutionInit => XInv
  BY InitXInv
<1>2. XInv /\ [ExecutionNext]_<<vars, executionVars, ratified>> => XInv'
  BY NextXInv
<1> QED
  BY <1>1, <1>2, PTL DEF ExecutionSpec

(* Nothing is paid but an entry of the payload the members approved. *)
THEOREM OnlyApprovedPaid == ExecutionSpec => []PaidAuthorized
<1>1. XInv => PaidAuthorized
  BY DEF XInv, PaidAt, PaidAuthorized
<1> QED
  BY <1>1, ExecutionInvariance, PTL

(* A result that is reported was paid, and is reported by one execution. *)
THEOREM ReportsArePaid == ExecutionSpec => []ReportedIsPaid
<1>1. XInv => ReportedIsPaid
  BY DEF XInv, ReportedAt, ReportedIsPaid
<1> QED
  BY <1>1, ExecutionInvariance, PTL


------------------------------------------------------------------------------
(* Type correctness. *)

(* Entries are results or failures in their order. *)
CountAt(e) ==
  /\ execution[e].results \cap execution[e].failures = {}
  /\ execution[e].results \cup execution[e].failures = 1..Next1(e) - 1
  /\ Next1(e) - 1 <= Len(execution[e].entries)

Commitments(paid) == { p.entry.commitment : p \in ToSet(paid) }

EInv ==
  /\ XInv
  /\ \A e \in Executions : CountAt(e)
  /\ unspent \subseteq Notes
  /\ Notes \ unspent = Commitments(payments)

(* Nothing is counted. *)
LEMMA CountFrame ==
  ASSUME NEW e \in Executions, CountAt(e),
         execution'[e].results = execution[e].results,
         execution'[e].failures = execution[e].failures,
         execution'[e].entries = execution[e].entries
  PROVE  CountAt(e)'
  BY DEF CountAt, Next1

(* Numbers of a counter. *)
LEMMA Interval ==
  ASSUME NEW n \in Nat \ {0}
  PROVE  (1..n - 1) \cup {n} = 1..n
  OBVIOUS

(* One more entry. *)
LEMMA CountsOne ==
  ASSUME EInv, XInv', NEW e \in Executions, Paying(e), Succeeds(e) \/ Fails(e)
  PROVE  \A f \in Executions : CountAt(f)'
<1>1. PICK n : n = Next1(e)
  OBVIOUS
<1>2. PICK R : R = execution[e].results
  OBVIOUS
<1>3. PICK F : F = execution[e].failures
  OBVIOUS
<1>4. /\ n \in Nat \ {0} /\ n <= Len(execution[e].entries)
      /\ execution[e].entries \in Seq(EntrySet)
      /\ IsFiniteSet(R) /\ IsFiniteSet(F) /\ n = Cardinality(R) + Cardinality(F) + 1
  BY <1>1, <1>2, <1>3, AtEntry DEF EInv, Authorized, RunAt, Next1
<1>5. R \cap F = {} /\ R \cup F = 1..n - 1
  BY <1>1, <1>2, <1>3 DEF EInv, CountAt
<1>6. n \notin R /\ n \notin F
  BY <1>4, <1>5
<1>7. /\ Cardinality(R \cup {n}) = Cardinality(R) + 1
      /\ Cardinality(F \cup {n}) = Cardinality(F) + 1
      /\ Cardinality(R) \in Nat /\ Cardinality(F) \in Nat
  BY <1>4, <1>6, FS_AddElement, FS_CardinalityType
<1>8. /\ \A f \in Executions \ {e} : execution'[f] = execution[f]
      /\ execution'[e].entries = execution[e].entries
      /\ \/ execution'[e].results = R \cup {n} /\ execution'[e].failures = F
         \/ execution'[e].results = R /\ execution'[e].failures = F \cup {n}
  <2>1. XInv /\ execution \in [Executions -> RunStates]
    BY DEF EInv, XInv
  <2>2. CASE Succeeds(e)
    <3>1. PICK r \in RunStates :
            /\ execution' = [execution EXCEPT ![e] = r]
            /\ r.entries = execution[e].entries /\ r.failures = execution[e].failures
            /\ r.results = execution[e].results \cup {Next1(e)}
      BY <2>1, <2>2, SucceedsState
    <3>2. execution'[e] = r /\ \A f \in Executions \ {e} : execution'[f] = execution[f]
      BY <2>1, <3>1
    <3> QED
      BY <1>1, <1>2, <1>3, <3>1, <3>2
  <2>3. CASE Fails(e)
    <3>1. PICK r \in RunStates :
            /\ execution' = [execution EXCEPT ![e] = r]
            /\ r.entries = execution[e].entries /\ r.results = execution[e].results
            /\ r.failures = execution[e].failures \cup {Next1(e)}
      BY <2>1, <2>3, FailsState
    <3>2. execution'[e] = r /\ \A f \in Executions \ {e} : execution'[f] = execution[f]
      BY <2>1, <3>1
    <3> QED
      BY <1>1, <1>2, <1>3, <3>1, <3>2
  <2> QED
    BY <2>2, <2>3
<1>9. CountAt(e)'
  <2>1. Next1(e)' = n + 1
    <3>1. PICK a \in Nat, b \in Nat : a = Cardinality(R) /\ b = Cardinality(F)
      BY <1>7
    <3>2. PICK i, j : i = Cardinality(execution'[e].results)
                      /\ j = Cardinality(execution'[e].failures)
      OBVIOUS
    <3>3. \/ i = a + 1 /\ j = b
          \/ i = a /\ j = b + 1
      BY <1>7, <1>8, <3>1, <3>2
    <3>4. Next1(e)' = i + j + 1
      BY <3>2 DEF Next1
    <3>5. n = a + b + 1
      BY <1>4, <3>1
    <3>6. i + j + 1 = n + 1
      BY <3>1, <3>3, <3>5
    <3> QED
      BY <3>4, <3>6
  <2>2. /\ execution'[e].results \cap execution'[e].failures = {}
        /\ execution'[e].results \cup execution'[e].failures = (R \cup F) \cup {n}
    BY <1>5, <1>6, <1>8
  <2>3. (R \cup F) \cup {n} = 1..n
    BY <1>4, <1>5, Interval
  <2>4. 1..n = 1..(n + 1) - 1 /\ (n + 1) - 1 <= Len(execution[e].entries)
    BY <1>4
  <2> QED
    BY <1>8, <2>1, <2>2, <2>3, <2>4 DEF CountAt
<1>10. \A f \in Executions \ {e} : CountAt(f)'
  BY <1>8, CountFrame DEF EInv
<1> QED
  BY <1>9, <1>10

LEMMA WithdrawCounted ==
  ASSUME EInv, XInv', NEW e \in Executions, Withdraw(e)
  PROVE  EInv'
<1>1. Paying(e) /\ Spends(e) /\ (Succeeds(e) \/ Fails(e))
  BY DEF Withdraw
<1>2. \A f \in Executions : CountAt(f)'
  BY <1>1, CountsOne
<1>3. PICK t : t = Entry(e)
  OBVIOUS
<1>4. /\ \A q \in ToSet(payments) : q \in ToSet(payments')
      /\ \A q \in ToSet(payments') :
           \/ q \in ToSet(payments)
           \/ q.index = execution[e].index /\ q.entry = t
      /\ \E q \in ToSet(payments') : q.index = execution[e].index /\ q.entry = t
      /\ unspent' = unspent \ {t.commitment}
      /\ t.commitment \in unspent
  BY <1>1, <1>3, Pays DEF EInv
<1>5. Commitments(payments') = Commitments(payments) \cup {t.commitment}
  BY <1>4 DEF Commitments
<1>6. unspent' \subseteq Notes /\ Notes \ unspent' = Commitments(payments')
  BY <1>4, <1>5 DEF EInv
<1> QED
  BY <1>2, <1>6 DEF EInv

(* The other steps of a run. *)
LEMMA RunCounted ==
  ASSUME EInv, XInv', NEW e \in Executions,
         \/ \E index \in Indices : Collect(e, index)
         \/ FetchProposal(e) \/ FetchTransaction(e) \/ LoadRecord(e)
         \/ WithdrawFails(e) \/ Finish(e) \/ Crash(e)
  PROVE  EInv'
<1>1. /\ UNCHANGED <<unspent, payments>> /\ execution \in [Executions -> RunStates]
  BY DEF Collect, FetchProposal, FetchTransaction, LoadRecord, WithdrawFails, Finish, Crash,
         EInv, XInv
<1>2. \A f \in Executions : CountAt(f)'
  <2>1. CASE WithdrawFails(e)
    BY <2>1, CountsOne DEF WithdrawFails
  <2>2. CASE LoadRecord(e)
    <3>1. CASE Goes(e, "thrown")
      BY <1>1, <3>1, CountFrame DEF Goes, EInv, RunStates
    <3>2. CASE ~Goes(e, "thrown")
      <4>1. PICK h \in HistoryRecords :
              execution' = [execution EXCEPT ![e].pc = "paying", ![e].entries = h.record.entries]
        BY <2>2, <3>2 DEF LoadRecord
      <4>2. execution[e].results = {} /\ execution[e].failures = {}
        BY <2>2 DEF LoadRecord, At, EInv, XInv, RunAt
      <4>3. /\ execution'[e].results = {} /\ execution'[e].failures = {}
            /\ execution'[e].entries = h.record.entries
            /\ \A f \in Executions \ {e} : execution'[f] = execution[f]
        BY <1>1, <4>1, <4>2 DEF RunStates
      <4>4. Len(h.record.entries) \in Nat
        BY HistoryAssumption
      <4>5. Next1(e)' = 1
        BY <4>3, FS_EmptySet DEF Next1
      <4>6. CountAt(e)'
        BY <4>3, <4>4, <4>5 DEF CountAt
      <4>7. \A f \in Executions \ {e} : CountAt(f)'
        BY <4>3, CountFrame DEF EInv
      <4> QED
        BY <4>6, <4>7
    <3> QED
      BY <3>1, <3>2
  <2>3. CASE ~WithdrawFails(e) /\ ~LoadRecord(e)
    <3> DEFINE Moves(r) == /\ execution' = [execution EXCEPT ![e] = r]
                           /\ r.entries = execution[e].entries
                           /\ r.results = execution[e].results
                           /\ r.failures = execution[e].failures
    <3> HIDE DEF Moves
    <3>1. execution[e] \in RunStates
      BY <1>1
    <3>2. ASSUME NEW pc, Goes(e, pc)
          PROVE  \E r : Moves(r)
      <4>1. Moves([execution[e] EXCEPT !.pc = pc])
        BY <3>1, <3>2 DEF Goes, RunStates, Moves
      <4> QED
        BY <4>1
    <3>3. ASSUME NEW index \in Indices,  Collect(e, index)
          PROVE  \E r : Moves(r)
      <4>1. Moves([execution[e] EXCEPT !.pc = "collected", !.index = index])
        BY <3>1, <3>3 DEF Collect, RunStates, Moves
      <4> QED
        BY <4>1
    <3>4. ASSUME FetchProposal(e)
          PROVE  \E r : Moves(r)
      <4>1. CASE Goes(e, "thrown")
        BY <3>2, <4>1
      <4>2. CASE ~Goes(e, "thrown")
        <5>1. PICK type : type = proposal[execution[e].index].proposal_type
          OBVIOUS
        <5>2. Moves([execution[e] EXCEPT !.pc = "fetched", !.type = type])
          BY <3>1, <3>4, <4>2, <5>1 DEF FetchProposal, RunStates, Moves
        <5> QED
          BY <5>2
      <4> QED
        BY <4>1, <4>2
    <3>5. ASSUME FetchTransaction(e)
          PROVE  \E r : Moves(r)
      <4>1. CASE Goes(e, "thrown")
        BY <3>2, <4>1
      <4>2. CASE ~Goes(e, "thrown")
        <5>1. PICK hash : hash = transaction[execution[e].index].content
          OBVIOUS
        <5>2. Moves([execution[e] EXCEPT !.pc = "hashed", !.hash = hash])
          BY <3>1, <3>5, <4>2, <5>1 DEF FetchTransaction, RunStates, Moves
        <5> QED
          BY <5>2
      <4> QED
        BY <4>1, <4>2
    <3>6. \E r : Moves(r)
      BY <2>3, <3>2, <3>3, <3>4, <3>5 DEF Finish, Crash
    <3>7. PICK r : Moves(r)
      BY <3>6
    <3>8. execution'[e] = r /\ \A f \in Executions \ {e} : execution'[f] = execution[f]
      BY <1>1, <3>7 DEF Moves
    <3> QED
      BY <3>7, <3>8, CountFrame DEF EInv, Moves
  <2> QED
    BY <2>1, <2>2, <2>3
<1> QED
  BY <1>1, <1>2 DEF EInv

LEMMA NextEInv == EInv /\ [ExecutionNext]_<<vars, executionVars, ratified>> => EInv'
<1> SUFFICES ASSUME EInv, [ExecutionNext]_<<vars, executionVars, ratified>>
             PROVE  EInv'
  OBVIOUS
<1>1. XInv'
  BY NextXInv DEF EInv
<1>2. CASE ChainStep \/ UNCHANGED <<vars, executionVars, ratified>>
  <2>1. UNCHANGED <<execution, unspent, payments>>
    BY <1>2 DEF ChainStep, executionVars
  <2> QED
    BY <1>1, <2>1, CountFrame DEF EInv
<1>3. ASSUME NEW e \in Executions,
             \/ \E index \in Indices : Collect(e, index)
             \/ FetchProposal(e) \/ FetchTransaction(e) \/ LoadRecord(e)
             \/ WithdrawFails(e) \/ Finish(e) \/ Crash(e)
      PROVE  EInv'
  BY <1>1, <1>3, RunCounted
<1>4. ASSUME NEW e \in Executions, Withdraw(e)
      PROVE  EInv'
  BY <1>1, <1>4, WithdrawCounted
<1> QED
  BY <1>2, <1>3, <1>4 DEF ExecutionNext

(* Every entry that was tried is a result or a failure, in order, and the spent
   notes are those that were paid from. *)
THEOREM ExecutionTyped == ExecutionSpec => []ExecutionTypeOK
<1>1. ExecutionInit => EInv
  <2>1. SUFFICES ASSUME ExecutionInit PROVE EInv
    OBVIOUS
  <2>2. ASSUME NEW e \in Executions PROVE CountAt(e)
    <3>1. /\ execution[e].results = {} /\ execution[e].failures = {}
          /\ execution[e].entries = <<>>
      BY <2>1 DEF ExecutionInit
    <3>2. Next1(e) = 1
      BY <3>1, FS_EmptySet DEF Next1
    <3> QED
      BY <3>1, <3>2 DEF CountAt
  <2>3. unspent = Notes /\ Commitments(payments) = {}
    BY <2>1 DEF ExecutionInit, Commitments, ToSet
  <2> QED
    BY <2>1, <2>2, <2>3, InitXInv DEF EInv
<1>2. EInv => ExecutionTypeOK
  BY DEF EInv, XInv, RunStates, CountAt, Commitments, ExecutionTypeOK
<1> QED
  BY <1>1, <1>2, NextEInv, PTL DEF ExecutionSpec

------------------------------------------------------------------------------
(***************************************************************************)
(* The executions implement PrivatePayments: initial states map to its     *)
(* initial state, a step of the chain that approves is a Grant, a payment  *)
(* is a Pay, and every other step changes nothing it knows of.             *)
(***************************************************************************)

(* Only the execution of an approval approves, and only the proposal it is about. *)
ApprovedNow(i) == Live(i) /\ proposal[i].status = Approved

LEMMA OneApproval ==
  ASSUME IInv, Next, NEW i \in Indices, NEW j \in Indices, i # j,
         ApprovedNow(i)', ~ApprovedNow(i)
  PROVE  ApprovedNow(j)' => ApprovedNow(j)
<1>1. proposal \in [Indices -> Proposals \cup {NoAccount}]
  BY DEF IInv, TypeOK
<1>2. CASE proposal' = proposal
  BY <1>2 DEF ApprovedNow, Live
<1>3. ASSUME NEW index \in Indices, NEW deadline \in Deadlines, NEW type, NEW content,
             OpenIndex(index, deadline, type, content)
      PROVE  FALSE
  <2>1. proposal' = [proposal EXCEPT ![index] = NewProposal(index, deadline, type)]
    BY <1>3 DEF OpenIndex
  <2>2. NewProposal(index, deadline, type).status = Active
    BY DEF NewProposal
  <2>3. proposal'[i] = IF i = index THEN NewProposal(index, deadline, type) ELSE proposal[i]
    BY <1>1, <2>1
  <2> QED
    BY <2>2, <2>3 DEF ApprovedNow, Live, Active, Approved
<1>4. ASSUME NEW key \in Keys, NEW index \in Indices, Approve(key, index)
      PROVE  ApprovedNow(j)' => ApprovedNow(j)
  <2>1. \A k \in Indices : k # index => proposal'[k] = proposal[k]
    BY <1>1, <1>4 DEF Approve
  <2>2. i = index
    BY <2>1 DEF ApprovedNow, Live
  <2> QED
    BY <2>1, <2>2 DEF ApprovedNow, Live
<1>5. ASSUME NEW key \in Keys, NEW index \in Indices, CanExecute(key, index),
             MarkExecuted(index)
      PROVE  FALSE
  <2>1. /\ proposal' = [proposal EXCEPT ![index].status = Executed, ![index].timestamp = now]
        /\ proposal[index] # NoAccount
    BY <1>5 DEF MarkExecuted, CanExecute
  <2>2. proposal[index] \in Proposals
    BY <1>1, <2>1
  <2>3. proposal'[index].status = Executed
    BY <1>1, <2>1, <2>2 DEF Proposals
  <2>4. \A k \in Indices : k # index => proposal'[k] = proposal[k]
    BY <1>1, <2>1
  <2> QED
    BY <2>3, <2>4 DEF ApprovedNow, Live, Approved, Executed
<1>6. ASSUME NEW index \in Indices, NEW collector \in RentCollectors, Close(index, collector)
      PROVE  FALSE
  <2>1. /\ proposal' = [proposal EXCEPT ![transaction[index].transaction_index] = NoAccount]
    BY <1>6 DEF Close
  <2>2. proposal'[i] = proposal[i] \/ proposal'[i] = NoAccount
    BY <1>1, <2>1
  <2> QED
    BY <2>2 DEF ApprovedNow, Live
<1> QED
  BY <1>2, <1>3, <1>4, <1>5, <1>6
  DEF Next, CreateMultisig, CreateProposal, CreatePrivateProposal, ExecutePublic,
      ExecuteTransfer, ExecuteHash, Deposit, Tick

(* A step of the chain grants one index its payload, or nothing. *)
LEMMA ChainRefines ==
  ASSUME XInv, XInv', ChainStep
  PROVE  [Payments!PNext]_Payments!paymentVars
<1>1. /\ execution' = execution /\ unspent' = unspent /\ payments' = payments
      /\ ratified' = ratified \cup { Ratified(i) : i \in { j \in Indices : ApprovedNow(j)' } }
  BY DEF ChainStep, executionVars, ApprovedNow, Live
<1>2. UNCHANGED <<unspent, PaidBar, ReportedBar>>
  BY <1>1 DEF PaidBar, ReportedBar, ReportsOf
<1>3. ASSUME NEW j \in Indices, ApprovedNow(j)'
      PROVE  /\ Ratified(j) \in ratified' /\ Ratified(j).index = j
             /\ \A r \in ratified : r.index = j =>
                  r.content = Ratified(j).content /\ GrantOf(r) = GrantOf(Ratified(j))
  <2>1. Ratified(j) \in ratified' /\ Ratified(j).index = j
    BY <1>1, <1>3 DEF Ratified
  <2>2. ASSUME NEW r \in ratified, r.index = j
        PROVE  r.content = Ratified(j).content
    <3>1. r \in ratified'
      BY <1>1
    <3> QED
      BY <2>1, <2>2, <3>1 DEF XInv
  <2> QED
    BY <2>1, <2>2 DEF GrantOf
<1>4. CASE \A j \in Indices : ApprovedNow(j)' => \E r \in ratified : r.index = j
  <2>1. GrantedBar' = GrantedBar
    <3>1. ASSUME NEW s \in RatifiedPayloads'
          PROVE  \E r \in RatifiedPayloads : GrantOf(s) = GrantOf(r)
      <4>1. CASE s \in ratified
        BY <4>1 DEF RatifiedPayloads
      <4>2. CASE s \notin ratified
        <5>1. PICK j \in Indices : ApprovedNow(j)' /\ s = Ratified(j)
          BY <1>1, <4>2 DEF RatifiedPayloads
        <5>2. PICK r \in ratified : r.index = j
          BY <1>4, <5>1
        <5>3. r.content = s.content /\ GrantOf(r) = GrantOf(s)
          BY <1>3, <5>1, <5>2
        <5>4. r \in RatifiedPayloads
          BY <5>3 DEF RatifiedPayloads
        <5> QED
          BY <5>3, <5>4
      <4> QED
        BY <4>1, <4>2
    <3>2. RatifiedPayloads \subseteq RatifiedPayloads'
      BY <1>1 DEF RatifiedPayloads
    <3> QED
      BY <3>1, <3>2 DEF GrantedBar
  <2> QED
    BY <1>2, <2>1 DEF Payments!paymentVars
<1>5. ASSUME NEW j \in Indices, ApprovedNow(j)', \A r \in ratified : r.index # j
      PROVE  [Payments!PNext]_Payments!paymentVars
  <2>1. PICK v : v = Ratified(j)
    OBVIOUS
  <2>2. v \in ratified' /\ v.index = j
    BY <1>3, <1>5, <2>1
  <2>3. ~ApprovedNow(j)
    BY <1>5 DEF XInv, ApprovedAt, ApprovedNow
  <2>4. ASSUME NEW s \in RatifiedPayloads'
        PROVE  s = v \/ \E r \in RatifiedPayloads : GrantOf(s) = GrantOf(r)
    <3>1. CASE s \in ratified
      BY <3>1 DEF RatifiedPayloads
    <3>2. CASE s \notin ratified
      <4>1. PICK i \in Indices : ApprovedNow(i)' /\ s = Ratified(i)
        BY <1>1, <3>2 DEF RatifiedPayloads
      <4>2. CASE i = j
        BY <2>1, <4>1, <4>2
      <4>3. CASE i # j
        <5>1. ApprovedNow(i)
          BY <1>5, <2>3, <4>1, <4>3, OneApproval DEF XInv, ChainStep
        <5>2. PICK r \in ratified : r.index = i
          BY <5>1 DEF XInv, ApprovedAt, ApprovedNow
        <5>3. r.content = s.content /\ GrantOf(r) = GrantOf(s)
          BY <1>3, <4>1, <5>2
        <5>4. r \in RatifiedPayloads
          BY <5>3 DEF RatifiedPayloads
        <5> QED
          BY <5>3, <5>4
      <4> QED
        BY <4>2, <4>3
    <3> QED
      BY <3>1, <3>2
  <2>5. RatifiedPayloads \subseteq RatifiedPayloads'
    BY <1>1 DEF RatifiedPayloads
  <2>6. CASE v.content \notin Hashes
    <3>1. v \notin RatifiedPayloads'
      BY <2>6 DEF RatifiedPayloads
    <3>2. GrantedBar' = GrantedBar
      BY <2>4, <2>5, <3>1 DEF GrantedBar, GrantOf
    <3> QED
      BY <1>2, <3>2 DEF Payments!paymentVars
  <2>7. CASE v.content \in Hashes
    <3>1. v \in RatifiedPayloads'
      BY <2>2, <2>7 DEF RatifiedPayloads
    <3>2. GrantedBar' = GrantedBar \cup {GrantOf(v)}
      BY <2>4, <2>5, <3>1 DEF GrantedBar, GrantOf
    <3>3. \A g \in GrantedBar : g.index # j
      BY <1>5 DEF GrantedBar, GrantOf, RatifiedPayloads
    <3>4. v.content.entries \in { h.entries : h \in Hashes }
      BY <2>7
    <3>5. GrantOf(v) = [index |-> j, entries |-> v.content.entries]
      BY <2>2 DEF GrantOf
    <3>6. Payments!Grant(j, v.content.entries)
      BY <1>2, <3>2, <3>3, <3>5 DEF Payments!Grant
    <3> QED
      BY <3>4, <3>6 DEF Payments!PNext
  <2> QED
    BY <2>6, <2>7
<1> QED
  BY <1>4, <1>5

(* A payment pays the entry of the grant that the run is at. *)
LEMMA WithdrawRefines ==
  ASSUME XInv, NEW e \in Executions, Withdraw(e)
  PROVE  Payments!PNext
<1>1. Paying(e) /\ Spends(e) /\ (Succeeds(e) \/ Fails(e)) /\ ratified' = ratified
  BY DEF Withdraw
<1>2. PICK n : n = Next1(e)
  OBVIOUS
<1>3. PICK i : i = execution[e].index
  OBVIOUS
<1>4. PICK r \in RatifiedPayloads : r.index = i /\ r.content.entries = execution[e].entries
  BY <1>1, <1>3, AtEntry DEF Authorized
<1>5. PICK g : g = GrantOf(r)
  OBVIOUS
<1>6. g \in GrantedBar /\ g.index = i /\ g.entries = execution[e].entries
  BY <1>4, <1>5 DEF GrantedBar, GrantOf
<1>7. n \in 1..Len(g.entries) /\ g.entries[n] = Entry(e)
  BY <1>1, <1>2, <1>6, AtEntry
<1>8. /\ g.entries[n].commitment \in unspent
      /\ unspent' = unspent \ {g.entries[n].commitment}
  BY <1>1, <1>7 DEF Spends
<1>9. PaidBar' = Append(PaidBar, [index |-> g.index, entry |-> g.entries[n]])
  <2>1. PICK p : p = [index |-> i, entry |-> g.entries[n], amount |-> Paid(e)]
    OBVIOUS
  <2>2. payments' = Append(payments, p) /\ payments \in Seq(PaymentSet)
    BY <1>1, <1>3, <1>7, <2>1 DEF Spends, XInv
  <2>3. /\ Len(payments) \in Nat /\ DOMAIN payments = 1..Len(payments)
        /\ DOMAIN payments' = 1..Len(payments) + 1
        /\ \A k \in 1..Len(payments) : payments'[k] = payments[k]
        /\ payments'[Len(payments) + 1] = p
    BY <2>2
  <2>4. /\ p.index = g.index /\ p.entry = g.entries[n]
    BY <1>6, <2>1
  <2>5. PICK q : q = [index |-> g.index, entry |-> g.entries[n]]
    OBVIOUS
  <2>6. PaidBar' = [k \in 1..Len(payments) + 1 |->
                      [index |-> payments'[k].index, entry |-> payments'[k].entry]]
    BY <2>3 DEF PaidBar
  <2>7. PaidBar = [k \in 1..Len(payments) |->
                     [index |-> payments[k].index, entry |-> payments[k].entry]]
    BY <2>3 DEF PaidBar
  <2>8. Len(PaidBar) = Len(payments)
    BY <2>3, <2>7
  <2>9. Append(PaidBar, q) = [k \in 1..Len(payments) + 1 |->
                                 IF k = Len(payments) + 1 THEN q ELSE PaidBar[k]]
    BY <2>3, <2>7, <2>8
  <2>10. PaidBar' = Append(PaidBar, q)
    <3>1. \A k \in 1..Len(payments) + 1 :
            [index |-> payments'[k].index, entry |-> payments'[k].entry] =
              IF k = Len(payments) + 1 THEN q ELSE PaidBar[k]
      <4>1. ASSUME NEW k \in 1..Len(payments)
            PROVE  /\ PaidBar[k] = [index |-> payments[k].index, entry |-> payments[k].entry]
                   /\ payments'[k] = payments[k] /\ k # Len(payments) + 1
        BY <2>3, <2>7
      <4>2. ASSUME NEW k, k = Len(payments) + 1
            PROVE  [index |-> payments'[k].index, entry |-> payments'[k].entry] = q
        BY <2>3, <2>4, <2>5, <4>2
      <4>3. ASSUME NEW k \in 1..Len(payments) + 1, k # Len(payments) + 1
            PROVE  k \in 1..Len(payments)
        BY <2>3, <4>3
      <4> QED
        BY <4>1, <4>2, <4>3
    <3> QED
      BY <2>6, <2>9, <3>1
  <2> QED
    BY <2>5, <2>10
<1>10. ReportedBar' \in {ReportedBar, ReportedBar \cup {<<g.index, n>>}}
  <2>1. CASE Fails(e)
    <3>1. PICK x \in RunStates :
            /\ execution' = [execution EXCEPT ![e] = x]
            /\ x.index = execution[e].index /\ x.results = execution[e].results
      BY <1>1, <2>1, FailsState
    <3>2. \A f \in Executions : /\ execution'[f].index = execution[f].index
                                /\ execution'[f].results = execution[f].results
      BY <3>1 DEF XInv
    <3>3. ReportedBar' = ReportedBar
      BY <3>2 DEF ReportedBar, ReportsOf
    <3> QED
      BY <3>3
  <2>2. CASE Succeeds(e)
    <3>1. PICK x \in RunStates :
            /\ execution' = [execution EXCEPT ![e] = x]
            /\ x.index = execution[e].index /\ x.results = execution[e].results \cup {n}
      BY <1>1, <1>2, <2>2, SucceedsState
    <3>2. /\ \A f \in Executions \ {e} : execution'[f] = execution[f]
          /\ execution'[e].index = i
          /\ execution'[e].results = execution[e].results \cup {n}
      BY <1>3, <3>1 DEF XInv
    <3>3. \A f \in Executions \ {e} : ReportsOf(f)' = ReportsOf(f)
      BY <3>2 DEF ReportsOf
    <3>4. ReportsOf(e)' = ReportsOf(e) \cup {<<i, n>>}
      BY <1>3, <3>2 DEF ReportsOf
    <3>5. ReportedBar' = ReportedBar \cup {<<i, n>>}
      BY <3>3, <3>4 DEF ReportedBar
    <3> QED
      BY <1>6, <3>5
  <2> QED
    BY <1>1, <2>1, <2>2
<1>11. GrantedBar' = GrantedBar
  BY <1>1 DEF GrantedBar, RatifiedPayloads
<1>12. Payments!Pay(g, n)
  BY <1>8, <1>9, <1>10, <1>11 DEF Payments!Pay
<1> QED
  BY <1>6, <1>7, <1>12 DEF Payments!PNext

(* What no payment happens in changes no result, and an index only before there
   are any. *)
LEMMA RunRefines ==
  ASSUME XInv, NEW e \in Executions,
         \/ \E index \in Indices : Collect(e, index)
         \/ FetchProposal(e) \/ FetchTransaction(e) \/ LoadRecord(e)
         \/ WithdrawFails(e) \/ Finish(e) \/ Crash(e)
  PROVE  UNCHANGED Payments!paymentVars
<1>1. UNCHANGED <<unspent, payments, ratified>>
  BY DEF Collect, FetchProposal, FetchTransaction, LoadRecord, WithdrawFails, Finish, Crash
<1>2. execution \in [Executions -> RunStates] /\ RunAt(e)
  BY DEF XInv
<1>3. \A f \in Executions \ {e} : execution'[f] = execution[f]
  BY <1>2 DEF Collect, FetchProposal, FetchTransaction, LoadRecord, WithdrawFails, Finish,
              Crash, Goes, Fails
<1>4. /\ execution'[e].results = execution[e].results
      /\ execution[e].results # {} => execution'[e].index = execution[e].index
  <2>1. ASSUME NEW index \in Indices, Collect(e, index)
        PROVE  execution'[e].results = execution[e].results /\ execution[e].results = {}
    <3>1. execution'[e] = [execution[e] EXCEPT !.pc = "collected", !.index = index]
      BY <1>2, <2>1 DEF Collect
    <3>2. execution[e] \in RunStates /\ execution[e].pc = "start"
      BY <1>2, <2>1 DEF Collect, At
    <3> QED
      BY <1>2, <3>1, <3>2 DEF RunAt, RunStates
  <2>2. ASSUME NEW pc, Goes(e, pc)
        PROVE  /\ execution'[e].results = execution[e].results
               /\ execution'[e].index = execution[e].index
    BY <1>2, <2>2 DEF Goes, RunStates
  <2>3. CASE FetchProposal(e)
    <3>1. CASE Goes(e, "thrown")
      BY <2>2, <3>1
    <3>2. CASE ~Goes(e, "thrown")
      <4>1. PICK x : execution' = [execution EXCEPT ![e].pc = "fetched", ![e].type = x]
        BY <2>3, <3>2 DEF FetchProposal
      <4> QED
        BY <1>2, <4>1 DEF RunStates
    <3> QED
      BY <3>1, <3>2
  <2>4. CASE FetchTransaction(e)
    <3>1. CASE Goes(e, "thrown")
      BY <2>2, <3>1
    <3>2. CASE ~Goes(e, "thrown")
      <4>1. PICK x : execution' = [execution EXCEPT ![e].pc = "hashed", ![e].hash = x]
        BY <2>4, <3>2 DEF FetchTransaction
      <4> QED
        BY <1>2, <4>1 DEF RunStates
    <3> QED
      BY <3>1, <3>2
  <2>5. CASE LoadRecord(e)
    <3>1. CASE Goes(e, "thrown")
      BY <2>2, <3>1
    <3>2. CASE ~Goes(e, "thrown")
      <4>1. PICK x : execution' = [execution EXCEPT ![e].pc = "paying", ![e].entries = x]
        BY <2>5, <3>2 DEF LoadRecord
      <4> QED
        BY <1>2, <4>1 DEF RunStates
    <3> QED
      BY <3>1, <3>2
  <2>6. CASE WithdrawFails(e)
    BY <1>2, <2>6 DEF WithdrawFails, Fails, RunStates
  <2>7. CASE Finish(e) \/ Crash(e)
    BY <2>2, <2>7 DEF Finish, Crash
  <2>8. CASE \E index \in Indices : Collect(e, index)
    BY <2>1, <2>8
  <2> QED
    BY <2>3, <2>4, <2>5, <2>6, <2>7, <2>8
<1>5. \A f \in Executions : ReportsOf(f)' = ReportsOf(f)
  BY <1>3, <1>4 DEF ReportsOf
<1>6. ReportedBar' = ReportedBar
  BY <1>5 DEF ReportedBar
<1>7. GrantedBar' = GrantedBar /\ PaidBar' = PaidBar /\ unspent' = unspent
  BY <1>1 DEF GrantedBar, RatifiedPayloads, PaidBar
<1> QED
  BY <1>6, <1>7 DEF Payments!paymentVars

LEMMA StartRefines ==
  ASSUME ExecutionInit
  PROVE  Payments!PInit
<1>1. /\ \A e \in Executions : execution[e].results = {}
      /\ unspent = Notes /\ payments = <<>> /\ ratified = {}
  BY DEF ExecutionInit
<1>2. GrantedBar = {} /\ ReportedBar = {}
  BY <1>1 DEF GrantedBar, RatifiedPayloads, ReportedBar, ReportsOf
<1>3. PaidBar = <<>>
  BY <1>1 DEF PaidBar
<1> QED
  BY <1>1, <1>2, <1>3 DEF Payments!PInit

(* Whatever the executions read when, lose or fail to hear, what is granted, paid
   and reported follows PrivatePayments. *)
THEOREM PaymentsRefined == ExecutionSpec => ImplementsPayments
<1>1. ExecutionInit => Payments!PInit
  BY StartRefines
<1>2. XInv /\ XInv' /\ [ExecutionNext]_<<vars, executionVars, ratified>>
        => [Payments!PNext]_Payments!paymentVars
  <2> SUFFICES ASSUME XInv, XInv',
                      [ExecutionNext]_<<vars, executionVars, ratified>>
               PROVE  [Payments!PNext]_Payments!paymentVars
    OBVIOUS
  <2>1. CASE ChainStep
    BY <2>1, ChainRefines
  <2>2. ASSUME NEW e \in Executions, Withdraw(e)
        PROVE  Payments!PNext
    BY <2>2, WithdrawRefines
  <2>3. ASSUME NEW e \in Executions,
               \/ \E index \in Indices : Collect(e, index)
               \/ FetchProposal(e) \/ FetchTransaction(e) \/ LoadRecord(e)
               \/ WithdrawFails(e) \/ Finish(e) \/ Crash(e)
        PROVE  UNCHANGED Payments!paymentVars
    BY <2>3, RunRefines
  <2>4. CASE UNCHANGED <<vars, executionVars, ratified>>
    BY <2>4 DEF executionVars, Payments!paymentVars, GrantedBar, RatifiedPayloads, PaidBar,
               ReportedBar, ReportsOf
  <2> QED
    BY <2>1, <2>2, <2>3, <2>4 DEF ExecutionNext
<1>3. ExecutionSpec => Payments!PSpec
  BY <1>1, <1>2, ExecutionInvariance, PTL DEF ExecutionSpec, Payments!PSpec
<1> QED
  BY <1>3 DEF ImplementsPayments
=============================================================================
