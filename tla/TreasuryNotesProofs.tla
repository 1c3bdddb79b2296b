--------------------------- MODULE TreasuryNotesProofs ---------------------------
(***************************************************************************)
(* Proofs about TreasuryNotes for any number of deposits and commands.     *)
(*                                                                         *)
(* The file is read, extended and written back by runs that do not know of *)
(* each other.  As long as they did not meet there, the run that has read  *)
(* the file last holds the records of all deposits that are done           *)
(* (Undisturbed); NInv says this of the file and of the runs in it.        *)
(***************************************************************************)
EXTENDS TreasuryNotes, MemberCommandsProofs

DepositSteps == {"unused", "start", "funded", "sent", "loaded", "writing", "done", "thrown"}

NotesOf(deposits) == { DepositedNote(d) : d \in deposits }

DepositStates == [pc : DepositSteps, records : SUBSET NotesOf(Deposits)]

(* Deposits that tell they are completed. *)
Finished == { d \in Deposits : DepositAt(d, "done") }

(* The run that created the account is the only create_multisig that landed. *)
FounderAt(c) ==
  Runs(c, "create_multisig") /\ Past(c) => multisig # NoAccount /\ Founder(c)

(* A run that has read the file and not yet written it. *)
InFile(d) == deposit[d].pc \in {"loaded", "writing"}

(* Records are those of finished deposits, *)
FileAt == notesFile # Torn => notesFile \subseteq NotesOf(Finished)

HeldAt(d) == InFile(d) => deposit[d].records \subseteq NotesOf(Finished)

(* and of all of them, while no two runs have met in the file. *)
Undisturbed ==
  ~disturbed =>
    /\ notesFile = Torn => \E d \in Deposits : DepositAt(d, "writing")
    /\ notesFile # Torn => NotesOf(Finished) \subseteq notesFile
    /\ \A d \in Deposits : InFile(d) => NotesOf(Finished) \subseteq deposit[d].records
    /\ \A d, e \in Deposits : InFile(d) /\ InFile(e) => d = e

(* A note that is no change is that of its deposit. *)
NoteOf(n) == n.change \/ (n.by \in Deposits /\ n = DepositedNote(n.by))

NInv ==
  /\ CInv
  /\ \A c \in Commands : FounderAt(c)
  /\ deposit \in [Deposits -> DepositStates]
  /\ \A n \in notes : NoteOf(n)
  /\ FileAt
  /\ \A d \in Deposits : HeldAt(d)
  /\ Undisturbed

------------------------------------------------------------------------------
(* The commands. *)

(* A record tells whose it is. *)
LEMMA RecordBy ==
  ASSUME NEW d \in Deposits
  PROVE  DepositedNote(d).by = d /\ DepositedNote(d).change = FALSE
         /\ DepositedNote(d).owner = TreasuryId(d) /\ DepositedNote(d) \in NotesOf(Deposits)
  BY DEF DepositedNote, NotesOf

LEMMA OnlyFounder ==
  ASSUME CInv, CommandsNext, NEW c \in Commands, FounderAt(c)
  PROVE  FounderAt(c)'
<1> SUFFICES ASSUME Runs(c, "create_multisig"), Past(c)'
             PROVE  multisig' # NoAccount /\ Founder(c)'
  BY DEF FounderAt, Runs
<1>1. [Next]_vars /\ IInv'
  BY StepIsChainStep, NextIInv DEF CInv
<1>2. CASE Past(c)
  <2>1. multisig # NoAccount /\ Founder(c)
    BY <1>2 DEF FounderAt
  <2>2. /\ multisig' # NoAccount
        /\ multisig'.members = multisig.members
        /\ multisig'.threshold = multisig.threshold
        /\ multisig'.shares = multisig.shares
    BY <1>1, <2>1, ChainFrame
  <2>3. treasury' = treasury
    BY <2>1 DEF CommandsNext, ChainStep, commandVars, BuildMultisig, ReadIndex, ReadProposal,
       ReadTransaction, ReadStatus, BuildDeposit, LandMultisig, CreateMultisig, LandProposal,
       LandApproval, LandExecution, LandDeposit, Throw, Confirm, Tell
  <2> QED
    BY <2>1, <2>2, <2>3 DEF Founder
<1>3. CASE ~Past(c)
  <2>1. LandMultisig(c)
    <3>1. client' # client
      BY <1>3 DEF Past
    <3>2. PICK d \in Commands :
            \/ BuildMultisig(d) \/ ReadIndex(d) \/ ReadProposal(d)
            \/ ReadTransaction(d) \/ ReadStatus(d) \/ BuildDeposit(d)
            \/ LandMultisig(d) \/ LandProposal(d) \/ LandApproval(d)
            \/ LandExecution(d) \/ LandDeposit(d)
            \/ Throw(d) \/ Confirm(d) \/ Tell(d)
      BY <3>1 DEF CommandsNext, ChainStep, commandVars
    <3>3. d = c
      <4>1. SUFFICES ASSUME d # c PROVE client'[c] = client[c]
        BY <1>3 DEF Past
      <4> QED
        BY <3>2, <4>1 DEF BuildMultisig, ReadIndex, ReadProposal, ReadTransaction, ReadStatus,
           BuildDeposit, LandMultisig, LandProposal, LandApproval, LandExecution, LandDeposit,
           Throw, Confirm, Tell, Lands, Goes, CInv
    <3>4. ~(BuildMultisig(c) \/ ReadIndex(c) \/ ReadProposal(c) \/ ReadTransaction(c)
            \/ ReadStatus(c) \/ BuildDeposit(c))
      <4>1. SUFFICES ASSUME \/ BuildMultisig(c) \/ ReadIndex(c) \/ ReadProposal(c)
                            \/ ReadTransaction(c) \/ ReadStatus(c) \/ BuildDeposit(c)
                     PROVE  client'[c].pc \in {"built", "thrown", "read", "skipped"}
        BY DEF Past
      <4> QED
        BY <4>1 DEF BuildMultisig, ReadIndex, ReadProposal, ReadTransaction, ReadStatus,
           BuildDeposit, Goes, CInv, ClientStates
    <3>5. ~(Throw(c) \/ Confirm(c) \/ Tell(c))
      BY <1>3 DEF Throw, Confirm, Tell, At, Past, Runs, Goes, CInv, ClientStates
    <3> QED
      BY <3>2, <3>3, <3>4, <3>5 DEF LandProposal, LandApproval, LandExecution, LandDeposit, Runs
  <2>2. KindAt(c) /\ Underway(c)
    BY <2>1 DEF LandMultisig, Sent, Underway, CInv
  <2>3. CreateMultisig(Arguments[c].threshold, Arguments[c].signer, Arguments[c].members,
                       client[c].shares)
    BY <2>1 DEF LandMultisig
  <2>4. /\ multisig'.members = Arguments[c].members
        /\ multisig'.threshold = Arguments[c].threshold
        /\ multisig'.shares = client[c].shares
        /\ treasury' = LittleEndian(PublicKeyOf[Arguments[c].secret])
    BY <2>1, <2>3 DEF LandMultisig, CreateMultisig
  <2>5. multisig' # NoAccount
    <3>1. /\ Arguments[c].signer \in RentCollectors /\ Arguments[c].members \in MemberLists
          /\ Arguments[c].threshold \in Thresholds /\ client[c].shares \in ShareLists
      BY <2>1, ArgumentsAssumption DEF LandMultisig
    <3>2. multisig' \in Multisigs
      BY <2>3, <3>1, BoundsAssumption DEF CreateMultisig, Multisigs
    <3> QED
      BY <3>2, KeysAssumption
  <2> QED
    BY <2>2, <2>4, <2>5 DEF Founder, KindAt, SharesOf, Runs
<1> QED
  BY <1>2, <1>3


LEMMA CommandsPreserve ==
  ASSUME NInv, CommandsNext, UNCHANGED noteVars
  PROVE  NInv'
<1>1. CInv'
  BY NextCInv DEF NInv
<1>2. \A c \in Commands : FounderAt(c)'
  BY OnlyFounder DEF NInv
<1>3. /\ deposit' = deposit /\ notes' = notes /\ notesFile' = notesFile
      /\ disturbed' = disturbed /\ Finished' = Finished
  BY DEF noteVars, Finished, DepositAt
<1> QED
  BY <1>1, <1>2, <1>3
  DEF NInv, NoteOf, FileAt, HeldAt, InFile, Undisturbed, DepositAt

------------------------------------------------------------------------------
(* The deposits. *)

(* A deposit moves, next to the chain and the commands. *)
LEMMA DepositMoves ==
  ASSUME NInv, UNCHANGED <<vars, commandVars>>, NEW d \in Deposits, NEW r \in DepositStates,
         deposit' = [deposit EXCEPT ![d] = r], ~DepositAt(d, "done"),
         \A n \in notes' : NoteOf(n)
  PROVE  /\ CInv' /\ \A c \in Commands : FounderAt(c)'
         /\ deposit' \in [Deposits -> DepositStates] /\ deposit'[d] = r
         /\ \A e \in Deposits \ {d} : deposit'[e] = deposit[e]
         /\ \A n \in notes' : NoteOf(n)'
         /\ r.pc # "done" => Finished' = Finished
         /\ r.pc = "done" => Finished' = Finished \cup {d}
<1>1. CInv'
  BY NextCInv DEF NInv
<1>2. UNCHANGED <<multisig, client, treasury>>
  BY DEF vars, commandVars
<1>3. \A c \in Commands : FounderAt(c)'
  BY <1>2 DEF NInv, FounderAt, Founder, Past
<1>4. /\ deposit' \in [Deposits -> DepositStates] /\ deposit'[d] = r
      /\ \A e \in Deposits \ {d} : deposit'[e] = deposit[e]
  BY DEF NInv
<1>5. \A n \in notes' : NoteOf(n)'
  BY DEF NoteOf
<1>6. \A e \in Deposits :
        e \in Finished' <=> (IF e = d THEN r.pc = "done" ELSE e \in Finished)
  BY <1>4 DEF Finished, DepositAt
<1>7. d \notin Finished /\ Finished' \subseteq Deposits /\ Finished \subseteq Deposits
  BY DEF Finished
<1> QED
  BY <1>1, <1>3, <1>4, <1>5, <1>6, <1>7

(* A deposit moves outside of the file. *)
LEMMA OutsideFile ==
  ASSUME NInv, UNCHANGED <<vars, commandVars, notesFile>>, NEW d \in Deposits,
         NEW pc \in DepositSteps \ {"loaded", "writing", "done"}, DepositGoes(d, pc),
         ~DepositAt(d, "done"), DepositAt(d, "writing") => disturbed',
         disturbed => disturbed', \A n \in notes' : NoteOf(n)
  PROVE  NInv'
<1> DEFINE r == [deposit[d] EXCEPT !.pc = pc]
<1>1. deposit' = [deposit EXCEPT ![d] = r] /\ r.pc = pc /\ r \in DepositStates
  BY DEF DepositGoes, NInv, DepositStates
<1> HIDE DEF r
<1>2. /\ CInv' /\ \A c \in Commands : FounderAt(c)'
      /\ deposit' \in [Deposits -> DepositStates] /\ deposit'[d] = r
      /\ \A e \in Deposits \ {d} : deposit'[e] = deposit[e]
      /\ \A n \in notes' : NoteOf(n)'
      /\ Finished' = Finished
  BY <1>1, DepositMoves
<1>3. \A e \in Deposits : InFile(e)' => InFile(e) /\ e # d
  BY <1>1, <1>2 DEF InFile
<1>4. FileAt' /\ \A e \in Deposits : HeldAt(e)'
  BY <1>2, <1>3 DEF NInv, FileAt, HeldAt
<1>5. Undisturbed'
  BY <1>2, <1>3 DEF NInv, Undisturbed, DepositAt
<1> QED
  BY <1>2, <1>4, <1>5 DEF NInv

LEMMA ReadNotesPreserves ==
  ASSUME NInv, NEW d \in Deposits, ReadNotes(d)
  PROVE  NInv'
<1>1. /\ UNCHANGED <<vars, commandVars, notes, notesFile>> /\ DepositAt(d, "sent")
      /\ disturbed' = (disturbed \/ Others(d, {"loaded", "writing"}))
      /\ \A n \in notes' : NoteOf(n)
  BY DEF ReadNotes, NInv
<1>2. CASE DepositGoes(d, "thrown")
  BY <1>1, <1>2, OutsideFile DEF DepositAt, DepositSteps
<1>3. CASE ~DepositGoes(d, "thrown")
  <2>1. PICK records :
          /\ deposit' = [deposit EXCEPT ![d].pc = "loaded", ![d].records = records]
          /\ records = IF notesFile = Torn THEN {} ELSE notesFile
    BY <1>3 DEF ReadNotes
  <2>2. records \subseteq NotesOf(Finished) /\ NotesOf(Finished) \subseteq NotesOf(Deposits)
    BY <2>1 DEF NInv, FileAt, NotesOf, Finished
  <2>3. PICK r : r = [deposit[d] EXCEPT !.pc = "loaded", !.records = records]
    OBVIOUS
  <2>4. /\ deposit' = [deposit EXCEPT ![d] = r] /\ r.pc = "loaded" /\ r.records = records
        /\ r \in DepositStates
    BY <2>1, <2>2, <2>3 DEF NInv, DepositStates, DepositSteps
  <2>5. /\ CInv' /\ \A c \in Commands : FounderAt(c)'
        /\ deposit' \in [Deposits -> DepositStates] /\ deposit'[d] = r
        /\ \A e \in Deposits \ {d} : deposit'[e] = deposit[e]
        /\ \A n \in notes' : NoteOf(n)'
        /\ Finished' = Finished
    BY <1>1, <2>4, DepositMoves DEF DepositAt
  <2>6. FileAt' /\ \A e \in Deposits : HeldAt(e)'
    BY <1>1, <2>2, <2>4, <2>5 DEF NInv, FileAt, HeldAt, InFile
  <2>7. Undisturbed'
    <3>1. SUFFICES ASSUME ~disturbed, \A e \in Deposits \ {d} : ~InFile(e)
                   PROVE  Undisturbed'
      BY <1>1 DEF Undisturbed, Others, InFile
    <3>2. notesFile # Torn /\ NotesOf(Finished) \subseteq notesFile
      BY <1>1, <3>1 DEF NInv, Undisturbed, InFile, DepositAt
    <3>3. \A e \in Deposits : InFile(e)' => e = d
      BY <2>5, <3>1 DEF InFile
    <3> QED
      BY <1>1, <2>1, <2>4, <2>5, <3>2, <3>3 DEF Undisturbed
  <2> QED
    BY <2>5, <2>6, <2>7 DEF NInv
<1> QED
  BY <1>2, <1>3

LEMMA TruncateNotesPreserves ==
  ASSUME NInv, NEW d \in Deposits, TruncateNotes(d)
  PROVE  NInv'
<1>1. /\ UNCHANGED <<vars, commandVars>> /\ DepositAt(d, "loaded") /\ DepositGoes(d, "writing")
      /\ notesFile' = Torn /\ disturbed' = disturbed
      /\ \A n \in notes' : NoteOf(n)
  BY DEF TruncateNotes, NInv
<1>2. PICK r : r = [deposit[d] EXCEPT !.pc = "writing"]
  OBVIOUS
<1>3. /\ deposit' = [deposit EXCEPT ![d] = r] /\ r.pc = "writing"
      /\ r.records = deposit[d].records /\ r \in DepositStates
  BY <1>1, <1>2 DEF DepositGoes, NInv, DepositStates, DepositSteps
<1>4. /\ CInv' /\ \A c \in Commands : FounderAt(c)'
      /\ deposit' \in [Deposits -> DepositStates] /\ deposit'[d] = r
      /\ \A e \in Deposits \ {d} : deposit'[e] = deposit[e]
      /\ \A n \in notes' : NoteOf(n)'
      /\ Finished' = Finished
  BY <1>1, <1>3, DepositMoves DEF DepositAt
<1>5. \A e \in Deposits :
        (InFile(e)' <=> InFile(e)) /\ (InFile(e) => deposit'[e].records = deposit[e].records)
  BY <1>1, <1>3, <1>4 DEF InFile, DepositAt
<1>6. FileAt' /\ \A e \in Deposits : HeldAt(e)'
  BY <1>1, <1>4, <1>5 DEF NInv, FileAt, HeldAt
<1>7. Undisturbed'
  BY <1>1, <1>3, <1>4, <1>5 DEF NInv, Undisturbed, DepositAt
<1> QED
  BY <1>4, <1>6, <1>7 DEF NInv

LEMMA WriteNotesPreserves ==
  ASSUME NInv, NEW d \in Deposits, WriteNotes(d)
  PROVE  NInv'
<1>1. /\ UNCHANGED <<vars, commandVars>> /\ DepositAt(d, "writing") /\ DepositGoes(d, "done")
      /\ notesFile' = deposit[d].records \cup {DepositedNote(d)} /\ disturbed' = disturbed
      /\ \A n \in notes' : NoteOf(n)
  BY DEF WriteNotes, NInv
<1>2. PICK r : r = [deposit[d] EXCEPT !.pc = "done"]
  OBVIOUS
<1>3. deposit' = [deposit EXCEPT ![d] = r] /\ r.pc = "done" /\ r \in DepositStates
  BY <1>1, <1>2 DEF DepositGoes, NInv, DepositStates, DepositSteps
<1>4. /\ CInv' /\ \A c \in Commands : FounderAt(c)'
      /\ deposit' \in [Deposits -> DepositStates] /\ deposit'[d] = r
      /\ \A e \in Deposits \ {d} : deposit'[e] = deposit[e]
      /\ \A n \in notes' : NoteOf(n)'
      /\ Finished' = Finished \cup {d}
  BY <1>1, <1>3, DepositMoves DEF DepositAt
<1>5. NotesOf(Finished') = NotesOf(Finished) \cup {DepositedNote(d)}
  BY <1>4 DEF NotesOf
<1>6. \A e \in Deposits :
        InFile(e)' => e # d /\ InFile(e) /\ deposit'[e] = deposit[e]
  BY <1>3, <1>4 DEF InFile
<1>7. FileAt' /\ \A e \in Deposits : HeldAt(e)'
  <2>1. InFile(d) /\ HeldAt(d)
    BY <1>1 DEF InFile, DepositAt, NInv
  <2>2. FileAt'
    BY <1>1, <1>5, <2>1 DEF FileAt, HeldAt
  <2>3. \A e \in Deposits : HeldAt(e)'
    BY <1>5, <1>6 DEF NInv, HeldAt
  <2> QED
    BY <2>2, <2>3
<1>8. notesFile' # Torn
  <2>1. deposit[d].records \cup {DepositedNote(d)} \in SUBSET { DepositedNote(e) : e \in Deposits }
    BY DEF NInv, DepositStates, NotesOf
  <2> QED
    BY <1>1, <2>1, DepositsAssumption
<1>9. Undisturbed'
  <2>1. SUFFICES ASSUME ~disturbed
                 PROVE  Undisturbed'
    BY <1>1 DEF Undisturbed
  <2>2. /\ NotesOf(Finished) \subseteq deposit[d].records
        /\ \A e \in Deposits : InFile(e) => e = d
    BY <1>1, <2>1 DEF NInv, Undisturbed, InFile, DepositAt
  <2>3. \A e \in Deposits : ~InFile(e)'
    BY <1>6, <2>2
  <2> QED
    BY <1>1, <1>5, <1>8, <2>2, <2>3 DEF Undisturbed
<1> QED
  BY <1>4, <1>7, <1>9 DEF NInv

(* A note that a deposit has made is its own. *)
LEMMA OtherDepositSteps ==
  ASSUME NInv, NEW d \in Deposits, CloakDeposit(d) \/ Transact(d) \/ Interrupted(d)
  PROVE  NInv'
<1>1. NoteOf(DepositedNote(d))
  BY RecordBy DEF NoteOf
<1>2. CASE CloakDeposit(d)
  BY <1>2, OutsideFile DEF CloakDeposit, NInv, DepositAt, DepositSteps
<1>3. CASE Transact(d)
  <2>1. /\ UNCHANGED <<vars, commandVars, notesFile>> /\ disturbed' = disturbed
        /\ DepositAt(d, "funded") /\ notes' \subseteq notes \cup {DepositedNote(d)}
        /\ DepositGoes(d, "sent") \/ DepositGoes(d, "thrown")
    BY <1>3 DEF Transact
  <2>2. \A n \in notes' : NoteOf(n)
    BY <1>1, <2>1 DEF NInv
  <2> QED
    BY <2>1, <2>2, OutsideFile DEF DepositAt, DepositSteps
<1>4. CASE Interrupted(d)
  BY <1>4, OutsideFile DEF Interrupted, NInv, DepositAt, DepositSteps
<1> QED
  BY <1>2, <1>3, <1>4

------------------------------------------------------------------------------
(* The executor. *)

LEMMA SpendRecordedPreserves ==
  ASSUME NInv, NEW note \in notes, NEW S \in SUBSET MemberSet, SpendRecorded(note, S)
  PROVE  NInv'
<1>1. /\ UNCHANGED <<vars, commandVars, deposit, notesFile, disturbed>>
      /\ note \in notesFile /\ notesFile # Torn
      /\ notes' \subseteq notes \cup {ChangeOf(note)}
  BY DEF SpendRecorded
<1>2. CInv'
  BY <1>1, NextCInv DEF NInv
<1>3. UNCHANGED <<multisig, client, treasury>> /\ Finished' = Finished
  BY <1>1 DEF vars, commandVars, Finished, DepositAt
<1>4. \A c \in Commands : FounderAt(c)'
  BY <1>3 DEF NInv, FounderAt, Founder, Past
<1>5. NoteOf(ChangeOf(note))
  <2>1. PICK d \in Deposits : note = DepositedNote(d)
    BY <1>1 DEF NInv, FileAt, NotesOf, Finished
  <2>2. ChangeOf(note).change = TRUE
    BY <2>1 DEF ChangeOf, DepositedNote
  <2> QED
    BY <2>2 DEF NoteOf
<1>6. \A n \in notes' : NoteOf(n)'
  BY <1>1, <1>5 DEF NInv, NoteOf
<1>7. FileAt' /\ Undisturbed' /\ \A d \in Deposits : HeldAt(d)'
  BY <1>1, <1>3 DEF NInv, FileAt, HeldAt, Undisturbed, InFile, DepositAt
<1> QED
  BY <1>1, <1>2, <1>4, <1>6, <1>7 DEF NInv

------------------------------------------------------------------------------
(* The invariant and the theorems. *)

LEMMA InitNInv ==
  ASSUME NEW w, NotesInit(w)
  PROVE  NInv
<1>1. CInv
  BY InitCInv DEF NotesInit
<1>2. \A c \in Commands : FounderAt(c)
  BY DEF NotesInit, CommandsInit, FounderAt, Past
<1>3. \A d \in Deposits : deposit[d].pc \in {"start", "unused"}
  BY DEF NotesInit
<1>4. deposit \in [Deposits -> DepositStates]
  BY DEF NotesInit, DepositStates, DepositSteps
<1>5. Finished = {} /\ \A d \in Deposits : ~InFile(d)
  BY <1>3 DEF Finished, DepositAt, InFile
<1>6. notesFile = {} /\ notes = {} /\ NotesOf({}) = {}
  BY DEF NotesInit, NotesOf
<1>7. notesFile # Torn
  BY <1>6, DepositsAssumption
<1> QED
  BY <1>1, <1>2, <1>4, <1>5, <1>6, <1>7 DEF NInv, FileAt, HeldAt, Undisturbed

LEMMA NextNInv == NInv /\ [NotesNext]_<<vars, commandVars, noteVars>> => NInv'
<1> SUFFICES ASSUME NInv, [NotesNext]_<<vars, commandVars, noteVars>>
             PROVE  NInv'
  OBVIOUS
<1>1. CASE CommandsNext /\ UNCHANGED noteVars
  BY <1>1, CommandsPreserve
<1>2. ASSUME NEW d \in Deposits,
             \/ CloakDeposit(d) \/ Transact(d) \/ Interrupted(d)
             \/ ReadNotes(d) \/ TruncateNotes(d) \/ WriteNotes(d)
      PROVE  NInv'
  BY <1>2, OtherDepositSteps, ReadNotesPreserves, TruncateNotesPreserves, WriteNotesPreserves
<1>3. ASSUME NEW note \in notes, NEW S \in SUBSET MemberSet, SpendRecorded(note, S)
      PROVE  NInv'
  BY <1>3, SpendRecordedPreserves
<1>4. CASE UNCHANGED <<vars, commandVars, noteVars>>
  <2>1. CInv'
    BY <1>4, NextCInv DEF NInv
  <2>2. /\ UNCHANGED <<multisig, client, treasury>>
        /\ UNCHANGED <<deposit, notes, notesFile, disturbed>> /\ Finished' = Finished
    BY <1>4 DEF vars, commandVars, noteVars, Finished, DepositAt
  <2>3. \A c \in Commands : FounderAt(c)'
    BY <2>2 DEF NInv, FounderAt, Founder, Past
  <2> QED
    BY <2>1, <2>2, <2>3
    DEF NInv, NoteOf, FileAt, HeldAt, Undisturbed, InFile, DepositAt
<1> QED
  BY <1>1, <1>2, <1>3, <1>4 DEF NotesNext

(* The inductive invariant of deposits, notes and file. *)
THEOREM NotesInvariance == NotesSpec => []NInv
<1>1. (\E w \in Workloads : NotesInit(w)) => NInv
  BY InitNInv
<1> QED
  BY <1>1, NextNInv, PTL DEF NotesSpec

(* Records are those of deposits that came to their end, and the file is torn only
   by a run that writes or was interrupted. *)
THEOREM NotesTyped == NotesSpec => []NotesTypeOK
<1>1. ASSUME NInv PROVE NotesTypeOK
  <2>1. \A d \in Deposits : deposit[d].pc \in DepositSteps
    BY <1>1 DEF NInv, DepositStates
  <2>2. ASSUME notesFile # Torn, NEW r \in notesFile
        PROVE  DepositAt(r.by, "done")
    <3>1. PICK d \in Finished : r = DepositedNote(d)
      BY <1>1, <2>2 DEF NInv, FileAt, NotesOf
    <3> QED
      BY <3>1, RecordBy DEF Finished
  <2> QED
    BY <1>1, <2>1, <2>2 DEF NInv, Undisturbed, NotesTypeOK, DepositSteps
<1> QED
  BY <1>1, NotesInvariance, PTL

(* Only a meeting in the file, or a death in a write, makes a finished deposit
   unfindable. *)
THEOREM Explained == NotesSpec => []UnrecordedExplained
<1>1. ASSUME NInv PROVE UnrecordedExplained
  <2>1. SUFFICES ASSUME ~disturbed, notesFile # Torn, NEW n \in notes,
                        ~n.change, DepositAt(n.by, "done")
                 PROVE  n \in notesFile
    BY DEF UnrecordedExplained
  <2>2. n.by \in Deposits /\ n = DepositedNote(n.by)
    BY <1>1, <2>1 DEF NInv, NoteOf
  <2>3. n.by \in Finished
    BY <2>1, <2>2 DEF Finished
  <2> QED
    BY <1>1, <2>1, <2>2, <2>3 DEF NInv, Undisturbed, NotesOf
<1> QED
  BY <1>1, NotesInvariance, PTL

(* A note made for the key of the run that created the account is spendable by any
   threshold of the members and by no fewer. *)
THEOREM Spendable == NotesSpec => []RecordedSpendable
<1>1. ASSUME NInv PROVE RecordedSpendable
  <2> SUFFICES ASSUME notesFile # Torn, multisig # NoAccount, NEW r \in notesFile,
                      ~TypedAs[r.by].hexadecimal,
                      client[TypedAs[r.by].printedBy].pc \in {"landed", "unanswered"},
                      NEW S \in SUBSET MemberSet
               PROVE  (\E key \in Secrets :
                         Reconstruct(multisig.shares, S) = key /\ PublicKeyOf[key] = r.owner)
                        <=> Cardinality(S) >= multisig.threshold
    BY DEF RecordedSpendable
  <2>1. PICK d \in Deposits : r = DepositedNote(d)
    BY <1>1 DEF NInv, FileAt, NotesOf, Finished
  <2> DEFINE c == TypedAs[d].printedBy
             secret == Arguments[c].secret
             members == Arguments[c].members
             threshold == Arguments[c].threshold
  <2>2. r.by = d /\ r.owner = TreasuryId(d)
    BY <2>1, RecordBy
  <2>3. c \in Commands /\ Runs(c, "create_multisig") /\ Past(c)
    BY <2>2, DepositsAssumption DEF Past
  <2>4. Founder(c)
    BY <1>1, <2>3 DEF NInv, FounderAt
  <2>5. secret \in Secrets /\ members \in Seq(Keys)
    BY <2>3, ArgumentsAssumption, KeysAssumption
  <2>6. r.owner = PublicKeyOf[secret]
    BY <2>2 DEF TreasuryId, ParseBigInt
  <2>7. /\ CanSplit(Len(members), threshold)
        /\ multisig.members = members /\ multisig.threshold = threshold
        /\ multisig.shares = SharesOfKey(secret, members, threshold)
    BY <2>4 DEF Founder, SharesOf
  <2>8. S \in SUBSET MembersOf(members)
    BY <2>7 DEF MemberSet, MembersOf
  <2> HIDE DEF c, secret, members, threshold
  <2>9. Reconstruct(multisig.shares, S) =
          IF Cardinality(S) >= multisig.threshold THEN secret ELSE NoKey
    BY <2>5, <2>7, <2>8, ThresholdReconstructs
  <2>10. NoKey \notin Secrets
    BY SecretsAssumption DEF NoKey
  <2> QED
    BY <2>5, <2>6, <2>9, <2>10
<1> QED
  BY <1>1, NotesInvariance, PTL
=============================================================================
