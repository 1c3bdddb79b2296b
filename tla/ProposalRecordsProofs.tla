-------------------------- MODULE ProposalRecordsProofs --------------------------
(***************************************************************************)
(* Proofs about ProposalRecords for any number of commands and proposals.  *)
(*                                                                         *)
(* The files lose records, but what they hold is right: RInv follows every *)
(* record back to the command that wrote it, and every command that was    *)
(* confirmed to the proposal it created.                                   *)
(***************************************************************************)
EXTENDS ProposalRecords, FortisMultisigProofs

RecordSet ==
  [txIndex : Nat, salt : Nat, payloadHash : Hashes, entries : { EntriesOf[c] : c \in Commands }]

CommandStates ==
  [pc : {"start", "built", "landed", "confirmed", "loaded", "writing", "done", "unsaved", "failed"},
   index : 0..MaxIndex, records : Seq(RecordSet)]

(* The transaction of the command was executed, and the command goes on. *)
Taken(c) ==
  command[c].pc \in {"landed", "confirmed", "loaded", "writing", "done", "unsaved"}

(* The proposal of such a command is its own. *)
TakenAt(c) ==
  LET i == command[c].index + 1 IN
  Taken(c) =>
    /\ multisig # NoAccount /\ i \in Indices /\ i <= multisig.transaction_index
    /\ Live(i) => /\ proposal[i].proposal_type = TypeOf[c]
                  /\ transaction[i].content = HashOf(c)

(* A list of records of commands that have come to their end, each once. *)
Faithful(records, type) ==
  /\ records \in Seq(RecordSet)
  /\ \A j \in DOMAIN records : \E d \in Commands :
       At(d, "done") /\ TypeOf[d] = type /\ records[j] = RecordOf(d)
  /\ \A j, k \in DOMAIN records : records[j].txIndex = records[k].txIndex => j = k

(* What a command holds between its awaits. *)
HeldAt(c) ==
  command[c].pc \in {"loaded", "writing"} => Faithful(command[c].records, TypeOf[c])

Separate(c, d) ==
  c # d /\ Taken(c) /\ Taken(d) => command[c].index # command[d].index

FileAt(type) == file[type] = Torn \/ Faithful(file[type], type)

(* The salt of a private proposal is the index before its own. *)
SaltAt(i) == HoldsHash(i) => transaction[i].content.salt = i - 1

(* The transaction is executed, whatever the clock of its member says. *)
Lands(c) == \E clock \in 0..MaxTime : Land(c, clock)

RInv ==
  /\ IInv
  /\ command \in [Commands -> CommandStates]
  /\ DOMAIN file = Files
  /\ \A c \in Commands : TakenAt(c) /\ HeldAt(c)
  /\ \A c, d \in Commands : Separate(c, d)
  /\ \A type \in Files : FileAt(type)
  /\ \A i \in Indices : SaltAt(i)

------------------------------------------------------------------------------
(* Frames. *)

LEMMA StepIsChainStep == RInv /\ RecordsNext => [Next]_vars
<1> SUFFICES ASSUME RInv, RecordsNext PROVE [Next]_vars
  OBVIOUS
<1>1. CASE ChainStep
  BY <1>1 DEF ChainStep, Next
<1>2. ASSUME NEW c \in Commands, NEW clock \in 0..MaxTime, Land(c, clock)
      PROVE  Next
  <2>1. /\ CreatorOf[c] \in Keys /\ TypeOf[c] \in PrivateTypes
        /\ command[c].index \in 0..MaxIndex
        /\ clock + VotingPeriod \in Deadlines
    BY <1>2, CommandsAssumption DEF RInv, CommandStates
  <2>2. HashOf(c) \in Hashes
    BY <2>1, CommandsAssumption DEF HashOf
  <2>3. command[c].index + 1 \in Indices
    BY <1>2, <2>1, BoundsAssumption DEF Land, Indices
  <2>4. CreatePrivateProposal(CreatorOf[c], command[c].index + 1, clock + VotingPeriod,
                              TypeOf[c], HashOf(c))
    BY <1>2 DEF Land
  <2> QED
    BY <2>1, <2>2, <2>3, <2>4 DEF Next
<1> QED
  BY <1>1, <1>2
     DEF RecordsNext, ReadIndex, Throw, Confirm, ReadFile, Truncate, WriteFile, Crash

(* A list stays faithful: a command at its end does not move. *)
LEMMA FaithfulFrame ==
  ASSUME NEW records, NEW type, Faithful(records, type),
         \A d \in Commands : At(d, "done") => command'[d] = command[d]
  PROVE  Faithful(records, type)'
<1>1. ASSUME NEW d \in Commands, At(d, "done")
      PROVE  At(d, "done")' /\ RecordOf(d)' = RecordOf(d)
  BY <1>1 DEF At, RecordOf, HashOf, Record, PayloadHash
<1> QED
  BY <1>1 DEF Faithful

LEMMA CommandFrame ==
  ASSUME RInv, [Next]_vars, IInv', NEW c \in Commands, command'[c] = command[c],
         \A d \in Commands : At(d, "done") => command'[d] = command[d]
  PROVE  TakenAt(c)' /\ HeldAt(c)'
<1>1. HeldAt(c)'
  <2>1. Faithful(command[c].records, TypeOf[c]) =>
          Faithful(command[c].records, TypeOf[c])'
    BY FaithfulFrame
  <2>2. HeldAt(c)
    BY DEF RInv
  <2> QED
    BY <2>1, <2>2 DEF HeldAt, At, Faithful
<1>2. TakenAt(c)'
  <2> DEFINE i == command[c].index + 1
  <2>1. SUFFICES ASSUME Taken(c) PROVE TakenAt(c)'
    BY DEF TakenAt, Taken
  <2>2. /\ multisig # NoAccount /\ i \in Indices /\ i <= multisig.transaction_index
        /\ Live(i) => /\ proposal[i].proposal_type = TypeOf[c]
                      /\ transaction[i].content = HashOf(c)
    BY <2>1 DEF RInv, TakenAt
  <2>3. HashOf(c)' = HashOf(c)
    BY DEF HashOf, PayloadHash
  <2>4. /\ multisig' # NoAccount /\ i <= multisig'.transaction_index
        /\ Live(i)' => /\ Live(i)
                       /\ proposal'[i].proposal_type = proposal[i].proposal_type
                       /\ transaction'[i].content = transaction[i].content
    BY <2>2, ProposalFrame DEF RInv
  <2> QED
    BY <2>2, <2>3, <2>4 DEF TakenAt, Live
<1> QED
  BY <1>1, <1>2

(* No step but Land creates a transaction account with a hash. *)
NoNewHash ==
  \A i \in Indices : \/ transaction'[i] \in {transaction[i], NoAccount}
                    \/ transaction'[i].content \notin Hashes

LEMMA SaltFrame ==
  ASSUME RInv, NoNewHash
  PROVE  \A i \in Indices : SaltAt(i)'
  BY DEF RInv, SaltAt, HoldsHash, NoNewHash

(* One command moves. *)
LEMMA OneMoves ==
  ASSUME RInv, [Next]_vars, NEW c \in Commands, NEW r \in CommandStates,
         command' = [command EXCEPT ![c] = r], ~At(c, "done"),
         TakenAt(c)', HeldAt(c)', \A d \in Commands \ {c} : Separate(c, d)',
         DOMAIN file' = Files, \A type \in Files : FileAt(type)',
         \A i \in Indices : SaltAt(i)'
  PROVE  RInv'
<1>1. IInv'
  BY NextIInv DEF RInv
<1>2. command' \in [Commands -> CommandStates]
  BY DEF RInv
<1>3. \A d \in Commands : At(d, "done") => command'[d] = command[d]
  OBVIOUS
<1>4. ASSUME NEW d \in Commands
      PROVE  TakenAt(d)' /\ HeldAt(d)'
  <2>1. CASE d = c
    BY <2>1
  <2>2. CASE d # c
    BY <1>1, <1>3, <2>2, CommandFrame
  <2> QED
    BY <2>1, <2>2
<1>5. ASSUME NEW d \in Commands, NEW e \in Commands
      PROVE  Separate(d, e)'
  <2>1. CASE d = e
    BY <2>1 DEF Separate
  <2>2. CASE d = c /\ e # c
    BY <2>2
  <2>3. CASE d # c /\ e = c
    <3>1. Separate(c, d)'
      BY <2>3
    <3> QED
      BY <2>3, <3>1 DEF Separate
  <2>4. CASE d # c /\ e # c
    <3>1. command'[d] = command[d] /\ command'[e] = command[e]
      BY <2>4
    <3> QED
      BY <3>1 DEF RInv, Separate, Taken
  <2> QED
    BY <2>1, <2>2, <2>3, <2>4
<1> QED
  BY <1>1, <1>2, <1>4, <1>5 DEF RInv

(* A command moves, and neither the chain nor a file does. *)
LEMMA Quiet ==
  ASSUME RInv, UNCHANGED <<vars, file>>, NEW c \in Commands, NEW r \in CommandStates,
         command' = [command EXCEPT ![c] = r], ~At(c, "done"),
         Taken(c)' => Taken(c) /\ r.index = command[c].index,
         HeldAt(c)'
  PROVE  RInv'
<1>1. command'[c] = r
  BY DEF RInv
<1>2. [Next]_vars /\ UNCHANGED <<now, multisig, proposal, transaction, lamports, payouts>>
  BY DEF vars
<1>3. TakenAt(c)'
  <2>1. Taken(c)' => HashOf(c)' = HashOf(c)
    BY <1>1 DEF HashOf, PayloadHash
  <2>2. TakenAt(c)
    BY DEF RInv
  <2> QED
    BY <1>1, <1>2, <2>1, <2>2 DEF TakenAt, Live
<1>4. ASSUME NEW d \in Commands \ {c}
      PROVE  Separate(c, d)'
  <2>1. command'[d] = command[d]
    OBVIOUS
  <2> QED
    BY <1>1, <2>1 DEF RInv, Separate, Taken
<1>5. ASSUME NEW type \in Files
      PROVE  FileAt(type)'
  <2>1. Faithful(file[type], type) => Faithful(file[type], type)'
    BY FaithfulFrame
  <2>2. FileAt(type)
    BY DEF RInv
  <2> QED
    BY <2>1, <2>2 DEF FileAt, Faithful
<1>6. \A i \in Indices : SaltAt(i)'
  BY <1>2, SaltFrame DEF NoNewHash
<1>7. DOMAIN file' = Files
  BY DEF RInv
<1> QED
  BY <1>2, <1>3, <1>4, <1>5, <1>6, <1>7, OneMoves

(* A command moves on with what it has. *)
LEMMA GoesPreserves ==
  ASSUME RInv, UNCHANGED <<vars, file>>, NEW c \in Commands,
         NEW pc \in {"landed", "confirmed", "unsaved", "failed"}, Goes(c, pc),
         ~At(c, "done"), ~At(c, "start"),
         pc \in {"landed", "confirmed", "unsaved"} => Taken(c)
  PROVE  RInv'
<1> DEFINE r == [command[c] EXCEPT !.pc = pc]
<1>1. command' = [command EXCEPT ![c] = r]
  BY DEF Goes
<1>2. /\ r \in CommandStates /\ r.pc = pc /\ r.index = command[c].index
  BY DEF RInv, CommandStates
<1>3. command'[c] = r
  BY <1>1 DEF RInv
<1> HIDE DEF r
<1>4. HeldAt(c)'
  BY <1>2, <1>3 DEF RInv, HeldAt, At
<1>5. Taken(c)' => Taken(c)
  BY <1>2, <1>3 DEF Taken
<1> QED
  BY <1>1, <1>2, <1>4, <1>5, Quiet

LEMMA MovesOnPreserves ==
  ASSUME RInv, NEW c \in Commands, Throw(c) \/ Confirm(c) \/ Crash(c)
  PROVE  RInv'
<1>1. CASE Throw(c)
  BY <1>1, GoesPreserves DEF Throw, At
<1>2. CASE Confirm(c)
  BY <1>2, GoesPreserves DEF Confirm, At, Taken
<1>3. CASE Crash(c)
  BY <1>3, GoesPreserves DEF Crash, At
<1> QED
  BY <1>1, <1>2, <1>3

LEMMA ReadIndexPreserves ==
  ASSUME RInv, NEW c \in Commands, ReadIndex(c)
  PROVE  RInv'
<1> DEFINE r == [command[c] EXCEPT !.pc = "built", !.index = multisig.transaction_index]
<1>1. command' = [command EXCEPT ![c] = r]
  BY DEF ReadIndex
<1>2. multisig.transaction_index \in 0..MaxIndex
  BY DEF ReadIndex, RInv, IInv, TypeOK, Multisigs
<1>4. r \in CommandStates /\ r.pc = "built"
  BY <1>2 DEF RInv, CommandStates
<1>5. command'[c] = r
  BY <1>1 DEF RInv
<1> HIDE DEF r
<1>6. HeldAt(c)' /\ ~Taken(c)'
  BY <1>4, <1>5 DEF HeldAt, At, Taken
<1> QED
  BY <1>1, <1>4, <1>6, Quiet DEF ReadIndex, At

(* An empty list and what is in a file are faithful. *)
LEMMA ReadFilePreserves ==
  ASSUME RInv, NEW c \in Commands, ReadFile(c)
  PROVE  RInv'
<1> DEFINE type == TypeOf[c]
<1>1. At(c, "confirmed") /\ UNCHANGED <<vars, file>> /\ type \in Files
  BY CommandsAssumption DEF ReadFile, Files
<1>2. CASE Goes(c, "unsaved")
  BY <1>1, <1>2, GoesPreserves DEF At, Taken
<1>3. ASSUME NEW records, Faithful(records, type),
             command' = [command EXCEPT ![c].pc = "loaded", ![c].records = records]
      PROVE  RInv'
  <2> DEFINE r == [command[c] EXCEPT !.pc = "loaded", !.records = records]
  <2>1. command' = [command EXCEPT ![c] = r]
    BY <1>3
  <2>2. /\ r \in CommandStates /\ r.pc = "loaded" /\ r.index = command[c].index
        /\ r.records = records
    BY <1>3 DEF RInv, CommandStates, Faithful
  <2>3. command'[c] = r
    BY <2>1 DEF RInv
  <2> HIDE DEF r
  <2>4. \A d \in Commands : At(d, "done") => command'[d] = command[d]
    BY <1>1, <2>1 DEF At
  <2>5. Faithful(records, type)'
    BY <1>3, <2>4, FaithfulFrame
  <2>6. Faithful(command[c].records, TypeOf[c])'
    BY <2>2, <2>3, <2>5 DEF Faithful
  <2>7. HeldAt(c)'
    BY <1>1, <2>2, <2>3, <2>6 DEF RInv, HeldAt, At
  <2>8. Taken(c)
    BY <1>1 DEF At, Taken
  <2> QED
    BY <1>1, <2>1, <2>2, <2>7, <2>8, Quiet DEF At
<1>4. Faithful(<<>>, type)
  BY DEF Faithful
<1>5. file[type] # Torn => Faithful(file[type], type)
  BY <1>1 DEF RInv, FileAt
<1> QED
  BY <1>2, <1>3, <1>4, <1>5 DEF ReadFile

LEMMA TruncatePreserves ==
  ASSUME RInv, NEW c \in Commands, Truncate(c)
  PROVE  RInv'
<1> DEFINE r == [command[c] EXCEPT !.pc = "writing"]
<1>1. /\ At(c, "loaded") /\ command' = [command EXCEPT ![c] = r]
      /\ file' = [file EXCEPT ![TypeOf[c]] = Torn] /\ UNCHANGED vars
  BY DEF Truncate, Goes
<1>2. /\ r \in CommandStates /\ r.pc = "writing" /\ r.index = command[c].index
      /\ r.records = command[c].records
  BY DEF RInv, CommandStates
<1>3. command'[c] = r
  BY <1>1 DEF RInv
<1> HIDE DEF r
<1>4. \A d \in Commands : At(d, "done") => command'[d] = command[d]
  BY <1>1 DEF At
<1>5. HeldAt(c)'
  <2>1. Faithful(command[c].records, TypeOf[c])
    BY <1>1 DEF RInv, HeldAt, At
  <2>2. Faithful(command[c].records, TypeOf[c])'
    <3>1. PICK records : records = command[c].records
      OBVIOUS
    <3>2. Faithful(records, TypeOf[c])'
      BY <1>4, <2>1, <3>1, FaithfulFrame
    <3>3. command'[c].records = records
      BY <1>2, <1>3, <3>1
    <3> QED
      BY <3>2, <3>3 DEF Faithful
  <2> QED
    BY <1>2, <1>3, <2>1, <2>2 DEF HeldAt, At
<1>6. UNCHANGED <<now, multisig, proposal, transaction, lamports, payouts>> /\ [Next]_vars
  BY <1>1 DEF vars
<1>7. TakenAt(c)'
  <2>1. HashOf(c)' = HashOf(c) /\ Taken(c)
    BY <1>1, <1>2, <1>3 DEF HashOf, PayloadHash, Taken, At
  <2>2. TakenAt(c)
    BY DEF RInv
  <2> QED
    BY <1>2, <1>3, <1>6, <2>1, <2>2 DEF TakenAt, Live
<1>8. ASSUME NEW d \in Commands \ {c}
      PROVE  Separate(c, d)'
  <2>1. command'[d] = command[d] /\ Taken(c)
    BY <1>1 DEF Taken, At
  <2> QED
    BY <1>2, <1>3, <2>1 DEF RInv, Separate, Taken
<1>9. ASSUME NEW type \in Files
      PROVE  FileAt(type)'
  <2>1. CASE type = TypeOf[c]
    BY <1>1, <2>1 DEF RInv, FileAt
  <2>2. CASE type # TypeOf[c]
    <3>1. PICK records : records = file[type]
      OBVIOUS
    <3>2. file'[type] = records
      BY <1>1, <2>2, <3>1 DEF RInv
    <3>3. Faithful(records, type) => Faithful(records, type)'
      BY <1>4, FaithfulFrame
    <3>4. FileAt(type)
      BY DEF RInv
    <3> QED
      BY <3>1, <3>2, <3>3, <3>4 DEF FileAt, Faithful
  <2> QED
    BY <2>1, <2>2
<1>10. (\A i \in Indices : SaltAt(i)') /\ DOMAIN file' = Files
  BY <1>1, <1>6, SaltFrame DEF RInv, NoNewHash
<1> QED
  BY <1>1, <1>2, <1>5, <1>6, <1>7, <1>8, <1>9, <1>10, OneMoves DEF At

(* The record that is added is the only one of its command. *)
LEMMA WriteFilePreserves ==
  ASSUME RInv, NEW c \in Commands, WriteFile(c)
  PROVE  RInv'
<1> DEFINE r == [command[c] EXCEPT !.pc = "done"]
           records == command[c].records
           n == Len(records)
           new == RecordOf(c)
           written == Append(records, new)
<1>0. PICK value : value = written
  OBVIOUS
<1>1. /\ At(c, "writing") /\ command' = [command EXCEPT ![c] = r]
      /\ file' = [file EXCEPT ![TypeOf[c]] = written] /\ UNCHANGED vars
  BY DEF WriteFile, Goes
<1>2. /\ r \in CommandStates /\ r.pc = "done" /\ r.index = command[c].index
  BY DEF RInv, CommandStates
<1>3. command'[c] = r
  BY <1>1 DEF RInv
<1> HIDE DEF r
<1>4. \A d \in Commands : At(d, "done") => command'[d] = command[d]
  BY <1>1 DEF At
<1>5. HeldAt(c)'
  BY <1>1, <1>2, <1>3 DEF RInv, HeldAt, At
<1>6. UNCHANGED <<now, multisig, proposal, transaction, lamports, payouts>> /\ [Next]_vars
  BY <1>1 DEF vars
<1>7. TakenAt(c)'
  <2>1. HashOf(c)' = HashOf(c) /\ Taken(c)
    BY <1>1, <1>2, <1>3 DEF HashOf, PayloadHash, Taken, At
  <2>2. TakenAt(c)
    BY DEF RInv
  <2> QED
    BY <1>2, <1>3, <1>6, <2>1, <2>2 DEF TakenAt, Live
<1>8. ASSUME NEW d \in Commands \ {c}
      PROVE  Separate(c, d)'
  <2>1. command'[d] = command[d] /\ Taken(c)
    BY <1>1 DEF Taken, At
  <2> QED
    BY <1>2, <1>3, <2>1 DEF RInv, Separate, Taken
<1>9. Faithful(value, TypeOf[c])'
  <2>1. Faithful(records, TypeOf[c])
    BY <1>1 DEF RInv, HeldAt, At
  <2>2. /\ records \in Seq(RecordSet) /\ n \in Nat
        /\ \A j \in DOMAIN records : \E d \in Commands :
             At(d, "done") /\ TypeOf[d] = TypeOf[c] /\ records[j] = RecordOf(d)
        /\ \A j, k \in DOMAIN records : records[j].txIndex = records[k].txIndex => j = k
    BY <2>1 DEF Faithful
  <2>3. new \in RecordSet /\ new.txIndex = command[c].index + 1
    <3>1. command[c].index \in 0..MaxIndex /\ HashOf(c) \in Hashes
      BY CommandsAssumption DEF RInv, CommandStates, HashOf
    <3> QED
      BY <3>1, BoundsAssumption DEF RecordOf, Record, RecordSet
  <2>4. RecordOf(c)' = new /\ At(c, "done")'
    BY <1>2, <1>3 DEF RecordOf, HashOf, Record, PayloadHash, At
  <2>5. \A d \in Commands : At(d, "done") => At(d, "done")' /\ RecordOf(d)' = RecordOf(d)
    BY <1>4 DEF At, RecordOf, HashOf, Record, PayloadHash
  <2>6. ASSUME NEW d \in Commands, At(d, "done")
        PROVE  RecordOf(d).txIndex # new.txIndex
    <3>1. d # c /\ Taken(d) /\ Taken(c)
      BY <1>1, <2>6 DEF At, Taken
    <3>2. command[d].index # command[c].index
      BY <3>1 DEF RInv, Separate
    <3>3. command[d].index \in Int /\ command[c].index \in Int
      BY BoundsAssumption DEF RInv, CommandStates
    <3>4. RecordOf(d).txIndex = command[d].index + 1
      BY DEF RecordOf, Record
    <3> QED
      BY <2>3, <3>2, <3>3, <3>4
  <2>7. \A j \in DOMAIN records : records[j].txIndex # new.txIndex
    BY <2>2, <2>6
  <2> HIDE DEF new, records
  <2>8. /\ written \in Seq(RecordSet) /\ DOMAIN written = 1..n + 1
        /\ DOMAIN records = 1..n
        /\ \A j \in 1..n : written[j] = records[j]
        /\ written[n + 1] = new
    BY <2>2, <2>3
  <2> HIDE DEF written
  <2>9. \A j \in DOMAIN written : \E d \in Commands :
          At(d, "done")' /\ TypeOf[d] = TypeOf[c] /\ written[j] = RecordOf(d)'
    <3>1. ASSUME NEW j \in 1..n
          PROVE  \E d \in Commands :
                   At(d, "done")' /\ TypeOf[d] = TypeOf[c] /\ written[j] = RecordOf(d)'
      BY <2>2, <2>5, <2>8, <3>1
    <3>2. \A j \in DOMAIN written : j \in 1..n \/ j = n + 1
      BY <2>2, <2>8
    <3> QED
      BY <2>4, <2>8, <3>1, <3>2
  <2> HIDE DEF n
  <2>10. \A j, k \in DOMAIN written : written[j].txIndex = written[k].txIndex => j = k
    BY <2>2, <2>7, <2>8
  <2> QED
    BY <1>0, <2>8, <2>9, <2>10 DEF Faithful
<1>10. ASSUME NEW type \in Files
      PROVE  FileAt(type)'
  <2>1. CASE type = TypeOf[c]
    <3>1. file'[type] = value
      BY <1>1, <1>0, <2>1 DEF RInv
    <3> QED
      BY <1>9, <2>1, <3>1 DEF FileAt, Faithful
  <2>2. CASE type # TypeOf[c]
    <3>1. PICK others : others = file[type]
      OBVIOUS
    <3>2. file'[type] = others
      BY <1>1, <2>2, <3>1 DEF RInv
    <3>3. Faithful(others, type) => Faithful(others, type)'
      BY <1>4, FaithfulFrame
    <3>4. FileAt(type)
      BY DEF RInv
    <3> QED
      BY <3>1, <3>2, <3>3, <3>4 DEF FileAt, Faithful
  <2> QED
    BY <2>1, <2>2
<1>11. (\A i \in Indices : SaltAt(i)') /\ DOMAIN file' = Files
  BY <1>1, <1>6, SaltFrame DEF RInv, NoNewHash
<1> QED
  BY <1>1, <1>2, <1>5, <1>6, <1>7, <1>8, <1>10, <1>11, OneMoves DEF At

(* The proposal that is created is new, and its index nobody else's. *)
LEMMA LandPreserves ==
  ASSUME RInv, RecordsNext, NEW c \in Commands, Lands(c)
  PROVE  RInv'
<1>0. PICK clock \in 0..MaxTime : Land(c, clock)
  BY DEF Lands
<1> DEFINE deadline == clock + VotingPeriod
           r == [command[c] EXCEPT !.pc = "landed"]
           i == command[c].index + 1
<1>1. /\ At(c, "built") /\ command' = [command EXCEPT ![c] = r]
      /\ file' = file /\ multisig # NoAccount
      /\ OpenIndex(i, deadline, TypeOf[c], HashOf(c))
      /\ command[c].index < MaxIndex
  BY <1>0 DEF Land, Goes, CreatePrivateProposal, IsMember
<1>2. /\ r \in CommandStates /\ r.pc = "landed" /\ r.index = command[c].index
  BY DEF RInv, CommandStates
<1>3. command'[c] = r
  BY <1>1 DEF RInv
<1> HIDE DEF r
<1>4. \A d \in Commands : At(d, "done") => command'[d] = command[d]
  BY <1>1 DEF At
<1>5. command[c].index \in 0..MaxIndex
  BY DEF RInv, CommandStates
<1>6. i \in Indices
  BY <1>1, <1>5, BoundsAssumption DEF Indices
<1>7. multisig.transaction_index \in Nat /\ i = multisig.transaction_index + 1
  BY <1>1 DEF OpenIndex, RInv, IInv, TypeOK, Multisigs
<1>8. [Next]_vars /\ IInv /\ IInv'
  BY StepIsChainStep, NextIInv DEF RInv
<1>9. /\ multisig' = [multisig EXCEPT !.transaction_index = i]
      /\ proposal' = [proposal EXCEPT ![i] = NewProposal(i, deadline, TypeOf[c])]
      /\ transaction' = [transaction EXCEPT ![i] = NewTransaction(i, HashOf(c))]
  BY <1>1 DEF OpenIndex
<1>10. /\ multisig' # NoAccount /\ multisig'.transaction_index = i
       /\ proposal'[i].proposal_type = TypeOf[c]
       /\ transaction'[i].content = HashOf(c)
  <2>1. multisig' # NoAccount
    BY <1>1, <1>6, <1>8, <1>9, NextIndexTypes
  <2>2. multisig'.transaction_index = i
    BY <1>1, <1>9 DEF RInv, IInv, TypeOK, Multisigs
  <2>3. /\ proposal'[i] = NewProposal(i, deadline, TypeOf[c])
        /\ transaction'[i] = NewTransaction(i, HashOf(c))
    BY <1>6, <1>9 DEF RInv, IInv, TypeOK
  <2> QED
    BY <2>1, <2>2, <2>3 DEF NewProposal, NewTransaction
<1>11. HeldAt(c)'
  BY <1>2, <1>3 DEF HeldAt
<1>12. TakenAt(c)'
  <2>1. HashOf(c)' = HashOf(c)
    BY <1>2, <1>3 DEF HashOf, PayloadHash
  <2>2. i <= i
    BY <1>7
  <2> QED
    BY <1>2, <1>3, <1>6, <1>10, <2>1, <2>2 DEF TakenAt
<1>13. ASSUME NEW d \in Commands \ {c}
       PROVE  Separate(c, d)'
  <2>1. command'[d] = command[d]
    BY <1>1
  <2>2. SUFFICES ASSUME Taken(d) PROVE command[d].index # command[c].index
    BY <1>2, <1>3, <2>1 DEF Separate, Taken
  <2>3. command[d].index + 1 <= multisig.transaction_index /\ command[d].index \in Int
    BY <2>2, BoundsAssumption DEF RInv, TakenAt, CommandStates
  <2> HIDE DEF i
  <2> QED
    BY <1>5, <1>7, <2>3 DEF i
<1>14. ASSUME NEW type \in Files
       PROVE  FileAt(type)'
  <2>1. PICK records : records = file[type]
    OBVIOUS
  <2>2. Faithful(records, type) => Faithful(records, type)'
    BY <1>4, FaithfulFrame
  <2>3. FileAt(type)
    BY DEF RInv
  <2> QED
    BY <1>1, <2>1, <2>2, <2>3 DEF FileAt, Faithful
<1>15. ASSUME NEW j \in Indices
       PROVE  SaltAt(j)'
  <2>1. CASE j = i
    <3>1. HashOf(c).salt = i - 1
      BY <1>5, BoundsAssumption DEF HashOf, PayloadHash
    <3> QED
      BY <1>10, <2>1, <3>1 DEF SaltAt
  <2>2. CASE j # i
    <3>1. transaction'[j] = transaction[j]
      BY <1>9, <2>2 DEF RInv, IInv, TypeOK
    <3> QED
      BY <3>1 DEF RInv, SaltAt, HoldsHash
  <2> QED
    BY <2>1, <2>2
<1>16. DOMAIN file' = Files
  BY <1>1 DEF RInv
<1> QED
  BY <1>1, <1>2, <1>8, <1>11, <1>12, <1>13, <1>14, <1>15, <1>16, OneMoves DEF At

(* A public proposal has a message, which is no hash. *)
LEMMA ChainStepNoHash ==
  ASSUME RInv, ChainStep
  PROVE  NoNewHash
<1>1. CASE \E key \in Keys, index \in Indices, deadline \in Deadlines, message \in Messages :
             CreateProposal(key, index, deadline, message)
  <2>1. PICK index \in Indices, message \in Messages :
          transaction' = [transaction EXCEPT ![index] = NewTransaction(index, message)]
    BY <1>1 DEF CreateProposal, OpenIndex
  <2>2. \A i \in Indices : \/ transaction'[i] = transaction[i]
                          \/ transaction'[i] = NewTransaction(index, message)
    BY <2>1 DEF RInv, IInv, TypeOK
  <2>3. NewTransaction(index, message).content \notin Hashes
    BY <2>1, TypesAssumption DEF NewTransaction
  <2> QED
    BY <2>2, <2>3 DEF NoNewHash
<1>2. CASE \E index \in Indices, collector \in RentCollectors : Close(index, collector)
  BY <1>2 DEF Close, NoNewHash, RInv, IInv, TypeOK
<1>3. CASE UNCHANGED transaction
  BY <1>3 DEF NoNewHash
<1> QED
  BY <1>1, <1>2, <1>3
  DEF ChainStep, CreateMultisig, Approve, ExecutePublic, ExecuteTransfer, ExecuteHash,
      Deposit, Tick

(* The chain moves, or nothing does. *)
LEMMA ChainStepPreserves ==
  ASSUME RInv, [Next]_vars, UNCHANGED recordVars, NoNewHash
  PROVE  RInv'
<1>1. command' = command /\ file' = file
  BY DEF recordVars
<1>2. IInv'
  BY NextIInv DEF RInv
<1>3. \A c \in Commands : TakenAt(c)' /\ HeldAt(c)'
  BY <1>1, <1>2, CommandFrame
<1>4. \A c, d \in Commands : Separate(c, d)'
  BY <1>1 DEF RInv, Separate, Taken
<1>5. ASSUME NEW type \in Files
      PROVE  FileAt(type)'
  <2>1. PICK records : records = file[type]
    OBVIOUS
  <2>2. Faithful(records, type) => Faithful(records, type)'
    BY <1>1, FaithfulFrame
  <2>3. FileAt(type)
    BY DEF RInv
  <2> QED
    BY <1>1, <2>1, <2>2, <2>3 DEF FileAt, Faithful
<1>6. \A i \in Indices : SaltAt(i)'
  BY SaltFrame
<1> QED
  BY <1>1, <1>2, <1>3, <1>4, <1>5, <1>6 DEF RInv

LEMMA NextRInv == RInv /\ [RecordsNext]_<<vars, recordVars>> => RInv'
<1> SUFFICES ASSUME RInv, [RecordsNext]_<<vars, recordVars>> PROVE RInv'
  OBVIOUS
<1>1. CASE ChainStep /\ RecordsNext
  <2>1. NoNewHash
    BY <1>1, ChainStepNoHash
  <2>2. [Next]_vars /\ UNCHANGED recordVars
    BY <1>1, StepIsChainStep DEF ChainStep
  <2> QED
    BY <2>1, <2>2, ChainStepPreserves
<1>2. ASSUME NEW c \in Commands, RecordsNext,
             \/ ReadIndex(c) \/ Lands(c) \/ Throw(c) \/ Confirm(c)
             \/ ReadFile(c) \/ Truncate(c) \/ WriteFile(c) \/ Crash(c)
      PROVE  RInv'
  BY <1>2, ReadIndexPreserves, LandPreserves, MovesOnPreserves, ReadFilePreserves,
     TruncatePreserves, WriteFilePreserves
<1>3. CASE UNCHANGED <<vars, recordVars>>
  BY <1>3, ChainStepPreserves DEF vars, NoNewHash
<1> QED
  BY <1>1, <1>2, <1>3 DEF RecordsNext, Lands

------------------------------------------------------------------------------
(* Theorems. *)

LEMMA InitRInv == RecordsInit => RInv
<1> SUFFICES ASSUME RecordsInit PROVE RInv
  OBVIOUS
<1>1. IInv
  BY InitIInv DEF RecordsInit
<1>2. command \in [Commands -> CommandStates]
  BY BoundsAssumption DEF RecordsInit, CommandStates
<1>3. ASSUME NEW c \in Commands
      PROVE  ~Taken(c) /\ At(c, "start")
  BY DEF RecordsInit, Taken, At
<1>4. \A c \in Commands : TakenAt(c) /\ HeldAt(c)
  BY <1>3 DEF TakenAt, HeldAt, At
<1>5. \A c, d \in Commands : Separate(c, d)
  BY <1>3 DEF Separate
<1>6. DOMAIN file = Files /\ \A type \in Files : FileAt(type)
  BY DEF RecordsInit, Files, FileAt, Faithful
<1>7. \A i \in Indices : SaltAt(i)
  BY DEF RecordsInit, Init, SaltAt, HoldsHash
<1> QED
  BY <1>1, <1>2, <1>4, <1>5, <1>6, <1>7 DEF RInv

(* The inductive invariant of the create commands. *)
THEOREM RecordsInvariance == RecordsSpec => []RInv
  BY InitRInv, NextRInv, PTL DEF RecordsSpec

(* A record that is in a file is that of a command at its end. *)
LEMMA RecordOfCommand ==
  ASSUME RInv, NEW type \in Files, NEW j \in Positions(type)
  PROVE  \E d \in Commands :
           At(d, "done") /\ TypeOf[d] = type /\ file[type][j] = RecordOf(d)
  BY DEF RInv, FileAt, Faithful, Positions

(* Every record of the history files is about the proposal of its index. *)
THEOREM RecordsMatch == RecordsSpec => []RecordMatchesChain
<1>1. ASSUME RInv PROVE RecordMatchesChain
  <2>1. ASSUME NEW type \in Files, NEW j \in Positions(type)
        PROVE  LET r == file[type][j] IN
               /\ multisig # NoAccount /\ r.txIndex \in 1..multisig.transaction_index
               /\ Live(r.txIndex) => /\ proposal[r.txIndex].proposal_type = type
                                     /\ transaction[r.txIndex].content = r.payloadHash
    <3>1. PICK d \in Commands :
            At(d, "done") /\ TypeOf[d] = type /\ file[type][j] = RecordOf(d)
      BY <1>1, RecordOfCommand
    <3>2. /\ RecordOf(d).txIndex = command[d].index + 1
          /\ RecordOf(d).payloadHash = HashOf(d)
      BY DEF RecordOf, Record
    <3>3. TakenAt(d) /\ Taken(d)
      BY <1>1, <3>1 DEF RInv, Taken, At
    <3>4. multisig # NoAccount => multisig.transaction_index \in Nat
      BY <1>1 DEF RInv, IInv, TypeOK, Multisigs
    <3> QED
      BY <3>1, <3>2, <3>3, <3>4 DEF TakenAt, Indices
  <2> QED
    BY <2>1 DEF RecordMatchesChain, Records
<1> QED
  BY <1>1, RecordsInvariance, PTL

(* An index has one record in both files together. *)
THEOREM OneRecord == RecordsSpec => []OneRecordPerIndex
<1>1. ASSUME RInv PROVE OneRecordPerIndex
  <2>1. ASSUME NEW type \in Files, NEW other \in Files,
               NEW j \in Positions(type), NEW k \in Positions(other),
               file[type][j].txIndex = file[other][k].txIndex
        PROVE  type = other /\ j = k
    <3>1. PICK d \in Commands :
            At(d, "done") /\ TypeOf[d] = type /\ file[type][j] = RecordOf(d)
      BY <1>1, RecordOfCommand
    <3>2. PICK e \in Commands :
            At(e, "done") /\ TypeOf[e] = other /\ file[other][k] = RecordOf(e)
      BY <1>1, RecordOfCommand
    <3>3. /\ command[d].index \in Int /\ command[e].index \in Int
          /\ command[d].index + 1 = command[e].index + 1
      BY <1>1, <2>1, <3>1, <3>2, BoundsAssumption DEF RInv, CommandStates, RecordOf, Record
    <3>4. command[d].index = command[e].index /\ Taken(d) /\ Taken(e)
      BY <3>1, <3>2, <3>3 DEF Taken, At
    <3>5. d = e
      BY <1>1, <3>4 DEF RInv, Separate
    <3>6. type = other
      BY <3>1, <3>2, <3>5
    <3> QED
      BY <1>1, <2>1, <3>6 DEF RInv, FileAt, Faithful, Positions
  <2> QED
    BY <2>1 DEF OneRecordPerIndex
<1> QED
  BY <1>1, RecordsInvariance, PTL

(* Two private proposals never have the same hash: the salt is the index before. *)
THEOREM HashesDiffer == RecordsSpec => []DistinctHashes
<1>1. ASSUME RInv PROVE DistinctHashes
  <2>1. ASSUME NEW i \in Indices, NEW j \in Indices,
               HoldsHash(i), HoldsHash(j),
               transaction[i].content = transaction[j].content
        PROVE  i = j
    <3>1. i - 1 = j - 1
      BY <1>1, <2>1 DEF RInv, SaltAt
    <3> QED
      BY <3>1 DEF Indices
  <2> QED
    BY <2>1 DEF DistinctHashes
<1> QED
  BY <1>1, RecordsInvariance, PTL


------------------------------------------------------------------------------
(* Type correctness. *)

(* The index a command has read is there. *)
ReadAt(c) ==
  ~At(c, "start") => multisig # NoAccount /\ command[c].index <= multisig.transaction_index

TornAt(type) ==
  file[type] = Torn => \E c \in Commands :
    TypeOf[c] = type /\ command[c].pc \in {"writing", "failed"}

KInv ==
  /\ RInv
  /\ \A c \in Commands : ReadAt(c)
  /\ \A type \in Files : TornAt(type)

LEMMA WrittenIsList ==
  ASSUME RInv, NEW c \in Commands, At(c, "writing")
  PROVE  Append(command[c].records, RecordOf(c)) \in Seq(RecordSet)
<1>1. command[c].records \in Seq(RecordSet)
  BY DEF RInv, HeldAt, Faithful, At
<1>2. command[c].index \in 0..MaxIndex /\ HashOf(c) \in Hashes
  BY CommandsAssumption DEF RInv, CommandStates, HashOf
<1>3. RecordOf(c) \in RecordSet
  BY <1>2, BoundsAssumption DEF RecordOf, Record, RecordSet
<1> QED
  BY <1>1, <1>3

LEMMA ReadFrame ==
  ASSUME KInv, RecordsNext, NEW c \in Commands,
         ~At(c, "start"), command'[c].index = command[c].index
  PROVE  ReadAt(c)'
<1>1. [Next]_vars /\ IInv /\ IInv' /\ ReadAt(c)
  BY StepIsChainStep, NextIInv DEF KInv, RInv
<1>2. multisig # NoAccount =>
        /\ multisig' # NoAccount
        /\ multisig'.transaction_index >= multisig.transaction_index
        /\ multisig.transaction_index \in Nat /\ multisig'.transaction_index \in Nat
  <2>1. multisig # NoAccount => multisig.transaction_index \in Nat
    BY <1>1 DEF IInv, TypeOK, Multisigs
  <2>2. multisig' # NoAccount => multisig'.transaction_index \in Nat
    BY <1>1 DEF IInv, TypeOK, Multisigs
  <2> QED
    BY <1>1, <2>1, <2>2, AccountFrame DEF vars
<1>3. command[c].index \in Nat
  BY BoundsAssumption DEF KInv, RInv, CommandStates
<1> QED
  BY <1>1, <1>2, <1>3 DEF ReadAt

LEMMA TypePreserved ==
  ASSUME KInv, RecordsNext, RInv', NEW c \in Commands,
         \/ ReadIndex(c) \/ Lands(c) \/ Throw(c) \/ Confirm(c)
         \/ ReadFile(c) \/ Truncate(c) \/ WriteFile(c) \/ Crash(c)
  PROVE  KInv'
<1> USE DEF At, Goes
<1>1. /\ command \in [Commands -> CommandStates] /\ DOMAIN file = Files /\ TypeOf[c] \in Files
  BY CommandsAssumption DEF KInv, RInv, Files
<1>2. \A d \in Commands \ {c} : command'[d] = command[d]
  BY <1>1 DEF ReadIndex, Lands, Land, Throw, Confirm, ReadFile, Truncate, WriteFile, Crash
<1>3. ReadAt(c)'
  <2>1. CASE ReadIndex(c)
    <3>1. /\ multisig' = multisig /\ multisig # NoAccount
          /\ command'[c].index = multisig.transaction_index
          /\ multisig.transaction_index \in Nat
      BY <1>1, <2>1 DEF ReadIndex, vars, CommandStates, KInv, RInv, IInv, TypeOK, Multisigs
    <3> QED
      BY <3>1 DEF ReadAt
  <2>2. CASE ~ReadIndex(c)
    <3>1. ~At(c, "start") /\ command'[c].index = command[c].index
      BY <1>1, <2>2
      DEF Lands, Land, Throw, Confirm, ReadFile, Truncate, WriteFile, Crash, CommandStates
    <3> QED
      BY <3>1, ReadFrame
  <2> QED
    BY <2>1, <2>2
<1>4. ASSUME NEW d \in Commands \ {c}
      PROVE  ReadAt(d)'
  <2>1. command'[d] = command[d]
    BY <1>2
  <2>2. CASE At(d, "start")
    BY <2>1, <2>2 DEF ReadAt
  <2>3. CASE ~At(d, "start")
    BY <2>1, <2>3, ReadFrame
  <2> QED
    BY <2>2, <2>3
<1>5. ASSUME NEW type \in Files
      PROVE  TornAt(type)'
  <2>1. CASE WriteFile(c) /\ type = TypeOf[c]
    <3>1. file'[type] \in Seq(RecordSet)
      BY <1>1, <2>1, WrittenIsList DEF WriteFile, KInv
    <3> QED
      BY <3>1, CommandsAssumption DEF TornAt, RecordSet
  <2>2. CASE Truncate(c) /\ type = TypeOf[c]
    <3>1. command'[c].pc = "writing"
      BY <1>1, <2>2 DEF Truncate, CommandStates
    <3> QED
      BY <2>2, <3>1 DEF TornAt
  <2>3. CASE ~((WriteFile(c) \/ Truncate(c)) /\ type = TypeOf[c])
    <3>1. file'[type] = file[type]
      BY <1>1, <2>3
      DEF ReadIndex, Lands, Land, Throw, Confirm, ReadFile, Truncate, WriteFile, Crash
    <3>2. ASSUME NEW d \in Commands, TypeOf[d] = type, command[d].pc \in {"writing", "failed"}
          PROVE  command'[d].pc \in {"writing", "failed"}
      <4>1. CASE d # c
        BY <1>2, <3>2, <4>1
      <4>2. CASE d = c
        BY <1>1, <2>3, <3>2, <4>2
        DEF ReadIndex, Lands, Land, Throw, Confirm, ReadFile, Truncate, WriteFile, Crash, CommandStates
      <4> QED
        BY <4>1, <4>2
    <3>3. TornAt(type)
      BY DEF KInv
    <3> QED
      BY <3>1, <3>2, <3>3 DEF TornAt
  <2> QED
    BY <2>1, <2>2, <2>3
<1> QED
  BY <1>3, <1>4, <1>5 DEF KInv

LEMMA NextKInv == KInv /\ [RecordsNext]_<<vars, recordVars>> => KInv'
<1> SUFFICES ASSUME KInv, [RecordsNext]_<<vars, recordVars>> PROVE KInv'
  OBVIOUS
<1>1. RInv'
  BY NextRInv DEF KInv
<1>2. ASSUME NEW c \in Commands, RecordsNext,
             \/ ReadIndex(c) \/ Lands(c) \/ Throw(c) \/ Confirm(c)
             \/ ReadFile(c) \/ Truncate(c) \/ WriteFile(c) \/ Crash(c)
      PROVE  KInv'
  BY <1>1, <1>2, TypePreserved
<1>3. CASE ChainStep /\ RecordsNext
  <2>1. command' = command /\ file' = file
    BY <1>3 DEF ChainStep, recordVars
  <2>2. ASSUME NEW c \in Commands PROVE ReadAt(c)'
    BY <1>3, <2>1, ReadFrame DEF ReadAt, At
  <2>3. \A type \in Files : TornAt(type)'
    BY <2>1 DEF KInv, TornAt
  <2> QED
    BY <1>1, <2>2, <2>3 DEF KInv
<1>4. CASE UNCHANGED <<vars, recordVars>>
  BY <1>1, <1>4 DEF KInv, ReadAt, TornAt, At, vars, recordVars
<1> QED
  BY <1>2, <1>3, <1>4 DEF RecordsNext, Lands

(* What a command has read is an index of the chain, and a file is torn only by a
   command that writes it or was stopped. *)
THEOREM RecordsTyped == RecordsSpec => []RecordsTypeOK
<1>1. RecordsInit => KInv
  <2>1. SUFFICES ASSUME RecordsInit PROVE KInv
    OBVIOUS
  <2>2. \A type \in Files : file[type] \in Seq(RecordSet)
    BY <2>1 DEF RecordsInit, Files
  <2>3. \A type \in Files : TornAt(type)
    BY <2>2, CommandsAssumption DEF TornAt, RecordSet
  <2>4. \A c \in Commands : ReadAt(c)
    BY <2>1 DEF RecordsInit, ReadAt, At
  <2> QED
    BY <2>1, <2>3, <2>4, InitRInv DEF KInv
<1>2. KInv => RecordsTypeOK
  BY DEF KInv, RInv, CommandStates, ReadAt, TornAt, RecordsTypeOK
<1> QED
  BY <1>1, <1>2, NextKInv, PTL DEF RecordsSpec
=============================================================================
