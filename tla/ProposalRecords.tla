---------------------------- MODULE ProposalRecords ----------------------------
(***************************************************************************)
(* Creating private proposals: create_private_transfer_proposal and        *)
(* create_private_swap_proposal commands that run side by side against one *)
(* multisig and one directory.  Each reads transaction_index, sends        *)
(* create_private_proposal for the index after it, waits for confirmation  *)
(* and then appends the payload to a JSON file by reading, pushing and     *)
(* writing all of it.  Only the hash of the payload is on the chain.       *)
(*                                                                         *)
(* The chain is FortisMultisig; its other instructions go on meanwhile.    *)
(***************************************************************************)
EXTENDS FortisMultisig, Payloads, SequencesExt

CONSTANTS
  Commands,      (* runs of the two create commands                         *)
  CreatorOf,     (* who runs a command                                      *)
  TypeOf,        (* PrivateTransfer or PrivateSwap                          *)
  EntriesOf,     (* the payload: entries (or entry) and mint                *)
  VotingPeriod,  (* votingDeadlineSeconds                                   *)
  Torn           (* a file that is being written                            *)

VARIABLES
  command,       (* where a run is and what it has read                     *)
  file           (* proposal_history.json and swap_proposal_history.json    *)

recordVars == <<command, file>>

(* A command is called by a member with a payload of one of the two private      *)
(* types; the deadline is voting time from some clock.  A torn file is not a     *)
(* list of records.                                                            *)
ASSUME CommandsAssumption ==
  /\ {PrivateTransfer, PrivateSwap} \subseteq PrivateTypes
  /\ \A c \in Commands :
       /\ CreatorOf[c] \in Keys /\ TypeOf[c] \in {PrivateTransfer, PrivateSwap}
       /\ \A salt \in 0..MaxIndex : PayloadHash(TypeOf[c], salt, EntriesOf[c]) \in Hashes
  /\ \A clock \in 0..MaxTime : clock + VotingPeriod \in Deadlines
  /\ Torn \notin Seq([txIndex : Nat, salt : Nat, payloadHash : Hashes,
                     entries : { EntriesOf[c] : c \in Commands }])

(* salt = currentTxIndex *)
HashOfMutFixedSalt(c) == PayloadHash(TypeOf[c], 0, EntriesOf[c])

HashOf(c) == PayloadHash(TypeOf[c], command[c].index, EntriesOf[c])

(* dbRecord *)
RecordOfMutCurrentIndex(c) ==
  Record(command[c].index, command[c].index, HashOf(c), EntriesOf[c])

RecordOf(c) ==
  Record(command[c].index + 1, command[c].index, HashOf(c), EntriesOf[c])

At(c, pc) == command[c].pc = pc

Goes(c, pc) == command' = [command EXCEPT ![c].pc = pc]

RecordsInit ==
  /\ Init
  /\ command = [c \in Commands |-> [pc |-> "start", index |-> 0, records |-> <<>>]]
  /\ file = [type \in {PrivateTransfer, PrivateSwap} |-> <<>>]

------------------------------------------------------------------------------
(* Steps of a command. *)

ReadIndexMutNext(c) ==
  /\ At(c, "start")
  /\ multisig # NoAccount
  /\ command' = [command EXCEPT ![c].pc = "built", ![c].index = multisig.transaction_index + 1]
  /\ UNCHANGED <<vars, file>>

(* getAccountInfo(multisig): the index the rest of the run is about. *)
ReadIndex(c) ==
  /\ At(c, "start")
  /\ multisig # NoAccount
  /\ command' = [command EXCEPT ![c].pc = "built", ![c].index = multisig.transaction_index]
  /\ UNCHANGED <<vars, file>>

(* The transaction is executed, with the index that was read a while ago and a    *)
(* deadline from the member's own clock, which is not the chain's.  MaxIndex    *)
(* bounds the indices.                                                         *)
Land(c, clock) ==
  /\ At(c, "built")
  /\ command[c].index < MaxIndex
  /\ CreatePrivateProposal(CreatorOf[c], command[c].index + 1, clock + VotingPeriod,
                           TypeOf[c], HashOf(c))
  /\ Goes(c, "landed")
  /\ UNCHANGED file

(* It is refused (preflight, or confirmation.value.err), expires, or the        *)
(* confirmation of one that was executed does not arrive: the command throws.   *)
Throw(c) ==
  /\ At(c, "built") \/ At(c, "landed")
  /\ Goes(c, "failed")
  /\ UNCHANGED <<vars, file>>

ConfirmMutUnchecked(c) ==
  /\ At(c, "built") \/ At(c, "landed")
  /\ Goes(c, "confirmed")
  /\ UNCHANGED <<vars, file>>

Confirm(c) ==
  /\ At(c, "landed")
  /\ Goes(c, "confirmed")
  /\ UNCHANGED <<vars, file>>

(* readFile.  A file in the middle of a write reads as empty, or does not parse *)
(* and the record is given up ("Non-fatal").                                   *)
ReadFile(c) ==
  LET content == file[TypeOf[c]]
      Loads(records) ==
        command' = [command EXCEPT ![c].pc = "loaded", ![c].records = records]
  IN
  /\ At(c, "confirmed")
  /\ IF content = Torn THEN Loads(<<>>) \/ Goes(c, "unsaved") ELSE Loads(content)
  /\ UNCHANGED <<vars, file>>

(* writeFile truncates first and writes then. *)
Truncate(c) ==
  /\ At(c, "loaded")
  /\ file' = [file EXCEPT ![TypeOf[c]] = Torn]
  /\ Goes(c, "writing")
  /\ UNCHANGED vars

WriteFile(c) ==
  /\ At(c, "writing")
  /\ file' = [file EXCEPT ![TypeOf[c]] = Append(command[c].records, RecordOf(c))]
  /\ Goes(c, "done")
  /\ UNCHANGED vars

Crash(c) ==
  /\ command[c].pc \in {"confirmed", "loaded", "writing"}
  /\ Goes(c, "failed")
  /\ UNCHANGED <<vars, file>>

(* What else happens on the chain: public proposals, which take indices too,   *)
(* and every other instruction.  Private proposals are those of the commands:  *)
(* one that is made otherwise is one of a command that died after it landed.   *)
ChainStep ==
  /\ \/ \E threshold \in Thresholds, collector \in RentCollectors,
           members \in MemberLists, shares \in ShareLists :
          CreateMultisig(threshold, collector, members, shares)
     \/ \E key \in Keys, index \in Indices :
          \/ \E deadline \in Deadlines, message \in Messages :
               CreateProposal(key, index, deadline, message)
          \/ Approve(key, index)
          \/ \E effect \in Effects : ExecutePublic(key, index, effect)
          \/ ExecuteTransfer(key, index)
          \/ ExecuteHash(key, index)
     \/ \E index \in Indices, collector \in RentCollectors : Close(index, collector)
     \/ \E amount \in Amounts : Deposit(amount)
     \/ Tick
  /\ UNCHANGED recordVars

RecordsNext ==
  \/ ChainStep
  \/ \E c \in Commands :
       \/ ReadIndex(c)
       \/ \E clock \in 0..MaxTime : Land(c, clock)
       \/ Throw(c)
       \/ Confirm(c)
       \/ ReadFile(c)
       \/ Truncate(c)
       \/ WriteFile(c)
       \/ Crash(c)

RecordsSpec == RecordsInit /\ [][RecordsNext]_<<vars, recordVars>>

------------------------------------------------------------------------------
(* Properties. *)

Files == {PrivateTransfer, PrivateSwap}

(* The records the executor of a proposal may find in the file of a type. *)
Positions(type) == IF file[type] = Torn THEN {} ELSE DOMAIN file[type]

Records(type) == { file[type][j] : j \in Positions(type) }

(* Type invariant of the commands: a record is written only for an index that
   was free when the command read it, and what a command has read it keeps. *)
RecordsTypeOK ==
  /\ \A c \in Commands :
       /\ command[c].pc \in {"start", "built", "landed", "confirmed", "loaded",
                             "writing", "done", "unsaved", "failed"}
       /\ command[c].index \in 0..MaxIndex
       /\ ~At(c, "start") => multisig # NoAccount /\ command[c].index <= multisig.transaction_index
  /\ \A type \in Files : file[type] = Torn => \E c \in Commands :
       TypeOf[c] = type /\ command[c].pc \in {"writing", "failed"}

(* A record is about the proposal of its index: as long as that has accounts,
   the hash on the chain is the one of the record, so that enforceHash accepts
   it.  A command that lost the race for an index leaves no record for it. *)
RecordMatchesChain ==
  \A type \in Files : \A r \in Records(type) :
    /\ multisig # NoAccount /\ r.txIndex \in 1..multisig.transaction_index
    /\ Live(r.txIndex) =>
         /\ proposal[r.txIndex].proposal_type = type
         /\ transaction[r.txIndex].content = r.payloadHash

(* loadRecord's find has at most one candidate: an index has one record in both
   files together, and it is written once. *)
OneRecordPerIndex ==
  \A type, other \in Files :
    \A j \in Positions(type), k \in Positions(other) :
      file[type][j].txIndex = file[other][k].txIndex => type = other /\ j = k

HoldsHash(i) == transaction[i] # NoAccount /\ transaction[i].content \in Hashes

(* "txIndex as salt (deterministic, unique per proposal)"
   (createPrivateSwapProposal.ts:248): two private proposals never have the same
   hash, also when they are about the same entries. *)
DistinctHashes ==
  \A i, j \in Indices :
    HoldsHash(i) /\ HoldsHash(j) /\ transaction[i].content = transaction[j].content
      => i = j

(* "What you must write to your DB right now, before returning"
   (createPrivateTransferProposal.ts.ts:292): a command that came to its end has
   its record in the file once nobody is writing it. *)
RecordKept ==
  (\A c \in Commands : command[c].pc \in {"start", "done"}) =>
    \A c \in Commands : At(c, "done") => RecordOf(c) \in Records(TypeOf[c])
=============================================================================
