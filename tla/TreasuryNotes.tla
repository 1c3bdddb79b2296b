----------------------------- MODULE TreasuryNotes -----------------------------
(***************************************************************************)
(* The treasury's notes in the Cloak pool and the file treasury_utxos.json *)
(* in which the clients find them: cloak_deposit and private_deposit runs  *)
(* next to the other commands (MemberCommands), and the executor that      *)
(* spends a note of the file with the key the members reconstruct.         *)
(*                                                                         *)
(* A depositor types the treasury's public key as create_multisig printed  *)
(* it.  Nothing compares it with the account.                              *)
(***************************************************************************)
EXTENDS MemberCommands

CONSTANTS
  Deposits,        (* runs of cloak_deposit followed by private_deposit     *)
  TypedAs,         (* what each types: command that printed the key and     *)
                   (* whether it is written in hexadecimal                  *)
  Torn             (* a file that is being written                          *)

VARIABLES
  deposit,         (* where a deposit is and which records it has loaded    *)
  notes,           (* notes of the pool that are not spent                  *)
  notesFile,       (* records of treasury_utxos.json                        *)
  disturbed        (* history: two runs were in the file at once, or one    *)
                   (* died in the middle of its write                       *)

noteVars == <<deposit, notes, notesFile, disturbed>>

DepositAt(d, pc) == deposit[d].pc = pc

DepositGoes(d, pc) == deposit' = [deposit EXCEPT ![d].pc = pc]

NotesInit(workload) ==
  /\ CommandsInit(workload)
  /\ deposit = [d \in Deposits |->
       [pc |-> IF d \in workload THEN "start" ELSE "unused", records |-> {}]]
  /\ notes = {}
  /\ notesFile = {}
  /\ disturbed = FALSE

------------------------------------------------------------------------------
(* parseBigInt: without a prefix 0x and a suffix n, the rest is read as decimal; *)
(* NoKey for a SyntaxError.  Two digits stand for all.                          *)
ParseBigInt(value, hexadecimal) ==
  LET high == value \div 16
      low == value % 16
  IN
  IF ~hexadecimal THEN value
  ELSE IF high < 10 /\ low < 10 THEN 10 * high + low
  ELSE NoKey

(* "Treasury UTXO Public Key:", printed once threshold and list are valid, before *)
(* the key is split, which may still throw, and before anything is sent.        *)
Printed(c) ==
  /\ Runs(c, "create_multisig")
  /\ client[c].pc \in {"built", "landed", "silent", "unanswered", "thrown"}
  /\ Arguments[c].threshold \in 1..Len(Arguments[c].members)

TreasuryId(d) ==
  ParseBigInt(PublicKeyOf[Arguments[TypedAs[d].printedBy].secret], TypedAs[d].hexadecimal)

(* The note a private_deposit makes, and the change of a swap that spends it. *)
DepositedNote(d) == [by |-> d, owner |-> TreasuryId(d), change |-> FALSE]

ChangeOf(note) == [note EXCEPT !.change = TRUE]

(* What is typed was printed by a create_multisig, and a torn file is not a list *)
(* of records.                                                                 *)
ASSUME DepositsAssumption ==
  /\ \A d \in Deposits :
       TypedAs[d].printedBy \in Commands /\ Runs(TypedAs[d].printedBy, "create_multisig")
  /\ \A records \in SUBSET { DepositedNote(d) : d \in Deposits } : records # Torn

(* cloak_deposit: the depositor's own note, whose key exists only in the output *)
(* of the run; a run that throws has lost it.                                  *)
CloakDeposit(d) ==
  /\ DepositAt(d, "start")
  /\ DepositGoes(d, "funded") \/ DepositGoes(d, "thrown")
  /\ UNCHANGED <<vars, commandVars, notes, notesFile, disturbed>>

(* private_deposit: transact turns that note into one of the treasury.  It may   *)
(* throw before or after the pool has executed it.                             *)
TransactMutRecordsFirst(d) ==
  /\ DepositAt(d, "funded")
  /\ Printed(TypedAs[d].printedBy)
  /\ TreasuryId(d) # NoKey
  /\ notesFile' = IF notesFile = Torn THEN Torn ELSE notesFile \cup {DepositedNote(d)}
  /\ notes' = notes \cup {DepositedNote(d)}
  /\ DepositGoes(d, "sent") \/ DepositGoes(d, "thrown")
  /\ UNCHANGED <<vars, commandVars, disturbed>>

Transact(d) ==
  /\ DepositAt(d, "funded")
  /\ Printed(TypedAs[d].printedBy)
  /\ \/ /\ TreasuryId(d) # NoKey
        /\ notes' = notes \cup {DepositedNote(d)}
        /\ DepositGoes(d, "sent") \/ DepositGoes(d, "thrown")
     \/ /\ DepositGoes(d, "thrown")
        /\ UNCHANGED notes
  /\ UNCHANGED <<vars, commandVars, notesFile, disturbed>>

Others(d, pcs) == \E e \in Deposits \ {d} : deposit[e].pc \in pcs

(* readFileSync; a file that is being written is empty or does not parse. *)
ReadNotes(d) ==
  LET Loads(records) ==
        deposit' = [deposit EXCEPT ![d].pc = "loaded", ![d].records = records]
  IN
  /\ DepositAt(d, "sent")
  /\ IF notesFile = Torn THEN Loads({}) \/ DepositGoes(d, "thrown") ELSE Loads(notesFile)
  /\ disturbed' = (disturbed \/ Others(d, {"loaded", "writing"}))
  /\ UNCHANGED <<vars, commandVars, notes, notesFile>>

(* writeFileSync truncates first, *)
TruncateNotes(d) ==
  /\ DepositAt(d, "loaded")
  /\ notesFile' = Torn
  /\ DepositGoes(d, "writing")
  /\ UNCHANGED <<vars, commandVars, notes, disturbed>>

(* and then writes what was loaded and the new record. *)
WriteNotesMutOnlyNew(d) ==
  /\ DepositAt(d, "writing")
  /\ notesFile' = {DepositedNote(d)}
  /\ DepositGoes(d, "done")
  /\ UNCHANGED <<vars, commandVars, notes, disturbed>>

WriteNotes(d) ==
  /\ DepositAt(d, "writing")
  /\ notesFile' = deposit[d].records \cup {DepositedNote(d)}
  /\ DepositGoes(d, "done")
  /\ UNCHANGED <<vars, commandVars, notes, disturbed>>

Interrupted(d) ==
  /\ deposit[d].pc \in {"sent", "loaded", "writing"}
  /\ DepositGoes(d, "thrown")
  /\ disturbed' = (disturbed \/ DepositAt(d, "writing"))
  /\ UNCHANGED <<vars, commandVars, notes, notesFile>>

(* The executor finds a note by its record and spends it with the key of the     *)
(* members S: a transfer takes all of it, a swap leaves change with the same    *)
(* owner.  The record stays as it is, and the change gets none.  The run prints *)
(* the private key (executePrivateProposal.ts:231, 343), so that from then on    *)
(* the executor holds it without shares; what is done with a key that was read   *)
(* off the terminal is not modelled.                                          *)
SpendRecorded(note, S) ==
  LET key == Reconstruct(multisig.shares, S) IN
  /\ notesFile # Torn /\ note \in notesFile /\ note \in notes
  /\ key # NoKey /\ key \in Secrets /\ PublicKeyOf[key] = note.owner
  /\ \/ notes' = notes \ {note}
     \/ notes' = (notes \ {note}) \cup {ChangeOf(note)}
  /\ UNCHANGED <<vars, commandVars, deposit, notesFile, disturbed>>

NotesNext ==
  \/ CommandsNext /\ UNCHANGED noteVars
  \/ \E d \in Deposits :
       \/ CloakDeposit(d) \/ Transact(d)
       \/ ReadNotes(d) \/ TruncateNotes(d) \/ WriteNotes(d)
       \/ Interrupted(d)
  \/ /\ multisig # NoAccount
     /\ \E note \in notes, S \in SUBSET MemberSet : SpendRecorded(note, S)

NotesSpec ==
  (\E w \in Workloads : NotesInit(w)) /\ [][NotesNext]_<<vars, commandVars, noteVars>>

------------------------------------------------------------------------------
(* Properties. *)

(* Type invariant: records and notes are those of deposits that came so far, and
   the file is torn only while a run writes it or after one died there. *)
NotesTypeOK ==
  /\ \A d \in Deposits : deposit[d].pc \in
       {"unused", "start", "funded", "sent", "loaded", "writing", "done", "thrown"}
  /\ notesFile = Torn =>
       (\E d \in Deposits : DepositAt(d, "writing")) \/ disturbed
  /\ notesFile # Torn => \A r \in notesFile : DepositAt(r.by, "done")

(* A note of the treasury without a record is the change of a swap, or one of a
   deposit that is not finished or was interrupted: as long as no two deposits
   are in the file at once and none dies in its write, every deposit that says it
   is completed can be found by the executor, and none is forgotten later. *)
UnrecordedExplained ==
  ~disturbed /\ notesFile # Torn =>
    \A n \in notes : n \in notesFile \/ n.change \/ ~DepositAt(n.by, "done")

(* A note of the file was made for the account's treasury, if its depositor typed
   the key of the run that created the account, in decimal: then the shares of any
   threshold of the members give a key that spends it, and no fewer shares do. *)
RecordedSpendable ==
  notesFile # Torn /\ multisig # NoAccount =>
    \A r \in notesFile :
      LET c == TypedAs[r.by].printedBy IN
      ~TypedAs[r.by].hexadecimal /\ client[c].pc \in {"landed", "unanswered"} =>
        \A S \in SUBSET MemberSet :
          (\E key \in Secrets :
             Reconstruct(multisig.shares, S) = key /\ PublicKeyOf[key] = r.owner)
            <=> Cardinality(S) >= multisig.threshold
=============================================================================
