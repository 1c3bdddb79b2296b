---------------------------- MODULE WrappedMessage ----------------------------
(***************************************************************************)
(* The transaction message inside a public proposal, on its whole way: the *)
(* client compiles instructions into a list of keys with privileges        *)
(* (utils.ts), serializes them with small arrays (types.ts), the program   *)
(* stores the bytes, the executing client reads them to find the accounts  *)
(* it has to pass, and execute_message parses them again and invokes every *)
(* instruction (proposal_execute.rs).                                      *)
(*                                                                         *)
(* Bytes are cells: a number below Radix, a whole key, or a byte of        *)
(* instruction data.  Indices into the message count from 0, as the code   *)
(* does; At(s, i) reads.                                                   *)
(***************************************************************************)
EXTENDS Integers, SequencesExt

CONSTANTS
  Keys,              (* public keys                                         *)
  Vault,             (* the vault PDA, which signs through the program      *)
  Members,           (* keys that may execute                               *)
  Payers,            (* payerKey of a message: the proposal's creator       *)
  Data,              (* bytes of instruction data                           *)
  InstructionLists,  (* lists of Instructions that are compiled             *)
  Radix,             (* 256, the values of a byte                           *)
  None               (* nothing there yet                                   *)

VARIABLES
  request,           (* payer and instructions of the proposal              *)
  todo,              (* key visits of compile still to come                 *)
  entries,           (* keyMetaMap, in order of insertion                   *)
  message,           (* serialized message                                  *)
  executor,          (* the member whose client sent execute_proposal       *)
  metas,             (* accountMetas its client put into the transaction    *)
  offset,            (* cursor of execute_message                           *)
  invoked            (* instructions invoked so far                         *)

vars == <<request, todo, entries, message, executor, metas, offset, invoked>>

(* A key with its privileges: AccountMeta, and an entry of the key map.        *)
KeyMetas == [key : Keys, signer : BOOLEAN, writable : BOOLEAN]

Instructions == [program : Keys, keys : Seq(KeyMetas), data : Seq(Data)]

ASSUME InstructionsAssumption ==
  /\ Payers \subseteq Keys
  /\ InstructionLists \subseteq Seq(Instructions)

ASSUME CellsAssumption == Radix \in Nat \ {0} /\ None \notin Members

At(s, i) == s[i + 1]

Slice(s, from, to) == SubSeq(s, from + 1, to)

Mapped(s, Op(_)) == [j \in DOMAIN s |-> Op(s[j])]

------------------------------------------------------------------------------
(* Compilation. *)

(* The calls of getOrInsertDefault and the flags they add: the payer, then for *)
(* every instruction its program (no flag) and its accounts.                  *)
VisitsMutPayerLast(payer, instructions) ==
  LET OfInstruction(ix) ==
        <<[key |-> ix.program, signer |-> FALSE, writable |-> FALSE]>> \o ix.keys
  IN  Append(FlattenSeq(Mapped(instructions, OfInstruction)),
             [key |-> payer, signer |-> TRUE, writable |-> TRUE])

Visits(payer, instructions) ==
  LET OfInstruction(ix) ==
        <<[key |-> ix.program, signer |-> FALSE, writable |-> FALSE]>> \o ix.keys
  IN  <<[key |-> payer, signer |-> TRUE, writable |-> TRUE]>>
        \o FlattenSeq(Mapped(instructions, OfInstruction))

(* keyMeta.isSigner ||= ..., keyMeta.isWritable ||= ...; a new key goes last.  *)
MergedMutDuplicates(map, v) ==
  IF v \in ToSet(map) THEN map ELSE Append(map, v)

Merged(map, v) ==
  IF \E e \in ToSet(map) : e.key = v.key
    THEN [j \in DOMAIN map |->
            IF map[j].key = v.key
              THEN [key |-> v.key, signer |-> map[j].signer \/ v.signer,
                    writable |-> map[j].writable \/ v.writable]
              ELSE map[j]]
    ELSE Append(map, v)

Visit ==
  /\ todo # <<>>
  /\ entries' = Merged(entries, Head(todo))
  /\ todo' = Tail(todo)
  /\ UNCHANGED <<request, message, executor, metas, offset, invoked>>

(* The entries of the key map that have these two flags, in their order.       *)
Group(map, signer, writable) ==
  FlattenSeq([j \in DOMAIN map |->
    IF map[j].signer = signer /\ map[j].writable = writable THEN <<map[j]>> ELSE <<>>])

(* The four groups of getMessageComponents, in the order of the message. *)
StaticKeysMutSwapped(map) ==
  Mapped(Group(map, TRUE, TRUE) \o Group(map, TRUE, FALSE)
           \o Group(map, FALSE, FALSE) \o Group(map, FALSE, TRUE), LAMBDA e : e.key)

StaticKeys(map) ==
  Mapped(Group(map, TRUE, TRUE) \o Group(map, TRUE, FALSE)
           \o Group(map, FALSE, TRUE) \o Group(map, FALSE, FALSE), LAMBDA e : e.key)

(* numSigners, numWritableSigners, numWritableNonSigners, as they are derived  *)
(* from numRequiredSignatures and the counts of read-only keys.               *)
Header(map) ==
  LET required == Len(Group(map, TRUE, TRUE)) + Len(Group(map, TRUE, FALSE)) IN
  <<required,
    required - Len(Group(map, TRUE, FALSE)),
    Len(map) - required - Len(Group(map, FALSE, FALSE))>>

(* smallArray: the length in front of the elements. *)
SmallArray(s) == <<Len(s)>> \o s

(* compileInstructions turns keys into indices; programIdIndex u8,             *)
(* accountIndexes with a u8 length, data with a u16 LE length.                *)
InstructionBytesMutShortLength(keys, ix) ==
  LET IndexOf(key) == SelectInSeq(keys, LAMBDA k : k = key) - 1 IN
  <<IndexOf(ix.program)>>
    \o SmallArray(Mapped(ix.keys, LAMBDA m : IndexOf(m.key)))
    \o <<Len(ix.data) % Radix, 0>> \o ix.data

InstructionBytes(keys, ix) ==
  LET IndexOf(key) == SelectInSeq(keys, LAMBDA k : k = key) - 1 IN
  <<IndexOf(ix.program)>>
    \o SmallArray(Mapped(ix.keys, LAMBDA m : IndexOf(m.key)))
    \o <<Len(ix.data) % Radix, Len(ix.data) \div Radix>> \o ix.data

(* The asserts of getMessageComponents (up to Radix keys), and the serializer,  *)
(* whose u8 lengths throw at Radix already.                                   *)
Serialize ==
  LET keys == StaticKeys(entries) IN
  /\ todo = <<>> /\ message = None
  /\ Len(entries) <= Radix
  /\ Group(entries, TRUE, TRUE) # <<>>
  /\ Group(entries, TRUE, TRUE)[1].key = request.payer
  /\ Len(keys) < Radix /\ Len(request.instructions) < Radix
  /\ \A ix \in ToSet(request.instructions) :
       Len(ix.keys) < Radix /\ Len(ix.data) < Radix * Radix
  /\ message' = Header(entries) \o SmallArray(keys)
       \o <<Len(request.instructions)>>
       \o FlattenSeq(Mapped(request.instructions, LAMBDA ix : InstructionBytes(keys, ix)))
  /\ UNCHANGED <<request, todo, entries, executor, metas, offset, invoked>>

------------------------------------------------------------------------------
(* Reading a message, in the client and in the program. *)

NumKeys == At(message, 3)

IsSignerIndex(i) == i < At(message, 0)

IsStaticWritableIndex(i) ==
  /\ i < NumKeys
  /\ \/ i < At(message, 1)
     \/ i >= At(message, 0) /\ i - At(message, 0) < At(message, 2)

(* accountsForTransactionExecute: no signature is asked of the vault. *)
AccountMetasMutReadonly ==
  [j \in 1..NumKeys |->
     [key |-> At(message, 3 + j), writable |-> FALSE,
      signer |-> IsSignerIndex(j - 1) /\ At(message, 3 + j) # Vault]]

AccountMetas ==
  [j \in 1..NumKeys |->
     [key |-> At(message, 3 + j), writable |-> IsStaticWritableIndex(j - 1),
      signer |-> IsSignerIndex(j - 1) /\ At(message, 3 + j) # Vault]]

(* executeProposal signs with the member's key alone: the transaction is sent  *)
(* only if no other key has to sign.                                          *)
Signable(member) ==
  \A a \in ToSet(AccountMetas) : a.signer => a.key = member

Send(member) ==
  /\ message # None /\ executor = None
  /\ Signable(member)
  /\ executor' = member
  /\ metas' = AccountMetas
  /\ offset' = 4 + NumKeys + 1
  /\ UNCHANGED <<request, todo, entries, message, invoked>>

(* One turn of execute_message's loop.  The accounts are those that were       *)
(* passed, the privileges those of the message.                               *)
Invoke ==
  LET count == At(message, 4 + NumKeys)
      numIndexes == At(message, offset + 1)
      indexes == Slice(message, offset + 2, offset + 2 + numIndexes)
      data == offset + 2 + numIndexes + 2
      dataLen == At(message, data - 2) + Radix * At(message, data - 1)
  IN
  /\ executor # None /\ Len(invoked) < count
  /\ invoked' = Append(invoked,
       [program |-> At(metas, At(message, offset)).key,
        keys |-> Mapped(indexes, LAMBDA i :
                   [key |-> At(metas, i).key, signer |-> IsSignerIndex(i),
                    writable |-> IsStaticWritableIndex(i)]),
        data |-> Slice(message, data, data + dataLen)])
  /\ offset' = data + dataLen
  /\ UNCHANGED <<request, todo, entries, message, executor, metas>>

Init ==
  /\ request \in [payer : Payers, instructions : InstructionLists]
  /\ todo = Visits(request.payer, request.instructions)
  /\ entries = <<>>
  /\ message = None
  /\ executor = None
  /\ metas = <<>>
  /\ offset = 0
  /\ invoked = <<>>

Next ==
  \/ Visit
  \/ Serialize
  \/ \E member \in Members : Send(member)
  \/ Invoke

Spec == Init /\ [][Next]_vars

------------------------------------------------------------------------------
(* Properties. *)

(* What the instructions ask for a key, all of them together. *)
Asked(key, flag) ==
  \/ key = request.payer
  \/ \E ix \in ToSet(request.instructions) : \E m \in ToSet(ix.keys) :
       m.key = key /\ m[flag]

(* Type invariant: the key map holds a key once, the cursor is in the message. *)
TypeOK ==
  /\ \A e \in ToSet(entries) : e.key \in Keys /\ {e.signer, e.writable} \subseteq BOOLEAN
  /\ \A j, k \in DOMAIN entries : entries[j].key = entries[k].key => j = k
  /\ executor \in Members \cup {None}
  /\ message # None => offset \in 0..Len(message)

(* The position of a key in the message says which privileges it has, and those
   are what all instructions together ask for it: four groups and three counts
   carry the flags of every key. *)
PrivilegesPreserved ==
  message # None =>
    \A i \in 0..NumKeys - 1 :
      LET key == At(message, 4 + i) IN
      /\ IsSignerIndex(i) <=> Asked(key, "signer")
      /\ IsStaticWritableIndex(i) <=> Asked(key, "writable")

(* A message that fits its counts is never refused by getMessageComponents: the
   payer is the first writable signer. *)
PayerLeads ==
  todo = <<>> => Group(entries, TRUE, TRUE) # <<>>
                 /\ Group(entries, TRUE, TRUE)[1].key = request.payer

(* The program invokes the proposed instructions, in order, on the proposed
   accounts and with the proposed data, and is at the end of the message after
   the last one: writer and parser agree on every length. *)
InvokesProposal ==
  /\ \A n \in DOMAIN invoked :
       LET asked == request.instructions[n] IN
       /\ invoked[n].program = asked.program
       /\ invoked[n].data = asked.data
       /\ Mapped(invoked[n].keys, LAMBDA m : m.key) = Mapped(asked.keys, LAMBDA m : m.key)
  /\ executor # None /\ Len(invoked) = Len(request.instructions) =>
       offset = Len(message)

(* No invoked instruction asks for a privilege that the executing transaction
   lacks: what it marks writable the client marked writable, and who must sign
   signed the transaction or is the vault. *)
NoEscalation ==
  \A ix \in ToSet(invoked) : \A m \in ToSet(ix.keys) :
    /\ m.writable => \E a \in ToSet(metas) : a.key = m.key /\ a.writable
    /\ m.signer => m.key \in {executor, Vault}

(* "members vote, executor fires the transaction" (README.md:21): every member
   can execute an approved public proposal. *)
AnyMemberFires ==
  message # None => \A member \in Members : Signable(member)
=============================================================================
