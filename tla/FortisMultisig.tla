---------------------------- MODULE FortisMultisig ----------------------------
(***************************************************************************)
(* The FortisX on-chain program (program/src) for one multisig: the        *)
(* multisig account, the proposal and transaction accounts of every index, *)
(* and the lamports they and the wallets around them hold.                 *)
(*                                                                         *)
(* An instruction is atomic: a handler that returns an error or panics     *)
(* rolls every account back, so an action's guard is the conjunction of    *)
(* the handler's checks and an instruction that fails is no step.  The     *)
(* address checks make the accounts of an instruction those of one index;  *)
(* that index is a parameter of the action.                                *)
(***************************************************************************)
EXTENDS Integers, Sequences, FiniteSetsExt

CONSTANTS
  Keys,            (* public keys, whether or not they sign                *)
  ZeroKey,         (* [0u8; 32], an empty approver slot                    *)
  MemberLists,     (* member lists create_multisig is called with          *)
  ShareLists,      (* lists of encrypted shares it is called with          *)
  Thresholds,      (* thresholds it is called with (u16)                   *)
  MaxMembers,      (* u16::MAX                                             *)
  RentCollectors,  (* keys that may be the rent collector                  *)
  Payees,          (* keys a public transfer may pay                       *)
  Amounts,         (* lamports of a public transfer or of a deposit        *)
  Hashes,          (* payload hashes of private proposals                  *)
  ZeroHash,        (* the all-zero hash                                    *)
  EmptyMessages,   (* hashes whose bytes read as a message without         *)
                   (* instructions, see ExecuteHash                        *)
  PrivateTypes,    (* types create_private_proposal is called with (u8)    *)
  Deadlines,       (* voting deadlines (i64 seconds)                       *)
  MaxIndex,        (* u64::MAX: transaction_index.checked_add(1) fails     *)
  MaxTime,         (* bound on the clock                                   *)
  Funds,           (* lamports the members' wallets hold at first          *)
  CreationFee, MultisigRent, ProposalRent, TransactionRent,
  NoAccount        (* an address that holds no account                     *)

VARIABLES
  now,             (* Clock::get()?.unix_timestamp                         *)
  multisig,        (* the multisig account                                 *)
  proposal,        (* proposal account of every index                      *)
  transaction,     (* transaction account of every index                   *)
  lamports,        (* wallets: the members' together, the vault, ...       *)
  payouts          (* history: how often the message of an index ran       *)

vars == <<now, multisig, proposal, transaction, lamports, payouts>>

Active == 0
Approved == 1
Executed == 2

Public == 0
PrivateTransfer == 1
PrivateSwap == 2

Indices == 1..MaxIndex

Holders == {"payers", "vault", "wallet"} \cup RentCollectors \cup Payees

Messages == [to : Payees, amount : Amounts]

(* What the execution of a message may take from the vault. *)
Effects == [to : Payees, amount : Amounts \cup {0}]

Multisigs ==
  [rent_collector : RentCollectors, transaction_index : 0..MaxIndex,
   threshold : Thresholds, members : MemberLists, shares : ShareLists,
   lamports : Nat]

Proposals ==
  [transaction_index : Indices, timestamp : 0..MaxTime, deadline : Deadlines,
   status : {Active, Approved, Executed},
   proposal_type : {Public} \cup PrivateTypes,
   approvers_len : Nat, approvers : Seq(Keys \cup {ZeroKey}), lamports : Nat]

(* The creator, which no handler reads, is left out. *)
Transactions ==
  [transaction_index : Indices, content : Messages \cup Hashes,
   lamports : Nat]

(* Members and threshold, as ProposalLifecycle sees them. *)
Councils == [members : SUBSET Keys, threshold : Thresholds]

ASSUME BoundsAssumption ==
  /\ MaxIndex \in Nat /\ MaxTime \in Nat /\ MaxMembers \in Nat /\ Funds \in Nat
  /\ CreationFee \in Nat /\ MultisigRent \in Nat
  /\ ProposalRent \in Nat /\ TransactionRent \in Nat
  /\ Thresholds \subseteq Nat /\ Amounts \subseteq Nat /\ Deadlines \subseteq Int

(* A type is a u8, and no 32 bytes are the message of a proposal. *)
ASSUME TypesAssumption == PrivateTypes \subseteq 0..255 /\ Messages \cap Hashes = {}

(* No member list names the zero key, and no account equals NoAccount.       *)
ASSUME KeysAssumption ==
  /\ ZeroKey \notin Keys
  /\ MemberLists \subseteq Seq(Keys)
  /\ EmptyMessages \subseteq Hashes
  /\ NoAccount \notin Multisigs \cup Proposals \cup Transactions \cup Councils

(* Program accounts and wallets are different addresses. *)
ASSUME HoldersAssumption ==
  /\ {"payers", "vault", "wallet"} \cap (RentCollectors \cup Payees) = {}
  /\ RentCollectors \cap Payees = {}

(* Addresses have 32 bytes: there are finitely many. *)
ASSUME AddressesAssumption == IsFiniteSet(RentCollectors) /\ IsFiniteSet(Payees)

Init ==
  /\ now = 0
  /\ multisig = NoAccount
  /\ proposal = [i \in Indices |-> NoAccount]
  /\ transaction = [i \in Indices |-> NoAccount]
  /\ lamports = [h \in Holders |-> IF h = "payers" THEN Funds ELSE 0]
  /\ payouts = [i \in Indices |-> 0]

------------------------------------------------------------------------------
(* Helpers of the handlers. *)

(* Multisig::is_member: the key is one of the first members_len entries. *)
IsMember(key) ==
  /\ multisig # NoAccount
  /\ \E j \in DOMAIN multisig.members : multisig.members[j] = key

(* The slots at which the approval loop stops: the member's own or an empty one. *)
StopsMutSkipsOwn(p, member) ==
  {j \in DOMAIN p.approvers : p.approvers[j] = ZeroKey}

Stops(p, member) ==
  {j \in DOMAIN p.approvers : p.approvers[j] \in {member, ZeroKey}}

(* `member already approved`: the loop meets the member before an empty slot. *)
HasApproved(p, member) ==
  /\ Stops(p, member) # {}
  /\ p.approvers[Min(Stops(p, member))] = member

(* The loop's write: the first empty slot takes the member; no empty slot, no write. *)
RecordApproval(p, member) ==
  IF Stops(p, member) = {} THEN p
  ELSE [p EXCEPT !.approvers[Min(Stops(p, member))] = member,
                 !.approvers_len = @ + 1]

(* The threshold check that follows the loop. *)
TallyMutStrict(p) ==
  IF p.approvers_len > multisig.threshold
    THEN [p EXCEPT !.status = Approved, !.timestamp = now] ELSE p

Tally(p) ==
  IF p.approvers_len >= multisig.threshold
    THEN [p EXCEPT !.status = Approved, !.timestamp = now] ELSE p

(* A freshly written proposal account: header, counter 0 and zeroed slots. *)
NewProposal(index, deadline, type) ==
  [transaction_index |-> index, timestamp |-> now, deadline |-> deadline,
   status |-> Active, proposal_type |-> type, approvers_len |-> 0,
   approvers |-> [j \in 1..Len(multisig.members) |-> ZeroKey],
   lamports |-> ProposalRent]

NewTransactionMutOldIndex(index, content) ==
  [transaction_index |-> IF index > 1 THEN index - 1 ELSE index,
   content |-> content, lamports |-> TransactionRent]

NewTransaction(index, content) ==
  [transaction_index |-> index, content |-> content, lamports |-> TransactionRent]

(* Both create handlers: take the next index, create both accounts of it at   *)
(* the creator's expense, for which the runtime asks the creator's signature.  *)
(* The addresses the client computed must be those of the next index, and an   *)
(* account that exists cannot be created.                                     *)
OpenIndex(index, deadline, type, content) ==
  LET rent == TransactionRent + ProposalRent IN
  /\ index = multisig.transaction_index + 1
  /\ transaction[index] = NoAccount /\ proposal[index] = NoAccount
  /\ lamports["payers"] >= rent
  /\ multisig' = [multisig EXCEPT !.transaction_index = index]
  /\ proposal' = [proposal EXCEPT ![index] = NewProposal(index, deadline, type)]
  /\ transaction' = [transaction EXCEPT ![index] = NewTransaction(index, content)]
  /\ lamports' = [lamports EXCEPT !["payers"] = @ - rent]
  /\ UNCHANGED <<now, payouts>>

------------------------------------------------------------------------------
(* Instructions. *)

(* 0: create_multisig.  The threshold may be 0 and members may repeat: the     *)
(* handler asks only for threshold <= members_len.                            *)
CreateMultisig(threshold, collector, members, shares) ==
  LET cost == MultisigRent + CreationFee IN
  /\ multisig = NoAccount
  /\ Len(members) # 0 /\ Len(members) <= MaxMembers
  /\ threshold <= Len(members)
  /\ Len(shares) = Len(members)
  /\ lamports["payers"] >= cost
  /\ multisig' = [rent_collector |-> collector, transaction_index |-> 0,
                  threshold |-> threshold, members |-> members, shares |-> shares,
                  lamports |-> MultisigRent]
  /\ lamports' = [lamports EXCEPT !["payers"] = @ - cost, !["wallet"] = @ + CreationFee]
  /\ UNCHANGED <<now, proposal, transaction, payouts>>

(* 1: create_proposal (public).  The deadline is not compared with the clock.  *)
CreateProposal(creator, index, deadline, message) ==
  /\ IsMember(creator)
  /\ OpenIndex(index, deadline, Public, message)

(* 5: create_private_proposal: a hash stands for the payload, which stays      *)
(* off the chain.  The type is stored as it comes, 0 for public included.     *)
CreatePrivateProposal(creator, index, deadline, type, hash) ==
  /\ hash # ZeroHash
  /\ deadline > now
  /\ IsMember(creator)
  /\ OpenIndex(index, deadline, type, hash)

(* 2: approve_proposal.  The proposal's address is derived from the multisig's *)
(* current transaction_index, so that only the latest proposal takes votes.    *)
(* The handler compares the member account's key with the list and does not    *)
(* ask for its signature: a vote is one in the member's name.                  *)
ApproveMutAnyIndex(member, index) ==
  /\ IsMember(member)
  /\ proposal[index] # NoAccount
  /\ proposal[index].status = Active
  /\ now <= proposal[index].deadline
  /\ ~HasApproved(proposal[index], member)
  /\ proposal' = [proposal EXCEPT ![index] = Tally(RecordApproval(@, member))]
  /\ UNCHANGED <<now, multisig, transaction, lamports, payouts>>

ApproveMutLate(member, index) ==
  /\ IsMember(member)
  /\ index = multisig.transaction_index
  /\ proposal[index] # NoAccount
  /\ proposal[index].status = Active
  /\ ~HasApproved(proposal[index], member)
  /\ proposal' = [proposal EXCEPT ![index] = Tally(RecordApproval(@, member))]
  /\ UNCHANGED <<now, multisig, transaction, lamports, payouts>>

Approve(member, index) ==
  /\ IsMember(member)
  /\ index = multisig.transaction_index
  /\ proposal[index] # NoAccount
  /\ proposal[index].status = Active
  /\ now <= proposal[index].deadline
  /\ ~HasApproved(proposal[index], member)
  /\ proposal' = [proposal EXCEPT ![index] = Tally(RecordApproval(@, member))]
  /\ UNCHANGED <<now, multisig, transaction, lamports, payouts>>

(* 3: execute_proposal, the checks every type of proposal passes: the accounts *)
(* of the current index, a member's key, status Approved.  No deadline applies, *)
(* and again the member named need not sign.                                   *)
CanExecuteMutNoStatus(member, index) ==
  /\ IsMember(member)
  /\ index = multisig.transaction_index
  /\ proposal[index] # NoAccount /\ transaction[index] # NoAccount
  /\ proposal[index].status \in {Active, Approved}

CanExecute(member, index) ==
  /\ IsMember(member)
  /\ index = multisig.transaction_index
  /\ proposal[index] # NoAccount /\ transaction[index] # NoAccount
  /\ proposal[index].status = Approved

MarkExecutedMutForgets(index) ==
  proposal' = [proposal EXCEPT ![index].timestamp = now]

MarkExecuted(index) ==
  proposal' = [proposal EXCEPT ![index].status = Executed, ![index].timestamp = now]

(* Every type but 1: execute_message invokes the message's instructions with   *)
(* the vault's signature, and the proposal is marked once that succeeded.  The  *)
(* accounts of the instructions, their programs included, are those passed to   *)
(* execute_proposal in the message's order; they are not compared with the keys *)
(* the message lists.  What is paid, and to whom, is therefore an effect that   *)
(* may differ from the message.                                                *)
ExecutePublicMutOverdraft(member, index, effect) ==
  /\ CanExecute(member, index)
  /\ proposal[index].proposal_type # PrivateTransfer
  /\ transaction[index].content \in Messages
  /\ lamports' = [lamports EXCEPT !["vault"] = @ - effect.amount,
                                  ![effect.to] = @ + effect.amount]
  /\ MarkExecuted(index)
  /\ payouts' = [payouts EXCEPT ![index] = @ + 1]
  /\ UNCHANGED <<now, multisig, transaction>>

ExecutePublic(member, index, effect) ==
  /\ CanExecute(member, index)
  /\ proposal[index].proposal_type # PrivateTransfer
  /\ transaction[index].content \in Messages
  /\ lamports["vault"] >= effect.amount
  /\ lamports' = [lamports EXCEPT !["vault"] = @ - effect.amount,
                                  ![effect.to] = @ + effect.amount]
  /\ MarkExecuted(index)
  /\ payouts' = [payouts EXCEPT ![index] = @ + 1]
  /\ UNCHANGED <<now, multisig, transaction>>

(* A private transfer needs no instruction on the chain: it is only marked.    *)
ExecuteTransfer(member, index) ==
  /\ CanExecute(member, index)
  /\ proposal[index].proposal_type = PrivateTransfer
  /\ MarkExecuted(index)
  /\ UNCHANGED <<now, multisig, transaction, lamports, payouts>>

(* A private proposal of any other type, a swap (2) or a type 0 with a hash,    *)
(* takes the path of messages: the bytes from offset 73 of its transaction      *)
(* account, which are the payload hash, are read as vault bump, ephemeral signer *)
(* count and message.  The handler gets to the end only for a hash that reads as *)
(* a message without keys and instructions.                                    *)
ExecuteHash(member, index) ==
  /\ CanExecute(member, index)
  /\ proposal[index].proposal_type # PrivateTransfer
  /\ transaction[index].content \in EmptyMessages
  /\ MarkExecuted(index)
  /\ UNCHANGED <<now, multisig, transaction, lamports, payouts>>

(* 4: account_close.  The transaction account names its index; the proposal is *)
(* closable when executed, or active past its deadline, and the rent of both   *)
(* accounts goes to the multisig's rent collector.                             *)
ClosableMutAnyStatus(p) == p.status = Executed \/ now > p.deadline

Closable(p) ==
  \/ p.status = Executed
  \/ p.status = Active /\ now > p.deadline

CloseMutKeepsRent(index, collector) ==
  LET i == transaction[index].transaction_index IN
  /\ multisig # NoAccount
  /\ transaction[index] # NoAccount /\ proposal[i] # NoAccount
  /\ collector = multisig.rent_collector
  /\ Closable(proposal[i])
  /\ lamports' = [lamports EXCEPT ![collector] = @ + transaction[index].lamports]
  /\ transaction' = [transaction EXCEPT ![index] = NoAccount]
  /\ proposal' = [proposal EXCEPT ![i] = NoAccount]
  /\ UNCHANGED <<now, multisig, payouts>>

Close(index, collector) ==
  LET i == transaction[index].transaction_index IN
  /\ multisig # NoAccount
  /\ transaction[index] # NoAccount /\ proposal[i] # NoAccount
  /\ collector = multisig.rent_collector
  /\ Closable(proposal[i])
  /\ lamports' = [lamports EXCEPT ![collector] =
                    @ + transaction[index].lamports + proposal[i].lamports]
  /\ transaction' = [transaction EXCEPT ![index] = NoAccount]
  /\ proposal' = [proposal EXCEPT ![i] = NoAccount]
  /\ UNCHANGED <<now, multisig, payouts>>

(* Outside the program: a transfer to the vault address (public_deposit), and  *)
(* the cluster's clock, which never runs backwards.                            *)
Deposit(amount) ==
  /\ lamports["payers"] >= amount
  /\ lamports' = [lamports EXCEPT !["payers"] = @ - amount, !["vault"] = @ + amount]
  /\ UNCHANGED <<now, multisig, proposal, transaction, payouts>>

Tick ==
  /\ now < MaxTime
  /\ now' = now + 1
  /\ UNCHANGED <<multisig, proposal, transaction, lamports, payouts>>

Next ==
  \/ \E threshold \in Thresholds, collector \in RentCollectors,
        members \in MemberLists, shares \in ShareLists :
       CreateMultisig(threshold, collector, members, shares)
  \/ \E key \in Keys, index \in Indices :
       \/ \E deadline \in Deadlines, message \in Messages :
            CreateProposal(key, index, deadline, message)
       \/ \E deadline \in Deadlines, type \in PrivateTypes, hash \in Hashes :
            CreatePrivateProposal(key, index, deadline, type, hash)
       \/ Approve(key, index)
       \/ \E effect \in Effects : ExecutePublic(key, index, effect)
       \/ ExecuteTransfer(key, index)
       \/ ExecuteHash(key, index)
  \/ \E index \in Indices, collector \in RentCollectors : Close(index, collector)
  \/ \E amount \in Amounts : Deposit(amount)
  \/ Tick

Spec == Init /\ [][Next]_vars

------------------------------------------------------------------------------
(* Properties. *)

Live(i) == proposal[i] # NoAccount

(* The distinct approvers a proposal account holds. *)
Votes(p) == {p.approvers[j] : j \in DOMAIN p.approvers} \ {ZeroKey}

MemberSet == {multisig.members[j] : j \in DOMAIN multisig.members}

(* Type invariant: every account holds a value its handlers can write, and no
   wallet goes below zero. *)
TypeOK ==
  /\ now \in 0..MaxTime
  /\ multisig \in Multisigs \cup {NoAccount}
  /\ proposal \in [Indices -> Proposals \cup {NoAccount}]
  /\ transaction \in [Indices -> Transactions \cup {NoAccount}]
  /\ lamports \in [Holders -> Nat]
  /\ payouts \in [Indices -> Nat]

(* The accounts of an index are created and closed together, both carry the
   index of their address (which account_close relies on), a message, which can
   move the vault's money, is in the account of a public proposal only, and
   indices after transaction_index have no accounts. *)
PairedAt(i) ==
  /\ Live(i) <=> transaction[i] # NoAccount
  /\ Live(i) =>
       /\ multisig # NoAccount
       /\ i <= multisig.transaction_index
       /\ proposal[i].transaction_index = i
       /\ transaction[i].transaction_index = i
       /\ transaction[i].content \in Messages => proposal[i].proposal_type = Public

AccountsPaired == \A i \in Indices : PairedAt(i)

(* The slot array and its separate counter agree: the slots are filled from the
   front, one per counted vote, with the keys of distinct members; and an active
   proposal is below the threshold (or has no vote at all). *)
TallyAt(i) ==
  LET p == proposal[i] IN
  Live(i) =>
    /\ DOMAIN p.approvers = 1..Len(multisig.members)
    /\ p.approvers_len <= Len(multisig.members)
    /\ \A j \in DOMAIN p.approvers :
         /\ p.approvers[j] = ZeroKey <=> j > p.approvers_len
         /\ p.approvers[j] \in MemberSet \cup {ZeroKey}
         /\ \A k \in DOMAIN p.approvers :
              p.approvers[j] = p.approvers[k] /\ p.approvers[j] # ZeroKey => j = k
    /\ Cardinality(Votes(p)) = p.approvers_len
    /\ p.status = Active => p.approvers_len = 0 \/ p.approvers_len < multisig.threshold

ApprovalTally == \A i \in Indices : TallyAt(i)

(* The slots of an approved or executed proposal name at least threshold distinct
   members, and one member even when the threshold is 0: a repeated instruction,
   a repeated entry of the list or an empty slot never counts.  That the members
   named have signed is for the clients to see to; the program does not ask. *)
QuorumAt(i) ==
  Live(i) /\ proposal[i].status # Active =>
    /\ Votes(proposal[i]) # {}
    /\ Votes(proposal[i]) \subseteq MemberSet
    /\ Cardinality(Votes(proposal[i])) >= multisig.threshold

QuorumBehindApproval == \A i \in Indices : QuorumAt(i)

(* A proposal that is approved became so while its deadline had not passed,
   however late it is looked at. *)
InTimeAt(i) ==
  Live(i) /\ proposal[i].status = Approved =>
    proposal[i].timestamp <= proposal[i].deadline

VotesInTime == \A i \in Indices : InTimeAt(i)

(* The message of an index runs at most once, and if it ran the proposal is not
   open to execution again: it is a public one marked executed, or closed. *)
PaidOnceAt(i) ==
  /\ payouts[i] <= 1
  /\ payouts[i] = 1 =>
       /\ multisig # NoAccount /\ i <= multisig.transaction_index
       /\ Live(i) => proposal[i].status = Executed /\ proposal[i].proposal_type = Public

PaidOnce == \A i \in Indices : PaidOnceAt(i)

(* "there will be alwys space in approvers array" (proposal_approve.rs:96): a
   proposal that still takes votes has an empty slot, also when the threshold is
   the number of members, so the loop never runs off the array. *)
SpaceForApprover ==
  \A i \in Indices : Live(i) /\ proposal[i].status = Active =>
    \E j \in DOMAIN proposal[i].approvers : proposal[i].approvers[j] = ZeroKey

(* No instruction creates or loses lamports: fee, rents, deposits, payments and
   refunds move what the members' wallets held at first. *)
LamportsConserved ==
  LET AccountLamports(a) == IF a = NoAccount THEN 0 ELSE a.lamports
      InAccounts ==
        [i \in Indices |-> AccountLamports(proposal[i]) + AccountLamports(transaction[i])]
  IN  AccountLamports(multisig) + SumFunction(lamports) + SumFunction(InAccounts) = Funds

(* A proposal that is not the latest is out of reach: no instruction votes on it
   or executes it, the only thing that can happen to it is to be closed. *)
SupersededFrozen ==
  [][\A i \in Indices : Live(i) /\ i < multisig.transaction_index =>
       proposal'[i] \in {proposal[i], NoAccount}]_vars

(* The vault's balance falls only in the step that executes an approved proposal
   with a message, of the current index, whose slots name threshold distinct
   members, and which that step marks executed: never for a hash, an old index
   or a second time.  Whom it pays is up to the accounts passed (ExecutePublic);
   what this repository's commands add to it is PaidAsProposed in MemberCommands. *)
VaultPaysOnlyByQuorum ==
  [][lamports'["vault"] < lamports["vault"] =>
       \E i \in Indices :
         /\ Live(i) /\ i = multisig.transaction_index
         /\ transaction[i].content \in Messages
         /\ proposal[i].proposal_type = Public /\ proposal[i].status = Approved
         /\ Votes(proposal[i]) \subseteq MemberSet
         /\ Cardinality(Votes(proposal[i])) >= multisig.threshold
         /\ proposal'[i].status = Executed]_vars

(* The abstract lifecycle, read off the accounts. *)
CouncilBar ==
  IF multisig = NoAccount THEN NoAccount
  ELSE [members |-> MemberSet, threshold |-> multisig.threshold]

LatestBar == IF multisig = NoAccount THEN 0 ELSE multisig.transaction_index

PhaseAt(i) ==
  IF ~Live(i) THEN IF i <= LatestBar THEN "retired" ELSE "unused"
  ELSE IF proposal[i].status = Active THEN "voting"
  ELSE IF proposal[i].status = Approved THEN "approved"
  ELSE "executed"

VotesAt(i) == IF Live(i) THEN Votes(proposal[i]) ELSE {}

Lifecycle ==
  INSTANCE ProposalLifecycle WITH
    NoCouncil <- NoAccount, council <- CouncilBar, latest <- LatestBar,
    phase <- [i \in Indices |-> PhaseAt(i)], votes <- [i \in Indices |-> VotesAt(i)]

(* The program implements the abstract lifecycle: one vote in a member's name, approval
   exactly at the threshold, only the latest proposal moves, an approved one is
   never retired and a number is never used again. *)
ImplementsLifecycle == Lifecycle!LSpec

------------------------------------------------------------------------------
(* What comments of the code say and the program does not do. *)

(* "Proposal has been approved and is pending execution" (proposal.rs:7): an
   approved private transfer, which needs nothing but its mark, can be executed
   by some member. *)
ApprovedPendingExecution ==
  \A i \in Indices :
    Live(i) /\ proposal[i].status = Approved /\ proposal[i].proposal_type = PrivateTransfer
      => \E m \in MemberSet : ENABLED ExecuteTransfer(m, i)

(* "private proposal dosnet needs on chain execution, so we can directly mark it
   as executed" (proposal_execute.rs:115), with types 1 and 2 private
   (proposal.rs:28): some member can mark the latest private proposal executed
   once it is approved. *)
PrivateMarkedDirectly ==
  \A i \in Indices :
    /\ Live(i) /\ i = multisig.transaction_index
    /\ proposal[i].status = Approved
    /\ proposal[i].proposal_type \in {PrivateTransfer, PrivateSwap}
    => \E m \in MemberSet : ENABLED (ExecuteTransfer(m, i) \/ ExecuteHash(m, i))
=============================================================================
