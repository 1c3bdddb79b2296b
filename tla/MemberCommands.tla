---------------------------- MODULE MemberCommands ----------------------------
(***************************************************************************)
(* The commands that send one instruction to the multisig program:         *)
(* create_multisig, create_transfer_proposal, approve_proposal,            *)
(* execute_proposal and public_deposit, run by several members side by     *)
(* side.  A command reads accounts, decides on what it has read, sends its *)
(* transaction, waits for the confirmation and tells what became of it; in *)
(* between anything may happen on the chain.  The member whose key a       *)
(* command is run with signs its transaction, whatever the program asks.   *)
(*                                                                         *)
(* The chain is FortisMultisig, what create_multisig puts into the account *)
(* is TreasuryKey.                                                         *)
(***************************************************************************)
EXTENDS FortisMultisig, TreasuryKey

CONSTANTS
  Commands,        (* runs of the commands                                  *)
  Arguments,       (* what each is called with: kind, signer and the rest   *)
  Workloads,       (* sets of commands that are run together                *)
  VotingPeriod     (* seconds from creation to deadline                     *)

Runs(c, kind) == Arguments[c].kind = kind

(* A command is called with keys, numbers and messages; the creator of the      *)
(* multisig is its rent collector.  The deadline is voting time from now.      *)
ASSUME ArgumentsAssumption ==
  /\ \A c \in Commands :
       LET a == Arguments[c] IN
       /\ Runs(c, "create_multisig") =>
            /\ a.signer \in RentCollectors /\ a.members \in MemberLists
            /\ a.threshold \in Thresholds /\ a.secret \in Secrets
       /\ Runs(c, "create_transfer_proposal") =>
            a.signer \in Keys /\ a.message \in Messages
       /\ Runs(c, "approve_proposal") \/ Runs(c, "execute_proposal") =>
            a.signer \in Keys /\ a.index \in Indices
       /\ Runs(c, "public_deposit") => a.amount \in Amounts
  /\ \A clock \in 0..MaxTime : clock + VotingPeriod \in Deadlines

VARIABLES
  client,          (* where a run is, what it has read and told             *)
  treasury         (* treasury_utxo_pubkey of the multisig account          *)

commandVars == <<client, treasury>>

Steps == {"unused", "start", "read", "built", "landed", "confirmed", "done", "skipped",
          "thrown", "silent", "unanswered"}

Tellings == {"nothing", "executable", "executed", "waiting"}

At(c, pc) == client[c].pc = pc

Goes(c, pc) == client' = [client EXCEPT ![c].pc = pc]

CommandsInit(workload) ==
  /\ Init
  /\ treasury = <<>>
  /\ client = [c \in Commands |->
       [pc |-> IF c \in workload THEN "start" ELSE "unused", index |-> 0, deadline |-> 0,
        shares |-> <<>>, content |-> NoAccount, told |-> "nothing", remaining |-> 0]]

------------------------------------------------------------------------------
(* What a command does before it sends. *)

(* create_multisig: validation, a fresh key, its shares; the key and the plain  *)
(* shares are overwritten before the transaction is sent.                     *)
BuildMultisigMutThreshold(c) ==
  LET a == Arguments[c] IN
  /\ At(c, "start") /\ Runs(c, "create_multisig")
  /\ IF a.threshold \in 1..Len(a.members) /\ CanSplit(Len(a.members), a.threshold)
       THEN client' = [client EXCEPT ![c].pc = "built",
                         ![c].shares = SharesOfKey(a.secret, a.members, Len(a.members))]
       ELSE Goes(c, "thrown")
  /\ UNCHANGED <<vars, treasury>>

BuildMultisig(c) ==
  LET a == Arguments[c] IN
  /\ At(c, "start") /\ Runs(c, "create_multisig")
  /\ IF a.threshold \in 1..Len(a.members) /\ CanSplit(Len(a.members), a.threshold)
       THEN client' = [client EXCEPT ![c].pc = "built",
                         ![c].shares = SharesOfKey(a.secret, a.members, a.threshold)]
       ELSE Goes(c, "thrown")
  /\ UNCHANGED <<vars, treasury>>

(* create_transfer_proposal: getAccountInfo(multisig), the index it names.  The  *)
(* deadline is counted from the local clock.                                   *)
ReadIndexMutSkips(c) ==
  /\ At(c, "start") /\ Runs(c, "create_transfer_proposal")
  /\ IF multisig = NoAccount THEN Goes(c, "thrown")
     ELSE \E clock \in 0..MaxTime :
            client' = [client EXCEPT ![c].pc = "built",
                         ![c].index = multisig.transaction_index + 2,
                         ![c].deadline = clock + VotingPeriod]
  /\ UNCHANGED <<vars, treasury>>

ReadIndex(c) ==
  /\ At(c, "start") /\ Runs(c, "create_transfer_proposal")
  /\ IF multisig = NoAccount THEN Goes(c, "thrown")
     ELSE \E clock \in 0..MaxTime :
            client' = [client EXCEPT ![c].pc = "built",
                         ![c].index = multisig.transaction_index + 1,
                         ![c].deadline = clock + VotingPeriod]
  /\ UNCHANGED <<vars, treasury>>

(* approve_proposal: ends at once for an executed proposal and for one that is  *)
(* approved with the member's vote, throws after the deadline by the local     *)
(* clock, and sends in every other case, also when it cannot succeed.          *)
ReadProposal(c) ==
  LET a == Arguments[c]
      p == proposal[a.index]
  IN
  /\ At(c, "start") /\ Runs(c, "approve_proposal")
  /\ IF multisig = NoAccount \/ p = NoAccount THEN Goes(c, "thrown")
     ELSE IF p.status = Executed THEN Goes(c, "skipped")
     ELSE \E clock \in 0..MaxTime :
            IF clock > p.deadline THEN Goes(c, "thrown")
            ELSE IF a.signer \in Votes(p) /\ p.status = Approved THEN Goes(c, "skipped")
            ELSE client' = [client EXCEPT ![c].pc = "built", ![c].index = a.index]
  /\ UNCHANGED <<vars, treasury>>

(* execute_proposal: the transaction account, whose message names the accounts   *)
(* to pass, and then the proposal's status.                                    *)
ReadTransaction(c) ==
  LET a == Arguments[c] IN
  /\ At(c, "start") /\ Runs(c, "execute_proposal")
  /\ IF transaction[a.index] = NoAccount THEN Goes(c, "thrown")
     ELSE client' = [client EXCEPT ![c].pc = "read", ![c].index = a.index,
                                   ![c].content = transaction[a.index].content]
  /\ UNCHANGED <<vars, treasury>>

ReadStatus(c) ==
  LET p == proposal[client[c].index] IN
  /\ At(c, "read")
  /\ Goes(c, IF p # NoAccount /\ p.status = Approved THEN "built" ELSE "thrown")
  /\ UNCHANGED <<vars, treasury>>

(* public_deposit reads nothing. *)
BuildDeposit(c) ==
  /\ At(c, "start") /\ Runs(c, "public_deposit")
  /\ Goes(c, "built")
  /\ UNCHANGED <<vars, treasury>>

------------------------------------------------------------------------------
(* The transaction of a command, once sent, is executed.  *)

Sent(c) == client[c].pc \in {"built", "silent"}

Lands(c) == Goes(c, IF At(c, "built") THEN "landed" ELSE "unanswered")

LandMultisig(c) ==
  LET a == Arguments[c] IN
  /\ Sent(c) /\ Runs(c, "create_multisig")
  /\ client[c].shares \in ShareLists
  /\ CreateMultisig(a.threshold, a.signer, a.members, client[c].shares)
  /\ treasury' = LittleEndian(PublicKeyOf[a.secret])
  /\ Lands(c)

LandProposal(c) ==
  /\ Sent(c) /\ Runs(c, "create_transfer_proposal")
  /\ client[c].index \in Indices
  /\ CreateProposal(Arguments[c].signer, client[c].index, client[c].deadline,
                    Arguments[c].message)
  /\ Lands(c)
  /\ UNCHANGED treasury

LandApproval(c) ==
  /\ Sent(c) /\ Runs(c, "approve_proposal")
  /\ Approve(Arguments[c].signer, client[c].index)
  /\ Lands(c)
  /\ UNCHANGED treasury

(* The message names its creator as a signer, and only the executing member     *)
(* signs (WrappedMessage).                                                    *)
CreatedBy(index, key) ==
  \E c \in Commands :
    /\ Runs(c, "create_transfer_proposal") /\ client[c].index = index
    /\ client[c].pc \in {"landed", "confirmed", "unanswered"}
    /\ Arguments[c].signer = key

(* The accounts passed are those of the message that was read; the instruction's *)
(* data, with the amount, is what the program finds in the transaction account.  *)
PassedMutOrder(c) ==
  [to |-> CHOOSE key \in Payees : key # client[c].content.to,
   amount |-> transaction[client[c].index].content.amount]

Passed(c) ==
  [to |-> client[c].content.to, amount |-> transaction[client[c].index].content.amount]

LandExecution(c) ==
  /\ Sent(c) /\ Runs(c, "execute_proposal")
  /\ ExecutePublic(Arguments[c].signer, client[c].index, Passed(c))
  /\ Passed(c) \in Effects
  /\ CreatedBy(client[c].index, Arguments[c].signer)
  /\ Lands(c)
  /\ UNCHANGED treasury

LandDeposit(c) ==
  /\ Sent(c) /\ Runs(c, "public_deposit")
  /\ Deposit(Arguments[c].amount)
  /\ Lands(c)
  /\ UNCHANGED treasury

(* The command throws: its transaction is refused, expires or is executed only  *)
(* after the command has given up, or the answer about it is lost.  For         *)
(* create_multisig, which does not wait, that is no different from its end.    *)
Throw(c) ==
  /\ ~Runs(c, "create_multisig")
  /\ \/ At(c, "built") /\ Goes(c, "silent")
     \/ At(c, "landed") /\ Goes(c, "unanswered")
  /\ UNCHANGED <<vars, treasury>>

(* confirmTransaction returns without err.  create_multisig does not wait for   *)
(* it: its last word is the signature of what it has sent.                     *)
ConfirmMutUnchecked(c) ==
  /\ At(c, "built") \/ At(c, "landed")
  /\ ~Runs(c, "create_multisig")
  /\ Goes(c, "confirmed")
  /\ UNCHANGED <<vars, treasury>>

Confirm(c) ==
  /\ At(c, "landed") /\ ~Runs(c, "create_multisig")
  /\ Goes(c, "confirmed")
  /\ UNCHANGED <<vars, treasury>>

(* approve_proposal fetches the proposal again and tells its state. *)
TellMutStale(c) ==
  LET p == proposal[client[c].index] IN
  /\ At(c, "confirmed") /\ Runs(c, "approve_proposal")
  /\ IF p = NoAccount THEN Goes(c, "done")
     ELSE client' = [client EXCEPT
            ![c].pc = "done",
            ![c].told = IF p.status = Executed THEN "executed" ELSE "executable",
            ![c].remaining = IF p.status = Active THEN multisig.threshold - p.approvers_len
                             ELSE 0]
  /\ UNCHANGED <<vars, treasury>>

Tell(c) ==
  LET p == proposal[client[c].index] IN
  /\ At(c, "confirmed") /\ Runs(c, "approve_proposal")
  /\ IF p = NoAccount THEN Goes(c, "done")
     ELSE client' = [client EXCEPT
            ![c].pc = "done",
            ![c].told = CASE p.status = Approved -> "executable"
                          [] p.status = Executed -> "executed"
                          [] p.status = Active -> "waiting",
            ![c].remaining = IF p.status = Active THEN multisig.threshold - p.approvers_len
                             ELSE 0]
  /\ UNCHANGED <<vars, treasury>>

(* Accounts are closed, which no command does, and time passes. *)
ChainStep ==
  /\ \/ \E index \in Indices, collector \in RentCollectors : Close(index, collector)
     \/ Tick
  /\ UNCHANGED commandVars

CommandsNext ==
  \/ ChainStep
  \/ \E c \in Commands :
       \/ BuildMultisig(c) \/ ReadIndex(c) \/ ReadProposal(c)
       \/ ReadTransaction(c) \/ ReadStatus(c) \/ BuildDeposit(c)
       \/ LandMultisig(c) \/ LandProposal(c) \/ LandApproval(c)
       \/ LandExecution(c) \/ LandDeposit(c)
       \/ Throw(c) \/ Confirm(c) \/ Tell(c)

CommandsSpec ==
  (\E w \in Workloads : CommandsInit(w)) /\ [][CommandsNext]_<<vars, commandVars>>

------------------------------------------------------------------------------
(* Properties. *)

(* Type invariant of the commands: what a run keeps about the chain was there
   when it was read. *)
CommandsTypeOK ==
  /\ \A c \in Commands :
       /\ client[c].pc \in Steps /\ client[c].told \in Tellings
       /\ client[c].index \in 0..MaxIndex + 1
       /\ client[c].index > 0 =>
            multisig # NoAccount /\ client[c].index <= multisig.transaction_index + 1
  /\ multisig = NoAccount <=> treasury = <<>>

(* The members that reconstructKeyFromShares can use are exactly those sets of
   which there are at least threshold: each member of the account finds and opens
   a share, the shares of any threshold of them yield the private key of the treasury
   the account names, on its way through two byte orders, and fewer shares nothing.
   A member that is listed twice has one share all the same. *)
TreasuryByThreshold ==
  multisig # NoAccount =>
    \A S \in SUBSET MemberSet :
      LET key == Reconstruct(multisig.shares, S) IN
      IF Cardinality(S) >= multisig.threshold
        THEN key \in Secrets /\ PublicKeyOf[key] = FromLittleEndian(treasury)
        ELSE key = NoKey

(* The command got its confirmation. *)
Confirmed(c, kind) == Runs(c, kind) /\ client[c].pc \in {"confirmed", "done"}

(* "Approval transaction confirmed!" (approveProposal.ts:171): the vote is in the
   proposal as long as there is one, and the votes that were confirmed to enough
   members have approved it, whatever other commands did meanwhile. *)
ConfirmedVotesCount ==
  \A i \in Indices :
    LET voters == { Arguments[c].signer :
          c \in { d \in Commands : Confirmed(d, "approve_proposal") /\ client[d].index = i } }
    IN
    Live(i) =>
      /\ voters \subseteq Votes(proposal[i])
      /\ voters # {} /\ Cardinality(voters) >= multisig.threshold
           => proposal[i].status # Active

(* "Threshold reached! Proposal is now executable." and "Waiting for n more
   approval(s)" (approveProposal.ts:187): what the command has told stays true of
   the proposal.  One that was told executable keeps its quorum, is never closed
   unpaid, and until it is paid it passes the program's checks for every member, with
   the one exception of a proposal that was superseded meanwhile: nobody can execute
   that one, and the message is false (ApprovedPendingExecution of FortisMultisig).
   Where n more votes were missing, n were missing at most, and one at least. *)
ToldStaysTrue ==
  \A c \in Commands :
    LET i == client[c].index
        p == proposal[i]
        told(what) == client[c].told = what
    IN
    At(c, "done") =>
      /\ told("executable") \/ told("executed") =>
           \/ payouts[i] = 1
           \/ /\ Live(i) /\ Cardinality(Votes(p)) >= multisig.threshold
              /\ i < multisig.transaction_index \/ \A m \in MemberSet : CanExecute(m, i)
      /\ told("executed") => payouts[i] = 1
      /\ told("waiting") =>
           /\ client[c].remaining >= 1
           /\ Live(i) => Cardinality(Votes(p)) + client[c].remaining >= multisig.threshold

(* "Proposal Created & Confirmed!" with its number (createTransferProposal.ts:147):
   that number belongs to this command alone and has its message, although others
   have read the same index before. *)
ConfirmedProposalStands ==
  \A c \in Commands : Confirmed(c, "create_transfer_proposal") =>
    /\ Live(client[c].index) =>
         transaction[client[c].index].content = Arguments[c].message
    /\ \A d \in Commands \ {c} :
         Confirmed(d, "create_transfer_proposal") => client[d].index # client[c].index

(* "Proposal Executed & Confirmed!" (executeProposal.ts:135): the message ran,
   once, and no other run of the command is told the same, however many members
   have seen the proposal approved and fire at the same time. *)
ConfirmedExecutionPaid ==
  \A c \in Commands : Confirmed(c, "execute_proposal") =>
    /\ payouts[client[c].index] = 1
    /\ Live(client[c].index) => proposal[client[c].index].status = Executed
    /\ \A d \in Commands \ {c} :
         Confirmed(d, "execute_proposal") => client[d].index # client[c].index

(* The members whose own approve_proposal for an index was executed. *)
Supporters(i) ==
  { Arguments[c].signer : c \in { d \in Commands :
      /\ Runs(d, "approve_proposal") /\ client[d].index = i
      /\ client[d].pc \in {"landed", "confirmed", "done", "unanswered"} } }

(* What these commands add to the program, which lets anybody vote in a member's
   name and takes the accounts it is passed: whenever the vault pays, it pays the
   amount and the payee a member has proposed with create_transfer_proposal,
   although the payee was read before, and threshold distinct members have run
   approve_proposal for it themselves. *)
PaidAsProposed ==
  [][lamports'["vault"] < lamports["vault"] =>
       \E c \in Commands :
         LET msg == Arguments[c].message IN
         /\ Runs(c, "create_transfer_proposal")
         /\ \E S \in SUBSET Supporters(client[c].index) :
              Cardinality(S) >= multisig.threshold
         /\ lamports'["vault"] = lamports["vault"] - msg.amount
         /\ lamports'[msg.to] = lamports[msg.to] + msg.amount]_<<vars, commandVars>>
=============================================================================
