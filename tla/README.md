# FortisX in TLA+

FortisX is a multisig treasury on Solana: an on-chain program (`src/program`, Rust)
that keeps multisigs and their proposals, and a command line (`src/src`, TypeScript)
with which members create, approve and execute them.  Public proposals carry the
message they execute.  Private proposals carry only the hash of a payload; they are
executed off the chain by a member's client, which rebuilds the treasury's key from
the members' Shamir shares and pays through the Cloak pool.

This directory holds a TLA+ model of that system, TLC configurations that check it
on small instances, and proofs that TLAPS checks for instances of every size.

## The system

| Component | State | Operations | Hard behaviour |
|---|---|---|---|
| On-chain program (`program/src`) | multisig account; per index a proposal and a transaction account; lamports | create multisig, create public / private proposal, approve, execute, close | one instruction is atomic, their order is anybody's; boundary thresholds, repeated members, the slot array, superseded proposals, double execution |
| Wrapped messages (`utils.ts`, `types.ts`, `execute_message`) | key map while compiling, bytes, cursor while executing | compile, serialize, collect accounts, invoke | one format written in TypeScript and read in TypeScript and Rust; privileges encoded as positions |
| Private proposal creation (`createPrivate*Proposal`) | what a run has read; `proposal_history.json`, `swap_proposal_history.json` | read index, send, confirm, append record | concurrent runs race for the index and for the file; crashes between chain and file |
| Share collection (`collectShares`, `submit_share`) | HTTP server, timer, map of shares, promise | submit, accept, refuse, time out, close | timeout against late shares, retries under names nobody checks, requests open while the server closes |
| Public proposal commands (`createMultisig`, `createTransferProposal`, `approveProposal`, `executeProposal`, `publicDeposit`) | what a run has read | read accounts, build, send, confirm, tell | accounts change between read and landing; a lost answer after a landed transaction; repeated commands |
| Private execution (`executePrivateProposal.ts`) | what a run has fetched; Cloak's notes; `treasury_utxos.json` | collect, fetch status, fetch hash, load payload, pay, finish | stale reads across awaits, partial failure, lost answers, executing again |
| Treasury key (`createMultisig.ts`, `shareCrypto.ts`) | treasury key, shares, encrypted shares | generate, split, encrypt, decrypt, combine | two byte orders, share positions, members listed twice, lower bounds of `split` |
| Notes and deposits (`privateDeposit.ts`, `cloakDeposit.ts`) | `treasury_utxos.json`, Cloak's notes | fund, deposit, append record | unsynchronised file, crash between deposit and record, a key typed by hand, change without a record |
| Command line parsing (`index.ts`) | none | numbers, keys, lists | hexadecimal numbers |
| Compliance report | none | scan and print | none |

The components meet in four places: commands send instructions to the program and read
its accounts; creation writes the history files that execution reads; `submit_share`
talks HTTP to the collector inside the executor; execution spends notes that deposits
have recorded.  Nothing locks a file, and nothing on the chain knows of a private
execution.

What makes each part correct: the program approves only with votes in the names of
enough distinct members and in time, executes at most once and never loses a lamport;
messages arrive as they were proposed; the commands see to it that what the vault pays
was proposed and voted for by members themselves; what a command tells its member stays
true; the shares of any threshold of the members, and no fewer shares, give the
treasury's key; records fit the chain; deposits can be found and spent; the collector
ends, with enough shares or not; only what was approved is paid, once.

### What the program sees to, and what the commands add

The program takes some of what it is given as it comes, and the model takes it the same
way:

* `proposal_approve.rs` and `proposal_execute.rs` compare the key of the member account
  with the list of members; they do not ask whether it signed.  A vote is a vote in a
  member's name.  (Only creating accounts needs a signature, since the creator pays.)
* `new_validated` reads the keys a message lists and keeps the accounts that were passed;
  `execute_message` invokes with these.  Its comment speaks of a "Sanitized and validated
  combination" (`proposal_execute.rs:199`), but the two are not compared.  What an executed
  message pays, and whom, is therefore an effect of its own (`ExecutePublic`).
* `create_private_proposal` stores any byte as the type.

So the properties of the program speak of the members the slots name
(`QuorumBehindApproval`) and of when the vault may pay (`VaultPaysOnlyByQuorum`), and not
of who signed or who is paid.  The commands of this repository sign with the member's own
key and pass the accounts of the message they have read.  What follows from that is
`PaidAsProposed` of `MemberCommands`: with these commands the vault pays exactly what a
member has proposed, once threshold members have run `approve_proposal` themselves.

## The modules

| Module | Models | With |
|---|---|---|
| `ProposalLifecycle` | what the program promises: a council, numbered proposals, one vote in the name of each member | abstract specification |
| `FortisMultisig` | the on-chain program for one multisig | implements `ProposalLifecycle` |
| `FortisMultisigProofs` | inductive invariant and safety theorems of `FortisMultisig` | TLAPS |
| `FortisMultisigRefinement` | `FortisMultisig` implements `ProposalLifecycle` | TLAPS |
| `WrappedMessage` | the message of a public proposal from instructions to invocations | on its own |
| `WrappedMessageProofs` | inductive invariant and safety theorems of `WrappedMessage` | TLAPS |
| `ShareCollector` | the executor's HTTP server and the members' commands | on its own |
| `ShareCollectorProofs` | inductive invariant and safety theorems of `ShareCollector` | TLAPS |
| `TreasuryKey` | byte orders, splitting, encryption, where a share is found, combining | operators |
| `MemberCommands` | the public commands of several members around the chain | extends `FortisMultisig`, `TreasuryKey` |
| `MemberCommandsProofs` | any threshold of distinct members reconstruct the key, fewer nothing; inductive invariant and safety theorems of `MemberCommands` | TLAPS |
| `TreasuryNotes` | deposits, the notes file, spending with the reconstructed key | extends `MemberCommands` |
| `TreasuryNotesProofs` | inductive invariant and safety theorems of `TreasuryNotes` | TLAPS |
| `Payloads` | payload hash and record of a private proposal | shared |
| `ProposalRecords` | concurrent create commands, history files | extends `FortisMultisig` |
| `ProposalRecordsProofs` | inductive invariant and safety theorems of `ProposalRecords` | TLAPS |
| `PrivatePayments` | what private execution promises: one grant per index, payments by fresh notes, reports of payments | abstract specification |
| `PrivateExecution` | concurrent executions, Cloak's notes | extends `FortisMultisig`, implements `PrivatePayments` |
| `PrivateExecutionProofs` | inductive invariants and safety theorems of `PrivateExecution`, which implements `PrivatePayments` | TLAPS |

`MC*` modules give the constants values for TLC.  Definitions whose name contains `Mut`
are variants of the definition below them with a plausible mistake; they are used in no
specification and are there to show that the properties can fail.

### FortisMultisig

`multisig`, `proposal[i]` and `transaction[i]` are the accounts of the multisig and of
every index, `lamports` the wallets (the members' together as "payers", the vault, fee
wallet, rent collectors, payees), `now` the clock.  `payouts` is a history variable that
counts how often the message of an index ran.  One action per instruction:
`CreateMultisig`, `CreateProposal`, `CreatePrivateProposal`, `Approve`, `ExecutePublic`,
`ExecuteTransfer` (type 1, marked without a message), `ExecuteHash` (a private proposal of
any other type, which takes the public path with a hash), `Close`; `Deposit` and `Tick` are
the world outside.  A
handler that fails changes nothing, so its checks are the guard.  The loop over approver
slots is kept as it is (`Stops`, `HasApproved`, `RecordApproval`, `Tally`): it stops at
the member's own key or at the first empty slot, whichever is first.

Data is abstract: a key is a model value, whether or not it signs; a public message is
one transfer from the vault, the only message the command line builds, and an effect of
executing it is any payment from the vault or none; a payload hash is a model value, and
`EmptyMessages` are those hashes whose bytes, read as a message, have no instruction;
`PrivateTypes` are the type bytes private proposals are created with.
Bump seeds and address derivation become the index that an action is about.

### WrappedMessage

Bytes are cells (a number below `Radix`, a whole key, a byte of data), so that
every offset and length survives.  `Visit` is one turn of the loop in
`CompiledKeys.compile`, `Serialize` the assertions, the header and the small arrays,
`Send` the executing client (`accountsForTransactionExecute`, and that it has only its
own signature), `Invoke` one turn of `execute_message`.

### ShareCollector

The executor is one event loop, so each callback is an action: `Listen`, `ListenFails`,
`Timeout`, `Accept`, `Refuse`, `Close` (the `setImmediate`), `Closed` (the callback of
`server.close`, which waits for open requests).  `Settle` is `settle`.  A submission goes
`Submit`, then `Receive` or `Abort`; a retry is another submission under the same name.
Shares are the submissions themselves.  `NameIn` is the `memberPubkey` a submission gives,
which nobody checks; `allowed` is the allowlist of the collector, or all names where there
is none, as on the command line (`index.ts:464-469`).

### TreasuryKey

Operators only: the private key as a number, its little-endian bytes as the SDK writes
them, the big-endian bytes that are split, the list of encrypted shares in the order of
the members, `FetchShare` (the first entry under a member's key) and `Reconstruct`, whose
bytes are read as big-endian again.  A key has two bytes to the base `Base`, enough to
tell the two orders apart.  `shamir-secret-sharing` is external: `split` and `combine`
have its bounds and its refusal of repeated coordinates, and too few shares, or shares of
two splittings, yield `NoKey`.

### MemberCommands

A run of a command is a sequence of steps separated by its awaits.  `BuildMultisig`,
`ReadIndex`, `ReadProposal`, `ReadTransaction`, `ReadStatus` and `BuildDeposit` read
accounts and decide; `Land*` is the transaction, an action of `FortisMultisig` together
with the run it belongs to; `Confirm` is the confirmation; `Tell` fetches the proposal
again and says what became of the vote.  `Throw` may happen before or after the landing, so
that a transaction lands although its sender has given up (`silent`, `unanswered`).
`create_multisig` does not wait: it prints a signature and ends.  The votes on one
proposal, the index of a new one and the execution of an approved one all race.
`Passed` is what an execution passes: the accounts of the message as it was read before
the status, while the amount is in the data the program reads itself.  Deadlines and the
check of one are counted from the member's own clock, which is any time of the model.

### TreasuryNotes

`deposit` is where each run of `cloak_deposit` and `private_deposit` is, `notes` what is
unspent in the pool, `notesFile` the file: it is read whole, truncated and written whole.
`Transact` may throw although the pool has taken the deposit; `Interrupted` ends a run
between deposit and record, or in the middle of the write.  The depositor types the
treasury's public key; `ParseBigInt` reads a hexadecimal number as the code does.
`SpendRecorded` is the executor with the key of a set of members; a swap leaves change.
`disturbed` is a history variable: two runs were in the file at once, or one died in its
write.

### ProposalRecords

A command is a sequence of steps separated by its awaits: `ReadIndex`, `Land` (the
transaction, an action of `FortisMultisig`), `Confirm`, `ReadFile`, `Truncate`,
`WriteFile`; `Throw` and `Crash` end it early.  `writeFile` truncates and then writes, so
that another command can read a torn file: empty, or unparsable, in which case the
code gives the record up ("Non-fatal").  `ChainStep` is every other instruction, public
proposals included, which take indices too; private proposals are those of the commands.

### PrivateExecution

An execution goes `Collect`, `FetchProposal`, `FetchTransaction`, `LoadRecord` (with
`enforceHash`), then for every entry `Withdraw` or `WithdrawFails`, then `Finish`.  A
`Withdraw` may spend the note and fail all the same (an answer that is lost).  A history
file may hold any of `HistoryRecords`, or nothing, at each read: how it is written is
`ProposalRecords`' subject, and `enforceHash` is there for a file that was edited.
`ratified` is a history variable: what has been approved on the chain, where proposals
of all types, also with a hash that is of another type, come and go.  Cloak is external: it
spends a note once, for the right key; a key that was put together from other shares is one
of the reasons why a withdrawal fails.

## The runs

| Run | States | Shows |
|---|---|---|
| `onchain` | 623,926 | invariants and step properties of the program, and that it implements `ProposalLifecycle` |
| `wrapped_message` | 74,666 | what is compiled is what is invoked, with the same privileges |
| `share_collector` | 937,441 | shares under enough names or a refusal, settled once, never hanging, with an allowlist and without |
| `member_commands` | 476,718 | what members are told stays true, the vault pays what was proposed and voted for, the key belongs to any threshold, deposits are found and spendable |
| `proposal_records` | 711,191 (up to symmetry) | records fit the chain, under all interleavings of three commands and of public proposals |
| `private_execution` | 492,013 (up to symmetry) | only approved entries are paid, and reported once; `PrivatePayments` is implemented |
| `superseded` | violation | an approved proposal that is superseded can be neither executed nor closed |
| `private_swap` | violation | an approved swap cannot be marked executed like a transfer |
| `any_member_fires` | violation | only its creator can execute a public transfer |
| `told_to_proceed` | violation | "Threshold reached!" although the executor gave up |
| `record_kept` | violation | two commands overwrite each other's record |
| `paid_as_voted` | violation | a note pays its whole amount, not the entry's |

Each violation is a place where a comment, a message or the README of the repository
says something that the code does not do; `PROJECT.json` quotes the lines.  Two more such
places were met and are not stated as runs:

* `README.md` of the repository says that "No single member ever holds the full key" and
  that it is "discarded from memory" after an execution; the executor prints it
  (`executePrivateProposal.ts:231` and `:343`), so that one member has it from then on.
  `TreasuryByThreshold` and `RecordedSpendable` are about what shares give, and the model
  does not follow a key that was read off the terminal.
* `index.ts:84` and `:448` say that hexadecimal numbers are read; `parseBigInt` drops the
  `0x` and reads the rest as decimal.  `ParseBigInt` does the same and a deposit of
  `member_commands` is typed so, but `RecordedSpendable` leaves it out.

Properties of the program.  `AccountsPaired`, `ApprovalTally`, `QuorumBehindApproval`,
`SpaceForApprover`, `VotesInTime`, `PaidOnce` and `LamportsConserved` are invariants;
`SupersededFrozen` and `VaultPaysOnlyByQuorum` say what a step may do;
`ImplementsLifecycle` is the refinement.  Of the messages: `PrivilegesPreserved`,
`PayerLeads`, `InvokesProposal`, `NoEscalation`.  Of the collector: `ResolvesWithQuorum`,
`AcceptedIsUsed`, `SettledOnce`, `EventuallySettles`.  Of the public commands:
`ConfirmedVotesCount`, `ToldStaysTrue`, `ConfirmedProposalStands`,
`ConfirmedExecutionPaid`, `PaidAsProposed`; of the key, `TreasuryByThreshold`; of the notes,
`UnrecordedExplained`, `RecordedSpendable`.  Of the records:
`RecordMatchesChain`, `OneRecordPerIndex`, `DistinctHashes`.  Of the executions:
`PaidAuthorized`, `ReportedIsPaid` and the refinement `ImplementsPayments`.  Every module has one type invariant besides.

Some properties say less than one might wish, because the code does:

* "Threshold reached! Proposal is now executable." (`approveProposal.ts:187`) stays true
  except for a proposal that another one supersedes.  `ToldStaysTrue` names that exception,
  and `superseded` is the run that shows it.
* `ResolvesWithQuorum` counts names.  Whether a share is the named member's shows only
  when the key is put together, and a wrong one makes the pool refuse.
* `UnrecordedExplained` holds while deposits do not overlap and none dies in its write;
  what goes wrong otherwise is in `TreasuryNotes`, and the code does nothing about it.
* `TreasuryByThreshold` says nothing where the threshold exceeds the number of distinct
  members: there no set of them has the key.

### Bounds

* `onchain`: three keys, with a member list that has all of them and one that repeats one
  and leaves one out; thresholds 0, 2 and 3 (none, some, all); types 0, 1 and 2 of private
  proposals (any type but 1 is treated alike); two payees, and an amount or nothing, so that a message
  can be executed with any of them; two indices, so that one supersedes another and the last
  `checked_add` fails; three instants before, at and after a deadline; funds that do not
  suffice for everything, so that refusals happen.
* `wrapped_message`: `Radix` 5 instead of 256 puts a message with too many keys, and data
  longer than one cell can count, in reach.  One or two instructions over three accounts
  with every combination of flags reach every group of keys, empty ones too, and every
  merge of flags.
* `share_collector`: threshold 2 with three allowed names, or four without an allowlist,
  reaches a share after the threshold; a retry, an empty share and a name outside the list
  reach every refusal.
* `member_commands`: `Base` 8 instead of 256 (two-byte keys whose bytes differ).  Eleven
  commands and four deposits in six workloads, each of which has what can disturb its
  members: the multisig created twice, the second time with a list that repeats a member;
  deposits side by side, one of them typed in hexadecimal; a multisig of one, which `split`
  refuses after its key was printed and typed; votes of two members with a repeated vote, with a second proposal that
  supersedes the first, or with two executions and a public deposit.  Thresholds 1 to 3, two
  indices, two instants; `VotingPeriod` 0, so that the deadline passes in between.
* `proposal_records`: three commands and public proposals for two indices; two of the
  commands have equal payloads, and a hash of the third reads as an empty message.  Two
  instants, a local clock at either, and `VotingPeriod` 0, so that some deadlines are past
  when they arrive and public proposals expire.  The two keys are symmetric: both are members, in
  either order, and which of them runs a command changes nothing that is stored.
* `private_execution`: two executions that may take the same proposal or two different
  ones, public proposals between them, private ones of types 0, 1 and 2 with any of the
  hashes, proposals that share notes, and one note that no file records.  Time stands still:
  an execution reads no clock.  Executions and keys are symmetric.
* Payments of public proposals are of 0 in these two runs: lamports are `onchain`'s subject.

`MaxIndex` and `MaxTime` bound the unbounded counters; `Funds` bounds what can be paid.
`CHECK_DEADLOCK FALSE` because each of these systems may come to rest.

### Fairness

Only `EventuallySettles` needs it.  `Timeout`, `Close` and `Closed` are weakly fair: Node
runs a due timer, a `setImmediate` and the callback of `close`.  `Abort` is weakly fair:
`submit_share` gives up by `AbortSignal.timeout`, which ends its request.  Nothing makes
a member submit, and no fairness is assumed of it.

## The proofs

All theorems hold for every value of the constants that satisfies the named assumptions:
`BoundsAssumption` (numbers are numbers), `TypesAssumption` (a type is a byte, a hash is
not a message), `KeysAssumption` (no member has the zero key; the absent account is not an
account), `HoldersAssumption` (wallets have different
addresses), `AddressesAssumption` (there are finitely many rent collectors and payees),
`InstructionsAssumption` (messages are compiled from lists of instructions, which are made
of keys and data), `CellsAssumption` (a byte has at least one value; `None` is no member),
`CollectorAssumption` (finitely many submissions with a name each, a natural threshold),
`SecretsAssumption` (keys fit their bytes, different private keys have different public
keys), `ArgumentsAssumption` and `CommandsAssumption` (commands are called with keys,
numbers, messages and payloads), `DepositsAssumption` (a typed key was printed by some
`create_multisig`; a torn file is no list of records), `HistoryAssumption` (a history
file that parses has lists of entries).  TLC evaluates each of them on its run.

**The program** (`FortisMultisigProofs`).  The inductive invariant `IInv` joins the type
invariant, `ThresholdReachable` (the threshold is at most the number of members) and, for
every index, the paired accounts, the tally, the quorum, the deadline and the payouts.
None of these is inductive alone: the quorum of an approved proposal needs the tally of
the active one it was, the tally needs the type of the slots, `PaidOnceAt` needs that
indices above `transaction_index` have no accounts.  `InitIInv` and `NextIInv` prove it,
with a lemma per action.  From it follow `TypeCorrect`, `Paired`, `Tallied`, `Quorum`,
`InTime`, `PaysOnce`; `SlotsSuffice` (an active proposal below the threshold has fewer
votes than slots); and the step properties `Frozen` and `VaultGuarded`.  `Conserved` is
about sums over all addresses and all indices.  The sum of the community modules is a fold;
that it does not depend on the order and grows by one addend at a time is proved by
well-founded induction on the number of elements (`SumMoves` and the lemmas before it).
Every handler then either moves lamports between two addresses or between an address and
the accounts of one index, and the total stays what the payers held at first; `IInv` gives
the guards' subtractions their meaning: no wallet is overdrawn.

**Messages** (`WrappedMessageProofs`).  `WInv` is inductive and has one part per stage.
`CompileInv`: after the first n visits of the compiler the key map has exactly the keys
visited, each once, with the flags those n visits asked for, and the payer in front.
`MessageInv`: the bytes are the header, the keys group by group, the count and then the
parts of the instructions one after the other, each within its bounds.  `ExecuteInv`: after
n invocations the cursor is behind the n-th part, and those n are the proposed ones with
privileges that the client's list has too.  None holds alone: where the cursor is says
nothing unless the bytes are known, and what the positions mean nothing unless the keys are
distinct.  The lemmas are about what the writer and the two readers are made of: pieces of
a flattened sequence (`FlattenParts`, `FlattenElements`), the four groups
(`GroupLengths`, `StaticKeysPlaced`: the position of a key against the three counts says
its flags), layout (`MessageLaid`, `InstructionWritten`, with the two bytes of a length,
`LowHigh`), and one turn of the parser on them (`InvokeReads`).  `WrappedTypes`,
`Privileges`, `PayerIsFirst`, `InvokesWhatWasProposed` and `NeverEscalates` follow, for
messages of every size and any `Radix`.

**Refinement** (`FortisMultisigRefinement`).  Initial states map to initial states, and
under `IInv` every instruction maps to a step of `ProposalLifecycle` or a stutter:
an approval to `Vote`, because the tally makes the counter the number of distinct voters.

**The collector** (`ShareCollectorProofs`).  `IInv` adds to the type invariant what the
map of shares satisfies at any time (`MapInv`: distinct allowed names, exactly the
submissions answered with 200) and how server, cause and promise are related
(`DecisionInv`).  `TypeCorrect`, `Quorum`, `AllUsed` and `Once` follow.

**The key** (`MemberCommandsProofs`).  `ThresholdReconstructs` needs no state: whatever list
of members the shares were made for, repeated members included, a set of its members
finds one share each, with different coordinates, and the bytes that come back, read in
the other order, are the number that was split, if and only if the set reaches the
threshold.

**Public commands** (`MemberCommandsProofs`).  What keeps a confirmation true is that the
chain never takes back what has landed.  `CInv` says, of every run whose transaction has
landed, what it has left behind (the vote in the slots, the message under the index, the
payout), and that two runs that landed a creation have different indices; the invariant of
the program and its step properties carry each of these over the others' steps.
`TInv` bounds what a run has read by `transaction_index`.  `PInv` is about what the
commands add to the program: every key in the slots of a proposal is that of a member whose
own `approve_proposal` has landed, its message is that of a `create_transfer_proposal` that
has landed, and an execution under way holds that message as long as there are accounts;
what was told executable is paid or still there.  From these follow `KeyByThreshold`,
`VotesCount`, `ToldTrue`, `ProposalStands`, `ExecutionPaid`, `ProposedIsPaid` and
`CommandsTyped`.

**Notes** (`TreasuryNotesProofs`).  `NInv`: the records in the file, and those a run holds
between reading and writing, are always records of finished deposits; as long as nothing
has disturbed the file they are those of all finished deposits, and only one run is in
the file.  It also names the one `create_multisig` the account is from.  `NotesTyped` and
`Explained` follow, and `Spendable` with `ThresholdReconstructs`.

**Records** (`ProposalRecordsProofs`).  `RInv`: a run whose transaction has landed owns
its index, and as long as there are accounts they hold its type and hash; every record in
a file, and in the hands of a run that has read one, is that of a run that has come to its
end, with an index of its own; the salt of a proposal is the index before it.  `KInv` adds
the bound on what was read and who may have left a file torn.  `RecordsMatch`, `OneRecord`,
`HashesDiffer` and `RecordsTyped` follow.

**Private executions** (`PrivateExecutionProofs`).  The step of an execution that checks
the status, the one that fetches the hash and the one that loads the payload see three
different states.  `XInv` carries what makes that safe: what has been ratified under an
index never changes as long as the index has accounts, and accounts that were closed are
never made again; so the fetched hash is a ratified one, and the entries under it are the
approved ones, since equal hashes have equal entries.  A reported entry has its payment in
the sequence, and its note is spent, so nobody else can report it.  `EInv` adds that results
and failures are the first entries, counted, and that exactly the paid notes are spent.
`OnlyApprovedPaid`, `ReportsArePaid` and `ExecutionTyped` follow.  `PaymentsRefined` shows
the steps too: under `XInv`, the approval of an index that holds a payload hash is a
`Grant` of the payload behind its hash, at most one per step
(`OneApproval`) and never a second one for an index; a withdrawal is a `Pay` of the entry
the run is at; every other step, the approval of a public proposal, a failure or a crash
included, is a stutter.  The grant is
read off `ratified`, so that closing an account does not take it back.

Where a proof needs an induction (over visits, over the parts of a message, over the
addresses of a sum), it is stated for a set of numbers that has 0 and, with n, n + 1
(`NatInduct`), so that nothing but the well-foundedness of the natural numbers is used.

Only model-checked: `EventuallySettles` (liveness, out of this prover's reach), and with it
the fairness of `ShareCollector`.  Every invariant and every step property of the passing
runs is a theorem.

## Not modelled

* Parsing of keys, paths and lists on the command line: it throws or returns what was
  typed and keeps nothing.
* The compliance report: it reads the chain and prints.
* `cloak_deposits.txt`, which nothing reads; HTTPS in the collector, which the command line
  never asks for; address lookup tables and ephemeral signers, which no command uses.
* What the pool pays for a swap, and so the minimum a member asks for: the code computes
  one from the slippage and then passes 1 (`executePrivateProposal.ts:652`).
* Code no command imports (`createProposal.ts`, `shareCollector.ts`, the `test_*` scripts).
* A message that calls back into the program while it is executed, before its proposal is
  marked: an instruction is one step.
* What is done with the private key that an execution prints.
* The libraries: Shamir's scheme, the ciphers, Cloak and the Solana runtime are what this
  code relies on them for.

`PrivateExecution` takes the notes of the file as a constant, and `TreasuryNotes` has the
executor as one step; together their state spaces do not fit one run.

## Plan

Done, in this order: the program and its abstract specification; messages; the collector;
records; private executions; proofs of the program, the refinement and the collector; the
key, the public commands, the notes; proofs of these, of the records and of the private
executions; proofs of the conservation of lamports and of the messages; the abstract
specification of private payments and the proof that the executions implement it.

Left:
1. `PrivateExecution` over the file and the notes of `TreasuryNotes`, so that notes come
   and go while an execution runs.
2. `PrivatePayments` on top of `ProposalRecords` instead of given records: a private
   proposal from creation to payment in one specification.
