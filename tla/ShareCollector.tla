---------------------------- MODULE ShareCollector ----------------------------
(***************************************************************************)
(* collectShares (executePrivateProposal.ts): the HTTP server that the     *)
(* executor of a private proposal starts, and the submit_share commands    *)
(* (index.ts) that talk to it.  The promise it returns gets the shares     *)
(* once enough names have sent one, or a reason why not.                   *)
(*                                                                         *)
(* A submission says itself which member it is of (memberPubkey); nothing  *)
(* asks for a proof.  An allowlist of names is optional, and the command   *)
(* line never gives one.                                                   *)
(*                                                                         *)
(* The executor is one event loop: its steps are callbacks (a request that *)
(* has arrived completely, the timeout, the setImmediate that closes the   *)
(* server, the callback of close).  The commands are other processes.      *)
(***************************************************************************)
EXTENDS Integers, FiniteSets

CONSTANTS
  Submissions,     (* runs of submit_share                                  *)
  Names,           (* what a submission may give as memberPubkey            *)
  NameIn,          (* the name in a submission                              *)
  EmptyShares,     (* submissions whose decryptedShare is an empty array    *)
  Allowlists,      (* allowlists a collector is started with; Names stands  *)
                   (* for an allowlist that is omitted                      *)
  Threshold        (* multisig threshold                                    *)

VARIABLES
  allowed,         (* names the collector takes shares from                 *)
  server,          (* "starting", "listening", "closing" or "closed"        *)
  timer,           (* "armed", or "cleared" (a fired timer is cleared)      *)
  settled,         (* "no", or what settle was first called for             *)
  closeScheduled,  (* setImmediate(server.close) is pending                 *)
  collected,       (* submissions whose share is in collectedShares         *)
  promise,         (* [state |-> "pending", "resolved", "rejected", shares] *)
  request          (* state of a submission's request and the answer to it  *)

vars == <<allowed, server, timer, settled, closeScheduled, collected, promise, request>>

ASSUME CollectorAssumption ==
  /\ NameIn \in [Submissions -> Names]
  /\ Allowlists \subseteq SUBSET Names
  /\ IsFiniteSet(Submissions)
  /\ Threshold \in Nat

Pending == [state |-> "pending", shares |-> {}]

(* What submit_share can be told. *)
Idle == [state |-> "idle", code |-> 0, complete |-> FALSE]
Open == [state |-> "open", code |-> 0, complete |-> FALSE]

Init ==
  /\ allowed \in Allowlists
  /\ server = "starting"
  /\ timer = "armed"
  /\ settled = "no"
  /\ closeScheduled = FALSE
  /\ collected = {}
  /\ promise = Pending
  /\ request = [s \in Submissions |-> Idle]

------------------------------------------------------------------------------
(* The executor's event loop. *)

(* settle: the first call wins, clears the timer and schedules the close. *)
SettleMutAgain(cause) ==
  /\ settled' = cause
  /\ timer' = "cleared"
  /\ closeScheduled' = TRUE

SettleMutKeepsTimer(cause) ==
  IF settled # "no" THEN UNCHANGED <<settled, timer, closeScheduled>>
  ELSE /\ settled' = cause
       /\ closeScheduled' = TRUE
       /\ UNCHANGED timer

SettleMutNoClose(cause) ==
  IF settled # "no" THEN UNCHANGED <<settled, timer, closeScheduled>>
  ELSE /\ settled' = cause
       /\ timer' = "cleared"
       /\ UNCHANGED closeScheduled

Settle(cause) ==
  IF settled # "no" THEN UNCHANGED <<settled, timer, closeScheduled>>
  ELSE /\ settled' = cause
       /\ timer' = "cleared"
       /\ closeScheduled' = TRUE

Listen ==
  /\ server = "starting" /\ settled # "error"
  /\ server' = "listening"
  /\ UNCHANGED <<allowed, timer, settled, closeScheduled, collected, promise, request>>

(* server.on('error'), for example when the port is taken. *)
ListenFails ==
  /\ server = "starting" /\ settled = "no"
  /\ Settle("error")
  /\ UNCHANGED <<allowed, server, collected, promise, request>>

Timeout ==
  /\ timer = "armed"
  /\ Settle("timeout")
  /\ UNCHANGED <<allowed, server, collected, promise, request>>

Collected(name) == \E s \in collected : NameIn[s] = name

(* The end of a request's body, in the order of the handler's checks.          *)
RefusalMutAcceptsTwice(s) ==
  IF NameIn[s] \notin allowed THEN 403
  ELSE IF s \in EmptyShares THEN 400
  ELSE 0

Refusal(s) ==
  IF NameIn[s] \notin allowed THEN 403
  ELSE IF Collected(NameIn[s]) THEN 409
  ELSE IF s \in EmptyShares THEN 400
  ELSE 0

Answer(s, code, complete) ==
  request' = [request EXCEPT ![s] =
                [state |-> "answered", code |-> code, complete |-> complete]]

Refuse(s) ==
  /\ request[s].state = "open"
  /\ Refusal(s) # 0
  /\ Answer(s, Refusal(s), FALSE)
  /\ UNCHANGED <<allowed, server, timer, settled, closeScheduled, collected, promise>>

(* An accepted share is answered and may settle; the handler does not look     *)
(* whether the collection is already settled.                                 *)
Accept(s) ==
  LET complete == Cardinality(collected \cup {s}) >= Threshold IN
  /\ request[s].state = "open"
  /\ Refusal(s) = 0
  /\ collected' = collected \cup {s}
  /\ Answer(s, 200, complete)
  /\ IF complete THEN Settle("complete")
     ELSE UNCHANGED <<settled, timer, closeScheduled>>
  /\ UNCHANGED <<allowed, server, promise>>

(* server.close stops new connections and calls back when the open ones ended; *)
(* only then does the promise get the shares, all that are in the map by then. *)
Close ==
  /\ closeScheduled
  /\ closeScheduled' = FALSE
  /\ server' = "closing"
  /\ UNCHANGED <<allowed, timer, settled, collected, promise, request>>

ClosedMutNoWait ==
  /\ server = "closing"
  /\ server' = "closed"
  /\ promise' = IF settled = "complete"
                  THEN [state |-> "resolved", shares |-> collected]
                  ELSE [state |-> "rejected", shares |-> {}]
  /\ UNCHANGED <<allowed, timer, settled, closeScheduled, collected, request>>

Closed ==
  /\ server = "closing"
  /\ \A s \in Submissions : request[s].state # "open"
  /\ server' = "closed"
  /\ promise' = IF settled = "complete"
                  THEN [state |-> "resolved", shares |-> collected]
                  ELSE [state |-> "rejected", shares |-> {}]
  /\ UNCHANGED <<allowed, timer, settled, closeScheduled, collected, request>>

------------------------------------------------------------------------------
(* A submit_share command. *)

Submit(s) ==
  /\ request[s].state = "idle"
  /\ request' = [request EXCEPT ![s] =
       IF server = "listening" THEN Open
       ELSE [state |-> "failed", code |-> 0, complete |-> FALSE]]
  /\ UNCHANGED <<allowed, server, timer, settled, closeScheduled, collected, promise>>

(* The answer arrives: anything but 200 fails the command. *)
Receive(s) ==
  /\ request[s].state = "answered"
  /\ request' = [request EXCEPT ![s].state = IF request[s].code = 200 THEN "done" ELSE "failed"]
  /\ UNCHANGED <<allowed, server, timer, settled, closeScheduled, collected, promise>>

(* AbortSignal.timeout, or the connection breaks. *)
Abort(s) ==
  /\ request[s].state \in {"open", "answered"}
  /\ request' = [request EXCEPT ![s].state = "failed"]
  /\ UNCHANGED <<allowed, server, timer, settled, closeScheduled, collected, promise>>

Next ==
  \/ Listen
  \/ ListenFails
  \/ Timeout
  \/ Close
  \/ Closed
  \/ \E s \in Submissions :
       \/ Submit(s)
       \/ Refuse(s)
       \/ Accept(s)
       \/ Receive(s)
       \/ Abort(s)

(* The event loop runs what is due, and a request ends, at the latest by the   *)
(* command's own timeout.  Nobody is obliged to submit.                       *)
Fairness ==
  /\ WF_vars(Timeout)
  /\ WF_vars(Close)
  /\ WF_vars(Closed)
  /\ \A s \in Submissions : WF_vars(Abort(s))

Spec == Init /\ [][Next]_vars /\ Fairness

------------------------------------------------------------------------------
(* Properties. *)

(* Type invariant.  The timer runs until the collection is settled, and the
   promise is decided when the server is closed. *)
TypeOK ==
  /\ allowed \in Allowlists
  /\ timer = "armed" <=> settled = "no"
  /\ promise = Pending <=> server # "closed"
  /\ server \in {"starting", "listening", "closing", "closed"}
  /\ timer \in {"armed", "cleared"}
  /\ settled \in {"no", "complete", "timeout", "error"}
  /\ closeScheduled \in BOOLEAN
  /\ collected \subseteq Submissions
  /\ promise \in [state : {"pending", "resolved", "rejected"}, shares : SUBSET Submissions]
  /\ request \in [Submissions ->
       [state : {"idle", "open", "answered", "done", "failed"},
        code : {0, 200, 400, 403, 409}, complete : BOOLEAN]]

(* The promise resolves with shares under at least Threshold distinct names, of
   the allowlist where there is one, however requests, retries and the timeout
   interleave: a retried command does not count its name twice.  Whether a share is
   of the member it names shows only when the key is put together. *)
ResolvesWithQuorum ==
  promise.state = "resolved" =>
    /\ \A s \in promise.shares :
         NameIn[s] \in allowed /\ s \notin EmptyShares
    /\ \A s, t \in promise.shares : NameIn[s] = NameIn[t] => s = t
    /\ Cardinality(promise.shares) >= Threshold

(* A share that was answered with 200 is among those the promise resolves with,
   also one that arrived while the server was being closed. *)
AcceptedIsUsed ==
  promise.state = "resolved" =>
    \A s \in Submissions :
      request[s].code = 200 => s \in promise.shares

(* What the collection is settled for, and what the promise then becomes, never
   changes: a late threshold does not undo a timeout nor the other way round. *)
SettledOnce ==
  [][/\ settled # "no" => settled' = settled
     /\ promise # Pending => promise' = promise]_vars

(* The executor does not hang: the promise is resolved or rejected in the end,
   whether or not members submit. *)
EventuallySettles == <>(promise # Pending)

(* "Threshold reached! Execution can proceed." (index.ts:426): a command that
   prints it has an executor that goes on. *)
ToldToProceed ==
  \A s \in Submissions :
    request[s].state = "done" /\ request[s].complete => promise.state # "rejected"
=============================================================================
