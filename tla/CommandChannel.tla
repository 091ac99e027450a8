---------------------------- MODULE CommandChannel ----------------------------
(***************************************************************************)
(* How a command of the control plane reaches the node and its result gets *)
(* back: RunCommands under runWithRetry (internal/controlplane), the       *)
(* executor, and the network between the agent and the control plane.      *)
(*                                                                         *)
(* The agent claims one command, executes it, reports the result and only  *)
(* then claims the next.  Each of the two requests can fail on the agent's *)
(* side (timeout, connection error, cancelled context) whether or not the  *)
(* control plane has handled it or still will.  net/http sends a GET again *)
(* when the connection breaks before the answer, so a claim can be handled *)
(* twice.  The control plane is external: "claim the next pending command" *)
(* and "acknowledge success or failure" are what PROTOCOL.md says of it.   *)
(***************************************************************************)
EXTENDS Naturals, FiniteSets

CONSTANTS
    NumCommands,  \* commands the control plane ever queues
    MaxClaims,    \* bound on the claims of one command the control plane answers
    MaxInFlight,  \* bound on abandoned claim requests still on their way
    Redelivers    \* whether the control plane queues an unanswered command again

ASSUME ChannelAssumption ==
    /\ NumCommands \in Nat /\ MaxClaims \in Nat /\ MaxInFlight \in Nat
    /\ Redelivers \in BOOLEAN

Commands == 1..NumCommands
None     == 0
Outcomes == {"succeeded", "failed"}

VARIABLES
    \* the control plane
    status,      \* of each command: "new", "pending", "claimed" or its outcome
    claims,      \* history: how often each command was handed out
    \* the network
    asked,       \* the agent's claim request has not been handled yet
    orphans,     \* claim requests the agent gave up on and that may still arrive
    answer,      \* the answer to the claim: a set with a command, or None, at most
    results,     \* result requests on their way: records of command and outcome
    acked,       \* the control plane has handled the agent's result request
    \* the agent
    context,     \* "live" or "cancelled" (SIGTERM)
    worker,      \* where the command worker is
    command,     \* the command it works on
    outcome,     \* the outcome it is to report
    \* history
    executions,  \* how often each command was executed, in full or in part
    returned     \* outcomes the executor returned for it

controlPlane == <<status, claims>>
network      == <<asked, orphans, answer, results, acked>>
agent        == <<context, worker, command, outcome>>
history      == <<executions, returned>>
vars         == <<controlPlane, network, agent, history>>

Result == [command : Commands, attempt : Nat, outcome : Outcomes]

Init ==
    /\ status = [c \in Commands |-> "new"]
    /\ claims = [c \in Commands |-> 0]
    /\ asked = FALSE /\ orphans = 0 /\ answer = {} /\ results = {} /\ acked = FALSE
    /\ context = "live" /\ worker = "poll" /\ command = None /\ outcome = "failed"
    /\ executions = [c \in Commands |-> 0]
    /\ returned = [c \in Commands |-> {}]

-----------------------------------------------------------------------------
(* The control plane. *)

\* Somebody asks for an operation; commands are queued in the order of their number.
Enqueue ==
    /\ \E c \in Commands :
          /\ status[c] = "new"
          /\ \A d \in Commands : d < c => status[d] # "new"
          /\ status' = [status EXCEPT ![c] = "pending"]
    /\ UNCHANGED <<claims, network, agent, history>>

Pending == {c \in Commands : status[c] = "pending"}
Oldest  == CHOOSE c \in Pending : \A d \in Pending : c =< d

\* A claim is handled: the oldest pending command is handed out.
HandOut ==
    IF Pending = {}
    THEN UNCHANGED controlPlane
    ELSE /\ claims[Oldest] < MaxClaims
         /\ status' = [status EXCEPT ![Oldest] = "claimed"]
         /\ claims' = [claims EXCEPT ![Oldest] = @ + 1]

AnswerClaim ==
    /\ asked
    /\ asked' = FALSE
    /\ HandOut
    /\ answer' = IF Pending = {} THEN {None} ELSE {Oldest}
    /\ UNCHANGED <<orphans, results, acked, agent, history>>

\* A claim nobody waits for any more is handled: the command is handed out to nobody.
AnswerOrphan ==
    /\ orphans > 0
    /\ orphans' = orphans - 1
    /\ HandOut
    /\ UNCHANGED <<asked, answer, results, acked, agent, history>>

\* The result request of the command the agent works on; the attempt only tells
\* this request from those of other executions.
CurrentResult(o) ==
    [command |-> command, attempt |-> executions[command], outcome |-> o]

\* The first result of a claimed command is its outcome.
AcceptResult ==
    /\ \E r \in results :
          /\ status' = IF status[r.command] = "claimed"
                       THEN [status EXCEPT ![r.command] = r.outcome] ELSE status
          /\ results' = results \ {r}
          /\ acked' = (acked \/ (worker = "reporting" /\ r = CurrentResult(outcome)))
    /\ UNCHANGED <<claims, asked, orphans, answer, agent, history>>

\* The control plane gives up on a claimed command and queues it again.
Requeue ==
    /\ Redelivers
    /\ \E c \in Commands :
          /\ status[c] = "claimed" /\ claims[c] < MaxClaims
          /\ status' = [status EXCEPT ![c] = "pending"]
    /\ UNCHANGED <<claims, network, agent, history>>

-----------------------------------------------------------------------------
(* The network. *)

\* The connection breaks before the answer and net/http sends the GET again.
Resend ==
    /\ worker = "claiming" /\ ~asked
    /\ asked' = TRUE /\ answer' = {}
    /\ UNCHANGED <<controlPlane, orphans, results, acked, agent, history>>

LoseRequest ==
    /\ \/ orphans > 0 /\ orphans' = orphans - 1 /\ UNCHANGED results
       \/ \E r \in results : results' = results \ {r} /\ UNCHANGED orphans
    /\ UNCHANGED <<controlPlane, asked, answer, acked, agent, history>>

\* The agent's side of a claim ends; a request that was not handled may still be.
Abandon ==
    /\ \/ asked /\ orphans < MaxInFlight /\ orphans' = orphans + 1
       \/ UNCHANGED orphans
    /\ asked' = FALSE /\ answer' = {}

-----------------------------------------------------------------------------
(* The agent. *)

\* RunCommands polls at once when it is (re)started and then at every tick.
SendClaim ==
    /\ worker \in {"poll", "waiting"}
    /\ worker' = "claiming"
    /\ asked' = (context = "live")
    /\ UNCHANGED <<controlPlane, orphans, answer, results, acked,
                   context, command, outcome, history>>

\* An error ends RunCommands; runWithRetry stops if the context is cancelled and
\* starts it again after the retry delay otherwise.
\* Variant of AfterError: the worker is not started again.
AfterErrorGivesUp == worker' = "stopped"

AfterError == worker' = IF context = "cancelled" THEN "stopped" ELSE "backoff"

\* Variant of ReceiveClaim: the answer is decoded into the command of the last
\* claim, which an answer without a command leaves as it was.
ReceiveClaimIntoTheLast ==
    /\ worker = "claiming" /\ answer # {}
    /\ \E c \in answer :
          /\ command' = IF c = None THEN command ELSE c
          /\ worker' = IF command' = None THEN "waiting" ELSE "executing"
    /\ answer' = {}
    /\ UNCHANGED <<controlPlane, asked, orphans, results, acked, context, outcome, history>>

ReceiveClaim ==
    /\ worker = "claiming" /\ answer # {}
    /\ \E c \in answer :
          /\ command' = c
          /\ worker' = IF c = None THEN "waiting" ELSE "executing"
    /\ answer' = {}
    /\ UNCHANGED <<controlPlane, asked, orphans, results, acked, context, outcome, history>>

ClaimFails ==
    /\ worker = "claiming"
    /\ Abandon
    /\ AfterError
    /\ UNCHANGED <<controlPlane, results, acked, context, command, outcome, history>>

Execute ==
    /\ worker = "executing"
    /\ worker' = "executed"
    /\ executions' = [executions EXCEPT ![command] = @ + 1]
    /\ UNCHANGED <<controlPlane, network, context, command, outcome, returned>>

\* Variant of Report: the status is not set to failed when the executor fails.
ReportSuccess ==
    /\ worker = "executed"
    /\ worker' = "reporting"
    /\ outcome' = "succeeded"
    /\ \E o \in Outcomes : returned' = [returned EXCEPT ![command] = @ \cup {o}]
    /\ results' = IF context = "live" THEN results \cup {CurrentResult(outcome')} ELSE results
    /\ acked' = FALSE
    /\ UNCHANGED <<controlPlane, asked, orphans, answer, context, command, executions>>

\* Variant of Report: the status of a failed command is not one of the protocol's.
ReportUnknownStatus ==
    /\ worker = "executed"
    /\ worker' = "reporting"
    /\ outcome' \in {"succeeded", "error"}
    /\ returned' = [returned EXCEPT ![command] = @ \cup {outcome'}]
    /\ results' = IF context = "live" THEN results \cup {CurrentResult(outcome')} ELSE results
    /\ acked' = FALSE
    /\ UNCHANGED <<controlPlane, asked, orphans, answer, context, command, executions>>

\* The executor returns.  The result request is sent unless the context is cancelled.
Report ==
    /\ worker = "executed"
    /\ worker' = "reporting"
    /\ outcome' \in Outcomes
    /\ returned' = [returned EXCEPT ![command] = @ \cup {outcome'}]
    /\ results' = IF context = "live" THEN results \cup {CurrentResult(outcome')} ELSE results
    /\ acked' = FALSE
    /\ UNCHANGED <<controlPlane, asked, orphans, answer, context, command, executions>>

ReportAcknowledged ==
    /\ worker = "reporting" /\ acked
    /\ worker' = "waiting" /\ acked' = FALSE
    /\ UNCHANGED <<controlPlane, asked, orphans, answer, results,
                   context, command, outcome, history>>

\* Variant of ReportFails: a result that was not acknowledged is produced again.
ReportFailsReexecuting ==
    /\ worker = "reporting"
    /\ worker' = "executing"
    /\ acked' = FALSE
    /\ UNCHANGED <<controlPlane, asked, orphans, answer, results,
                   context, command, outcome, history>>

\* "complete command: ...": the result is dropped, the request may still arrive.
ReportFails ==
    /\ worker = "reporting"
    /\ AfterError
    /\ acked' = FALSE
    /\ UNCHANGED <<controlPlane, asked, orphans, answer, results,
                   context, command, outcome, history>>

RetryDelayOver ==
    /\ worker = "backoff"
    /\ worker' = "poll"
    /\ UNCHANGED <<controlPlane, network, context, command, outcome, history>>

\* The select on ctx.Done, in RunCommands and in runWithRetry.
SeeCancelled ==
    /\ context = "cancelled"
    /\ worker \in {"waiting", "backoff"}
    /\ worker' = "stopped"
    /\ UNCHANGED <<controlPlane, network, context, command, outcome, history>>

Cancel ==
    /\ context = "live"
    /\ context' = "cancelled"
    /\ UNCHANGED <<controlPlane, network, worker, command, outcome, history>>

\* A new process: after a stop, or a kill at any step.
NewProcess ==
    /\ Abandon
    /\ context' = "live" /\ worker' = "poll" /\ command' = None /\ outcome' = "failed"
    /\ acked' = FALSE
    /\ UNCHANGED <<controlPlane, results, history>>

Restart == context = "cancelled" /\ worker = "stopped" /\ NewProcess
Kill    == worker # "stopped" /\ NewProcess

-----------------------------------------------------------------------------
ControlPlaneStep == AnswerClaim \/ AcceptResult
WorkerStep ==
    \/ SendClaim \/ ReceiveClaim
    \/ Execute \/ Report \/ ReportAcknowledged
    \/ RetryDelayOver \/ SeeCancelled
    \/ Restart
NetworkFault == \/ AnswerOrphan \/ Requeue \/ Resend \/ LoseRequest
                \/ ClaimFails \/ ReportFails
Fault == NetworkFault \/ Cancel \/ Kill

Next == Enqueue \/ ControlPlaneStep \/ WorkerStep \/ Fault

Spec == Init /\ [][Next]_vars

\* The worker goroutine runs, systemd restarts the process, the control plane
\* handles what reaches it, and a request whose answer never comes times out.
Fairness ==
    /\ WF_vars(AnswerClaim) /\ WF_vars(AcceptResult)
    /\ WF_vars(WorkerStep)
    /\ WF_vars(ClaimFails /\ ~asked /\ answer = {})
    /\ WF_vars(ReportFails /\ results = {} /\ ~acked)

FairSpec == Spec /\ Fairness

\* Only the network and the API fail: the agent is neither stopped nor killed.
NetworkFaultSpec ==
    Init /\ [][Enqueue \/ ControlPlaneStep \/ WorkerStep \/ NetworkFault]_vars /\ Fairness

-----------------------------------------------------------------------------
TypeOK ==
    /\ status \in [Commands -> {"new", "pending", "claimed"} \cup Outcomes]
    /\ claims \in [Commands -> 0..MaxClaims]
    /\ asked \in BOOLEAN /\ orphans \in 0..MaxInFlight
    /\ answer \in SUBSET ({None} \cup Commands)
    /\ results \in SUBSET Result
    /\ acked \in BOOLEAN
    /\ context \in {"live", "cancelled"}
    /\ worker \in {"poll", "claiming", "executing", "executed", "reporting",
                   "waiting", "backoff", "stopped"}
    /\ command \in {None} \cup Commands
    /\ outcome \in Outcomes
    /\ executions \in [Commands -> Nat]
    /\ returned \in [Commands -> SUBSET Outcomes]

\* The agent never executes a command more often than the control plane handed it
\* out: no retry, no late answer and no restart replays one (RunCommands,
\* runWithRetry).
NoReplay == \A c \in Commands : executions[c] =< claims[c]

\* The outcome the control plane records for a command is one its own execution
\* returned, whatever was lost, delayed or resent (CompleteCommand).
OutcomeIsTrue ==
    \A c \in Commands : status[c] \in Outcomes => status[c] \in returned[c]

\* A command that was handed out once leaves no doubt: whatever was lost, resent or
\* restarted, it was executed once at most, and the outcome that is recorded is the
\* only one there is.  Only a second hand-out can make a recorded outcome differ from
\* what the node did last (RunCommands, CompleteCommand).
OneHandOutOneOutcome ==
    \A c \in Commands : claims[c] =< 1 =>
        /\ executions[c] =< 1
        /\ status[c] \in Outcomes => returned[c] = {status[c]}

\* The command the node has in its hands and has not executed, and the one it
\* executes.
InHand == CASE worker = "claiming"  -> answer \ {None}
            [] worker = "executing" -> {command}
            [] OTHER                -> {}
InExecution == IF worker = "executed" THEN {command} ELSE {}

Delivery == INSTANCE CommandDelivery WITH
    ledger <- status, licence <- InHand, running <- InExecution

\* Every execution is licensed by a hand-out of its own that reached the worker, a
\* lost one licenses nothing, and a recorded outcome is final and true: the claim,
\* the executor and the report together deliver commands as CommandDelivery
\* promises, across errors, retries, redelivery and kills (RunCommands).
ImplementsDelivery == Delivery!Spec

\* When the faults stop, every command that was queued is handed out, whatever the
\* retries and restarts before.
QueuedIsClaimed ==
    <>[][~Fault]_vars => \A c \in Commands : (status[c] = "pending") ~> (status[c] # "pending")

\* PROTOCOL.md: "Heartbeat, snapshot and command workers retry after temporary
\* network or API failures."  When the failures come to an end, the outcome of
\* every executed command has reached the control plane or will.
OutcomeReachesControlPlane ==
    <>[][~Fault]_vars =>
        \A c \in Commands : (returned[c] # {}) ~> (status[c] \in Outcomes)
=============================================================================
