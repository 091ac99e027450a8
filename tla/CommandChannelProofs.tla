------------------------- MODULE CommandChannelProofs -------------------------
(***************************************************************************)
(* Proofs about CommandChannel, for any number of commands and any bounds: *)
(* types, no command executed more often than it was handed out, no        *)
(* outcome recorded that its own execution did not return, and the         *)
(* implementation of CommandDelivery.                                      *)
(***************************************************************************)
EXTENDS CommandChannel, LeastElement

-----------------------------------------------------------------------------
(* The inductive invariant. *)

\* A claim is under way only while the worker waits for it; a command that is
\* answered or about to be executed was handed out once more than it was executed;
\* a claim has one answer; a worker that has a command has one of the control
\* plane's.
ClaimShape ==
    /\ asked \/ answer # {} => worker = "claiming"
    /\ asked => answer = {}
    /\ \A c, d \in answer : c = d
    /\ \A c \in answer : c # None => executions[c] < claims[c]
    /\ worker = "executing" => executions[command] < claims[command]
    /\ worker \in {"executing", "executed", "reporting"} => command \in Commands

\* Every result on its way was returned by an execution of its command.
ResultShape == \A r \in results : r.outcome \in returned[r.command]

ChannelInv == TypeOK /\ ClaimShape /\ ResultShape /\ NoReplay /\ OutcomeIsTrue

-----------------------------------------------------------------------------
\* Every set of pending commands that is not empty has an oldest one.
LEMMA OldestIsPending ==
    ASSUME Pending # {} PROVE Oldest \in Commands /\ status[Oldest] = "pending"
<1>1. Pending \subseteq Nat
    BY ChannelAssumption DEF Pending, Commands
<1>2. \E c \in Pending : \A d \in Pending : c =< d
    BY <1>1, Minimum
<1>3. Oldest \in Pending
    BY <1>2 DEF Oldest
<1>4. QED
    BY <1>3 DEF Pending

\* A command that is handed out is claimed once more; nothing else changes.
LEMMA HandOutClaims ==
    ASSUME TypeOK, HandOut
    PROVE  /\ status' \in [Commands -> {"new", "pending", "claimed"} \cup Outcomes]
           /\ claims' \in [Commands -> 0..MaxClaims]
           /\ \A c \in Commands : claims[c] =< claims'[c]
           /\ \A c \in Commands : status'[c] \in Outcomes => status'[c] = status[c]
           /\ Pending # {} => Oldest \in Commands /\ claims'[Oldest] = claims[Oldest] + 1
<1>1. CASE Pending = {}
    BY <1>1 DEF HandOut, TypeOK, controlPlane
<1>2. CASE Pending # {}
    <2>1. Oldest \in Commands
        BY <1>2, OldestIsPending
    <2>2. /\ claims[Oldest] < MaxClaims
          /\ status' = [status EXCEPT ![Oldest] = "claimed"]
          /\ claims' = [claims EXCEPT ![Oldest] = claims[Oldest] + 1]
        BY <1>2 DEF HandOut
    <2>3. claims[Oldest] + 1 \in 0..MaxClaims
        BY <2>1, <2>2, ChannelAssumption DEF TypeOK
    <2>4. QED
        BY <2>1, <2>2, <2>3 DEF TypeOK, Outcomes
<1>3. QED
    BY <1>1, <1>2

-----------------------------------------------------------------------------
LEMMA ChannelInit == Init => ChannelInv
<1> SUFFICES ASSUME Init PROVE ChannelInv
    OBVIOUS
<1>1. TypeOK
    <2>1. 0 \in 0..MaxClaims /\ 0 \in 0..MaxInFlight
        BY ChannelAssumption
    <2>2. /\ status \in [Commands -> {"new", "pending", "claimed"} \cup Outcomes]
          /\ claims \in [Commands -> 0..MaxClaims]
          /\ executions \in [Commands -> Nat]
          /\ returned \in [Commands -> SUBSET Outcomes]
        BY <2>1 DEF Init
    <2>3. QED
        BY <2>1, <2>2 DEF Init, TypeOK, Outcomes
<1>2. ClaimShape /\ ResultShape
    BY DEF Init, ClaimShape, ResultShape
<1>3. NoReplay /\ OutcomeIsTrue
    BY DEF Init, NoReplay, OutcomeIsTrue, Outcomes
<1>4. QED
    BY <1>1, <1>2, <1>3 DEF ChannelInv

\* The steps of the control plane and of the network.
LEMMA ControlPlaneKeeps ==
    ASSUME ChannelInv, Enqueue \/ AnswerClaim \/ AnswerOrphan \/ AcceptResult \/ Requeue
    PROVE  ChannelInv'
<1> USE DEF ChannelInv
<1>1. CASE Enqueue
    <2>1. PICK c \in Commands : status[c] = "new" /\ status' = [status EXCEPT ![c] = "pending"]
        BY <1>1 DEF Enqueue
    <2>2. QED
        BY <1>1, <2>1 DEF Enqueue, network, agent, history,
              TypeOK, ClaimShape, ResultShape, NoReplay, OutcomeIsTrue, Outcomes
<1>2. CASE AnswerClaim
    <2>1. HandOut /\ answer' = IF Pending = {} THEN {None} ELSE {Oldest}
        BY <1>2 DEF AnswerClaim
    <2>2. TypeOK'
        BY <1>2, <2>1, HandOutClaims DEF AnswerClaim, agent, history, TypeOK
    <2>3. ClaimShape'
        <3>1. \A c \in answer' : c # None => executions'[c] < claims'[c]
            <4>1. CASE Pending = {}
                BY <2>1, <4>1
            <4>2. CASE Pending # {}
                BY <1>2, <2>1, <4>2, HandOutClaims DEF AnswerClaim, history, TypeOK, NoReplay
            <4>3. QED
                BY <4>1, <4>2
        <3>2. QED
            BY <1>2, <2>1, <3>1, HandOutClaims DEF AnswerClaim, agent, history, TypeOK, ClaimShape
    <2>4. ResultShape' /\ OutcomeIsTrue'
        BY <1>2, <2>1, HandOutClaims DEF AnswerClaim, agent, history, ResultShape, OutcomeIsTrue
    <2>5. NoReplay'
        BY <1>2, <2>1, HandOutClaims DEF AnswerClaim, agent, history, TypeOK, NoReplay
    <2>6. QED
        BY <2>2, <2>3, <2>4, <2>5
<1>3. CASE AnswerOrphan
    <2>1. HandOut
        BY <1>3 DEF AnswerOrphan
    <2>2. TypeOK'
        BY <1>3, <2>1, HandOutClaims, ChannelAssumption DEF AnswerOrphan, agent, history, TypeOK
    <2>3. ClaimShape'
        <3>1. \A c \in Commands : executions[c] < claims[c] => executions'[c] < claims'[c]
            BY <1>3, <2>1, HandOutClaims DEF AnswerOrphan, history, TypeOK
        <3>2. QED
            BY <1>3, <3>1 DEF AnswerOrphan, agent, history, TypeOK, ClaimShape
    <2>4. ResultShape' /\ OutcomeIsTrue'
        BY <1>3, <2>1, HandOutClaims DEF AnswerOrphan, agent, history, ResultShape, OutcomeIsTrue
    <2>5. NoReplay'
        BY <1>3, <2>1, HandOutClaims DEF AnswerOrphan, agent, history, TypeOK, NoReplay
    <2>6. QED
        BY <2>2, <2>3, <2>4, <2>5
<1>4. CASE AcceptResult
    <2>1. PICK r \in results :
            /\ status' = IF status[r.command] = "claimed"
                         THEN [status EXCEPT ![r.command] = r.outcome] ELSE status
            /\ results' = results \ {r}
            /\ acked' = (acked \/ (worker = "reporting" /\ r = CurrentResult(outcome)))
        BY <1>4 DEF AcceptResult
    <2>2. r.command \in Commands /\ r.outcome \in Outcomes /\ r.outcome \in returned[r.command]
        BY DEF TypeOK, ResultShape, Result
    <2>3. acked' \in BOOLEAN
        BY <2>1 DEF TypeOK
    <2>4. QED
        BY <1>4, <2>1, <2>2, <2>3 DEF AcceptResult, agent, history,
              TypeOK, ClaimShape, ResultShape, NoReplay, OutcomeIsTrue
<1>5. CASE Requeue
    <2>1. PICK c \in Commands : status' = [status EXCEPT ![c] = "pending"]
        BY <1>5 DEF Requeue
    <2>2. QED
        BY <1>5, <2>1 DEF Requeue, network, agent, history,
              TypeOK, ClaimShape, ResultShape, NoReplay, OutcomeIsTrue, Outcomes
<1>6. QED
    BY <1>1, <1>2, <1>3, <1>4, <1>5

LEMMA AbandonType ==
    ASSUME TypeOK, Abandon
    PROVE  asked' = FALSE /\ answer' = {} /\ orphans' \in 0..MaxInFlight
BY ChannelAssumption DEF TypeOK, Abandon

\* The steps of the network and of the claiming worker.
LEMMA ClaimKeeps ==
    ASSUME ChannelInv,
           Resend \/ LoseRequest \/ SendClaim \/ ReceiveClaim \/ ClaimFails
    PROVE  ChannelInv'
<1> USE DEF ChannelInv, controlPlane, network, agent, history
<1>1. CASE Resend
    BY <1>1 DEF Resend, TypeOK, ClaimShape, ResultShape, NoReplay, OutcomeIsTrue
<1>2. CASE LoseRequest
    BY <1>2, ChannelAssumption
       DEF LoseRequest, TypeOK, ClaimShape, ResultShape, NoReplay, OutcomeIsTrue
<1>3. CASE SendClaim
    BY <1>3 DEF SendClaim, TypeOK, ClaimShape, ResultShape, NoReplay, OutcomeIsTrue
<1>4. CASE ReceiveClaim
    <2>1. PICK c \in answer : command' = c /\ worker' = IF c = None THEN "waiting" ELSE "executing"
        BY <1>4 DEF ReceiveClaim
    <2>2. c # None => c \in Commands
        BY DEF TypeOK
    <2>3. TypeOK' /\ command' = c
        BY <1>4, <2>1 DEF ReceiveClaim, TypeOK
    <2>4. ClaimShape'
        <3>1. CASE c = None
            BY <1>4, <2>1, <3>1 DEF ReceiveClaim, ClaimShape
        <3>2. CASE c # None
            BY <1>4, <2>1, <2>2, <3>2 DEF ReceiveClaim, ClaimShape
        <3>3. QED
            BY <3>1, <3>2
    <2>5. QED
        BY <1>4, <2>3, <2>4 DEF ReceiveClaim, ResultShape, NoReplay, OutcomeIsTrue
<1>5. CASE ClaimFails
    BY <1>5, AbandonType
       DEF ClaimFails, AfterError, TypeOK, ClaimShape, ResultShape, NoReplay, OutcomeIsTrue
<1>6. QED
    BY <1>1, <1>2, <1>3, <1>4, <1>5

\* The steps that execute a command and report its outcome.
LEMMA ExecutionKeeps ==
    ASSUME ChannelInv, Execute \/ Report \/ ReportAcknowledged \/ ReportFails
    PROVE  ChannelInv'
<1> USE DEF ChannelInv, controlPlane, network, agent, history
<1>1. CASE Execute
    <2>1. command \in Commands /\ executions[command] < claims[command]
        BY <1>1 DEF Execute, ClaimShape
    <2>2. /\ executions' = [executions EXCEPT ![command] = executions[command] + 1]
          /\ executions' \in [Commands -> Nat]
          /\ \A c \in Commands : executions'[c] =< claims[c]
        BY <1>1, <2>1 DEF Execute, TypeOK, NoReplay
    <2>3. answer = {} /\ ~asked
        BY <1>1 DEF Execute, ClaimShape
    <2>4. QED
        BY <1>1, <2>1, <2>2, <2>3
           DEF Execute, TypeOK, ClaimShape, ResultShape, NoReplay, OutcomeIsTrue
<1>2. CASE Report
    <2>1. command \in Commands /\ outcome' \in Outcomes
        BY <1>2 DEF Report, ClaimShape
    <2>2. returned' = [returned EXCEPT ![command] = returned[command] \cup {outcome'}]
        BY <1>2 DEF Report
    <2>3. /\ returned' \in [Commands -> SUBSET Outcomes]
          /\ outcome' \in returned'[command]
          /\ \A c \in Commands : returned[c] \subseteq returned'[c]
        BY <2>1, <2>2 DEF TypeOK
    <2>4. /\ CurrentResult(outcome') \in Result
          /\ CurrentResult(outcome').command = command
          /\ CurrentResult(outcome').outcome = outcome'
        BY <2>1 DEF CurrentResult, Result, TypeOK
    <2>5. results' \subseteq results \cup {CurrentResult(outcome')}
        BY <1>2 DEF Report
    <2>6. ResultShape'
        BY <2>3, <2>4, <2>5 DEF ResultShape, TypeOK, Result
    <2>7. OutcomeIsTrue'
        BY <1>2, <2>3 DEF Report, OutcomeIsTrue
    <2>8. TypeOK'
        BY <1>2, <2>1, <2>3, <2>4, <2>5 DEF Report, TypeOK
    <2>9. ClaimShape' /\ NoReplay'
        BY <1>2 DEF Report, ClaimShape, NoReplay
    <2>10. QED
        BY <2>6, <2>7, <2>8, <2>9
<1>3. CASE ReportAcknowledged
    BY <1>3 DEF ReportAcknowledged, TypeOK, ClaimShape, ResultShape, NoReplay, OutcomeIsTrue
<1>4. CASE ReportFails
    BY <1>4 DEF ReportFails, AfterError, TypeOK, ClaimShape, ResultShape, NoReplay, OutcomeIsTrue
<1>5. QED
    BY <1>1, <1>2, <1>3, <1>4

\* The steps of the process.
LEMMA ProcessKeeps ==
    ASSUME ChannelInv, RetryDelayOver \/ SeeCancelled \/ Cancel \/ NewProcess
    PROVE  ChannelInv'
<1> USE DEF ChannelInv, controlPlane, network, agent, history
<1>1. CASE RetryDelayOver
    BY <1>1 DEF RetryDelayOver, TypeOK, ClaimShape, ResultShape, NoReplay, OutcomeIsTrue
<1>2. CASE SeeCancelled
    BY <1>2 DEF SeeCancelled, TypeOK, ClaimShape, ResultShape, NoReplay, OutcomeIsTrue
<1>3. CASE Cancel
    BY <1>3 DEF Cancel, TypeOK, ClaimShape, ResultShape, NoReplay, OutcomeIsTrue
<1>4. CASE NewProcess
    BY <1>4, AbandonType
       DEF NewProcess, TypeOK, ClaimShape, ResultShape, NoReplay, OutcomeIsTrue, Outcomes
<1>5. QED
    BY <1>1, <1>2, <1>3, <1>4

LEMMA ChannelStep == ChannelInv /\ [Next]_vars => ChannelInv'
<1> SUFFICES ASSUME ChannelInv, [Next]_vars PROVE ChannelInv'
    OBVIOUS
<1>1. CASE Enqueue \/ AnswerClaim \/ AnswerOrphan \/ AcceptResult \/ Requeue
    BY <1>1, ControlPlaneKeeps
<1>2. CASE Resend \/ LoseRequest \/ SendClaim \/ ReceiveClaim \/ ClaimFails
    BY <1>2, ClaimKeeps
<1>3. CASE Execute \/ Report \/ ReportAcknowledged \/ ReportFails
    BY <1>3, ExecutionKeeps
<1>4. CASE RetryDelayOver \/ SeeCancelled \/ Cancel \/ Restart \/ Kill
    BY <1>4, ProcessKeeps DEF Restart, Kill
<1>5. CASE UNCHANGED vars
    BY <1>5 DEF vars, controlPlane, network, agent, history, ChannelInv,
                TypeOK, ClaimShape, ResultShape, NoReplay, OutcomeIsTrue
<1>6. QED
    BY <1>1, <1>2, <1>3, <1>4, <1>5
       DEF Next, ControlPlaneStep, WorkerStep, Fault, NetworkFault

-----------------------------------------------------------------------------
(* Commands that were handed out once. *)

\* Such a command has returned nothing before its execution ends, and one outcome
\* then.
SingleShape ==
    \A c \in Commands : claims[c] =< 1 =>
        /\ executions[c] = 0 => returned[c] = {}
        /\ worker = "executed" /\ command = c => executions[c] # 0 /\ returned[c] = {}
        /\ \A o, p \in returned[c] : o = p

LEMMA SingleInit == Init => SingleShape
BY DEF Init, SingleShape

\* Steps that neither execute nor report: the claims of a command only grow.
LEMMA SingleFrame ==
    ASSUME ChannelInv, SingleShape, UNCHANGED history,
           worker' = "executed" => worker = "executed" /\ command' = command,
           \A c \in Commands : claims[c] =< claims'[c],
           claims' \in [Commands -> 0..MaxClaims]
    PROVE  SingleShape'
<1>1. ASSUME NEW c \in Commands, claims'[c] =< 1 PROVE claims[c] =< 1
    BY <1>1 DEF ChannelInv, TypeOK
<1>2. QED
    BY <1>1 DEF SingleShape, history

LEMMA SingleStep == ChannelInv /\ SingleShape /\ [Next]_vars => SingleShape'
<1> SUFFICES ASSUME ChannelInv, SingleShape, [Next]_vars PROVE SingleShape'
    OBVIOUS
<1> USE DEF controlPlane, network, agent
<1>0. claims \in [Commands -> 0..MaxClaims] /\ \A c \in Commands : claims[c] =< claims[c]
    BY DEF ChannelInv, TypeOK
<1>1. CASE AnswerClaim \/ AnswerOrphan
    BY <1>1, HandOutClaims, SingleFrame DEF AnswerClaim, AnswerOrphan, ChannelInv
<1>2. CASE Enqueue \/ AcceptResult \/ Requeue \/ Resend \/ LoseRequest
    BY <1>0, <1>2, SingleFrame DEF Enqueue, AcceptResult, Requeue, Resend, LoseRequest
<1>3. CASE SendClaim \/ ClaimFails \/ ReportAcknowledged \/ ReportFails
    BY <1>0, <1>3, SingleFrame
       DEF SendClaim, ClaimFails, ReportAcknowledged, ReportFails, AfterError
<1>4. CASE ReceiveClaim
    <2>1. worker' # "executed" /\ UNCHANGED <<claims, history>>
        BY <1>4 DEF ReceiveClaim
    <2>2. QED
        BY <1>0, <2>1, SingleFrame
<1>5. CASE RetryDelayOver \/ SeeCancelled \/ Cancel \/ NewProcess
    BY <1>0, <1>5, SingleFrame DEF RetryDelayOver, SeeCancelled, Cancel, NewProcess
<1>6. CASE Execute
    <2>1. command \in Commands /\ executions[command] < claims[command] /\ command' = command
        BY <1>6 DEF Execute, ChannelInv, ClaimShape
    <2>2. /\ executions' = [executions EXCEPT ![command] = executions[command] + 1]
          /\ UNCHANGED <<claims, returned>>
        BY <1>6 DEF Execute
    <2>3. /\ executions[command] \in Nat /\ claims[command] \in Nat
          /\ claims[command] =< 1 => executions[command] = 0
          /\ executions'[command] = executions[command] + 1
          /\ \A c \in Commands \ {command} : executions'[c] = executions[c]
        BY <2>1, <2>2, ChannelAssumption DEF ChannelInv, TypeOK
    <2>4. QED
        BY <2>1, <2>2, <2>3 DEF SingleShape
<1>7. CASE Report
    <2>1. /\ command \in Commands /\ worker = "executed" /\ worker' = "reporting"
          /\ UNCHANGED <<claims, executions>>
        BY <1>7 DEF Report, ChannelInv, ClaimShape
    <2>2. returned' = [returned EXCEPT ![command] = returned[command] \cup {outcome'}]
        BY <1>7 DEF Report
    <2>3. claims[command] =< 1 => returned'[command] = {outcome'} /\ executions[command] # 0
        BY <2>1, <2>2 DEF SingleShape, ChannelInv, TypeOK
    <2>4. \A c \in Commands \ {command} : returned'[c] = returned[c]
        BY <2>2 DEF ChannelInv, TypeOK
    <2>5. QED
        BY <2>1, <2>3, <2>4 DEF SingleShape
<1>8. CASE UNCHANGED vars
    BY <1>0, <1>8, SingleFrame DEF vars, history
<1>9. QED
    BY <1>1, <1>2, <1>3, <1>4, <1>5, <1>6, <1>7, <1>8
       DEF Next, ControlPlaneStep, WorkerStep, Fault, NetworkFault, Restart, Kill

-----------------------------------------------------------------------------
(* The implementation of CommandDelivery: what each step does to the command in *)
(* hand and to the one in execution. *)

LEMMA DeliveryInit == Init => Delivery!Init
BY DEF Init, Delivery!Init, InHand, InExecution

\* The answer the worker is given is the command in hand.
LEMMA AnswerIsInHand ==
    ASSUME ChannelInv, NEW c \in answer
    PROVE  InHand = {c} \ {None} /\ worker = "claiming"
<1>1. worker = "claiming" /\ answer = {c}
    BY DEF ChannelInv, ClaimShape
<1>2. QED
    BY <1>1 DEF InHand

\* A hand-out marks the oldest pending command, if there is one.
LEMMA HandOutMarks ==
    ASSUME HandOut
    PROVE  \/ Pending = {} /\ status' = status
           \/ Pending # {} /\ Oldest \in Commands /\ Delivery!Mark(Oldest, "pending", "claimed")
<1>1. CASE Pending = {}
    BY <1>1 DEF HandOut, controlPlane
<1>2. CASE Pending # {}
    BY <1>2, OldestIsPending DEF HandOut, Delivery!Mark
<1>3. QED
    BY <1>1, <1>2

\* The steps of the control plane hand out, decide and requeue.
LEMMA ControlPlaneDelivers ==
    ASSUME ChannelInv, Enqueue \/ AnswerClaim \/ AnswerOrphan \/ AcceptResult \/ Requeue
    PROVE  [Delivery!Next]_(Delivery!vars)
<1> USE DEF Delivery!vars, controlPlane, network, agent, history
<1>1. CASE Enqueue
    <2>1. PICK c \in Commands : Delivery!Mark(c, "new", "pending")
        BY <1>1 DEF Enqueue, Delivery!Mark
    <2>2. Delivery!Queue(c)
        BY <1>1, <2>1 DEF Enqueue, Delivery!Queue, InHand, InExecution
    <2>3. QED
        BY <2>2 DEF Delivery!Next
<1>2. CASE AnswerClaim
    <2>1. /\ worker = "claiming" /\ worker' = "claiming"
          /\ answer = {} /\ InHand = {} /\ InHand' = answer' \ {None}
          /\ InExecution = {} /\ InExecution' = {} /\ returned' = returned
        BY <1>2 DEF AnswerClaim, ChannelInv, ClaimShape, InHand, InExecution
    <2>2. CASE Pending = {}
        BY <1>2, <2>1, <2>2, HandOutMarks DEF AnswerClaim
    <2>3. CASE Pending # {}
        <3>1. Oldest \in Commands /\ Oldest # None /\ answer' = {Oldest}
            BY <1>2, <2>3, OldestIsPending DEF AnswerClaim, Commands, None
        <3>2. Delivery!HandOut(Oldest)
            BY <1>2, <2>1, <2>3, <3>1, HandOutMarks DEF AnswerClaim, Delivery!HandOut
        <3>3. QED
            BY <3>1, <3>2 DEF Delivery!Next
    <2>4. QED
        BY <2>2, <2>3
<1>3. CASE AnswerOrphan
    <2>1. InHand' = InHand /\ InExecution' = InExecution /\ returned' = returned
        BY <1>3 DEF AnswerOrphan, InHand, InExecution
    <2>2. CASE Pending = {}
        BY <1>3, <2>1, <2>2, HandOutMarks DEF AnswerOrphan
    <2>3. CASE Pending # {}
        <3>1. Oldest \in Commands /\ Delivery!HandOut(Oldest)
            BY <1>3, <2>1, <2>3, HandOutMarks DEF AnswerOrphan, Delivery!HandOut
        <3>2. QED
            BY <3>1 DEF Delivery!Next
    <2>4. QED
        BY <2>2, <2>3
<1>4. CASE AcceptResult
    <2>1. PICK r \in results :
            status' = IF status[r.command] = "claimed"
                      THEN [status EXCEPT ![r.command] = r.outcome] ELSE status
        BY <1>4 DEF AcceptResult
    <2>2. /\ r.command \in Commands /\ r.outcome \in Outcomes
          /\ r.outcome \in returned[r.command]
        BY DEF ChannelInv, TypeOK, ResultShape, Result
    <2>3. InHand' = InHand /\ InExecution' = InExecution /\ returned' = returned
        BY <1>4 DEF AcceptResult, InHand, InExecution
    <2>4. CASE status[r.command] = "claimed"
        <3>1. Delivery!Decide(r.command, r.outcome)
            BY <2>1, <2>2, <2>3, <2>4 DEF Delivery!Decide, Delivery!Mark
        <3>2. QED
            BY <2>2, <3>1 DEF Delivery!Next
    <2>5. CASE status[r.command] # "claimed"
        BY <2>1, <2>3, <2>5
    <2>6. QED
        BY <2>4, <2>5
<1>5. CASE Requeue
    <2>1. PICK c \in Commands : Delivery!Mark(c, "claimed", "pending")
        BY <1>5 DEF Requeue, Delivery!Mark
    <2>2. Delivery!Requeue(c)
        BY <1>5, <2>1 DEF Requeue, Delivery!Requeue, InHand, InExecution
    <2>3. QED
        BY <2>2 DEF Delivery!Next
<1>6. QED
    BY <1>1, <1>2, <1>3, <1>4, <1>5

\* The steps of a claim take the answer into the worker's hands, or lose it.
LEMMA ClaimDelivers ==
    ASSUME ChannelInv, Resend \/ LoseRequest \/ SendClaim \/ ReceiveClaim \/ ClaimFails
    PROVE  [Delivery!Next]_(Delivery!vars)
<1> USE DEF Delivery!vars, controlPlane, network, agent, history
<1>1. CASE Resend \/ ClaimFails
    <2>1. /\ worker = "claiming" /\ answer' = {} /\ status' = status /\ returned' = returned
          /\ worker' \in {"claiming", "stopped", "backoff"}
        BY <1>1 DEF Resend, ClaimFails, Abandon, AfterError
    <2>2. Delivery!Lose
        BY <2>1 DEF Delivery!Lose, InHand, InExecution
    <2>3. QED
        BY <2>2 DEF Delivery!Next
<1>2. CASE LoseRequest
    BY <1>2 DEF LoseRequest, InHand, InExecution
<1>3. CASE SendClaim
    BY <1>3 DEF SendClaim, ChannelInv, ClaimShape, InHand, InExecution
<1>4. CASE ReceiveClaim
    <2>1. PICK c \in answer :
            command' = c /\ worker' = IF c = None THEN "waiting" ELSE "executing"
        BY <1>4 DEF ReceiveClaim
    <2>2. InHand = {c} \ {None} /\ worker = "claiming"
        BY AnswerIsInHand
    <2>3. InHand' = {c} \ {None}
        BY <2>1 DEF InHand
    <2>4. QED
        BY <1>4, <2>1, <2>2, <2>3 DEF ReceiveClaim, InExecution
<1>5. QED
    BY <1>1, <1>2, <1>3, <1>4

\* The steps of the executor use the licence up and return.
LEMMA ExecutionDelivers ==
    ASSUME ChannelInv, Execute \/ Report \/ ReportAcknowledged \/ ReportFails
    PROVE  [Delivery!Next]_(Delivery!vars)
<1> USE DEF Delivery!vars, controlPlane, network, agent, history
<1>1. CASE Execute
    <2>1. /\ worker = "executing" /\ worker' = "executed" /\ command' = command
          /\ command \in Commands /\ status' = status /\ returned' = returned
        BY <1>1 DEF Execute, ChannelInv, ClaimShape
    <2>2. Delivery!Execute(command)
        BY <2>1 DEF Delivery!Execute, InHand, InExecution
    <2>3. QED
        BY <2>1, <2>2 DEF Delivery!Next
<1>2. CASE Report
    <2>1. /\ worker = "executed" /\ worker' = "reporting" /\ status' = status
          /\ command \in Commands /\ outcome' \in Outcomes
          /\ returned' = [returned EXCEPT ![command] = @ \cup {outcome'}]
        BY <1>2 DEF Report, ChannelInv, ClaimShape
    <2>2. Delivery!Return(command, outcome')
        BY <2>1 DEF Delivery!Return, InHand, InExecution
    <2>3. QED
        BY <2>1, <2>2 DEF Delivery!Next
<1>3. CASE ReportAcknowledged
    BY <1>3 DEF ReportAcknowledged, InHand, InExecution
<1>4. CASE ReportFails
    BY <1>4 DEF ReportFails, AfterError, InHand, InExecution
<1>5. QED
    BY <1>1, <1>2, <1>3, <1>4

\* The steps of the process leave the commands alone, or crash.
LEMMA ProcessDelivers ==
    ASSUME ChannelInv, RetryDelayOver \/ SeeCancelled \/ Cancel \/ NewProcess
    PROVE  [Delivery!Next]_(Delivery!vars)
<1> USE DEF Delivery!vars, controlPlane, network, agent, history
<1>1. CASE RetryDelayOver
    BY <1>1 DEF RetryDelayOver, InHand, InExecution
<1>2. CASE SeeCancelled
    BY <1>2 DEF SeeCancelled, InHand, InExecution
<1>3. CASE Cancel
    BY <1>3 DEF Cancel, InHand, InExecution
<1>4. CASE NewProcess
    <2>1. Delivery!Crash
        BY <1>4 DEF NewProcess, Delivery!Crash, InHand, InExecution
    <2>2. QED
        BY <2>1 DEF Delivery!Next
<1>5. QED
    BY <1>1, <1>2, <1>3, <1>4

\* Every step of the channel is one of CommandDelivery, or none.
LEMMA DeliveryStep == ChannelInv /\ [Next]_vars => [Delivery!Next]_(Delivery!vars)
<1> SUFFICES ASSUME ChannelInv, [Next]_vars PROVE [Delivery!Next]_(Delivery!vars)
    OBVIOUS
<1>1. CASE Enqueue \/ AnswerClaim \/ AnswerOrphan \/ AcceptResult \/ Requeue
    BY <1>1, ControlPlaneDelivers
<1>2. CASE Resend \/ LoseRequest \/ SendClaim \/ ReceiveClaim \/ ClaimFails
    BY <1>2, ClaimDelivers
<1>3. CASE Execute \/ Report \/ ReportAcknowledged \/ ReportFails
    BY <1>3, ExecutionDelivers
<1>4. CASE RetryDelayOver \/ SeeCancelled \/ Cancel \/ Restart \/ Kill
    BY <1>4, ProcessDelivers DEF Restart, Kill
<1>5. CASE UNCHANGED vars
    BY <1>5 DEF vars, controlPlane, network, agent, history, Delivery!vars, InHand, InExecution
<1>6. QED
    BY <1>1, <1>2, <1>3, <1>4, <1>5
       DEF Next, ControlPlaneStep, WorkerStep, Fault, NetworkFault

-----------------------------------------------------------------------------
(* The theorems. *)

\* The inductive invariant of a command's way to the node and of its result's way
\* back.
THEOREM ChannelInvariant == Spec => []ChannelInv
BY ChannelInit, ChannelStep, PTL DEF Spec

\* Every variable keeps its type, for any number of commands (RunCommands).
THEOREM ChannelTypeCorrect == Spec => []TypeOK
<1>1. ChannelInv => TypeOK
    BY DEF ChannelInv
<1>2. QED
    BY <1>1, ChannelInvariant, PTL

\* No command is executed more often than it was handed out, for any number of
\* commands, claims and requests on their way (RunCommands, runWithRetry).
THEOREM NothingIsReplayed == Spec => []NoReplay
<1>1. ChannelInv => NoReplay
    BY DEF ChannelInv
<1>2. QED
    BY <1>1, ChannelInvariant, PTL

\* No outcome is recorded that an execution of its command did not return
\* (CompleteCommand).
THEOREM OutcomesAreTrue == Spec => []OutcomeIsTrue
<1>1. ChannelInv => OutcomeIsTrue
    BY DEF ChannelInv
<1>2. QED
    BY <1>1, ChannelInvariant, PTL

\* A command that was handed out once is executed once at most, and its recorded
\* outcome is the only one there is, for any number of commands and whatever is lost
\* or restarted (RunCommands, CompleteCommand).
THEOREM SingleHandOutsAreUnambiguous == Spec => []OneHandOutOneOutcome
<1>1. ASSUME ChannelInv, SingleShape, NEW c \in Commands, claims[c] =< 1
      PROVE  /\ executions[c] =< 1
             /\ status[c] \in Outcomes => returned[c] = {status[c]}
    <2>1. executions[c] =< claims[c] /\ executions[c] \in Nat /\ claims[c] \in Nat
        BY <1>1, ChannelAssumption DEF ChannelInv, TypeOK, NoReplay
    <2>2. \A o, p \in returned[c] : o = p
        BY <1>1 DEF SingleShape
    <2>3. status[c] \in Outcomes => status[c] \in returned[c]
        BY <1>1 DEF ChannelInv, OutcomeIsTrue
    <2>4. QED
        BY <1>1, <2>1, <2>2, <2>3
<1>2. ChannelInv /\ SingleShape => OneHandOutOneOutcome
    BY <1>1 DEF OneHandOutOneOutcome
<1>3. QED
    BY <1>2, ChannelInvariant, SingleInit, SingleStep, PTL DEF Spec

\* Commands are delivered as CommandDelivery promises, for any number of commands,
\* lost requests, redeliveries and kills: each execution uses up a hand-out of its
\* own that reached the worker, and recorded outcomes are final (RunCommands,
\* ClaimCommand, CompleteCommand).
THEOREM ChannelDelivers == Spec => ImplementsDelivery
BY ChannelInvariant, DeliveryInit, DeliveryStep, PTL DEF Spec, ImplementsDelivery, Delivery!Spec

-----------------------------------------------------------------------------
(* What CommandDelivery promises by itself. *)

DeliveryTypeOK ==
    /\ status = [c \in Commands |-> status[c]]
    /\ returned = [c \in Commands |-> returned[c]]
    /\ InHand \cup InExecution \subseteq Commands

LEMMA HonestInit == Delivery!Init => DeliveryTypeOK /\ Delivery!Honest
BY DEF Delivery!Init, DeliveryTypeOK, Delivery!Honest, Outcomes

LEMMA HonestStep ==
    DeliveryTypeOK /\ Delivery!Honest /\ [Delivery!Next]_(Delivery!vars)
        => DeliveryTypeOK' /\ Delivery!Honest'
<1> SUFFICES ASSUME DeliveryTypeOK, Delivery!Honest, [Delivery!Next]_(Delivery!vars)
             PROVE  DeliveryTypeOK' /\ Delivery!Honest'
    OBVIOUS
<1> USE DEF DeliveryTypeOK, Delivery!Honest, Delivery!Mark
<1>1. ASSUME NEW c \in Commands, Delivery!Queue(c) PROVE DeliveryTypeOK' /\ Delivery!Honest'
    BY <1>1 DEF Delivery!Queue, Outcomes
<1>2. ASSUME NEW c \in Commands, Delivery!HandOut(c) PROVE DeliveryTypeOK' /\ Delivery!Honest'
    BY <1>2 DEF Delivery!HandOut, Outcomes
<1>3. ASSUME NEW c \in Commands, Delivery!Execute(c) PROVE DeliveryTypeOK' /\ Delivery!Honest'
    BY <1>3 DEF Delivery!Execute
<1>4. ASSUME NEW c \in Commands, Delivery!Requeue(c) PROVE DeliveryTypeOK' /\ Delivery!Honest'
    BY <1>4 DEF Delivery!Requeue, Outcomes
<1>5. ASSUME NEW c \in Commands, NEW o \in Outcomes, Delivery!Return(c, o)
      PROVE  DeliveryTypeOK' /\ Delivery!Honest'
    BY <1>5 DEF Delivery!Return
<1>6. ASSUME NEW c \in Commands, NEW o \in Outcomes, Delivery!Decide(c, o)
      PROVE  DeliveryTypeOK' /\ Delivery!Honest'
    BY <1>6 DEF Delivery!Decide, Outcomes
<1>7. CASE Delivery!Lose \/ Delivery!Crash
    BY <1>7 DEF Delivery!Lose, Delivery!Crash
<1>8. CASE UNCHANGED Delivery!vars
    BY <1>8 DEF Delivery!vars
<1>9. QED
    BY <1>1, <1>2, <1>3, <1>4, <1>5, <1>6, <1>7, <1>8 DEF Delivery!Next

\* Whoever implements CommandDelivery has one command at most at the node, none that
\* was never queued, and records only outcomes that were returned (RunCommands,
\* CompleteCommand).
THEOREM DeliveryIsHonest == ImplementsDelivery => []Delivery!Honest
BY HonestInit, HonestStep, PTL DEF ImplementsDelivery, Delivery!Spec
=============================================================================
