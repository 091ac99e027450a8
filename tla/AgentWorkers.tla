----------------------------- MODULE AgentWorkers -----------------------------
(***************************************************************************)
(* The goroutines of the agent (RunAgent, internal/controlplane): a worker *)
(* each for heartbeats, snapshots, live traffic and commands, kept going   *)
(* by runWithRetry, until the context is cancelled and all have returned.  *)
(*                                                                         *)
(* The snapshot and the traffic worker share the collector, whose mutex    *)
(* they hold while the collection takes manager.mu; the command worker     *)
(* takes manager.mu for the operation it executes.  A call of the awg tool *)
(* has no timeout (execRunner.Run), so the worker that makes it may never  *)
(* come back and then holds its mutexes until the process is killed.       *)
(***************************************************************************)
EXTENDS Naturals, FiniteSets

CONSTANT MayHang   \* whether the managed transport is driven through the awg tool

ASSUME HangAssumption == MayHang \in BOOLEAN

Uploaders == {"snapshot", "traffic"}
Workers   == Uploaders \cup {"heartbeat", "commands"}
NoWorker  == "nobody"

VARIABLES
    context,      \* "live" or "cancelled" (SIGTERM)
    agent,        \* RunAgent: "running" or "returned", its clients then closed
    at,           \* where each worker is
    doomed,       \* workers whose current request was begun with a cancelled context
    hung,         \* workers in a call of awg that never returns
    collectorMu,  \* holder of synchronizedCollector.mu
    managerMu     \* holder of Manager.mu

mutexes == <<collectorMu, managerMu>>
vars    == <<context, agent, at, doomed, hung, mutexes>>

Goto(w, place) == at' = [at EXCEPT ![w] = place]

\* Where a worker is when its Run function is called: the heartbeat worker waits
\* for its ticker, the others do their work first.
Entry(w) == CASE w = "heartbeat" -> "select"
              [] w \in Uploaders -> "lockCollector"
              [] w = "commands"  -> "claim"

Init ==
    /\ context = "live" /\ agent = "running"
    /\ at = [w \in Workers |-> Entry(w)]
    /\ doomed = {} /\ hung = {}
    /\ collectorMu = NoWorker /\ managerMu = NoWorker

Active(w) == agent = "running" /\ w \notin hung

-----------------------------------------------------------------------------
(* runWithRetry and the select of the Run functions. *)

\* Variant of Return: an error ends the worker for good.
ReturnForGood(w) == Goto(w, "stopped")

\* The Run function returns; runWithRetry returns too if the context is cancelled
\* and starts its timer otherwise.
Return(w) == Goto(w, IF context = "cancelled" THEN "stopped" ELSE "backoff")

Request(w, place) ==
    /\ Goto(w, place)
    /\ doomed' = IF context = "cancelled" THEN doomed \cup {w} ELSE doomed \ {w}

\* Variant of BeginWork: the heartbeat reports what a collection finds.
BeginWorkCollecting(w) ==
    \/ w # "commands" /\ Goto(w, "lockCollector") /\ UNCHANGED doomed
    \/ w = "commands"  /\ Request(w, "claim")

\* What the Run function does at a tick (and, but for the heartbeat, at its start).
BeginWork(w) ==
    \/ w = "heartbeat" /\ Request(w, "request")
    \/ w \in Uploaders /\ Goto(w, "lockCollector") /\ UNCHANGED doomed
    \/ w = "commands"  /\ Request(w, "claim")

\* The retry timer fires and the Run function is called again.
RetryDelayOver(w) ==
    /\ Active(w) /\ at[w] = "backoff"
    /\ IF w = "heartbeat" THEN Goto(w, "select") /\ UNCHANGED doomed ELSE BeginWork(w)
    /\ UNCHANGED <<context, agent, hung, mutexes>>

\* The ticker fires; when the context is cancelled as well, select may choose either.
Tick(w) ==
    /\ Active(w) /\ at[w] = "select"
    /\ BeginWork(w)
    /\ UNCHANGED <<context, agent, hung, mutexes>>

\* ctx.Done() in the select of runWithRetry or of the Run function.
SeeCancelled(w) ==
    /\ Active(w) /\ at[w] \in {"backoff", "select"}
    /\ context = "cancelled"
    /\ Goto(w, "stopped")
    /\ UNCHANGED <<context, agent, doomed, hung, mutexes>>

\* A heartbeat, an upload, an empty claim or a result: the answer arrives in time
\* and the worker waits for its next tick, or the request fails.
RequestEnds(w) ==
    /\ Active(w) /\ at[w] \in {"request", "claim"}
    /\ \/ w \notin doomed /\ Goto(w, "select")
       \/ Return(w)
    /\ UNCHANGED <<context, agent, doomed, hung, mutexes>>

-----------------------------------------------------------------------------
(* The collection of the snapshot and the traffic worker. *)

\* Variant of LockCollector: every worker wraps the collector for itself.
LockCollectorOfItsOwn(w) ==
    /\ Active(w) /\ at[w] = "lockCollector"
    /\ collectorMu' = w
    /\ Goto(w, "readDevice")
    /\ UNCHANGED <<context, agent, doomed, hung, managerMu>>

LockCollector(w) ==
    /\ Active(w) /\ at[w] = "lockCollector"
    /\ collectorMu = NoWorker
    /\ collectorMu' = w
    /\ Goto(w, "readDevice")
    /\ UNCHANGED <<context, agent, doomed, hung, managerMu>>

\* Variant of DeviceFails: the error path leaves the mutex locked.
DeviceFailsLocked(w) ==
    /\ Active(w) /\ at[w] = "readDevice"
    /\ Return(w)
    /\ UNCHANGED <<context, agent, doomed, hung, mutexes>>

DeviceFails(w) ==
    /\ Active(w) /\ at[w] = "readDevice"
    /\ collectorMu' = NoWorker
    /\ Return(w)
    /\ UNCHANGED <<context, agent, doomed, hung, managerMu>>

ReadDevice(w) ==
    /\ Active(w) /\ at[w] = "readDevice"
    /\ Goto(w, "lockManager")
    /\ UNCHANGED <<context, agent, doomed, hung, mutexes>>

LockManager(w) ==
    /\ Active(w) /\ at[w] = "lockManager"
    /\ managerMu = NoWorker
    /\ managerMu' = w
    /\ Goto(w, IF w = "commands" THEN "operate" ELSE "readPeers")
    /\ UNCHANGED <<context, agent, doomed, hung, collectorMu>>

\* Variant of ReadPeers: the error path leaves manager.mu locked.
ReadPeersLocked(w) ==
    /\ Active(w) /\ at[w] = "readPeers"
    /\ \/ managerMu' = NoWorker /\ Request(w, "request")
       \/ Return(w) /\ UNCHANGED <<doomed, managerMu>>
    /\ collectorMu' = NoWorker
    /\ UNCHANGED <<context, agent, hung>>

\* Peers returns and the collection ends, and the upload begins; or either fails.
ReadPeers(w) ==
    /\ Active(w) /\ at[w] = "readPeers"
    /\ managerMu' = NoWorker /\ collectorMu' = NoWorker
    /\ \/ Request(w, "request")
       \/ Return(w) /\ UNCHANGED doomed
    /\ UNCHANGED <<context, agent, hung>>

-----------------------------------------------------------------------------
(* The command worker. *)

\* The claim is answered with a command; Execute waits for manager.mu.
ReceiveCommand ==
    LET w == "commands" IN
    /\ Active(w) /\ at[w] = "claim" /\ w \notin doomed
    /\ Goto(w, "lockManager")
    /\ UNCHANGED <<context, agent, doomed, hung, mutexes>>

\* Variant of Operate: the operation is followed by a collection that wants the
\* collector while manager.mu is still held.
OperateAndCollect ==
    LET w == "commands" IN
    /\ Active(w) /\ at[w] = "operate"
    /\ Goto(w, "lockCollector")
    /\ UNCHANGED <<context, agent, doomed, hung, mutexes>>

\* Execute returns, whatever its outcome, and the result is sent.
Operate ==
    LET w == "commands" IN
    /\ Active(w) /\ at[w] = "operate"
    /\ managerMu' = NoWorker
    /\ Request(w, "request")
    /\ UNCHANGED <<context, agent, hung, collectorMu>>

-----------------------------------------------------------------------------
(* The process. *)

\* A call of awg does not return.
Hang(w) ==
    /\ MayHang /\ Active(w) /\ at[w] \in {"readDevice", "operate"}
    /\ hung' = hung \cup {w}
    /\ UNCHANGED <<context, agent, at, doomed, mutexes>>

Cancel ==
    /\ context = "live"
    /\ context' = "cancelled"
    /\ UNCHANGED <<agent, at, doomed, hung, mutexes>>

\* workersGroup.Wait() returns, RunAgent returns and run closes the clients.
WaitForWorkers ==
    /\ agent = "running" /\ context = "cancelled"
    /\ \A w \in Workers : at[w] = "stopped"
    /\ agent' = "returned"
    /\ UNCHANGED <<context, at, doomed, hung, mutexes>>

\* systemd starts the agent again after it returned, or was killed because it did
\* not return in time (TimeoutStopSec).
NewProcess ==
    /\ context = "cancelled"
    /\ context' = "live" /\ agent' = "running"
    /\ at' = [w \in Workers |-> Entry(w)]
    /\ doomed' = {} /\ hung' = {}
    /\ collectorMu' = NoWorker /\ managerMu' = NoWorker

-----------------------------------------------------------------------------
WorkerStep(w) ==
    \/ RetryDelayOver(w) \/ SeeCancelled(w) \/ Tick(w) \/ RequestEnds(w)
    \/ DeviceFails(w) \/ ReadDevice(w) \/ ReadPeers(w)
    \/ w = "commands" /\ (ReceiveCommand \/ Operate)
Locking(w) == LockCollector(w) \/ LockManager(w)

Next ==
    \/ \E w \in Workers : WorkerStep(w) \/ Locking(w) \/ Hang(w)
    \/ Cancel \/ WaitForWorkers \/ NewProcess

Spec == Init /\ [][Next]_vars

\* Goroutines run, timers fire, requests end (http.Client.Timeout), and a waiter
\* gets its mutex even if others keep taking it: sync.Mutex hands it to a waiter
\* that has waited for a millisecond.
FairSpec ==
    /\ Spec
    /\ \A w \in Workers : WF_vars(WorkerStep(w)) /\ SF_vars(Locking(w))
    /\ WF_vars(WaitForWorkers)

-----------------------------------------------------------------------------
Places == {"select", "backoff", "stopped", "request", "claim",
           "lockCollector", "readDevice", "lockManager", "readPeers", "operate"}

TypeOK ==
    /\ context \in {"live", "cancelled"} /\ agent \in {"running", "returned"}
    /\ at \in [Workers -> Places]
    /\ doomed \subseteq Workers /\ hung \subseteq Workers
    /\ collectorMu \in Uploaders \cup {NoWorker}
    /\ managerMu \in (Workers \ {"heartbeat"}) \cup {NoWorker}

\* A worker is between Lock and Unlock of a mutex exactly if it holds it, so two
\* collections never read the device side by side and no error path leaves a mutex
\* locked (synchronizedCollector.Collect, the deferred unlocks of Manager).
MutexesAreHeld ==
    \A w \in Workers :
        /\ at[w] \in {"readPeers", "operate"} <=> managerMu = w
        /\ w \in Uploaders /\ at[w] \in {"readDevice", "lockManager", "readPeers"}
              <=> collectorMu = w

\* The workers w waits for: the holder of the mutex it is about to take.
Awaits(w) ==
    CASE at[w] = "lockCollector" -> {collectorMu} \ {NoWorker}
      [] at[w] = "lockManager"   -> {managerMu} \ {NoWorker}
      [] OTHER                   -> {}

\* No workers wait for one another in a circle: the collector's mutex is always
\* taken before manager.mu, although neither package knows of the other's
\* (synchronizedCollector.Collect, Manager.Peers, Manager.Execute).
NoCircularWait ==
    \A circle \in (SUBSET Workers) \ {{}} : \E w \in circle : Awaits(w) \cap circle = {}

\* While the agent lives, heartbeats are sent again and again: neither failures nor
\* operations nor collections nor a call of awg that never returns keep the heartbeat
\* worker from its next tick (RunHeartbeats takes no mutex).
HeartbeatsGoOn == [](context = "live") => []<>(at["heartbeat"] = "request")

\* While the agent lives and awg returns, no worker is stuck: each comes back to
\* its select or its retry delay for ever.
WorkersComeAround ==
    [](context = "live" /\ hung = {}) =>
        \A w \in Workers : []<>(at[w] \in {"select", "backoff"})

\* SIGTERM ends the agent, if awg returns: every select has a ctx.Done() and every
\* request ends at once.
ShutdownEnds ==
    [](hung = {}) => (context = "cancelled") ~> (agent = "returned" \/ context = "live")
=============================================================================
