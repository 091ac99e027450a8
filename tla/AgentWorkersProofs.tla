-------------------------- MODULE AgentWorkersProofs --------------------------
(***************************************************************************)
(* Proofs about AgentWorkers, whether or not calls of awg may hang: types, *)
(* no mutex is leaked or held by two, and no workers wait in a circle.     *)
(***************************************************************************)
EXTENDS AgentWorkers, TLAPS

-----------------------------------------------------------------------------
(* The inductive invariant. *)

\* Each worker is where its own code can be: the heartbeat takes no mutex, the
\* uploaders collect, the command worker operates; only a call of awg hangs.
WorkerShape ==
    /\ at["heartbeat"] \in {"select", "backoff", "stopped", "request"}
    /\ at["commands"] \in {"select", "backoff", "stopped", "request", "claim",
                           "lockManager", "operate"}
    /\ \A w \in Uploaders : at[w] \in Places \ {"claim", "operate"}
    /\ \A w \in hung : at[w] \in {"readDevice", "operate"}

WorkersInv == TypeOK /\ WorkerShape /\ MutexesAreHeld

-----------------------------------------------------------------------------
LEMMA WorkersInit == Init => WorkersInv
<1> SUFFICES ASSUME Init PROVE WorkersInv
    OBVIOUS
<1>1. /\ at \in [Workers -> Places]
      /\ at["heartbeat"] = "select" /\ at["commands"] = "claim"
      /\ at["snapshot"] = "lockCollector" /\ at["traffic"] = "lockCollector"
    BY DEF Init, Entry, Workers, Uploaders, Places
<1>2. QED
    BY <1>1 DEF Init, WorkersInv, TypeOK, WorkerShape, MutexesAreHeld,
                Workers, Uploaders, NoWorker, Places

\* A worker that moves between places where it holds no mutex.
LEMMA MovesOutside ==
    ASSUME WorkersInv, NEW w \in Workers, Active(w), NEW place \in Places,
           Goto(w, place), UNCHANGED <<context, agent, hung, mutexes>>, doomed' \subseteq Workers,
           at[w] \notin {"readDevice", "readPeers", "operate"},
           w \in Uploaders => at[w] # "lockManager",
           place \notin {"readDevice", "readPeers", "operate"},
           w \in Uploaders => place \notin {"claim", "lockManager"},
           w = "heartbeat" => place \in {"select", "backoff", "stopped", "request"},
           w = "commands" => place # "lockCollector"
    PROVE  WorkersInv'
<1> USE DEF WorkersInv
<1>1. at' = [at EXCEPT ![w] = place] /\ at \in [Workers -> Places] /\ w \notin hung /\ agent = "running"
    BY DEF Goto, Active, TypeOK
<1>2. TypeOK'
    BY <1>1 DEF TypeOK, mutexes
<1>3. WorkerShape'
    BY <1>1 DEF WorkerShape, Workers, Uploaders, Places, TypeOK
<1>4. MutexesAreHeld'
    <2>1. SUFFICES ASSUME NEW v \in Workers
          PROVE  /\ at'[v] \in {"readPeers", "operate"} <=> managerMu = v
                 /\ v \in Uploaders /\ at'[v] \in {"readDevice", "lockManager", "readPeers"}
                       <=> collectorMu = v
        BY DEF MutexesAreHeld, mutexes
    <2>2. CASE v = w
        BY <1>1, <2>2 DEF MutexesAreHeld
    <2>3. CASE v # w
        BY <1>1, <2>3 DEF MutexesAreHeld
    <2>4. QED
        BY <2>2, <2>3
<1>5. QED
    BY <1>2, <1>3, <1>4

LEMMA OutsideKeeps ==
    ASSUME WorkersInv, NEW w \in Workers,
           \/ RetryDelayOver(w) \/ SeeCancelled(w) \/ Tick(w) \/ RequestEnds(w)
           \/ w = "commands" /\ ReceiveCommand
    PROVE  WorkersInv'
<1> USE DEF WorkersInv
<1>1. CASE RetryDelayOver(w)
    BY <1>1, MovesOutside DEF RetryDelayOver, BeginWork, Request, Goto, Places, Workers, Uploaders, TypeOK
<1>2. CASE SeeCancelled(w)
    BY <1>2, MovesOutside DEF SeeCancelled, Places, Workers, Uploaders, TypeOK
<1>3. CASE Tick(w)
    BY <1>3, MovesOutside DEF Tick, BeginWork, Request, Places, Workers, Uploaders, TypeOK
<1>4. CASE RequestEnds(w)
    BY <1>4, MovesOutside DEF RequestEnds, Return, Places, Workers, Uploaders, TypeOK
<1>5. CASE w = "commands" /\ ReceiveCommand
    BY <1>5, MovesOutside DEF ReceiveCommand, Places, Workers, Uploaders, TypeOK
<1>6. QED
    BY <1>1, <1>2, <1>3, <1>4, <1>5

\* The steps that take a mutex, hold one or release it.
LEMMA InsideKeeps ==
    ASSUME WorkersInv, NEW w \in Workers,
           \/ LockCollector(w) \/ LockManager(w)
           \/ DeviceFails(w) \/ ReadDevice(w) \/ ReadPeers(w)
           \/ w = "commands" /\ Operate
    PROVE  WorkersInv'
<1> USE DEF WorkersInv
<1>1. agent = "running" /\ w \notin hung /\ at \in [Workers -> Places]
    BY DEF Active, LockCollector, LockManager, DeviceFails, ReadDevice, ReadPeers, Operate, TypeOK
<1>2. PICK place \in Places : at' = [at EXCEPT ![w] = place]
    BY DEF LockCollector, LockManager, DeviceFails, ReadDevice, ReadPeers, Operate,
           Goto, Return, Request, Places
<1>3. TypeOK'
  <2>0. /\ at[w] = "lockCollector" => w \in Uploaders
        /\ at[w] = "lockManager" => w \in Workers \ {"heartbeat"}
    BY DEF WorkerShape, Workers, Uploaders
  <2>1. CASE LockCollector(w)
    BY <1>1, <2>0, <2>1 DEF LockCollector, TypeOK, Places, Goto
  <2>2. CASE LockManager(w)
    BY <1>1, <2>0, <2>2 DEF LockManager, TypeOK, Places, Goto
  <2>3. CASE DeviceFails(w)
    BY <1>1, <2>3 DEF DeviceFails, TypeOK, Workers, Uploaders, Places,
                Request, Return, Goto, mutexes
  <2>4. CASE ReadDevice(w)
    BY <1>1, <2>4 DEF ReadDevice, TypeOK, Workers, Uploaders, Places,
                Request, Return, Goto, mutexes
  <2>5. CASE ReadPeers(w)
    BY <1>1, <2>5 DEF ReadPeers, TypeOK, Workers, Uploaders, Places,
                Request, Return, Goto, mutexes
  <2>6. CASE w = "commands" /\ Operate
    BY <1>1, <2>6 DEF Operate, TypeOK, Workers, Uploaders, Places,
                Request, Return, Goto, mutexes
  <2>7. QED
    BY <2>1, <2>2, <2>3, <2>4, <2>5, <2>6
<1>4. WorkerShape'
  <2>1. CASE LockCollector(w)
    BY <1>1, <2>1 DEF LockCollector, TypeOK, WorkerShape, Workers, Uploaders, Places,
                Request, Return, Goto
  <2>2. CASE LockManager(w)
    BY <1>1, <2>2 DEF LockManager, TypeOK, WorkerShape, Workers, Uploaders, Places,
                Request, Return, Goto
  <2>3. CASE DeviceFails(w)
    BY <1>1, <2>3 DEF DeviceFails, TypeOK, WorkerShape, Workers, Uploaders, Places,
                Request, Return, Goto
  <2>4. CASE ReadDevice(w)
    BY <1>1, <2>4 DEF ReadDevice, TypeOK, WorkerShape, Workers, Uploaders, Places,
                Request, Return, Goto
  <2>5. CASE ReadPeers(w)
    BY <1>1, <2>5 DEF ReadPeers, TypeOK, WorkerShape, Workers, Uploaders, Places,
                Request, Return, Goto
  <2>6. CASE w = "commands" /\ Operate
    BY <1>1, <2>6 DEF Operate, TypeOK, WorkerShape, Workers, Uploaders, Places,
                Request, Return, Goto
  <2>7. QED
    BY <2>1, <2>2, <2>3, <2>4, <2>5, <2>6
<1>5. MutexesAreHeld'
    BY <1>1, <1>2 DEF TypeOK, WorkerShape, MutexesAreHeld, Workers, Uploaders, NoWorker, LockCollector,
             LockManager, DeviceFails, ReadDevice, ReadPeers, Operate, Request, Return, Goto, mutexes
<1>6. QED
    BY <1>3, <1>4, <1>5

LEMMA WorkersStep == WorkersInv /\ [Next]_vars => WorkersInv'
<1> SUFFICES ASSUME WorkersInv, [Next]_vars PROVE WorkersInv'
    OBVIOUS
<1>1. CASE \E w \in Workers : WorkerStep(w) \/ Locking(w)
    BY <1>1, OutsideKeeps, InsideKeeps DEF WorkerStep, Locking
<1>2. CASE \E w \in Workers : Hang(w)
    BY <1>2 DEF Hang, Active, WorkersInv, TypeOK, WorkerShape, MutexesAreHeld, mutexes
<1>3. CASE Cancel
    BY <1>3 DEF Cancel, WorkersInv, TypeOK, WorkerShape, MutexesAreHeld, mutexes
<1>4. CASE WaitForWorkers
    BY <1>4 DEF WaitForWorkers, WorkersInv, TypeOK, WorkerShape, MutexesAreHeld, mutexes
<1>5. CASE NewProcess
    <2>1. Init'
        BY <1>5 DEF NewProcess, Init
    <2>2. QED
        BY <2>1, WorkersInit, PTL
<1>6. CASE UNCHANGED vars
    BY <1>6 DEF vars, mutexes, WorkersInv, TypeOK, WorkerShape, MutexesAreHeld
<1>7. QED
    BY <1>1, <1>2, <1>3, <1>4, <1>5, <1>6 DEF Next

-----------------------------------------------------------------------------
(* Who waits for whom. *)

\* Nobody who holds manager.mu waits for a mutex.
LEMMA ManagerHoldersWaitForNobody ==
    ASSUME NEW w \in Workers, at[w] \in {"readPeers", "operate"} PROVE Awaits(w) = {}
BY DEF Awaits

\* Who waits for manager.mu waits for a worker inside it.
LEMMA ManagerIsHeldInside ==
    ASSUME MutexesAreHeld, NEW w \in Workers, at[w] = "lockManager",
           NEW v \in Workers, v \in Awaits(w)
    PROVE  at[v] \in {"readPeers", "operate"}
BY DEF MutexesAreHeld, Awaits

\* Who waits for the collector waits for a worker that collects.
LEMMA CollectorIsHeldInside ==
    ASSUME MutexesAreHeld, NEW w \in Workers, at[w] = "lockCollector",
           NEW v \in Workers, v \in Awaits(w)
    PROVE  at[v] \in {"readDevice", "lockManager", "readPeers"}
BY DEF MutexesAreHeld, Awaits

-----------------------------------------------------------------------------
(* The theorems. *)

\* The inductive invariant of the workers and their mutexes.
THEOREM WorkersInvariant == Spec => []WorkersInv
BY WorkersInit, WorkersStep, PTL DEF Spec

\* Every variable keeps its type, whether or not awg may hang (RunAgent).
THEOREM WorkersTypeCorrect == Spec => []TypeOK
<1>1. WorkersInv => TypeOK
    BY DEF WorkersInv
<1>2. QED
    BY <1>1, WorkersInvariant, PTL

\* No path of a worker leaks a mutex and no two workers hold one
\* (synchronizedCollector.Collect, Manager).
THEOREM MutexesStayHeld == Spec => []MutexesAreHeld
<1>1. WorkersInv => MutexesAreHeld
    BY DEF WorkersInv
<1>2. QED
    BY <1>1, WorkersInvariant, PTL

\* No circle of waiting workers, whether or not calls of awg hang: a worker that
\* waits waits for one that holds manager.mu and waits for nobody, or for a
\* collecting one that waits at most for such a worker
\* (synchronizedCollector.Collect, Manager.Execute).
THEOREM NobodyWaitsInACircle == Spec => []NoCircularWait
<1>1. WorkersInv => NoCircularWait
    <2> SUFFICES ASSUME WorkersInv,
                        NEW circle \in (SUBSET Workers) \ {{}},
                        \A w \in circle : Awaits(w) \cap circle # {}
                 PROVE  FALSE
        BY DEF NoCircularWait
    <2>1. \A w \in Workers : at[w] \in {"readPeers", "operate"} => Awaits(w) = {}
        BY ManagerHoldersWaitForNobody
    <2>2. \A w \in circle : at[w] # "lockManager"
        BY <2>1, ManagerIsHeldInside DEF WorkersInv
    <2>3. \A w \in circle : at[w] # "lockCollector"
        BY <2>1, <2>2, CollectorIsHeldInside DEF WorkersInv, Awaits
    <2>4. QED
        BY <2>2, <2>3 DEF Awaits
<1>2. QED
    BY <1>1, WorkersInvariant, PTL
=============================================================================
