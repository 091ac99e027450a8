---------------------------- MODULE CommandDelivery ----------------------------
(***************************************************************************)
(* What the way of a command promises the control plane.  Its ledger says  *)
(* for each command whether it is pending, handed out or decided; a node   *)
(* has at most one command in its hands, and only because it was handed    *)
(* out: each hand-out allows one execution, or is lost and allows none.    *)
(* The control plane may hand an undecided command out again; a decided    *)
(* one stays decided, with an outcome that an execution of it returned.    *)
(***************************************************************************)

CONSTANTS
    Commands,
    Outcomes   \* what an execution can return, and the control plane record

VARIABLES
    ledger,    \* of each command: "new", "pending", "claimed" or its outcome
    licence,   \* the command the node was handed and has not executed
    running,   \* the command the node executes
    returned   \* of each command: what its executions returned

vars == <<ledger, licence, running, returned>>

Init ==
    /\ ledger = [c \in Commands |-> "new"]
    /\ licence = {} /\ running = {}
    /\ returned = [c \in Commands |-> {}]

Mark(c, from, to) == ledger[c] = from /\ ledger' = [ledger EXCEPT ![c] = to]

Queue(c) == Mark(c, "new", "pending") /\ UNCHANGED <<licence, running, returned>>

\* The control plane hands c out, and it reaches an idle node or gets lost.
HandOut(c) ==
    /\ Mark(c, "pending", "claimed")
    /\ \/ licence = {} /\ running = {} /\ licence' = {c}
       \/ UNCHANGED licence
    /\ UNCHANGED <<running, returned>>

\* The node, or the network, loses a command it was handed.
Lose == licence' = {} /\ UNCHANGED <<ledger, running, returned>>

Execute(c) ==
    /\ c \in licence /\ running = {}
    /\ licence' = {} /\ running' = {c}
    /\ UNCHANGED <<ledger, returned>>

Return(c, o) ==
    /\ c \in running
    /\ running' = {}
    /\ returned' = [returned EXCEPT ![c] = @ \cup {o}]
    /\ UNCHANGED <<ledger, licence>>

\* The node stops, in the middle of an execution or before it.
Crash == licence' = {} /\ running' = {} /\ UNCHANGED <<ledger, returned>>

\* The control plane records an outcome, or queues the command again.
Decide(c, o) ==
    /\ o \in returned[c]
    /\ Mark(c, "claimed", o)
    /\ UNCHANGED <<licence, running, returned>>

Requeue(c) == Mark(c, "claimed", "pending") /\ UNCHANGED <<licence, running, returned>>

Next ==
    \/ \E c \in Commands :
          \/ Queue(c) \/ HandOut(c) \/ Execute(c) \/ Requeue(c)
          \/ \E o \in Outcomes : Return(c, o) \/ Decide(c, o)
    \/ Lose \/ Crash

Spec == Init /\ [][Next]_vars

\* What this means for the two sides: the node has one command at most, in hand or
\* in execution, and none that was never queued; a recorded outcome was returned.
Honest ==
    /\ \A c, d \in licence \cup running : c = d
    /\ licence = {} \/ running = {}
    /\ \A c \in Commands : ledger[c] = "new" => c \notin licence \cup running /\ returned[c] = {}
    /\ \A c \in Commands : ledger[c] \in Outcomes => ledger[c] \in returned[c]
=============================================================================
