----------------------------- MODULE AndroidService -----------------------------
(***************************************************************************)
(* The foreground VpnService of the Android app (HomoscaleService.java):   *)
(* the intents, onDestroy and onRevoke that the main thread delivers, and  *)
(* the single-threaded executor of each service instance, which outlives    *)
(* the instance and calls the bridge.  The bridge is SessionSlot, which     *)
(* BridgeSession implements.                                               *)
(***************************************************************************)
EXTENDS Integers, Sequences

CONSTANTS
    Services,       \* the instances of the service, one after the other
    Runs,           \* the calls of HomoscaleBridge.start
    None,
    MaxIntents      \* bound: intents and revocations delivered in a behaviour

ASSUME ServiceAssumption ==
    None \notin Services /\ None \notin Runs /\ MaxIntents \in Nat

VARIABLES
    life,           \* each instance: "unborn", "alive" or "destroyed"
    running,        \* HomoscaleService.running
    stopRequested,  \* HomoscaleService.stopRequested
    path,           \* activeConfigPath: "" or "set"
    stopping,       \* stopSelf has been called: the system may destroy the instance
    queue,          \* the tasks of the executor, first one next
    task,           \* what the executor's thread has got from the bridge
    owner,          \* the instance that made each call of start
    intents,        \* how many intents and revocations have been delivered
    hurried,        \* history: a START has been delivered while an executor was busy
    open, used, asked, failure      \* the bridge

serviceVars == <<life, running, stopRequested, path, stopping>>
userVars    == <<intents, hurried>>
bridgeVars  == <<open, used, asked, failure>>
vars == <<life, running, stopRequested, path, stopping, queue, task, owner, intents,
          hurried, open, used, asked, failure>>

Bridge == INSTANCE SessionSlot WITH Ids <- Runs, Nobody <- None

TypeOK ==
    /\ life \in [Services -> {"unborn", "alive", "destroyed"}]
    /\ running \in [Services -> BOOLEAN]
    /\ stopRequested \in [Services -> BOOLEAN]
    /\ path \in [Services -> {"", "set"}]
    /\ stopping \in [Services -> BOOLEAN]
    /\ queue \in [Services -> Seq({"start", "stop"})]
    /\ task \in [Services -> {"none", "ok", "failed", "stopping", "stopped"}]
    /\ owner \in [Runs -> Services \cup {None}]
    /\ intents \in 0..MaxIntents
    /\ hurried \in BOOLEAN
    /\ open \in Runs \cup {None}
    /\ used \subseteq Runs
    /\ asked \subseteq used
    /\ failure \in Runs \cup {None}

Init ==
    /\ life = [i \in Services |-> "unborn"]
    /\ running = [i \in Services |-> FALSE]
    /\ stopRequested = [i \in Services |-> FALSE]
    /\ path = [i \in Services |-> ""]
    /\ stopping = [i \in Services |-> FALSE]
    /\ queue = [i \in Services |-> <<>>]
    /\ task = [i \in Services |-> "none"]
    /\ owner = [r \in Runs |-> None]
    /\ intents = 0
    /\ hurried = FALSE
    /\ Bridge!Init

-----------------------------------------------------------------------------
(* The main thread.                                                        *)

\* An intent goes to the instance that is alive; if there is none, the system
\* creates one first (onCreate).
Delivered(i) ==
    /\ intents < MaxIntents
    /\ intents' = intents + 1
    /\ \/ life[i] = "alive"
       \/ life[i] = "unborn" /\ \A j \in Services : life[j] # "alive"
    /\ life' = [life EXCEPT ![i] = "alive"]

Enqueue(i, job) == queue' = [queue EXCEPT ![i] = Append(@, job)]

\* requestStop.
RequestStop(i) ==
    /\ stopRequested' = [stopRequested EXCEPT ![i] = TRUE]
    /\ running' = [running EXCEPT ![i] = FALSE]
    /\ Enqueue(i, "stop")

\* A missing extra is read as the empty path.
ConfigPath(extra) == IF extra = "null" THEN "" ELSE extra

\* The executor has nothing left to do.
Idle(i) == queue[i] = <<>> /\ task[i] = "none"

\* onStartCommand with ACTION_START: nothing but a notification when it is running.
StartIntent(i) ==
    /\ Delivered(i)
    /\ hurried' = (hurried \/ \E j \in Services : ~Idle(j))
    /\ \/ running[i] /\ UNCHANGED <<stopRequested, path, queue>>
       \/ /\ ~running[i]
          /\ \E extra \in {"null", "set"} : path' = [path EXCEPT ![i] = ConfigPath(extra)]
          /\ stopRequested' = [stopRequested EXCEPT ![i] = FALSE]
          /\ Enqueue(i, "start")
    /\ UNCHANGED <<running, stopping, task, owner, bridgeVars>>

\* onStartCommand with ACTION_STOP.
StopIntent(i) ==
    /\ Delivered(i)
    /\ RequestStop(i)
    /\ UNCHANGED <<hurried, path, stopping, task, owner, bridgeVars>>

\* onRevoke, whose super.onRevoke calls stopSelf.
Revoke(i) ==
    /\ life[i] = "alive"
    /\ Delivered(i)
    /\ RequestStop(i)
    /\ stopping' = [stopping EXCEPT ![i] = TRUE]
    /\ UNCHANGED <<hurried, path, task, owner, bridgeVars>>

\* Wrong on purpose: the executor is shut down with shutdownNow, or without a stop.
DestroyNow(i) ==
    /\ life[i] = "alive"
    /\ stopping[i]
    /\ life' = [life EXCEPT ![i] = "destroyed"]
    /\ queue' = [queue EXCEPT ![i] = <<>>]
    /\ UNCHANGED <<running, stopRequested, path, stopping, task, owner, userVars, bridgeVars>>

DestroySilently(i) ==
    /\ life[i] = "alive"
    /\ stopping[i]
    /\ life' = [life EXCEPT ![i] = "destroyed"]
    /\ UNCHANGED <<running, stopRequested, path, stopping, queue, task, owner, userVars,
                   bridgeVars>>

\* onDestroy: a last stop unless one has been requested; executor.shutdown lets the
\* tasks in the queue run.
Destroy(i) ==
    /\ life[i] = "alive"
    /\ stopping[i]
    /\ life' = [life EXCEPT ![i] = "destroyed"]
    /\ IF ~stopRequested[i] /\ path[i] # ""
       THEN RequestStop(i)
       ELSE UNCHANGED <<running, stopRequested, queue>>
    /\ UNCHANGED <<path, stopping, task, owner, userVars, bridgeVars>>

-----------------------------------------------------------------------------
(* The executor's thread.                                                  *)

Takes(i, job) ==
    /\ task[i] = "none"
    /\ queue[i] # <<>>
    /\ Head(queue[i]) = job
    /\ queue' = [queue EXCEPT ![i] = Tail(@)]
    /\ UNCHANGED <<serviceVars, userVars>>

Answer(i, answer) == task' = [task EXCEPT ![i] = answer]

\* startVpnRuntime: the interface is established and its descriptor handed to
\* HomoscaleBridge.start, which needs a path and no open session.
TaskStart(i) ==
    /\ Takes(i, "start")
    /\ path[i] # ""
    /\ \E r \in Runs :
         /\ owner[r] = None
         /\ owner' = [owner EXCEPT ![r] = i]
         /\ Bridge!Open(r)
    /\ Answer(i, "ok")

\* No interface (permission, an empty whitelist), or the bridge refuses.
TaskStartFails(i) ==
    /\ Takes(i, "start")
    /\ Answer(i, "failed")
    /\ UNCHANGED <<owner, bridgeVars>>

\* The answer is written into the fields that the main thread writes, too.
TaskAnswered(i) ==
    /\ task[i] \in {"ok", "failed"}
    /\ running' = [running EXCEPT ![i] = task[i] = "ok"]
    /\ IF task[i] = "ok"
       THEN UNCHANGED <<stopRequested, stopping>>
       ELSE /\ stopRequested' = [stopRequested EXCEPT ![i] = TRUE]
            /\ stopping' = [stopping EXCEPT ![i] = TRUE]
    /\ Answer(i, "none")
    /\ UNCHANGED <<life, path, queue, owner, userVars, bridgeVars>>

\* Wrong on purpose: a stop does nothing for a service that is not running.
TaskStopIfRunning(i) ==
    /\ Takes(i, "stop")
    /\ Answer(i, "stopping")
    /\ IF open # None /\ running[i] THEN Bridge!Ask(open) ELSE UNCHANGED bridgeVars
    /\ UNCHANGED owner

\* HomoscaleBridge.stop cancels the session that is open, whoever started it, and
\* waits for at most eight seconds; then stopForeground and stopSelf.
TaskStop(i) ==
    /\ Takes(i, "stop")
    /\ Answer(i, "stopping")
    /\ IF open # None THEN Bridge!Ask(open) ELSE UNCHANGED bridgeVars
    /\ UNCHANGED owner

TaskStopWaited(i) ==
    /\ task[i] = "stopping"
    /\ Answer(i, "stopped")
    /\ UNCHANGED <<serviceVars, queue, owner, userVars, bridgeVars>>

TaskStopped(i) ==
    /\ task[i] = "stopped"
    /\ stopping' = [stopping EXCEPT ![i] = TRUE]
    /\ Answer(i, "none")
    /\ UNCHANGED <<life, running, stopRequested, path, queue, owner, userVars, bridgeVars>>

Executor(i) ==
    TaskStart(i) \/ TaskStartFails(i) \/ TaskAnswered(i)
    \/ TaskStop(i) \/ TaskStopWaited(i) \/ TaskStopped(i)

-----------------------------------------------------------------------------
\* A session closes when it has been asked to, or fails by itself.
SessionCloses(r) ==
    /\ Bridge!Close(r)
    /\ UNCHANGED <<serviceVars, queue, task, owner, userVars>>

Next ==
    \/ \E i \in Services :
         StartIntent(i) \/ StopIntent(i) \/ Revoke(i) \/ Destroy(i) \/ Executor(i)
    \/ \E r \in Runs : SessionCloses(r)

Spec == Init /\ [][Next]_vars

\* The executor's thread runs, and a cancelled session ends (BridgeSession's
\* StopMakesRoom).  Nothing makes the system destroy a service.
FairSpec ==
    /\ Spec
    /\ \A i \in Services : WF_vars(Executor(i))
    /\ \A r \in Runs : WF_vars(r \in asked /\ SessionCloses(r))

-----------------------------------------------------------------------------
(* Properties.                                                             *)

\* The user interface does not keep a user from pressing START while the executor is
\* busy.  For one who never does, a session that nobody has asked to end has a service:
\* the instance that started it is alive, or has left a stop behind that its executor
\* will still run (onDestroy's requestStop).
SessionHasService ==
    ~hurried /\ open # None /\ open \notin asked =>
        LET i == owner[open] IN
        life[i] = "alive" \/ (\E n \in 1..Len(queue[i]) : queue[i][n] = "stop")

\* For the same user the flag tells the truth in one direction: a service whose
\* executor is idle and that is not running has no session left to stop.
NotRunningMeansStopped ==
    ~hurried =>
        \A i \in Services :
            Idle(i) /\ ~running[i] /\ open # None /\ owner[open] = i => open \in asked

\* A stop that an intent, a revocation or onDestroy has queued ends the session that
\* is open, also when the instance is destroyed before its executor gets to it.
StopEndsTheSession ==
    \A i \in Services :
        queue[i] # <<>> /\ queue[i][Len(queue[i])] = "stop" ~> open = None
=============================================================================
