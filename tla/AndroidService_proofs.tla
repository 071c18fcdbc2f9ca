------------------------- MODULE AndroidService_proofs -------------------------
(***************************************************************************)
(* Theorems about AndroidService, for any sets of instances and sessions    *)
(* and any number of intents.                                              *)
(***************************************************************************)
EXTENDS AndroidService, TLAPS

\* What the proofs need to know of a queue: whether a stop is in it, whether a start is
\* next, and that nothing but stops comes after the first task.
HasStop(q)    == \E n \in 1..Len(q) : q[n] = "stop"
FirstStart(q) == q # <<>> /\ Head(q) = "start"
StopsAfter(q) == \A n \in 2..Len(q) : q[n] = "stop"

Jobs == {"start", "stop"}

Owned    == open # None => owner[open] \in Services
OneAlive == \A i, j \in Services : life[i] = "alive" /\ life[j] = "alive" => i = j
Unasked  == open # None /\ open \notin asked

\* A START that is still to be answered, or whose failure is.
Starting(i) == FirstStart(queue[i]) \/ task[i] = "failed"

InOrder ==
    \A i \in Services :
        StopsAfter(queue[i]) /\ (FirstStart(queue[i]) => task[i] = "none")

\* The executors were idle when it came: it is the only one, no session is in its way
\* but one that is ending, and a stop that came since then is behind it in the queue.
OneStarting   == \A i, j \in Services : Starting(i) /\ Starting(j) => i = j
StartingAlone == \A i \in Services : Starting(i) => ~Unasked
StopFollows ==
    \A i \in Services :
        FirstStart(queue[i]) /\ (stopRequested[i] \/ (life[i] # "alive" /\ path[i] # "")) =>
            HasStop(queue[i])

\* What keeps a session in the hands of the service that has started it.
KeptBy(i) ==
    /\ path[i] # ""
    /\ running[i] \/ task[i] = "ok" \/ HasStop(queue[i])
    /\ stopRequested[i] \/ life[i] # "alive" => HasStop(queue[i])
Kept == Unasked => KeptBy(owner[open])

Patient == InOrder /\ OneStarting /\ StartingAlone /\ StopFollows /\ Kept

\* The inductive invariant.
ServiceInv == TypeOK /\ Owned /\ OneAlive /\ (~hurried => Patient)

USE ServiceAssumption DEF ServiceAssumption, serviceVars, userVars, bridgeVars

-----------------------------------------------------------------------------
(* Queues.                                                                 *)

\* An instance begins with an empty queue, and there have been no intents.
LEMMA EmptyQueue ==
  /\ <<>> \in Seq(Jobs) /\ StopsAfter(<<>>) /\ ~FirstStart(<<>>)
  /\ 0 \in 0..MaxIntents
<1>1. <<>> \in Seq(Jobs) /\ Len(<<>>) = 0 OBVIOUS
<1>2. 0 \in 0..MaxIntents OBVIOUS
<1> QED BY <1>1, <1>2 DEF StopsAfter, FirstStart

\* What requestStop does to a queue: there is a stop in it, and no other start is next.
LEMMA AppendStop ==
  ASSUME NEW q \in Seq(Jobs)
  PROVE  /\ Append(q, "stop") \in Seq(Jobs)
         /\ HasStop(Append(q, "stop"))
         /\ FirstStart(Append(q, "stop")) => FirstStart(q)
         /\ StopsAfter(q) => StopsAfter(Append(q, "stop"))
<1> DEFINE r == Append(q, "stop")
<1>1. r \in Seq(Jobs) /\ Len(r) = Len(q) + 1 /\ r[Len(q) + 1] = "stop" BY DEF Jobs
<1>2. \A n \in 1..Len(q) : r[n] = q[n] OBVIOUS
<1>3. HasStop(r) BY <1>1 DEF HasStop
<1>4. FirstStart(r) => FirstStart(q)
  <2>1. CASE q = <<>> BY <2>1, <1>1 DEF FirstStart
  <2>2. CASE q # <<>> BY <2>2, <1>1, <1>2 DEF FirstStart
  <2> QED BY <2>1, <2>2
<1>5. StopsAfter(q) => StopsAfter(r) BY <1>1, <1>2 DEF StopsAfter
<1> QED BY <1>1, <1>3, <1>4, <1>5

\* A START is put into an empty queue by a user who waits.
LEMMA AppendStart ==
  ASSUME NEW q \in Seq(Jobs)
  PROVE  /\ Append(q, "start") \in Seq(Jobs)
         /\ q = <<>> => StopsAfter(Append(q, "start"))
<1>1. Append(q, "start") \in Seq(Jobs) BY DEF Jobs
<1>2. q = <<>> => Len(Append(q, "start")) = 1 OBVIOUS
<1> QED BY <1>1, <1>2 DEF StopsAfter

\* What the executor leaves when it takes the first task.
LEMMA TakeFirst ==
  ASSUME NEW q \in Seq(Jobs), q # <<>>
  PROVE  /\ Tail(q) \in Seq(Jobs)
         /\ StopsAfter(q) => StopsAfter(Tail(q)) /\ ~FirstStart(Tail(q))
         /\ Head(q) = "start" /\ HasStop(q) => HasStop(Tail(q))
<1>1. /\ Tail(q) \in Seq(Jobs) /\ Len(Tail(q)) = Len(q) - 1 /\ Len(q) \in Nat \ {0}
      /\ Head(q) = q[1]
  OBVIOUS
<1>2. \A n \in 1..(Len(q) - 1) : Tail(q)[n] = q[n + 1] OBVIOUS
<1>3. ASSUME StopsAfter(q) PROVE StopsAfter(Tail(q)) /\ ~FirstStart(Tail(q))
  <2>1. \A n \in 1..(Len(q) - 1) : Tail(q)[n] = "stop" BY <1>1, <1>2, <1>3 DEF StopsAfter
  <2>2. StopsAfter(Tail(q)) BY <1>1, <2>1 DEF StopsAfter
  <2>3. CASE Len(q) = 1
    <3>1. Len(Tail(q)) = 0 BY <1>1, <2>3
    <3>2. \A r \in Seq(Jobs) : Len(r) = 0 => r = <<>> OBVIOUS
    <3> QED BY <1>1, <2>2, <3>1, <3>2 DEF FirstStart
  <2>4. CASE Len(q) # 1
    <3>1. Tail(q)[1] = "stop" BY <1>1, <2>1, <2>4
    <3>2. \A r \in Seq(Jobs) : r # <<>> => Head(r) = r[1] OBVIOUS
    <3> QED BY <1>1, <2>2, <3>1, <3>2 DEF FirstStart
  <2> QED BY <2>3, <2>4
<1>4. ASSUME Head(q) = "start", HasStop(q) PROVE HasStop(Tail(q))
  <2>1. PICK n \in 1..Len(q) : q[n] = "stop" BY <1>4 DEF HasStop
  <2>2. n # 1 BY <1>1, <1>4, <2>1
  <2>3. n - 1 \in 1..Len(Tail(q)) /\ Tail(q)[n - 1] = "stop" BY <1>1, <1>2, <2>1, <2>2
  <2> QED BY <2>3 DEF HasStop
<1> QED BY <1>1, <1>3, <1>4

-----------------------------------------------------------------------------
(* The type invariant.                                                     *)

\* An intent, a revocation or onDestroy keeps the type invariant.
LEMMA MainTypeOK ==
  ASSUME TypeOK, NEW i \in Services,
         StartIntent(i) \/ StopIntent(i) \/ Revoke(i) \/ Destroy(i)
  PROVE  TypeOK'
<1> USE DEF TypeOK
<1>1. queue[i] \in Seq(Jobs) BY DEF Jobs
<1>2. /\ Append(queue[i], "stop") \in Seq({"start", "stop"})
      /\ Append(queue[i], "start") \in Seq({"start", "stop"})
  BY <1>1, AppendStop, AppendStart DEF Jobs
<1>3. ASSUME RequestStop(i)
      PROVE  /\ queue' \in [Services -> Seq({"start", "stop"})]
             /\ running' \in [Services -> BOOLEAN]
             /\ stopRequested' \in [Services -> BOOLEAN]
  BY <1>2, <1>3 DEF RequestStop, Enqueue
<1>4. ASSUME Delivered(i)
      PROVE  /\ life' \in [Services -> {"unborn", "alive", "destroyed"}]
             /\ intents' \in 0..MaxIntents
  <2>1. life' = [life EXCEPT ![i] = "alive"] BY <1>4 DEF Delivered
  <2>2. intents' = intents + 1 /\ intents < MaxIntents BY <1>4 DEF Delivered
  <2>3. MaxIntents \in Nat /\ intents \in 0..MaxIntents OBVIOUS
  <2>4. intents' \in 0..MaxIntents
    <3> HIDE DEF TypeOK, ServiceAssumption
    <3> QED BY <2>2, <2>3
  <2> QED BY <2>1, <2>4
<1>5. CASE StartIntent(i)
  <2>1. queue' \in [Services -> Seq({"start", "stop"})]
    BY <1>2, <1>5, ZenonT(40) DEF StartIntent, Enqueue
  <2>2. path' \in [Services -> {"", "set"}] BY <1>5 DEF StartIntent, ConfigPath
  <2>3. hurried' \in BOOLEAN BY <1>5 DEF StartIntent
  <2>4. stopRequested' \in [Services -> BOOLEAN] BY <1>5 DEF StartIntent
  <2> QED BY <1>4, <1>5, <2>1, <2>2, <2>3, <2>4 DEF StartIntent
<1>6. CASE StopIntent(i) BY <1>3, <1>4, <1>6 DEF StopIntent
<1>7. CASE Revoke(i) BY <1>3, <1>4, <1>7 DEF Revoke
<1>8. CASE Destroy(i)
  <2>1. RequestStop(i) \/ UNCHANGED <<running, stopRequested, queue>>
    BY <1>8 DEF Destroy
  <2> QED BY <1>3, <1>8, <2>1 DEF Destroy
<1> QED BY <1>5, <1>6, <1>7, <1>8

\* So does a step of an executor's thread.
LEMMA ExecutorTypeOK ==
  ASSUME TypeOK, NEW i \in Services, Executor(i)
  PROVE  TypeOK'
<1> USE DEF TypeOK, Answer
<1>1. queue[i] # <<>> => Tail(queue[i]) \in Seq({"start", "stop"})
  <2>1. queue[i] \in Seq(Jobs) BY DEF Jobs
  <2> QED BY <2>1, TakeFirst DEF Jobs
<1>2. CASE TaskStart(i)
  <2> PICK r \in Runs : /\ owner[r] = None
                        /\ owner' = [owner EXCEPT ![r] = i]
                        /\ Bridge!Open(r)
    BY <1>2 DEF TaskStart
  <2> QED BY <1>1, <1>2 DEF TaskStart, Takes, Bridge!Open
<1>3. CASE TaskStartFails(i) BY <1>1, <1>3 DEF TaskStartFails, Takes
<1>4. CASE TaskAnswered(i) BY <1>4 DEF TaskAnswered
<1>5. CASE TaskStop(i)
  <2>1. CASE open # None
    <3>1. Bridge!Ask(open) BY <1>5, <2>1 DEF TaskStop
    <3> QED BY <1>1, <1>5, <3>1 DEF TaskStop, Takes, Bridge!Ask
  <2>2. CASE open = None
    <3>1. UNCHANGED <<open, used, asked, failure>> BY <1>5, <2>2 DEF TaskStop
    <3> QED BY <1>1, <1>5, <3>1 DEF TaskStop, Takes
  <2> QED BY <2>1, <2>2
<1>6. CASE TaskStopWaited(i) \/ TaskStopped(i) BY <1>6 DEF TaskStopWaited, TaskStopped
<1> QED BY <1>2, <1>3, <1>4, <1>5, <1>6 DEF Executor

-----------------------------------------------------------------------------
(* The invariant, one lemma per action.  A queue is what the lemmas above   *)
(* say of it.                                                              *)

\* A stop is requested: whatever was to be kept by a stop is.
LEMMA RequestInv ==
  ASSUME TypeOK, Owned, Patient, NEW i \in Services, RequestStop(i),
         UNCHANGED <<path, task, owner, bridgeVars>>,
         \A j \in Services : j # i => life'[j] = life[j]
  PROVE  Patient'
<1>1. /\ queue' = [queue EXCEPT ![i] = Append(queue[i], "stop")]
      /\ running' = [running EXCEPT ![i] = FALSE]
      /\ stopRequested' = [stopRequested EXCEPT ![i] = TRUE]
  BY DEF RequestStop, Enqueue
<1>2. /\ HasStop(queue'[i])
      /\ FirstStart(queue'[i]) => FirstStart(queue[i])
      /\ StopsAfter(queue[i]) => StopsAfter(queue'[i])
  <2>1. queue[i] \in Seq(Jobs) /\ queue'[i] = Append(queue[i], "stop")
    BY <1>1 DEF TypeOK, Jobs
  <2> QED BY <2>1, AppendStop
<1>3. \A j \in Services : j # i =>
        /\ queue'[j] = queue[j]
        /\ running'[j] = running[j]
        /\ stopRequested'[j] = stopRequested[j]
  BY <1>1 DEF TypeOK
<1>4. InOrder' BY <1>2, <1>3 DEF InOrder, Patient
<1>5. \A j \in Services : Starting(j)' => Starting(j) BY <1>2, <1>3 DEF Starting
<1>6. OneStarting' BY <1>5 DEF OneStarting, Patient
<1>7. StartingAlone' BY <1>5 DEF StartingAlone, Unasked, Patient
<1>8. StopFollows' BY <1>2, <1>3 DEF StopFollows, Patient
<1>9. Kept'
  <2> SUFFICES ASSUME Unasked PROVE KeptBy(owner[open])' BY DEF Kept, Unasked
  <2>1. owner[open] \in Services /\ KeptBy(owner[open])
    BY DEF Owned, Unasked, Kept, Patient
  <2> QED BY <1>2, <1>3, <2>1 DEF KeptBy
<1> QED BY <1>4, <1>6, <1>7, <1>8, <1>9 DEF Patient

\* A START of a user who waits finds every executor idle, and hence no session that is
\* not ending but that of the instance it goes to, which then is running.
LEMMA StartInv ==
  ASSUME ServiceInv, ~hurried, NEW i \in Services, StartIntent(i), ~hurried'
  PROVE  Patient'
<1> USE DEF ServiceInv
<1>1. \A j \in Services : Idle(j) BY DEF StartIntent
<1>2. Patient OBVIOUS
<1>3. /\ life' = [life EXCEPT ![i] = "alive"]
      /\ \A j \in Services : j # i => life[j] # "alive"
      /\ UNCHANGED <<running, task, owner, bridgeVars>>
  BY DEF StartIntent, Delivered, OneAlive, TypeOK
<1>4. \A j \in Services : ~HasStop(queue[j]) /\ ~FirstStart(queue[j]) /\ ~Starting(j)
  BY <1>1 DEF Idle, HasStop, FirstStart, Starting
<1>5. Unasked => owner[open] = i /\ running[i]
  <2> SUFFICES ASSUME Unasked PROVE owner[open] = i /\ running[i] OBVIOUS
  <2>1. owner[open] \in Services /\ KeptBy(owner[open])
    BY <1>2 DEF Owned, Unasked, Kept, Patient
  <2> QED BY <1>1, <1>3, <1>4, <2>1 DEF KeptBy, Idle
<1>6. CASE running[i] /\ UNCHANGED <<stopRequested, path, queue>>
  <2>1. \A j \in Services : life'[j] # "alive" => life[j] # "alive" BY <1>3 DEF TypeOK
  <2>2. InOrder' /\ OneStarting' /\ StartingAlone' /\ StopFollows'
    BY <1>2, <1>3, <1>4, <1>6, <2>1
    DEF Patient, InOrder, OneStarting, StartingAlone, StopFollows, Starting, Unasked
  <2>3. Kept'
    <3> SUFFICES ASSUME Unasked PROVE KeptBy(owner[open])'
      BY <1>3 DEF Kept, Unasked
    <3>1. owner[open] = i /\ KeptBy(i) BY <1>2, <1>5 DEF Kept, Patient
    <3> QED BY <1>3, <1>6, <2>1, <3>1 DEF KeptBy
  <2> QED BY <2>2, <2>3 DEF Patient
<1>7. CASE /\ ~running[i]
           /\ stopRequested' = [stopRequested EXCEPT ![i] = FALSE]
           /\ Enqueue(i, "start")
  <2>1. ~Unasked /\ ~Unasked' BY <1>3, <1>5, <1>7 DEF Unasked
  <2>2. /\ StopsAfter(queue'[i])
        /\ \A j \in Services : j # i => queue'[j] = queue[j]
        /\ ~stopRequested'[i] /\ life'[i] = "alive"
    <3>1. queue[i] \in Seq(Jobs) /\ queue[i] = <<>> BY <1>1 DEF Idle, TypeOK, Jobs
    <3>2. queue' = [queue EXCEPT ![i] = Append(queue[i], "start")] BY <1>7 DEF Enqueue
    <3>3. queue'[i] = Append(queue[i], "start") BY <3>2 DEF TypeOK
    <3> QED BY <1>3, <1>7, <3>1, <3>2, <3>3, AppendStart DEF TypeOK
  <2>3. \A j \in Services : Starting(j)' => j = i BY <1>3, <1>4, <2>2 DEF Starting
  <2>4. InOrder' BY <1>1, <1>2, <1>3, <2>2 DEF InOrder, Patient, Idle
  <2>5. OneStarting' /\ StartingAlone' /\ Kept'
    BY <2>1, <2>3 DEF OneStarting, StartingAlone, Kept
  <2>6. StopFollows' BY <1>4, <2>2 DEF StopFollows
  <2> QED BY <2>4, <2>5, <2>6 DEF Patient
<1> QED BY <1>6, <1>7 DEF StartIntent

\* onDestroy requests a stop, or one has been requested, or the instance has no path.
LEMMA DestroyInv ==
  ASSUME TypeOK, Owned, Patient, NEW i \in Services, Destroy(i)
  PROVE  Patient'
<1>1. /\ life' = [life EXCEPT ![i] = "destroyed"]
      /\ UNCHANGED <<path, task, owner, bridgeVars>>
  BY DEF Destroy
<1>2. \A j \in Services : j # i => life'[j] = life[j] BY <1>1 DEF TypeOK
<1>3. CASE RequestStop(i) BY <1>1, <1>2, <1>3, RequestInv
<1>4. CASE /\ stopRequested[i] \/ path[i] = ""
           /\ UNCHANGED <<running, stopRequested, queue>>
  <2>1. InOrder' /\ OneStarting' /\ StartingAlone'
    BY <1>1, <1>4 DEF Patient, InOrder, OneStarting, StartingAlone, Starting, Unasked
  <2>2. StopFollows' BY <1>1, <1>2, <1>4 DEF Patient, StopFollows
  <2>3. Kept'
    <3> SUFFICES ASSUME Unasked PROVE KeptBy(owner[open])'
      BY <1>1 DEF Kept, Unasked
    <3>1. owner[open] \in Services /\ KeptBy(owner[open])
      BY DEF Owned, Unasked, Kept, Patient
    <3> QED BY <1>1, <1>2, <1>4, <3>1 DEF KeptBy
  <2> QED BY <2>1, <2>2, <2>3 DEF Patient
<1> QED BY <1>3, <1>4 DEF Destroy

\* The executor takes a task: the stops behind it stay, and no start is next.
LEMMA TakesQueue ==
  ASSUME TypeOK, InOrder, NEW i \in Services, NEW job, Takes(i, job)
  PROVE  /\ StopsAfter(queue'[i]) /\ ~FirstStart(queue'[i])
         /\ job = "start" => FirstStart(queue[i])
         /\ job = "start" /\ HasStop(queue[i]) => HasStop(queue'[i])
         /\ \A j \in Services : j # i => queue'[j] = queue[j]
<1>1. queue[i] \in Seq(Jobs) /\ queue[i] # <<>> /\ Head(queue[i]) = job
  BY DEF TypeOK, Takes, Jobs
<1>2. queue' = [queue EXCEPT ![i] = Tail(queue[i])] BY DEF Takes
<1>3. queue'[i] = Tail(queue[i]) /\ \A j \in Services : j # i => queue'[j] = queue[j]
  BY <1>2 DEF TypeOK
<1> QED BY <1>1, <1>3, TakeFirst DEF InOrder, FirstStart

\* A start's task: its session is kept as the START has left things, its failure finds
\* no session that is not ending.
LEMMA TaskStartInv ==
  ASSUME TypeOK, Patient, NEW i \in Services, TaskStart(i) \/ TaskStartFails(i)
  PROVE  Patient'
<1> USE DEF Patient, Answer
<1>1. Takes(i, "start") BY DEF TaskStart, TaskStartFails
<1>2. /\ StopsAfter(queue'[i]) /\ ~FirstStart(queue'[i]) /\ FirstStart(queue[i])
      /\ HasStop(queue[i]) => HasStop(queue'[i])
      /\ \A j \in Services : j # i => queue'[j] = queue[j]
  BY <1>1, TakesQueue
<1>3. \A j \in Services : j # i => task'[j] = task[j]
  BY DEF TaskStart, TaskStartFails, TypeOK
<1>4. UNCHANGED <<life, running, stopRequested, path>> BY <1>1 DEF Takes
<1>5. InOrder' BY <1>2, <1>3 DEF InOrder
<1>6. Starting(i) /\ \A j \in Services : Starting(j)' => Starting(j)
  BY <1>2, <1>3 DEF Starting
<1>7. OneStarting' BY <1>6 DEF OneStarting
<1>8. StopFollows' BY <1>2, <1>4 DEF StopFollows
<1>9. ~Unasked BY <1>6 DEF StartingAlone
<1>10. CASE TaskStartFails(i)
  <2>1. ~Unasked' BY <1>9, <1>10 DEF TaskStartFails, Unasked
  <2> QED BY <1>5, <1>7, <1>8, <2>1 DEF StartingAlone, Kept
<1>11. CASE TaskStart(i)
  <2>1. PICK r \in Runs : owner' = [owner EXCEPT ![r] = i] /\ Bridge!Open(r)
    BY <1>11 DEF TaskStart
  <2>2. owner'[open'] = i BY <2>1 DEF Bridge!Open, TypeOK
  <2>3. task'[i] = "ok" /\ path[i] # "" BY <1>11 DEF TaskStart, TypeOK
  <2>4. ~Starting(i)' BY <1>2, <2>3 DEF Starting
  <2>5. \A j \in Services : ~Starting(j)' BY <1>6, <2>4 DEF OneStarting
  <2>6. StartingAlone' BY <2>5 DEF StartingAlone
  <2>7. Kept' BY <1>2, <1>4, <2>2, <2>3 DEF Kept, KeptBy, StopFollows
  <2> QED BY <1>5, <1>7, <1>8, <2>6, <2>7
<1> QED BY <1>10, <1>11

\* The answer: a start's success makes the service run, and its failure was nobody else's.
LEMMA AnsweredInv ==
  ASSUME TypeOK, Owned, Patient, NEW i \in Services, TaskAnswered(i)
  PROVE  Patient'
<1> USE DEF Patient, Answer
<1>1. /\ task' = [task EXCEPT ![i] = "none"]
      /\ running' = [running EXCEPT ![i] = task[i] = "ok"]
      /\ UNCHANGED <<life, path, queue, owner, bridgeVars>>
  BY DEF TaskAnswered
<1>2. \A j \in Services : j # i =>
        task'[j] = task[j] /\ running'[j] = running[j] /\ stopRequested'[j] = stopRequested[j]
  BY <1>1 DEF TaskAnswered, TypeOK
<1>3. task'[i] = "none" /\ (task[i] = "ok" => running'[i] /\ UNCHANGED stopRequested)
  <2>1. task'[i] = "none" BY <1>1 DEF TypeOK
  <2>2. running'[i] = (task[i] = "ok") BY <1>1 DEF TypeOK
  <2>3. task[i] = "ok" => UNCHANGED stopRequested BY DEF TaskAnswered
  <2> QED BY <2>1, <2>2, <2>3
<1>4. task[i] \in {"ok", "failed"} /\ ~FirstStart(queue[i])
  BY DEF TaskAnswered, InOrder
<1>5. InOrder' BY <1>1, <1>2, <1>3 DEF InOrder
<1>6. \A j \in Services : Starting(j)' => Starting(j) BY <1>1, <1>2, <1>3 DEF Starting
<1>7. OneStarting' BY <1>6 DEF OneStarting
<1>8. StartingAlone' BY <1>1, <1>6 DEF StartingAlone, Unasked
<1>9. StopFollows' BY <1>1, <1>2, <1>4 DEF StopFollows
<1>10. Kept'
  <2> SUFFICES ASSUME Unasked PROVE KeptBy(owner[open])'
    BY <1>1 DEF Kept, Unasked
  <2>1. owner[open] \in Services /\ KeptBy(owner[open])
    BY DEF Owned, Unasked, Kept
  <2>2. task[i] # "failed" BY DEF StartingAlone, Starting
  <2> QED BY <1>1, <1>2, <1>3, <1>4, <2>1, <2>2 DEF KeptBy
<1> QED BY <1>5, <1>7, <1>8, <1>9, <1>10

\* A stop's task asks whatever session is open to end, ...
LEMMA TaskStopInv ==
  ASSUME TypeOK, Patient, NEW i \in Services, TaskStop(i)
  PROVE  Patient' /\ ~Unasked'
<1> USE DEF Patient, Answer
<1>1. Takes(i, "stop") BY DEF TaskStop
<1>2. /\ StopsAfter(queue'[i]) /\ ~FirstStart(queue'[i])
      /\ \A j \in Services : j # i => queue'[j] = queue[j]
  BY <1>1, TakesQueue
<1>3. task'[i] = "stopping" /\ \A j \in Services : j # i => task'[j] = task[j]
  BY DEF TaskStop, TypeOK
<1>4. UNCHANGED <<life, running, stopRequested, path>> BY <1>1 DEF Takes
<1>5. ~Unasked' BY DEF TaskStop, Unasked, Bridge!Ask
<1>6. InOrder' BY <1>2, <1>3 DEF InOrder
<1>7. \A j \in Services : Starting(j)' => Starting(j) BY <1>2, <1>3 DEF Starting
<1>8. OneStarting' BY <1>7 DEF OneStarting
<1>9. StopFollows' BY <1>2, <1>4 DEF StopFollows
<1> QED BY <1>5, <1>6, <1>8, <1>9 DEF StartingAlone, Kept

\* ... and the rest of it changes nothing that matters.
LEMMA StoppedInv ==
  ASSUME TypeOK, Owned, Patient, NEW i \in Services, TaskStopWaited(i) \/ TaskStopped(i)
  PROVE  Patient'
<1> USE DEF Patient, Answer
<1>1. UNCHANGED <<life, running, stopRequested, path, queue, owner, bridgeVars>>
  BY DEF TaskStopWaited, TaskStopped
<1>2. /\ task[i] \notin {"ok", "failed"} /\ task'[i] # "failed"
      /\ FirstStart(queue[i]) => task'[i] = "none"
      /\ \A j \in Services : j # i => task'[j] = task[j]
  BY DEF TaskStopWaited, TaskStopped, TypeOK, InOrder
<1>3. InOrder' BY <1>1, <1>2 DEF InOrder
<1>4. \A j \in Services : Starting(j)' => Starting(j) BY <1>1, <1>2 DEF Starting
<1>5. OneStarting' /\ StartingAlone' BY <1>1, <1>4 DEF OneStarting, StartingAlone, Unasked
<1>6. StopFollows' BY <1>1 DEF StopFollows
<1>7. Kept'
  <2> SUFFICES ASSUME Unasked PROVE KeptBy(owner[open])'
    BY <1>1 DEF Kept, Unasked
  <2>1. owner[open] \in Services /\ KeptBy(owner[open])
    BY DEF Owned, Unasked, Kept
  <2> QED BY <1>1, <1>2, <2>1 DEF KeptBy
<1> QED BY <1>3, <1>5, <1>6, <1>7

\* Every step of an executor's thread.
LEMMA ExecutorInv ==
  ASSUME TypeOK, Owned, Patient, NEW i \in Services, Executor(i)
  PROVE  Patient'
BY TaskStartInv, AnsweredInv, TaskStopInv, StoppedInv DEF Executor

\* A session that is open has been started by an instance, and one instance is alive.
LEMMA OwnedInv ==
  ASSUME TypeOK, Owned, OneAlive, [Next]_vars
  PROVE  Owned' /\ OneAlive'
<1>1. CASE \E i \in Services : StartIntent(i) \/ StopIntent(i) \/ Revoke(i)
  <2> PICK i \in Services : StartIntent(i) \/ StopIntent(i) \/ Revoke(i) BY <1>1
  <2>1. Delivered(i) /\ UNCHANGED <<owner, bridgeVars>>
    BY DEF StartIntent, StopIntent, Revoke
  <2>2. /\ life' = [life EXCEPT ![i] = "alive"]
        /\ \A j \in Services : life[j] = "alive" => j = i
    BY <2>1 DEF Delivered, OneAlive
  <2> QED BY <2>1, <2>2 DEF Owned, OneAlive, TypeOK
<1>2. CASE \E i \in Services : Destroy(i)
  <2> PICK i \in Services : Destroy(i) BY <1>2
  <2> QED BY DEF Destroy, Owned, OneAlive, TypeOK
<1>3. CASE \E i \in Services : Executor(i)
  <2> PICK i \in Services : Executor(i) BY <1>3
  <2>1. UNCHANGED life
    BY DEF Executor, TaskStart, TaskStartFails, TaskAnswered, TaskStop, TaskStopWaited,
           TaskStopped, Takes
  <2>2. CASE TaskStart(i)
    <3> PICK r \in Runs : owner' = [owner EXCEPT ![r] = i] /\ Bridge!Open(r)
      BY <2>2 DEF TaskStart
    <3>1. owner'[open'] = i BY DEF Bridge!Open, TypeOK
    <3> QED BY <2>1, <3>1 DEF Owned, OneAlive
  <2>3. CASE ~TaskStart(i)
    <3>1. UNCHANGED <<open, owner>>
      BY <2>3 DEF Executor, TaskStartFails, TaskAnswered, TaskStop, TaskStopWaited,
                  TaskStopped, Bridge!Ask
    <3> QED BY <2>1, <3>1 DEF Owned, OneAlive
  <2> QED BY <2>2, <2>3
<1>4. CASE \E r \in Runs : SessionCloses(r)
  BY <1>4 DEF SessionCloses, Bridge!Close, Owned, OneAlive
<1>5. CASE UNCHANGED vars BY <1>5 DEF vars, Owned, OneAlive
<1> QED BY <1>1, <1>2, <1>3, <1>4, <1>5 DEF Next

\* Every step keeps the invariant.
LEMMA StepServiceInv ==
  ASSUME ServiceInv, [Next]_vars
  PROVE  ServiceInv'
<1> USE DEF ServiceInv
<1>1. Owned' /\ OneAlive' BY OwnedInv
<1>2. ASSUME NEW i \in Services, StartIntent(i) PROVE ServiceInv'
  <2>1. TypeOK' BY <1>2, MainTypeOK
  <2>2. hurried => hurried' BY <1>2 DEF StartIntent
  <2> QED BY <1>1, <1>2, <2>1, <2>2, StartInv
<1>3. ASSUME NEW i \in Services, StopIntent(i) \/ Revoke(i) PROVE ServiceInv'
  <2>1. TypeOK' BY <1>3, MainTypeOK
  <2>2. /\ RequestStop(i) /\ UNCHANGED <<hurried, path, task, owner, bridgeVars>>
        /\ life' = [life EXCEPT ![i] = "alive"]
    BY <1>3 DEF StopIntent, Revoke, Delivered
  <2>3. \A j \in Services : j # i => life'[j] = life[j] BY <2>2 DEF TypeOK
  <2> QED BY <1>1, <2>1, <2>2, <2>3, RequestInv
<1>4. ASSUME NEW i \in Services, Destroy(i) PROVE ServiceInv'
  <2>1. TypeOK' BY <1>4, MainTypeOK
  <2>2. UNCHANGED hurried BY <1>4 DEF Destroy
  <2> QED BY <1>1, <1>4, <2>1, <2>2, DestroyInv
<1>5. ASSUME NEW i \in Services, Executor(i) PROVE ServiceInv'
  <2>1. TypeOK' BY <1>5, ExecutorTypeOK
  <2>2. UNCHANGED hurried
    BY <1>5 DEF Executor, TaskStart, TaskStartFails, TaskAnswered, TaskStop,
                TaskStopWaited, TaskStopped, Takes
  <2> QED BY <1>1, <1>5, <2>1, <2>2, ExecutorInv
<1>6. ASSUME NEW r \in Runs, SessionCloses(r) PROVE ServiceInv'
  <2>1. TypeOK' BY <1>6 DEF SessionCloses, Bridge!Close, TypeOK
  <2>2. ~Unasked' BY <1>6 DEF SessionCloses, Bridge!Close, Unasked
  <2>3. Patient => Patient'
    BY <1>6, <2>2 DEF SessionCloses, Patient, InOrder, OneStarting, StartingAlone,
                      StopFollows, Starting, Kept
  <2> QED BY <1>1, <1>6, <2>1, <2>3 DEF SessionCloses
<1>7. CASE UNCHANGED vars
  <2>1. TypeOK' BY <1>7 DEF vars, TypeOK
  <2>2. Patient => Patient'
    BY <1>7 DEF vars, Patient, InOrder, OneStarting, StartingAlone, StopFollows, Starting,
                Kept, KeptBy, Unasked
  <2> QED BY <1>1, <1>7, <2>1, <2>2 DEF vars
<1> QED BY <1>2, <1>3, <1>4, <1>5, <1>6, <1>7 DEF Next

\* Every behaviour satisfies the invariant.
LEMMA AlwaysServiceInv == Spec => []ServiceInv
<1>1. Init => ServiceInv
  <2> SUFFICES ASSUME Init PROVE ServiceInv OBVIOUS
  <2> USE DEF Init, Bridge!Init
  <2>1. TypeOK
    <3>1. <<>> \in Seq({"start", "stop"}) /\ 0 \in 0..MaxIntents
      BY EmptyQueue DEF Jobs
    <3> QED BY <3>1 DEF TypeOK
  <2>2. Owned /\ OneAlive BY DEF Owned, OneAlive
  <2>3. ~Unasked BY DEF Unasked
  <2>4. \A i \in Services : queue[i] = <<>> /\ task[i] = "none" OBVIOUS
  <2>5. InOrder
    <3>1. StopsAfter(<<>>) /\ ~FirstStart(<<>>) BY EmptyQueue
    <3> QED BY <2>4, <3>1 DEF InOrder
  <2>6. Patient
    BY <2>3, <2>4, <2>5 DEF Patient, OneStarting, StartingAlone, StopFollows, Starting,
                            FirstStart, Kept
  <2> QED BY <2>1, <2>2, <2>6 DEF ServiceInv
<1> QED BY <1>1, StepServiceInv, PTL DEF Spec

-----------------------------------------------------------------------------
\* The fields, the queues and the bridge's state always hold values of their types; a
\* stop has asked only sessions that were opened.
THEOREM ServiceTyped == Spec => []TypeOK
<1>1. ServiceInv => TypeOK BY DEF ServiceInv
<1> QED BY <1>1, AlwaysServiceInv, PTL

\* For a user who waits, a session that nobody has asked to end has an instance that is
\* alive, or one that has left a stop behind.
THEOREM SessionKeepsService == Spec => []SessionHasService
<1>1. ServiceInv => SessionHasService
  BY DEF ServiceInv, SessionHasService, Patient, Kept, KeptBy, Unasked, HasStop
<1> QED BY <1>1, AlwaysServiceInv, PTL

\* For a user who waits, an idle service that is not running has no session to stop.
THEOREM NotRunningIsStopped == Spec => []NotRunningMeansStopped
<1>1. ASSUME ServiceInv PROVE NotRunningMeansStopped
  <2> SUFFICES ASSUME ~hurried, NEW i \in Services, Idle(i), ~running[i], Unasked,
                      owner[open] = i
               PROVE  FALSE
    BY DEF NotRunningMeansStopped, Unasked
  <2>1. KeptBy(i) BY <1>1 DEF ServiceInv, Patient, Kept
  <2>2. ~HasStop(queue[i]) BY DEF Idle, HasStop
  <2> QED BY <2>1, <2>2 DEF KeptBy, Idle
<1> QED BY <1>1, AlwaysServiceInv, PTL
=============================================================================
