------------------------ MODULE EngineSupervisor_proofs ------------------------
(***************************************************************************)
(* Theorems about EngineSupervisor, for any sets of starts, stops and pids: *)
(* under Spec, and then under SerialSpec.                                   *)
(***************************************************************************)
EXTENDS EngineSupervisor, TLAPS

USE DEF StartPlace, Active, Launching, Holding, StopPlace, StopBusy, ProcState

-----------------------------------------------------------------------------
(* Type correctness.                                                       *)

\* Every step of a start keeps the type invariant.
LEMMA StartTypeOK ==
  ASSUME TypeOK, NEW s \in Starters,
         StartStep(s) \/ Cancel(s) \/ ContextKills(s) \/ Crash(s)
  PROVE  TypeOK'
<1> USE PidsAssumption DEF TypeOK, Goto, Return, Killed, Free, removeProcessState, stopVars,
           startVars, table
<1>1. CASE PreflightFails(s) BY <1>1 DEF PreflightFails
<1>2. CASE CheckPasses(s)    BY <1>2 DEF CheckPasses
<1>3. CASE CheckRefuses(s)   BY <1>3 DEF CheckRefuses
<1>4. CASE Spawn(s)          BY <1>4 DEF Spawn
<1>5. CASE SpawnFails(s)     BY <1>5 DEF SpawnFails
<1>6. CASE Truncate(s)       BY <1>6 DEF Truncate
<1>7. CASE Fill(s)           BY <1>7 DEF Fill
<1>8. CASE RecordFails(s)    BY <1>8 DEF RecordFails
<1>9. CASE Abort(s)          BY <1>9 DEF Abort
<1>10. CASE BecomesReady(s)  BY <1>10 DEF BecomesReady
<1>11. CASE ReadyTimeout(s)  BY <1>11 DEF ReadyTimeout
<1>12. CASE GiveUp(s)        BY <1>12 DEF GiveUp
<1>13. CASE WaitReturns(s)   BY <1>13 DEF WaitReturns
<1>14. CASE RemoveState(s)   BY <1>14 DEF RemoveState
<1>15. CASE Cancel(s)        BY <1>15 DEF Cancel
<1>16. CASE ContextKills(s)  BY <1>16 DEF ContextKills
<1>17. CASE Crash(s)         BY <1>17 DEF Crash
<1> QED BY <1>1, <1>2, <1>3, <1>4, <1>5, <1>6, <1>7, <1>8, <1>9, <1>10, <1>11, <1>12,
           <1>13, <1>14, <1>15, <1>16, <1>17 DEF StartStep

\* Every step of a stop keeps the type invariant.
LEMMA StopTypeOK ==
  ASSUME TypeOK, NEW k \in Stoppers, StopStep(k)
  PROVE  TypeOK'
BY DEF TypeOK, StopStep, StopReads, StopReadsNothing, StopProbes, StopRemovesStale,
       StopInterrupts, StopKills, StopRemoves, StopGoto, Killed, removeProcessState,
       startVars, table

\* Every step of the operating system keeps the type invariant.
LEMMA SystemTypeOK ==
  ASSUME TypeOK, NEW p \in Pids, SystemStep(p)
  PROVE  TypeOK'
BY DEF TypeOK, SystemStep, EngineServes, EngineEnds, KillTakesEffect, InitReaps,
       ForeignStarts, ForeignEnds, Become, Free, startVars, stopVars

\* The type invariant is inductive.
LEMMA StepTypeOK ==
  ASSUME TypeOK, [Next]_vars
  PROVE  TypeOK'
<1>1. CASE UNCHANGED vars BY <1>1 DEF TypeOK, vars
<1> QED BY <1>1, StartTypeOK, StopTypeOK, SystemTypeOK DEF Next

\* The variables of the supervisor always hold values of their types.
THEOREM TypeCorrect == Spec => []TypeOK
<1>1. Init => TypeOK BY DEF Init, TypeOK
<1> QED BY <1>1, StepTypeOK, PTL DEF Spec

-----------------------------------------------------------------------------
(* No start returns and leaves its engine running.                         *)

\* The engine of a start that has not returned is under a pid of its own, which
\* nobody else gets before the start has waited for it or has ended; so the start
\* may signal it.
ChildIsOwn ==
    /\ \A s \in Starters : pc[s] \in Holding =>
         /\ child[s] \in Pids
         /\ proc[child[s]] \notin {"free", "foreign"}
         /\ child[s] \in rooted <=> s \in Sudo
    /\ \A s, t \in Starters :
         pc[s] \in Holding /\ pc[t] \in Holding /\ child[s] = child[t] => s = t
    /\ \A p \in rooted : proc[p] # "free"

\* A step of a start leaves every child its own.
LEMMA StartKeepsChildren ==
  ASSUME TypeOK, ChildIsOwn, NEW s \in Starters,
         StartStep(s) \/ Cancel(s) \/ ContextKills(s) \/ Crash(s)
  PROVE  ChildIsOwn'
<1> USE DEF TypeOK, ChildIsOwn, Live, Goto, Return, Free, stopVars, startVars, table
<1>1. CASE PreflightFails(s) BY <1>1 DEF PreflightFails
<1>2. CASE CheckPasses(s)    BY <1>2 DEF CheckPasses
<1>3. CASE CheckRefuses(s)   BY <1>3 DEF CheckRefuses
<1>4. CASE Spawn(s)
  <2> PICK p \in Pids :
        /\ proc[p] = "free"
        /\ proc' = [proc EXCEPT ![p] = "up"]
        /\ child' = [child EXCEPT ![s] = p]
        /\ rooted' = IF s \in Sudo THEN rooted \cup {p} ELSE rooted
    BY <1>4 DEF Spawn
  <2>1. pc[s] = "spawn" /\ pc' = [pc EXCEPT ![s] = "truncate"] BY <1>4 DEF Spawn
  <2>2. \A t \in Starters \ {s} : pc'[t] = pc[t] /\ child'[t] = child[t] BY <2>1
  <2>3. \A t \in Starters \ {s} : pc[t] \in Holding => child[t] # p OBVIOUS
  <2>4. child'[s] = p /\ proc'[p] = "up" OBVIOUS
  <2>5. p \in rooted' <=> s \in Sudo BY <2>1
  <2>6. \A q \in rooted' : proc'[q] # "free" OBVIOUS
  <2> QED BY <2>1, <2>2, <2>3, <2>4, <2>5, <2>6
<1>5. CASE SpawnFails(s)     BY <1>5 DEF SpawnFails
<1>6. CASE Truncate(s)       BY <1>6 DEF Truncate
<1>7. CASE Fill(s)           BY <1>7 DEF Fill
<1>8. CASE RecordFails(s)    BY <1>8 DEF RecordFails
<1>9. CASE Abort(s)          BY <1>9 DEF Abort, Killed
<1>10. CASE BecomesReady(s)  BY <1>10 DEF BecomesReady
<1>11. CASE ReadyTimeout(s)  BY <1>11 DEF ReadyTimeout
<1>12. CASE GiveUp(s)        BY <1>12 DEF GiveUp, Killed
<1>13. CASE WaitReturns(s)   BY <1>13 DEF WaitReturns
<1>14. CASE RemoveState(s)   BY <1>14 DEF RemoveState
<1>15. CASE Cancel(s)        BY <1>15 DEF Cancel
<1>16. CASE ContextKills(s)  BY <1>16 DEF ContextKills, Killed
<1>17. CASE Crash(s)         BY <1>17 DEF Crash
<1> QED BY <1>1, <1>2, <1>3, <1>4, <1>5, <1>6, <1>7, <1>8, <1>9, <1>10, <1>11, <1>12,
           <1>13, <1>14, <1>15, <1>16, <1>17 DEF StartStep

\* So does every other step: a pid is reaped only when no start waits for it.
LEMMA OtherKeepsChildren ==
  ASSUME TypeOK, ChildIsOwn,
         \/ \E k \in Stoppers : StopStep(k)
         \/ \E p \in Pids : SystemStep(p)
         \/ UNCHANGED vars
  PROVE  ChildIsOwn'
<1> USE DEF TypeOK, ChildIsOwn, Live
<1>1. ASSUME NEW k \in Stoppers, StopStep(k) PROVE ChildIsOwn'
  <2>1. /\ \A p \in Pids : proc'[p] \in {"free", "foreign"} => proc[p] \in {"free", "foreign"}
        /\ \A p \in Pids : proc'[p] = "free" => proc[p] = "free"
        /\ UNCHANGED <<pc, child, rooted>>
    BY <1>1 DEF StopStep, StopReads, StopReadsNothing, StopProbes, StopRemovesStale,
         StopInterrupts, StopKills, StopRemoves, StopGoto, Killed, processRunning,
         startVars, table
  <2> QED BY <2>1
<1>2. ASSUME NEW p \in Pids, SystemStep(p) PROVE ChildIsOwn'
  <2>1. UNCHANGED <<pc, child>>
    BY <1>2 DEF SystemStep, EngineServes, EngineEnds, KillTakesEffect, InitReaps,
         ForeignStarts, ForeignEnds, Become, startVars
  <2>2. \A s \in Starters : pc[s] \in Holding =>
          /\ proc'[child[s]] \notin {"free", "foreign"}
          /\ child[s] \in rooted' <=> child[s] \in rooted
    BY <1>2 DEF SystemStep, EngineServes, EngineEnds, KillTakesEffect, InitReaps,
         ForeignStarts, ForeignEnds, Become, Free
  <2>3. \A q \in rooted' : proc'[q] # "free"
    BY <1>2 DEF SystemStep, EngineServes, EngineEnds, KillTakesEffect, InitReaps,
         ForeignStarts, ForeignEnds, Become, Free
  <2> QED BY <2>1, <2>2, <2>3
<1>3. CASE UNCHANGED vars BY <1>3 DEF vars
<1> QED BY <1>1, <1>2, <1>3

\* A step of a start keeps an engine supervised or ends it.
LEMMA StartNoStray ==
  ASSUME TypeOK, ChildIsOwn, NoStrayEngine, NEW s \in Starters,
         StartStep(s) \/ Cancel(s) \/ ContextKills(s) \/ Crash(s)
  PROVE  NoStrayEngine'
<1> USE DEF TypeOK, ChildIsOwn, NoStrayEngine, Live, Goto, Return, Free, stopVars, startVars,
           table
<1>1. CASE PreflightFails(s) BY <1>1 DEF PreflightFails
<1>2. CASE CheckPasses(s)    BY <1>2 DEF CheckPasses
<1>3. CASE CheckRefuses(s)   BY <1>3 DEF CheckRefuses
<1>4. CASE Spawn(s)          BY <1>4 DEF Spawn
<1>5. CASE SpawnFails(s)     BY <1>5 DEF SpawnFails
<1>6. CASE Truncate(s)       BY <1>6 DEF Truncate
<1>7. CASE Fill(s)           BY <1>7 DEF Fill
<1>8. CASE RecordFails(s)    BY <1>8 DEF RecordFails
<1>9. CASE Abort(s)          BY <1>9 DEF Abort, Killed, processRunning, MaySignal
<1>10. CASE BecomesReady(s)  BY <1>10 DEF BecomesReady
<1>11. CASE ReadyTimeout(s)  BY <1>11 DEF ReadyTimeout
<1>12. CASE GiveUp(s)        BY <1>12 DEF GiveUp, Killed, processRunning, MaySignal
<1>13. CASE WaitReturns(s)   BY <1>13 DEF WaitReturns
<1>14. CASE RemoveState(s)   BY <1>14 DEF RemoveState
<1>15. CASE Cancel(s)        BY <1>15 DEF Cancel
<1>16. CASE ContextKills(s)  BY <1>16 DEF ContextKills, Killed
<1>17. CASE Crash(s)         BY <1>17 DEF Crash
<1> QED BY <1>1, <1>2, <1>3, <1>4, <1>5, <1>6, <1>7, <1>8, <1>9, <1>10, <1>11, <1>12,
           <1>13, <1>14, <1>15, <1>16, <1>17 DEF StartStep

\* No other step makes an engine run, or moves a start.
LEMMA OtherNoStray ==
  ASSUME TypeOK, NoStrayEngine,
         \/ \E k \in Stoppers : StopStep(k)
         \/ \E p \in Pids : SystemStep(p)
         \/ UNCHANGED vars
  PROVE  NoStrayEngine'
<1> USE DEF TypeOK, NoStrayEngine, Live
<1>1. ASSUME NEW k \in Stoppers, StopStep(k) PROVE NoStrayEngine'
  BY <1>1 DEF StopStep, StopReads, StopReadsNothing, StopProbes, StopRemovesStale,
       StopInterrupts, StopKills, StopRemoves, StopGoto, Killed, startVars, table
<1>2. ASSUME NEW p \in Pids, SystemStep(p) PROVE NoStrayEngine'
  BY <1>2 DEF SystemStep, EngineServes, EngineEnds, KillTakesEffect, InitReaps,
       ForeignStarts, ForeignEnds, Become, Free, startVars, stopVars
<1>3. CASE UNCHANGED vars BY <1>3 DEF vars
<1> QED BY <1>1, <1>2, <1>3

\* A child stays its start's own.
LEMMA StepChildIsOwn ==
  ASSUME TypeOK, ChildIsOwn, [Next]_vars
  PROVE  ChildIsOwn'
BY StartKeepsChildren, OtherKeepsChildren DEF Next

\* However starts and stops of both users interleave and fail, an engine that runs has
\* a start that will end it or wait for it, unless that start was killed.
THEOREM NeverStray == Spec => []NoStrayEngine
<1>1. Init => NoStrayEngine /\ ChildIsOwn
  BY DEF Init, NoStrayEngine, ChildIsOwn, Live
<1>2. TypeOK /\ ChildIsOwn /\ NoStrayEngine /\ [Next]_vars => NoStrayEngine'
  BY StartNoStray, OtherNoStray DEF Next
<1> QED BY <1>1, <1>2, StepChildIsOwn, TypeCorrect, PTL DEF Spec

-----------------------------------------------------------------------------
(* SerialSpec: what commands that do not overlap can rely on, when no user *)
(* works beside an engine that he may not signal.                          *)

\* One start at most is past its check; once it has spawned its engine it knows the pid,
OneActive ==
    /\ \A s, t \in Starters : pc[s] \in Active /\ pc[t] \in Active => s = t
    /\ \A s \in Starters : pc[s] \in Holding => child[s] \in Pids

\* the only engine that can run is then its own, and none runs before it is spawned
\* or when its record is about to be removed,
ActiveAlone ==
    \A s \in Starters : pc[s] \in Active =>
        \A p \in Pids : Live(p) => p = child[s] /\ pc[s] \notin {"spawn", "remove"}

\* and while a stop is busy nothing is being launched and the only engine that can
\* run is the one it has read and may signal, until it is about to remove the record.
StopAlone ==
    \A k \in Stoppers : stopPc[k] \in StopBusy =>
        /\ NoLaunch
        /\ \A p \in Pids : Live(p) =>
             /\ p = seen[k]
             /\ MaySignal(k, p)
             /\ stopPc[k] \notin {"stale", "remove"}

\* The inductive invariant of SerialSpec.
SerialInv ==
    TypeOK /\ ChildIsOwn /\ OneActive /\ ActiveAlone /\ StopAlone /\ EngineIsRecorded

USE DEF OneActive, ActiveAlone, StopAlone, EngineIsRecorded, NoLaunch,
        StartPlace, Active, Launching, Holding, StopPlace, StopBusy, ProcState

-----------------------------------------------------------------------------
\* A start passes its check only when no engine runs and no other start is active:
\* an engine that runs is recorded, and its record makes the check refuse.
LEMMA PassedAlone ==
  ASSUME SerialInv, Serial, NEW s \in Starters, CheckPasses(s)
  PROVE  /\ \A p \in Pids : ~Live(p)
         /\ \A t \in Starters \ {s} : pc[t] \notin Active
         /\ \A k \in Stoppers : stopPc[k] \notin StopBusy
<1> USE DEF SerialInv
<1>1. Quiet(s) /\ Permitted(s) BY DEF Serial, CheckPasses, Goto, TypeOK
<1>2. NoLaunch BY <1>1 DEF Quiet, Settled, CheckPasses
<1>3. \A p \in Pids : ~Live(p)
  BY <1>1, <1>2 DEF CheckPasses, processRunning, Permitted, Live
<1>4. \A t \in Starters \ {s} : pc[t] \notin Active
  <2> SUFFICES ASSUME NEW t \in Starters \ {s}, pc[t] \in Active PROVE FALSE OBVIOUS
  <2>1. pc[t] \in {"ready", "wait"} /\ Live(child[t]) BY <1>1 DEF Quiet, Settled
  <2>2. child[t] \in Pids BY <2>1
  <2> QED BY <2>1, <2>2, <1>3
<1> QED BY <1>1, <1>3, <1>4 DEF Quiet

\* A step of a start keeps the invariant.
LEMMA StartSerialInv ==
  ASSUME SerialInv, Serial, NEW s \in Starters,
         StartStep(s) \/ Cancel(s) \/ ContextKills(s) \/ Crash(s)
  PROVE  OneActive' /\ ActiveAlone' /\ StopAlone' /\ EngineIsRecorded'
<1> USE DEF SerialInv, TypeOK, ChildIsOwn, Live, MaySignal, Goto, Return, Free,
           removeProcessState, stopVars, startVars, table
<1>1. CASE PreflightFails(s) BY <1>1 DEF PreflightFails
<1>2. CASE CheckPasses(s)
  <2>1. /\ \A p \in Pids : ~Live(p)
        /\ \A t \in Starters \ {s} : pc[t] \notin Active
        /\ \A k \in Stoppers : stopPc[k] \notin StopBusy
    BY <1>2, PassedAlone
  <2>2. \A p \in Pids : ~Live(p)' BY <1>2, <2>1 DEF CheckPasses
  <2>3. OneActive' BY <1>2, <2>1 DEF CheckPasses
  <2>4. StopAlone' BY <1>2, <2>1 DEF CheckPasses
  <2> QED BY <2>2, <2>3, <2>4
<1>3. CASE CheckRefuses(s)   BY <1>3 DEF CheckRefuses
<1>4. CASE Spawn(s)          BY <1>4 DEF Spawn
<1>5. CASE SpawnFails(s)     BY <1>5 DEF SpawnFails
<1>6. CASE Truncate(s)       BY <1>6 DEF Truncate
<1>7. CASE Fill(s)           BY <1>7 DEF Fill
<1>8. CASE RecordFails(s)    BY <1>8 DEF RecordFails
<1>9. CASE Abort(s)          BY <1>9 DEF Abort, Killed, processRunning
<1>10. CASE BecomesReady(s)  BY <1>10 DEF BecomesReady
<1>11. CASE ReadyTimeout(s)  BY <1>11 DEF ReadyTimeout
<1>12. CASE GiveUp(s)        BY <1>12 DEF GiveUp, Killed, processRunning
<1>13. CASE WaitReturns(s)   BY <1>13 DEF WaitReturns
<1>14. CASE RemoveState(s)   BY <1>14 DEF RemoveState
<1>15. CASE Cancel(s)        BY <1>15 DEF Cancel
<1>16. CASE ContextKills(s)  BY <1>16 DEF ContextKills, Killed
<1>17. CASE Crash(s)         BY <1>17 DEF Crash, Serial
<1> QED BY <1>1, <1>2, <1>3, <1>4, <1>5, <1>6, <1>7, <1>8, <1>9, <1>10, <1>11, <1>12,
           <1>13, <1>14, <1>15, <1>16, <1>17 DEF StartStep

\* A step of a stop keeps the invariant: it begins when nothing is launched, so that
\* the pid it reads is that of the engine that runs, if any does.
LEMMA StopSerialInv ==
  ASSUME SerialInv, Serial, NEW k \in Stoppers, StopStep(k)
  PROVE  OneActive' /\ ActiveAlone' /\ StopAlone' /\ EngineIsRecorded'
<1> USE DEF SerialInv, TypeOK, Live, MaySignal, StopGoto, removeProcessState, startVars, table
<1>1. CASE StopReads(k)        BY <1>1 DEF StopReads, Serial, Permitted
<1>2. CASE StopReadsNothing(k) BY <1>2 DEF StopReadsNothing
<1>3. CASE StopProbes(k)       BY <1>3 DEF StopProbes, processRunning
<1>4. CASE StopRemovesStale(k) BY <1>4 DEF StopRemovesStale
<1>5. CASE StopInterrupts(k)   BY <1>5 DEF StopInterrupts
<1>6. CASE StopKills(k)        BY <1>6 DEF StopKills, Killed, processRunning
<1>7. CASE StopRemoves(k)      BY <1>7 DEF StopRemoves
<1> QED BY <1>1, <1>2, <1>3, <1>4, <1>5, <1>6, <1>7 DEF StopStep

\* The operating system runs no engine of its own accord.
LEMMA SystemSerialInv ==
  ASSUME SerialInv, NEW p \in Pids, SystemStep(p)
  PROVE  OneActive' /\ ActiveAlone' /\ StopAlone' /\ EngineIsRecorded'
BY DEF SerialInv, TypeOK, Live, MaySignal, SystemStep, EngineServes, EngineEnds,
       KillTakesEffect, InitReaps, ForeignStarts, ForeignEnds, Become, Free, startVars, stopVars

\* The invariant is inductive for commands that do not overlap.
LEMMA StepSerialInv ==
  ASSUME SerialInv, [Next /\ Serial]_vars
  PROVE  SerialInv'
<1>1. TypeOK' /\ ChildIsOwn' BY StepTypeOK, StepChildIsOwn DEF SerialInv
<1>2. CASE UNCHANGED vars BY <1>1, <1>2 DEF SerialInv, Live, MaySignal, vars
<1>3. CASE Next /\ Serial
  BY <1>1, <1>3, StartSerialInv, StopSerialInv, SystemSerialInv DEF Next, SerialInv
<1> QED BY <1>2, <1>3

LEMMA AlwaysSerialInv == SerialSpec => []SerialInv
<1>1. Init => SerialInv BY DEF Init, SerialInv, TypeOK, ChildIsOwn, Live
<1> QED BY <1>1, StepSerialInv, PTL DEF SerialSpec

-----------------------------------------------------------------------------
\* Starts that do not overlap, by users who may signal the engine that runs, never run
\* two engines, also with an engine left behind by a start that was killed.
THEOREM OneEngine == SerialSpec => []AtMostOneEngine
<1>1. SerialInv => AtMostOneEngine
  BY DEF SerialInv, AtMostOneEngine
<1> QED BY <1>1, AlwaysSerialInv, PTL

\* The state file names the engine that runs, so that stop can find it.
THEOREM EngineRecorded == SerialSpec => []EngineIsRecorded
<1>1. SerialInv => EngineIsRecorded BY DEF SerialInv
<1> QED BY <1>1, AlwaysSerialInv, PTL

\* A stop reports only when no engine runs: the lemma for one step.
LEMMA ReportsWhenEmpty ==
  ASSUME SerialInv, Next, Serial, NEW k \in Stoppers,
         stopPc[k] # stopPc'[k], stopPc'[k] \in {"notRunning", "stopped"}
  PROVE  /\ \A p \in Pids : ~Live(p)
         /\ proc' = proc
         /\ StopStep(k)
<1> USE DEF SerialInv, TypeOK, table
<1>1. StopStep(k)
  <2>1. ASSUME NEW s \in Starters, StartStep(s) \/ Cancel(s) \/ ContextKills(s) \/ Crash(s)
        PROVE  stopPc' = stopPc
    BY <2>1 DEF StartStep, PreflightFails, CheckPasses, CheckRefuses, Spawn, SpawnFails,
         Truncate, Fill, RecordFails, Abort, BecomesReady, ReadyTimeout, GiveUp,
         WaitReturns, RemoveState, Cancel, ContextKills, Crash, stopVars
  <2>2. ASSUME NEW p \in Pids, SystemStep(p) PROVE stopPc' = stopPc
    BY <2>2 DEF SystemStep, EngineServes, EngineEnds, KillTakesEffect, InitReaps,
         ForeignStarts, ForeignEnds, Become, stopVars
  <2>3. ASSUME NEW j \in Stoppers, StopStep(j) PROVE j = k
    BY <2>3 DEF StopStep, StopReads, StopReadsNothing, StopProbes, StopRemovesStale,
         StopInterrupts, StopKills, StopRemoves, StopGoto
  <2> QED BY <2>1, <2>2, <2>3 DEF Next
<1>2. StopReadsNothing(k) \/ StopRemovesStale(k) \/ StopRemoves(k)
  BY <1>1 DEF StopStep, StopReads, StopProbes, StopInterrupts, StopKills, StopGoto
<1>3. CASE StopReadsNothing(k)
  <2>1. NoLaunch BY <1>3 DEF Serial, StopReadsNothing, StopGoto
  <2> QED BY <1>1, <1>3, <2>1 DEF StopReadsNothing
<1>4. CASE StopRemovesStale(k) BY <1>1, <1>4 DEF StopRemovesStale
<1>5. CASE StopRemoves(k) BY <1>1, <1>5 DEF StopRemoves
<1> QED BY <1>2, <1>3, <1>4, <1>5

\* Whatever a stop reports, no engine runs at that moment.
THEOREM StopTruthful == SerialSpec => StopTellsTheTruth
<1>1. SerialInv /\ [Next /\ Serial]_vars =>
      [\A k \in Stoppers :
         stopPc[k] # stopPc'[k] /\ stopPc'[k] \in {"notRunning", "stopped"} =>
            \A p \in Pids : ~Live(p)]_vars
  BY ReportsWhenEmpty
<1> QED BY <1>1, AlwaysSerialInv, PTL DEF SerialSpec, StopTellsTheTruth

-----------------------------------------------------------------------------
(* SerialSpec implements EngineSlot.                                       *)

\* With one engine at most, the slot holds the engine that runs.
LEMMA SlotHoldsTheEngine ==
  ASSUME AtMostOneEngine
  PROVE  /\ \A p \in Pids : Live(p) => slotOf = p
         /\ (\A p \in Pids : ~Live(p)) => slotOf = None
<1>1. ASSUME NEW p \in Pids, Live(p) PROVE slotOf = p
  <2>1. slotOf = CHOOSE q \in Pids : Live(q) BY <1>1 DEF slotOf
  <2>2. slotOf \in Pids /\ Live(slotOf) BY <1>1, <2>1
  <2> QED BY <1>1, <2>2 DEF AtMostOneEngine
<1>2. ASSUME \A p \in Pids : ~Live(p) PROVE slotOf = None
  BY <1>2 DEF slotOf
<1> QED BY <1>1, <1>2

\* An engine begins to run only when none runs.
LEMMA BeginsWhenEmpty ==
  ASSUME SerialInv, Next, NEW q \in Pids, Live(q)', ~Live(q)
  PROVE  \A p \in Pids : ~Live(p)
<1> USE DEF SerialInv, TypeOK, Live, Killed, Free, table
<1>1. ASSUME NEW s \in Starters, StartStep(s) \/ Cancel(s) \/ ContextKills(s) \/ Crash(s)
      PROVE  Spawn(s)
  BY <1>1 DEF StartStep, PreflightFails, CheckPasses, CheckRefuses, SpawnFails, Truncate,
       Fill, RecordFails, Abort, BecomesReady, ReadyTimeout, GiveUp, WaitReturns,
       RemoveState, Cancel, ContextKills, Crash
<1>2. ASSUME NEW k \in Stoppers, StopStep(k) PROVE FALSE
  BY <1>2 DEF StopStep, StopReads, StopReadsNothing, StopProbes, StopRemovesStale,
       StopInterrupts, StopKills, StopRemoves
<1>3. ASSUME NEW p \in Pids, SystemStep(p) PROVE FALSE
  BY <1>3 DEF SystemStep, EngineServes, EngineEnds, KillTakesEffect, InitReaps,
       ForeignStarts, ForeignEnds, Become
<1> QED BY <1>1, <1>2, <1>3 DEF Next, Spawn

\* Every step of commands that do not overlap is a step of the slot, or none.
LEMMA StepImplementsSlot ==
  ASSUME SerialInv, SerialInv', [Next /\ Serial]_vars
  PROVE  [Slot!Next]_<<slotOf, reportOf>>
<1>1. AtMostOneEngine /\ AtMostOneEngine' BY DEF SerialInv, AtMostOneEngine
<1>2. /\ \A p \in Pids : Live(p)' => slotOf' = p
      /\ (\A p \in Pids : ~Live(p)') => slotOf' = None
  <2>1. ASSUME NEW p \in Pids, Live(p)' PROVE slotOf' = p
    <3>1. slotOf' = CHOOSE q \in Pids : Live(q)' BY <2>1 DEF slotOf
    <3>2. slotOf' \in Pids /\ \E q \in Pids : Live(q)' /\ slotOf' = q BY <2>1, <3>1
    <3> QED BY <1>1, <2>1, <3>2 DEF AtMostOneEngine
  <2>2. ASSUME \A p \in Pids : ~Live(p)' PROVE slotOf' = None
    BY <2>2 DEF slotOf
  <2> QED BY <2>1, <2>2
<1>3. /\ \A p \in Pids : Live(p) => slotOf = p
      /\ (\A p \in Pids : ~Live(p)) => slotOf = None
  BY <1>1, SlotHoldsTheEngine
<1>4. CASE UNCHANGED vars
  BY <1>4 DEF vars, slotOf, reportOf, Live
<1>5. CASE Next /\ Serial /\ \E k \in Stoppers :
             stopPc[k] # stopPc'[k] /\ stopPc'[k] \in {"notRunning", "stopped"}
  <2> PICK k \in Stoppers :
             stopPc[k] # stopPc'[k] /\ stopPc'[k] \in {"notRunning", "stopped"} BY <1>5
  <2>1. /\ \A p \in Pids : ~Live(p)
        /\ proc' = proc
        /\ StopStep(k)
    BY <1>5, ReportsWhenEmpty
  <2>2. slotOf = None /\ slotOf' = None BY <2>1, <1>2, <1>3 DEF Live
  <2>3. stopPc' = [stopPc EXCEPT ![k] = stopPc'[k]]
        /\ stopPc[k] \notin {"notRunning", "stopped"}
    BY <2>1 DEF StopStep, StopReads, StopReadsNothing, StopProbes, StopRemovesStale,
         StopInterrupts, StopKills, StopRemoves, StopGoto, SerialInv, TypeOK
  <2>4. reportOf[k] = "none" /\ reportOf' = [reportOf EXCEPT ![k] = stopPc'[k]]
    <3>1. stopPc'[k] \in {"notRunning", "stopped"} BY <1>5
    <3>2. \A i \in Stoppers : i # k => stopPc'[i] = stopPc[i] BY <2>3 DEF SerialInv, TypeOK
    <3> QED BY <2>3, <3>1, <3>2 DEF reportOf
  <2>5. Slot!Report(k) BY <2>2, <2>4 DEF Slot!Report
  <2> QED BY <2>5 DEF Slot!Next
<1>6. CASE Next /\ Serial /\ \A k \in Stoppers :
             stopPc'[k] \in {"notRunning", "stopped"} => stopPc[k] = stopPc'[k]
  <2>1. \A k \in Stoppers : stopPc[k] \in {"notRunning", "stopped"} => stopPc'[k] = stopPc[k]
    BY <1>6 DEF Next, StopStep, StopReads, StopReadsNothing, StopProbes, StopRemovesStale,
         StopInterrupts, StopKills, StopRemoves, StopGoto, SerialInv, TypeOK,
         StartStep, PreflightFails, CheckPasses, CheckRefuses, Spawn, SpawnFails,
         Truncate, Fill, RecordFails, Abort, BecomesReady, ReadyTimeout, GiveUp,
         WaitReturns, RemoveState, Cancel, ContextKills, Crash, stopVars,
         SystemStep, EngineServes, EngineEnds, KillTakesEffect, InitReaps,
         ForeignStarts, ForeignEnds, Become
  <2>2. reportOf' = reportOf BY <1>6, <2>1 DEF reportOf
  <2>3. CASE \E q \in Pids : Live(q)' /\ ~Live(q)
    <3> PICK q \in Pids : Live(q)' /\ ~Live(q) BY <2>3
    <3>1. \A p \in Pids : ~Live(p) BY <1>6, BeginsWhenEmpty
    <3>2. Slot!Launch BY <1>2, <1>3, <2>2, <3>1 DEF Slot!Launch
    <3> QED BY <3>2 DEF Slot!Next
  <2>4. CASE /\ \A q \in Pids : Live(q)' => Live(q)
             /\ \E q \in Pids : Live(q)'
    BY <1>2, <1>3, <2>2, <2>4
  <2>5. CASE /\ \A q \in Pids : ~Live(q)'
             /\ \E q \in Pids : Live(q)
    <3>1. Slot!End BY <1>2, <1>3, <2>2, <2>5, PidsAssumption DEF Slot!End
    <3> QED BY <3>1 DEF Slot!Next
  <2>6. CASE /\ \A q \in Pids : ~Live(q)'
             /\ \A q \in Pids : ~Live(q)
    BY <1>2, <1>3, <2>2, <2>6
  <2> QED BY <2>3, <2>4, <2>5, <2>6
<1> QED BY <1>4, <1>5, <1>6

\* Commands that do not overlap implement the slot: a start fills it only when it is
\* empty, and a stop reports only when it is empty.
THEOREM SerialImplementsSlot == SerialSpec => ImplementsSlot
<1>1. Init => Slot!Init
  BY DEF Init, Slot!Init, slotOf, reportOf, Live
<1>2. SerialInv /\ SerialInv' /\ [Next /\ Serial]_vars => [Slot!Next]_<<slotOf, reportOf>>
  BY StepImplementsSlot
<1> QED BY <1>1, <1>2, AlwaysSerialInv, PTL DEF SerialSpec, Slot!Spec, ImplementsSlot
=============================================================================
