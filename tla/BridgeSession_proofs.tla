-------------------------- MODULE BridgeSession_proofs --------------------------
(***************************************************************************)
(* Theorems about BridgeSession, for any sets of start and stop calls.     *)
(***************************************************************************)
EXTENDS BridgeSession, TLAPS

\* The engine is claimed only by the active session, which is in flight, ...
ClaimedByActive == running => active # None /\ at[active] \in Claimed
ActiveInFlight  == active # None => at[active] \in InFlight

\* ... and a stop is about to cancel only a session that has been opened.
StopKnows ==
    \A k \in Stops : stopAt[k] = "cancel" => at[stopFor[k]] \notin {"unused", "refused"}

\* The inductive invariant.
SessionInv ==
    /\ TypeOK
    /\ OneSession
    /\ ActiveInFlight
    /\ ClaimedByActive
    /\ ErrorIsFresh
    /\ NoStrayMihomo
    /\ RecordHasSession
    /\ StopKnows

USE NoneAssumption
    DEF Claimed, Engaged, InFlight, Place, WatcherPlace, StopPlace, Down, Run, Goto, Moves,
        Fails, WatcherGoto, StopMoves, engineVars, sessionVars, stopVars

-----------------------------------------------------------------------------
\* A call of start, a step of a goroutine or of a watcher keeps the type invariant.
LEMMA SessionTypeOK ==
  ASSUME TypeOK, NEW s \in Sessions,
         StartAccepted(s) \/ StartRefused(s) \/ Goroutine(s) \/ Watcher(s)
  PROVE  TypeOK'
<1> USE DEF TypeOK
<1>1. CASE StartAccepted(s) \/ StartRefused(s) BY <1>1 DEF StartAccepted, StartRefused
<1>2. CASE TailscaleUp(s) \/ TailscaleFails(s) \/ PreflightFails(s)
  <2>1. CASE TailscaleUp(s) BY <2>1 DEF TailscaleUp
  <2>2. CASE TailscaleFails(s) BY <2>2 DEF TailscaleFails
  <2>3. CASE PreflightFails(s) BY <2>3 DEF PreflightFails
  <2> QED BY <1>2, <2>1, <2>2, <2>3
<1>3. CASE Claim(s) \/ Apply(s) \/ ApplyFails(s)
  <2>1. CASE Claim(s) BY <2>1 DEF Claim
  <2>2. CASE Apply(s) BY <2>2 DEF Apply
  <2>3. CASE ApplyFails(s) BY <2>3 DEF ApplyFails
  <2> QED BY <1>3, <2>1, <2>2, <2>3
<1>4. CASE Record(s) \/ RecordFails(s) \/ Ready(s) \/ ReadyTimeout(s) \/ ContextDone(s)
  BY <1>4 DEF Record, RecordFails, Ready, ReadyTimeout, ContextDone
<1>5. CASE Unrecord(s) \/ Shutdown(s) \/ Release(s) \/ Return(s) \/ Finish(s)
  BY <1>5 DEF Unrecord, Shutdown, Release, Return, Finish
<1>6. CASE Watcher(s)
  BY <1>6 DEF Watcher, WatcherRenders, WatcherApplies, WatcherParseFails, WatcherEnds
<1> QED BY <1>1, <1>2, <1>3, <1>4, <1>5, <1>6 DEF Goroutine

\* A step of a stop call keeps the type invariant.
LEMMA StopTypeOK ==
  ASSUME TypeOK, NEW k \in Stops, Stop(k)
  PROVE  TypeOK'
<1> USE DEF TypeOK
<1>1. CASE StopFinds(k) BY <1>1 DEF StopFinds
<1>2. CASE StopCancels(k) BY <1>2 DEF StopCancels
<1>3. CASE StopReturns(k) BY <1>3 DEF StopReturns
<1>4. CASE StopFindsNone(k) \/ StopLoadFails(k) BY <1>4 DEF StopFindsNone, StopLoadFails
<1>5. CASE StopEngineRuns(k) \/ StopEngineNotRunning(k)
  BY <1>5 DEF StopEngineRuns, StopEngineNotRunning
<1>6. CASE StopShutsDown(k) \/ StopUnrecords(k) BY <1>6 DEF StopShutsDown, StopUnrecords
<1> QED BY <1>1, <1>2, <1>3, <1>4, <1>5, <1>6 DEF Stop

-----------------------------------------------------------------------------
\* A call of start keeps the invariant.
LEMMA StartInv ==
  ASSUME SessionInv, NEW s \in Sessions, StartAccepted(s) \/ StartRefused(s)
  PROVE  SessionInv'
<1> USE DEF SessionInv
<1>1. TypeOK' BY SessionTypeOK
<1>2. CASE StartAccepted(s)
  <2> USE <1>2 DEF StartAccepted, TypeOK
  <2>1. OneSession' /\ ActiveInFlight' BY DEF OneSession, ActiveInFlight
  <2>2. ClaimedByActive' BY DEF ClaimedByActive
  <2>3. ErrorIsFresh' BY DEF ErrorIsFresh
  <2>4. NoStrayMihomo' BY DEF NoStrayMihomo
  <2>5. RecordHasSession' BY DEF RecordHasSession
  <2>6. StopKnows' BY DEF StopKnows
  <2> QED BY <1>1, <2>1, <2>2, <2>3, <2>4, <2>5, <2>6
<1>3. CASE StartRefused(s)
  <2> USE <1>3 DEF StartRefused, TypeOK
  <2>1. OneSession' /\ ActiveInFlight' BY DEF OneSession, ActiveInFlight
  <2>2. ClaimedByActive' BY DEF ClaimedByActive, ActiveInFlight
  <2>3. ErrorIsFresh' BY DEF ErrorIsFresh
  <2>4. NoStrayMihomo' BY DEF NoStrayMihomo
  <2>5. RecordHasSession' BY DEF RecordHasSession
  <2>6. StopKnows' BY DEF StopKnows
  <2> QED BY <1>1, <2>1, <2>2, <2>3, <2>4, <2>5, <2>6
<1> QED BY <1>2, <1>3

\* A step of a session's goroutine keeps the invariant: the goroutine is the active
\* session's, and what it holds it gives up in the order of its deferred calls.
LEMMA GoroutineInv ==
  ASSUME SessionInv, NEW s \in Sessions, Goroutine(s)
  PROVE  SessionInv'
<1> USE DEF SessionInv
<1>1. TypeOK' BY SessionTypeOK
<1>2. active = s BY DEF OneSession, Goroutine, TailscaleUp, TailscaleFails, PreflightFails,
        Claim, Apply, ApplyFails, Record, RecordFails, Ready, ReadyTimeout, ContextDone,
        Unrecord, Shutdown, Release, Return, Finish
<1> USE DEF TypeOK, OneSession, ActiveInFlight, ClaimedByActive, ErrorIsFresh,
            NoStrayMihomo, RecordHasSession, StopKnows
<1>3. CASE TailscaleUp(s) BY <1>1, <1>2, <1>3 DEF TailscaleUp
<1>4. CASE TailscaleFails(s) BY <1>1, <1>2, <1>4 DEF TailscaleFails
<1>5. CASE PreflightFails(s) BY <1>1, <1>2, <1>5 DEF PreflightFails
<1>6. CASE Claim(s) BY <1>1, <1>2, <1>6 DEF Claim
<1>7. CASE Apply(s) BY <1>1, <1>2, <1>7 DEF Apply
<1>8. CASE ApplyFails(s) BY <1>1, <1>2, <1>8 DEF ApplyFails
<1>9. CASE Record(s) BY <1>1, <1>2, <1>9 DEF Record
<1>10. CASE RecordFails(s) BY <1>1, <1>2, <1>10 DEF RecordFails
<1>11. CASE Ready(s) BY <1>1, <1>2, <1>11 DEF Ready
<1>12. CASE ReadyTimeout(s) BY <1>1, <1>2, <1>12 DEF ReadyTimeout
<1>13. CASE ContextDone(s) BY <1>1, <1>2, <1>13 DEF ContextDone
<1>14. CASE Unrecord(s) BY <1>1, <1>2, <1>14 DEF Unrecord
<1>15. CASE Shutdown(s) BY <1>1, <1>2, <1>15 DEF Shutdown
<1>16. CASE Release(s) BY <1>1, <1>2, <1>16 DEF Release
<1>17. CASE Return(s) BY <1>1, <1>2, <1>17 DEF Return
<1>18. CASE Finish(s) BY <1>1, <1>2, <1>18 DEF Finish
<1> QED BY <1>3, <1>4, <1>5, <1>6, <1>7, <1>8, <1>9, <1>10, <1>11, <1>12, <1>13, <1>14,
           <1>15, <1>16, <1>17, <1>18 DEF Goroutine

\* A step of a watcher or of a stop call keeps the invariant.
LEMMA OtherInv ==
  ASSUME SessionInv,
         \/ \E s \in Sessions : Watcher(s)
         \/ \E k \in Stops : Stop(k)
  PROVE  SessionInv'
<1> USE DEF SessionInv
<1>1. TypeOK' BY SessionTypeOK, StopTypeOK
<1> USE DEF TypeOK, OneSession, ActiveInFlight, ClaimedByActive, ErrorIsFresh,
            NoStrayMihomo, RecordHasSession, StopKnows
<1>2. ASSUME NEW s \in Sessions, Watcher(s) PROVE SessionInv'
  BY <1>1, <1>2 DEF Watcher, WatcherRenders, WatcherApplies, WatcherParseFails, WatcherEnds
<1>3. ASSUME NEW k \in Stops, Stop(k) PROVE SessionInv'
  <2>1. CASE StopFinds(k) BY <1>1, <2>1 DEF StopFinds
  <2>2. CASE StopCancels(k) BY <1>1, <2>2 DEF StopCancels
  <2>3. CASE StopReturns(k) BY <1>1, <2>3 DEF StopReturns
  <2>4. CASE StopFindsNone(k) \/ StopLoadFails(k)
    BY <1>1, <2>4 DEF StopFindsNone, StopLoadFails
  <2>5. CASE StopEngineRuns(k) \/ StopEngineNotRunning(k)
    BY <1>1, <2>5 DEF StopEngineRuns, StopEngineNotRunning
  <2>6. CASE StopShutsDown(k) \/ StopUnrecords(k)
    BY <1>1, <2>6 DEF StopShutsDown, StopUnrecords
  <2> QED BY <1>3, <2>1, <2>2, <2>3, <2>4, <2>5, <2>6 DEF Stop
<1> QED BY <1>2, <1>3

\* The invariant is inductive.
LEMMA StepInv ==
  ASSUME SessionInv, [Next]_vars
  PROVE  SessionInv'
<1>1. CASE UNCHANGED vars
  BY <1>1 DEF SessionInv, vars, TypeOK, OneSession, ActiveInFlight, ClaimedByActive,
       ErrorIsFresh, NoStrayMihomo, RecordHasSession, StopKnows
<1> QED BY <1>1, StartInv, GoroutineInv, OtherInv DEF Next

LEMMA AlwaysInv == Spec => []SessionInv
<1>1. Init => SessionInv
  <2> SUFFICES ASSUME Init PROVE SessionInv OBVIOUS
  <2> USE DEF Init
  <2>1. TypeOK BY DEF TypeOK
  <2>2. OneSession /\ ActiveInFlight /\ ClaimedByActive
    BY DEF OneSession, ActiveInFlight, ClaimedByActive
  <2>3. ErrorIsFresh /\ RecordHasSession /\ StopKnows
    BY DEF ErrorIsFresh, RecordHasSession, StopKnows
  <2>4. NoStrayMihomo BY DEF NoStrayMihomo
  <2> QED BY <2>1, <2>2, <2>3, <2>4 DEF SessionInv
<1> QED BY <1>1, StepInv, PTL DEF Spec

-----------------------------------------------------------------------------
\* The variables of the bridge always hold values of their types, and a stop never
\* waits for or cancels a session that does not exist.
THEOREM TypeCorrect == Spec => []TypeOK
<1>1. SessionInv => TypeOK BY DEF SessionInv
<1> QED BY <1>1, AlwaysInv, PTL

\* The goroutine of a session runs only while that session is the active one.
THEOREM Exclusive == Spec => []OneSession
<1>1. SessionInv => OneSession BY DEF SessionInv
<1> QED BY <1>1, AlwaysInv, PTL

\* The engine is free whenever an accepted session comes to claim it.
THEOREM ClaimSucceeds == Spec => []ClaimIsFree
<1>1. SessionInv => ClaimIsFree
  BY DEF SessionInv, OneSession, ClaimedByActive, ClaimIsFree
<1> QED BY <1>1, AlwaysInv, PTL

\* No error of an earlier session is shown while a session is active.
THEOREM FreshError == Spec => []ErrorIsFresh
<1>1. SessionInv => ErrorIsFresh BY DEF SessionInv
<1> QED BY <1>1, AlwaysInv, PTL

\* What StartEngine applies and has recorded is shut down and removed before its
\* session leaves the engine, whichever step fails; a file that cannot be read is left
\* by a failed write and by nothing else.
THEOREM LeavesNothingBehind == Spec => []NothingLeftBehind
<1>1. SessionInv => NothingLeftBehind BY DEF SessionInv, NothingLeftBehind
<1> QED BY <1>1, AlwaysInv, PTL

-----------------------------------------------------------------------------
(* Who takes a serving session's engine away.                              *)

\* A session has a watcher from its readiness on, is cancelled when it is past serving,
\* ...
WatcherOfReady ==
    \A s \in Sessions : watcher[s] # "none" =>
        /\ at[s] \in {"serve", "unrecord", "shutdown", "release", "return", "finish", "over"}
        /\ at[s] # "serve" => cancelled[s]

\* ... and what a watcher applies is of a session that has one.
AppliedByWatcher == mihomo.by = "watcher" => watcher[mihomo.of] # "none"

\* Between its application and its deferred shutdown only a stop takes an engine down.
DownByStop ==
    (\E s \in Sessions : at[s] \in {"record", "ready", "serve"}) /\ mihomo = Down =>
        \E k \in Stops : stopAt[k] \in {"unrecord", "stopped"}

EngineInv == WatcherOfReady /\ AppliedByWatcher /\ DownByStop

\* Every step keeps it: a goroutine's because it is the only one there is.
LEMMA StepEngineInv ==
  ASSUME SessionInv, EngineInv, [Next]_vars
  PROVE  EngineInv'
<1> USE DEF EngineInv, TypeOK
<1>1. TypeOK BY DEF SessionInv
<1>2. ASSUME NEW s \in Sessions, StartAccepted(s) \/ StartRefused(s) PROVE EngineInv'
  BY <1>1, <1>2 DEF StartAccepted, StartRefused, WatcherOfReady, AppliedByWatcher, DownByStop
<1>3. ASSUME NEW s \in Sessions, Goroutine(s) PROVE EngineInv'
  <2>1. \A t \in Sessions : t # s => at[t] \notin InFlight
    BY <1>3 DEF SessionInv, OneSession, Goroutine, TailscaleUp, TailscaleFails,
         PreflightFails, Claim, Apply, ApplyFails, Record, RecordFails, Ready,
         ReadyTimeout, ContextDone, Unrecord, Shutdown, Release, Return, Finish
  <2> USE <1>1, <2>1 DEF WatcherOfReady, AppliedByWatcher, DownByStop
  <2>2. CASE TailscaleUp(s) \/ TailscaleFails(s) \/ PreflightFails(s) \/ Claim(s)
    BY <2>2 DEF TailscaleUp, TailscaleFails, PreflightFails, Claim
  <2>3. CASE Apply(s) BY <2>3 DEF Apply
  <2>4. CASE ApplyFails(s) BY <2>4 DEF ApplyFails
  <2>5. CASE Record(s) \/ RecordFails(s) BY <2>5 DEF Record, RecordFails
  <2>6. CASE Ready(s) BY <2>6 DEF Ready
  <2>7. CASE ReadyTimeout(s) \/ ContextDone(s) BY <2>7 DEF ReadyTimeout, ContextDone
  <2>8. CASE Unrecord(s) \/ Shutdown(s) BY <2>8 DEF Unrecord, Shutdown
  <2>9. CASE Release(s) \/ Return(s) \/ Finish(s) BY <2>9 DEF Release, Return, Finish
  <2> QED BY <1>3, <2>2, <2>3, <2>4, <2>5, <2>6, <2>7, <2>8, <2>9 DEF Goroutine
<1>4. ASSUME NEW s \in Sessions, Watcher(s) PROVE EngineInv'
  <2> USE <1>1 DEF WatcherOfReady, AppliedByWatcher, DownByStop
  <2>1. CASE WatcherApplies(s) BY <2>1 DEF WatcherApplies
  <2>2. CASE ~WatcherApplies(s)
    BY <1>4, <2>2 DEF Watcher, WatcherRenders, WatcherParseFails, WatcherEnds
  <2> QED BY <2>1, <2>2
<1>5. ASSUME NEW k \in Stops, Stop(k) PROVE EngineInv'
  <2>1. UNCHANGED <<at, watcher>> /\ \A s \in Sessions : cancelled[s] => cancelled'[s]
    BY <1>1, <1>5 DEF Stop, StopFinds, StopCancels, StopReturns, StopFindsNone, StopLoadFails,
         StopEngineRuns, StopEngineNotRunning, StopShutsDown, StopUnrecords
  <2>2. WatcherOfReady' BY <2>1 DEF WatcherOfReady
  <2>3. CASE StopShutsDown(k)
    BY <1>1, <2>2, <2>3 DEF StopShutsDown, AppliedByWatcher, DownByStop
  <2>4. CASE ~StopShutsDown(k)
    <3>1. UNCHANGED mihomo
      BY <1>5, <2>4 DEF Stop, StopFinds, StopCancels, StopReturns, StopFindsNone,
           StopLoadFails, StopEngineRuns, StopEngineNotRunning, StopUnrecords
    <3>2. \A j \in Stops : stopAt[j] \in {"unrecord", "stopped"} =>
                              stopAt'[j] \in {"unrecord", "stopped"}
      BY <1>1, <1>5, <2>4 DEF Stop, StopFinds, StopCancels, StopReturns, StopFindsNone,
           StopLoadFails, StopEngineRuns, StopEngineNotRunning, StopUnrecords
    <3> QED BY <2>1, <2>2, <3>1, <3>2 DEF AppliedByWatcher, DownByStop
  <2> QED BY <2>3, <2>4
<1>6. CASE UNCHANGED vars
  BY <1>6 DEF vars, WatcherOfReady, AppliedByWatcher, DownByStop
<1> QED BY <1>2, <1>3, <1>4, <1>5, <1>6 DEF Next

LEMMA AlwaysEngineInv == Spec => []EngineInv
<1>1. Init => EngineInv
  BY DEF Init, EngineInv, WatcherOfReady, AppliedByWatcher, DownByStop
<1> QED BY <1>1, AlwaysInv, StepEngineInv, PTL DEF Spec

\* An engine on another session's descriptor is the work of a late watcher.
THEOREM OtherTunWasLate == Spec => []OtherTunIsLateWatcher
<1>1. ASSUME SessionInv, EngineInv PROVE OtherTunIsLateWatcher
  <2> SUFFICES ASSUME NEW s \in Sessions, at[s] = "serve", mihomo.of \in Sessions \ {s}
               PROVE  /\ mihomo.by = "watcher" /\ cancelled[mihomo.of]
                      /\ at[mihomo.of] = "over"
    BY DEF OtherTunIsLateWatcher
  <2>1. at[mihomo.of] \notin InFlight BY <1>1 DEF SessionInv, OneSession
  <2>2. mihomo.by \in {"start", "watcher"} BY <1>1 DEF SessionInv, TypeOK
  <2>3. mihomo.by = "watcher" BY <1>1, <2>1, <2>2 DEF SessionInv, NoStrayMihomo
  <2> QED BY <1>1, <2>1, <2>3 DEF EngineInv, WatcherOfReady, AppliedByWatcher
<1> QED BY <1>1, AlwaysInv, AlwaysEngineInv, PTL

\* A session that serves loses its engine only to a stop.
THEOREM LostToStop == Spec => []EngineLostToStop
<1>1. EngineInv => EngineLostToStop BY DEF EngineInv, DownByStop, EngineLostToStop
<1> QED BY <1>1, AlwaysEngineInv, PTL

-----------------------------------------------------------------------------
(* BridgeSession implements SessionSlot.                                   *)

\* Every step of the bridge is a step of the slot, or none.
LEMMA StepImplementsSlot ==
  ASSUME SessionInv, [Next]_vars
  PROVE  [Slot!Next]_<<active, usedOf, askedOf, lastErr>>
<1> USE DEF SessionInv, TypeOK, usedOf, askedOf
<1>1. CASE UNCHANGED vars BY <1>1 DEF vars
<1>2. ASSUME NEW s \in Sessions, StartAccepted(s)
      PROVE  Slot!Open(s)
  BY <1>2 DEF StartAccepted, Slot!Open
<1>3. ASSUME NEW s \in Sessions, StartRefused(s)
      PROVE  UNCHANGED <<active, usedOf, askedOf, lastErr>>
  BY <1>3 DEF StartRefused
<1>4. ASSUME NEW s \in Sessions, Finish(s)
      PROVE  Slot!Close(s)
  <2>1. active = s BY <1>4 DEF Finish, OneSession
  <2> QED BY <1>4, <2>1 DEF Finish, Slot!Close
<1>5. ASSUME NEW s \in Sessions, Goroutine(s), ~Finish(s)
      PROVE  UNCHANGED <<active, usedOf, askedOf, lastErr>>
  BY <1>5 DEF Goroutine, TailscaleUp, TailscaleFails, PreflightFails, Claim, Apply,
       ApplyFails, Record, RecordFails, Ready, ReadyTimeout, ContextDone, Unrecord,
       Shutdown, Release, Return
<1>6. ASSUME NEW s \in Sessions, Watcher(s)
      PROVE  UNCHANGED <<active, usedOf, askedOf, lastErr>>
  BY <1>6 DEF Watcher, WatcherRenders, WatcherApplies, WatcherParseFails, WatcherEnds
<1>7. ASSUME NEW k \in Stops, StopCancels(k)
      PROVE  Slot!Ask(stopFor[k]) /\ stopFor[k] \in Sessions
  BY <1>7 DEF StopCancels, StopKnows, Slot!Ask
<1>8. ASSUME NEW k \in Stops, Stop(k), ~StopCancels(k)
      PROVE  UNCHANGED <<active, usedOf, askedOf, lastErr>>
  BY <1>8 DEF Stop, StopFinds, StopReturns, StopFindsNone, StopLoadFails, StopEngineRuns,
       StopEngineNotRunning, StopShutsDown, StopUnrecords
<1>9. CASE Next
  <2>1. CASE \E s \in Sessions : StartAccepted(s)
    <3> PICK s \in Sessions : StartAccepted(s) BY <2>1
    <3>1. Slot!Open(s) BY <1>2
    <3>2. Slot!Next BY <3>1 DEF Slot!Next
    <3> QED BY <3>2
  <2>2. CASE \E s \in Sessions : Finish(s)
    <3> PICK s \in Sessions : Finish(s) BY <2>2
    <3>1. Slot!Close(s) BY <1>4
    <3>2. Slot!Next BY <3>1 DEF Slot!Next
    <3> QED BY <3>2
  <2>3. CASE \E k \in Stops : StopCancels(k)
    <3> PICK k \in Stops : StopCancels(k) BY <2>3
    <3>1. \E s \in Sessions : Slot!Ask(s)
      <4> HIDE DEF usedOf, askedOf, TypeOK
      <4>1. Slot!Ask(stopFor[k]) /\ stopFor[k] \in Sessions BY <1>7
      <4> QED BY <4>1
    <3>2. Slot!Next BY <3>1 DEF Slot!Next
    <3> QED BY <3>2
  <2>4. CASE /\ ~\E s \in Sessions : StartAccepted(s) \/ Finish(s)
             /\ ~\E k \in Stops : StopCancels(k)
    <3>1. UNCHANGED <<active, usedOf, askedOf, lastErr>>
      <4> HIDE DEF usedOf, askedOf
      <4> QED BY <1>3, <1>5, <1>6, <1>8, <1>9, <2>4 DEF Next
    <3> QED BY <3>1
  <2> QED BY <2>1, <2>2, <2>3, <2>4
<1> QED BY <1>1, <1>9

\* One session at a time: opened only when there is none, ended by nobody but itself.
THEOREM ImplementsTheSlot == Spec => ImplementsSlot
<1>1. Init => Slot!Init BY DEF Init, Slot!Init, usedOf, askedOf
<1>2. SessionInv /\ [Next]_vars => [Slot!Next]_<<active, usedOf, askedOf, lastErr>>
  BY StepImplementsSlot
<1> QED BY <1>1, <1>2, AlwaysInv, PTL DEF Spec, Slot!Spec, ImplementsSlot
=============================================================================
