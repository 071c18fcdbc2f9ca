----------------------------- MODULE BridgeSession -----------------------------
(***************************************************************************)
(* The runtime inside the Android app process: the session that the bridge *)
(* starts and stops (mobilelib/main.go), the goroutine that runs           *)
(* StartHomoscale for it (runtime.go, engine_runtime_android.go), and the  *)
(* watcher goroutine that reapplies the engine's configuration.            *)
(*                                                                         *)
(* A member of Sessions is a call of HomoscaleStartWithTunFDJSON and the    *)
(* session it opens, with a TUN descriptor of its own; a member of Stops is *)
(* a call of HomoscaleStopJSON.  The calls come from several threads.       *)
(***************************************************************************)
CONSTANTS
    Sessions,   \* the calls of start
    Stops,      \* the calls of stop
    None        \* no session

ASSUME NoneAssumption == None \notin Sessions

VARIABLES
    active,     \* activeSession
    lastErr,    \* the session whose error lastBridgeErr holds
    at,         \* where each start call, then its goroutine, is
    failed,     \* whether StartHomoscale returns an error that is not Canceled
    cancelled,  \* whether each session's context is cancelled
    running,    \* androidEngineCurrent.running
    mihomo,     \* what the in-process engine runs: who applied it, for which session
    stateFile,  \* the engine's state file: none, the whole record, or part of one
    watcher,    \* where each session's configuration watcher is
    stopAt,     \* where each stop call is
    stopFor     \* the session each stop call has found

engineVars  == <<running, mihomo, stateFile>>
sessionVars == <<active, lastErr, at, failed>>
stopVars    == <<stopAt, stopFor>>
vars == <<active, lastErr, at, failed, cancelled, running, mihomo, stateFile,
          watcher, stopAt, stopFor>>

\* StartEngine has set androidEngineCurrent.running and not cleared it.
Claimed  == {"apply", "record", "ready", "serve", "unrecord", "shutdown", "release"}
\* The session's configuration is applied and not yet shut down.
Engaged  == {"record", "ready", "serve", "unrecord", "shutdown"}
\* The goroutine exists.
InFlight == {"tailscale", "preflight", "return", "finish"} \cup Claimed
Place    == {"unused", "refused", "over"} \cup InFlight

WatcherPlace == {"none", "idle", "rendered", "over"}
StopPlace == {"init", "cancel", "waiting", "engine", "shutdown", "unrecord",
              "requested", "stopped", "error"}

Down == [by |-> "nobody", of |-> None]
Run(who, s) == [by |-> who, of |-> s]

TypeOK ==
    /\ active \in Sessions \cup {None}
    /\ lastErr \in Sessions \cup {None}
    /\ at \in [Sessions -> Place]
    /\ failed \in [Sessions -> BOOLEAN]
    /\ cancelled \in [Sessions -> BOOLEAN]
    /\ running \in BOOLEAN
    /\ mihomo \in [by : {"start", "watcher"}, of : Sessions] \cup {Down}
    /\ stateFile \in {"none", "whole", "partial"}
    /\ watcher \in [Sessions -> WatcherPlace]
    /\ stopAt \in [Stops -> StopPlace]
    /\ stopFor \in [Stops -> Sessions \cup {None}]
    /\ \A k \in Stops : stopAt[k] \in {"cancel", "waiting"} => stopFor[k] \in Sessions

Init ==
    /\ active = None
    /\ lastErr = None
    /\ at = [s \in Sessions |-> "unused"]
    /\ failed = [s \in Sessions |-> FALSE]
    /\ cancelled = [s \in Sessions |-> FALSE]
    /\ running = FALSE
    /\ mihomo = Down
    /\ stateFile = "none"
    /\ watcher = [s \in Sessions |-> "none"]
    /\ stopAt = [k \in Stops |-> "init"]
    /\ stopFor = [k \in Stops |-> None]

-----------------------------------------------------------------------------
(* HomoscaleStartWithTunFDJSON.                                            *)

Goto(s, place) == at' = [at EXCEPT ![s] = place]

\* Wrong on purpose: the active session is overwritten.
StartOverwrites(s) ==
    /\ at[s] = "unused"
    /\ active' = s
    /\ lastErr' = None
    /\ Goto(s, "tailscale")
    /\ UNCHANGED <<failed, cancelled, engineVars, watcher, stopVars>>

\* Under the bridge's mutex: the session becomes the active one, ...
StartAccepted(s) ==
    /\ at[s] = "unused"
    /\ active = None
    /\ active' = s
    /\ lastErr' = None
    /\ Goto(s, "tailscale")
    /\ UNCHANGED <<failed, cancelled, engineVars, watcher, stopVars>>

\* ... or there is one and the call returns, as it does before the mutex when the
\* configuration, the descriptor or the log file is no good.
StartRefused(s) ==
    /\ at[s] = "unused"
    /\ Goto(s, "refused")
    /\ UNCHANGED <<active, lastErr, failed, cancelled, engineVars, watcher, stopVars>>

-----------------------------------------------------------------------------
(* The session's goroutine: StartHomoscale, then the Android StartEngine.   *)

Moves(s, from, to) ==
    /\ at[s] = from
    /\ Goto(s, to)
    /\ UNCHANGED <<active, lastErr, cancelled, stopVars>>

TailscaleUp(s) ==
    /\ Moves(s, "tailscale", "preflight")
    /\ UNCHANGED <<failed, engineVars, watcher>>

\* The error of a Tailscale that is not up because its context was cancelled may be
\* context.Canceled, which is not kept.
TailscaleFails(s) ==
    /\ Moves(s, "tailscale", "return")
    /\ \E err \in BOOLEAN :
         /\ ~cancelled[s] => err
         /\ failed' = [failed EXCEPT ![s] = err]
    /\ UNCHANGED <<engineVars, watcher>>

Fails(s) == failed' = [failed EXCEPT ![s] = TRUE]

\* Directories, ValidateProxy or ensureEngineConfig fail, or the engine is claimed.
PreflightFails(s) ==
    /\ Moves(s, "preflight", "return")
    /\ Fails(s)
    /\ UNCHANGED <<engineVars, watcher>>

Claim(s) ==
    /\ Moves(s, "preflight", "apply")
    /\ ~running
    /\ running' = TRUE
    /\ UNCHANGED <<failed, mihomo, stateFile, watcher>>

\* startAndroidEmbeddedMihomo renders, parses and applies the configuration; when
\* that fails the engine is shut down.
Apply(s) ==
    /\ Moves(s, "apply", "record")
    /\ mihomo' = Run("start", s)
    /\ UNCHANGED <<failed, running, stateFile, watcher>>

ApplyFails(s) ==
    /\ Moves(s, "apply", "release")
    /\ mihomo' = Down
    /\ Fails(s)
    /\ UNCHANGED <<running, stateFile, watcher>>

\* Wrong on purpose: the watcher starts before the controller answers.
RecordWatching(s) ==
    /\ Moves(s, "record", "ready")
    /\ stateFile' = "whole"
    /\ watcher' = [watcher EXCEPT ![s] = "idle"]
    /\ UNCHANGED <<failed, running, mihomo>>

Record(s) ==
    /\ Moves(s, "record", "ready")
    /\ stateFile' = "whole"
    /\ UNCHANGED <<failed, running, mihomo, watcher>>

\* Wrong on purpose: the shutdown is deferred only after the record.
RecordFailsEngaged(s) ==
    /\ Moves(s, "record", "release")
    /\ Fails(s)
    /\ stateFile' \in {stateFile, "partial"}
    /\ UNCHANGED <<running, mihomo, watcher>>

\* os.WriteFile may create or truncate the file before it fails, and its removal is
\* not deferred yet.
RecordFails(s) ==
    /\ Moves(s, "record", "shutdown")
    /\ Fails(s)
    /\ stateFile' \in {stateFile, "partial"}
    /\ UNCHANGED <<running, mihomo, watcher>>

\* The controller answers within 15 seconds: the watcher starts.
Ready(s) ==
    /\ Moves(s, "ready", "serve")
    /\ mihomo # Down
    /\ watcher' = [watcher EXCEPT ![s] = "idle"]
    /\ UNCHANGED <<failed, engineVars>>

ReadyTimeout(s) ==
    /\ Moves(s, "ready", "unrecord")
    /\ Fails(s)
    /\ UNCHANGED <<engineVars, watcher>>

\* <-ctx.Done(), then the deferred calls, last one first.
ContextDone(s) ==
    /\ Moves(s, "serve", "unrecord")
    /\ cancelled[s]
    /\ UNCHANGED <<failed, engineVars, watcher>>

Unrecord(s) ==
    /\ Moves(s, "unrecord", "shutdown")
    /\ stateFile' = "none"
    /\ UNCHANGED <<failed, running, mihomo, watcher>>

Shutdown(s) ==
    /\ Moves(s, "shutdown", "release")
    /\ mihomo' = Down
    /\ UNCHANGED <<failed, running, stateFile, watcher>>

Release(s) ==
    /\ Moves(s, "release", "return")
    /\ running' = FALSE
    /\ UNCHANGED <<failed, mihomo, stateFile, watcher>>

\* StartHomoscale returns (tailscaleRuntime.Close is its last deferred call) and the
\* TUN descriptor is closed.
Return(s) ==
    /\ Moves(s, "return", "finish")
    /\ UNCHANGED <<failed, engineVars, watcher>>

\* Under the bridge's mutex.
Finish(s) ==
    /\ at[s] = "finish"
    /\ active' = IF active = s THEN None ELSE active
    /\ lastErr' = IF failed[s] THEN s ELSE lastErr
    /\ Goto(s, "over")
    /\ UNCHANGED <<failed, cancelled, engineVars, watcher, stopVars>>

Goroutine(s) ==
    \/ TailscaleUp(s) \/ TailscaleFails(s) \/ PreflightFails(s) \/ Claim(s)
    \/ Apply(s) \/ ApplyFails(s) \/ Record(s) \/ RecordFails(s) \/ Ready(s)
    \/ ReadyTimeout(s) \/ ContextDone(s) \/ Unrecord(s) \/ Shutdown(s)
    \/ Release(s) \/ Return(s) \/ Finish(s)

-----------------------------------------------------------------------------
(* watchAndroidEmbeddedTailscaleConfig, which nobody waits for.            *)

WatcherGoto(s, place) ==
    /\ watcher' = [watcher EXCEPT ![s] = place]
    /\ UNCHANGED <<sessionVars, cancelled, running, stateFile, stopVars>>

\* A tick may be taken although the context is done as well (select chooses).  The
\* rendered text holds the number of the session's descriptor, which must be open.
WatcherRenders(s) ==
    /\ watcher[s] = "idle"
    /\ at[s] \notin {"finish", "over"}
    /\ WatcherGoto(s, "rendered")
    /\ UNCHANGED mihomo

WatcherApplies(s) ==
    /\ watcher[s] = "rendered"
    /\ mihomo' = Run("watcher", s)
    /\ WatcherGoto(s, "idle")

WatcherParseFails(s) ==
    /\ watcher[s] = "rendered"
    /\ WatcherGoto(s, "idle")
    /\ UNCHANGED mihomo

\* Wrong on purpose: the watcher shuts the engine down when it ends.
WatcherEndsEngine(s) ==
    /\ watcher[s] = "idle"
    /\ cancelled[s]
    /\ WatcherGoto(s, "over")
    /\ mihomo' = Down

WatcherEnds(s) ==
    /\ watcher[s] = "idle"
    /\ cancelled[s]
    /\ WatcherGoto(s, "over")
    /\ UNCHANGED mihomo

Watcher(s) ==
    WatcherRenders(s) \/ WatcherApplies(s) \/ WatcherParseFails(s) \/ WatcherEnds(s)

-----------------------------------------------------------------------------
(* HomoscaleStopJSON.                                                      *)

StopMoves(k, from, to) ==
    /\ stopAt[k] = from
    /\ stopAt' = [stopAt EXCEPT ![k] = to]
    /\ UNCHANGED <<sessionVars, running, watcher>>

\* The active session is read under the mutex and used after it.
StopFinds(k) ==
    /\ StopMoves(k, "init", "cancel")
    /\ active # None
    /\ stopFor' = [stopFor EXCEPT ![k] = active]
    /\ UNCHANGED <<cancelled, mihomo, stateFile>>

\* Wrong on purpose: the session is waited for but not cancelled.
StopOnlyWaits(k) ==
    /\ StopMoves(k, "cancel", "waiting")
    /\ UNCHANGED <<stopFor, cancelled, mihomo, stateFile>>

StopCancels(k) ==
    /\ StopMoves(k, "cancel", "waiting")
    /\ cancelled' = [cancelled EXCEPT ![stopFor[k]] = TRUE]
    /\ UNCHANGED <<stopFor, mihomo, stateFile>>

\* Wrong on purpose: a stop that gives up waiting forgets the session.
StopForgets(k) ==
    /\ stopAt[k] = "waiting"
    /\ stopAt' = [stopAt EXCEPT ![k] = "requested"]
    /\ active' = None
    /\ UNCHANGED <<lastErr, at, failed, cancelled, engineVars, watcher, stopFor>>

\* After session.done or eight seconds, whichever comes first.
StopReturns(k) ==
    /\ StopMoves(k, "waiting", "requested")
    /\ UNCHANGED <<stopFor, cancelled, mihomo, stateFile>>

\* Without a session: StopEngine, unless the configuration does not load.
StopFindsNone(k) ==
    /\ StopMoves(k, "init", "engine")
    /\ active = None
    /\ UNCHANGED <<stopFor, cancelled, mihomo, stateFile>>

StopLoadFails(k) ==
    /\ StopMoves(k, "engine", "error")
    /\ UNCHANGED <<stopFor, cancelled, mihomo, stateFile>>

\* StopEngine reads running under the engine's mutex and acts after it.
StopEngineRuns(k) ==
    /\ StopMoves(k, "engine", "shutdown")
    /\ running
    /\ UNCHANGED <<stopFor, cancelled, mihomo, stateFile>>

StopEngineNotRunning(k) ==
    /\ StopMoves(k, "engine", "error")
    /\ ~running
    /\ stateFile' = "none"
    /\ UNCHANGED <<stopFor, cancelled, mihomo>>

StopShutsDown(k) ==
    /\ StopMoves(k, "shutdown", "unrecord")
    /\ mihomo' = Down
    /\ UNCHANGED <<stopFor, cancelled, stateFile>>

StopUnrecords(k) ==
    /\ StopMoves(k, "unrecord", "stopped")
    /\ stateFile' = "none"
    /\ UNCHANGED <<stopFor, cancelled, mihomo>>

Stop(k) ==
    \/ StopFinds(k) \/ StopCancels(k) \/ StopReturns(k) \/ StopFindsNone(k)
    \/ StopLoadFails(k) \/ StopEngineRuns(k) \/ StopEngineNotRunning(k)
    \/ StopShutsDown(k) \/ StopUnrecords(k)

-----------------------------------------------------------------------------
Next ==
    \/ \E s \in Sessions :
         StartAccepted(s) \/ StartRefused(s) \/ Goroutine(s) \/ Watcher(s)
    \/ \E k \in Stops : Stop(k)

Spec == Init /\ [][Next]_vars

\* Goroutines are scheduled, the calls a goroutine makes return (each has a limit or
\* obeys the context), and a stop call that has begun goes on.
StopRuns(k) == stopAt[k] # "init" /\ Stop(k)

Fairness ==
    /\ \A s \in Sessions : WF_vars(Goroutine(s))
    /\ \A s \in Sessions : WF_vars(WatcherEnds(s)) /\ WF_vars(Watcher(s) /\ watcher[s] = "rendered")
    /\ \A k \in Stops : WF_vars(StopRuns(k))

FairSpec == Spec /\ Fairness

-----------------------------------------------------------------------------
(* Properties.                                                             *)

\* The goroutine of a session runs only while that session is the active one, so
\* that two sessions never share the engine, the state file or the Tailscale state.
OneSession == \A s \in Sessions : at[s] \in InFlight => active = s

\* The second guard, androidEngineCurrent.running, is free whenever a session comes
\* to claim it: "already running inside the app process" never refuses a session
\* that the bridge has accepted.
ClaimIsFree == \A s \in Sessions : at[s] = "preflight" => ~running

\* While a session is active the status shows no error of an earlier one.
ErrorIsFresh == active # None => lastErr = None

\* An engine configuration that StartEngine applied is shut down before its session
\* leaves the engine, whatever fails on the way.
NoStrayMihomo == mihomo.by = "start" => at[mihomo.of] \in Engaged

\* A record that can be read has its session; a file that cannot be read is what the
\* failed write of a session has left, which says so with its error.
RecordHasSession ==
    /\ stateFile = "whole" => \E s \in Sessions : at[s] \in {"ready", "serve", "unrecord"}
    /\ stateFile = "partial" =>
         \E s \in Sessions : failed[s] /\ at[s] \in {"shutdown", "release", "return",
                                                     "finish", "over"}

\* Whatever fails on the way, a session that leaves takes with it the engine it has
\* applied and the record it has written (StartEngine's deferred calls); but a record
\* whose write failed may stay, unreadable (its removal is deferred too late).
NothingLeftBehind == NoStrayMihomo /\ RecordHasSession

\* README.md:186: the service "passes the inherited TUN file descriptor to Mihomo".  An
\* engine that runs on another session's descriptor while a session serves was put there
\* by the watcher of a session that was cancelled and is over, which nobody waits for
\* (engine_runtime_android.go:462): no start ever finds or leaves one.
OtherTunIsLateWatcher ==
    \A s \in Sessions :
        at[s] = "serve" /\ mihomo.of \in Sessions \ {s} =>
            mihomo.by = "watcher" /\ cancelled[mihomo.of] /\ at[mihomo.of] = "over"

\* A session that serves, and that nobody has asked to end, loses its engine to nothing
\* but a stop that saw no session when it began (main.go:294): no error path, no deferred
\* call and no watcher of a former session takes it away.
EngineLostToStop ==
    \A s \in Sessions :
        at[s] = "serve" /\ ~cancelled[s] /\ mihomo = Down =>
            \E k \in Stops : stopAt[k] \in {"unrecord", "stopped"}

\* A stop that found a session makes room for the next start, also when it returned
\* after eight seconds without waiting for the end.
StopMakesRoom ==
    \A s \in Sessions :
        (\E k \in Stops : stopAt[k] = "waiting" /\ stopFor[k] = s) ~> active # s

\* The watcher of a cancelled session ends.
WatcherStops ==
    \A s \in Sessions :
        cancelled[s] /\ watcher[s] \in {"idle", "rendered"} ~> watcher[s] = "over"

\* A stop takes effect in the end, on the session and on the goroutine that nobody
\* waits for.
StopTakesEffect == StopMakesRoom /\ WatcherStops

-----------------------------------------------------------------------------
(* BridgeSession implements SessionSlot.                                   *)

usedOf  == {s \in Sessions : at[s] \notin {"unused", "refused"}}
askedOf == {s \in Sessions : cancelled[s]}

Slot == INSTANCE SessionSlot WITH Ids <- Sessions, Nobody <- None, open <- active,
                                  used <- usedOf, asked <- askedOf, failure <- lastErr

\* One session at a time: opened only when there is none, ended by nobody but itself,
\* and remembered by its failure until the next is opened.
ImplementsSlot == Slot!Spec
=============================================================================
