--------------------------- MODULE EngineSupervisor ---------------------------
(***************************************************************************)
(* The desktop engine supervisor of homoscale (engine_runtime_exec.go).    *)
(*                                                                         *)
(* Every invocation of "homoscale start" is a member of Starters and every *)
(* invocation of "homoscale stop" a member of Stoppers; each is a process  *)
(* of its own that runs once.  They share nothing but the file system, in  *)
(* which the state file (cfg.Engine.StateFile) names the engine's pid, and *)
(* the table of operating-system processes.                                *)
(***************************************************************************)
CONSTANTS
    Starters,   \* the invocations of homoscale start
    Stoppers,   \* the invocations of homoscale stop
    Sudo,       \* those of them that run as root (README.md:84)
    Pids,       \* the process ids the operating system hands out
    Reused,     \* bound: those of them that other programs may get, too
    None,       \* no pid: an absent state file
    Partial     \* a state file that does not parse (truncated, half written)

\* A pid is told from the two values that mean "no pid can be read".
ASSUME PidsAssumption == None \notin Pids /\ Partial \notin Pids /\ None # Partial

\* Every command is a start or a stop, and is run as root or by the one plain user.
ASSUME SudoAssumption == Sudo \subseteq Starters \cup Stoppers

VARIABLES
    pc,         \* where each start is
    child,      \* the engine each start has spawned
    cancelled,  \* whether each start's context is cancelled (SIGINT, SIGTERM)
    proc,       \* the process table: what runs under each pid
    rooted,     \* the pids whose process is root's
    file,       \* what a reader of the state file finds
    stopPc,     \* where each stop is
    seen        \* the pid each stop has read from the state file

startVars == <<pc, child, cancelled>>
stopVars  == <<stopPc, seen>>
table     == <<proc, rooted>>
vars      == <<pc, child, cancelled, proc, rooted, file, stopPc, seen>>

\* Between the check of the state file and the end of its record.
Launching  == {"spawn", "truncate", "fill", "abort"}
\* Engine spawned, and Start not returned.
Holding    == {"truncate", "fill", "abort", "ready", "giveUp", "wait"}
\* Past the check, not returned.
Active     == Launching \cup Holding \cup {"remove"}
StartPlace == {"init", "done", "killed"} \cup Active

StopBusy   == {"probe", "stale", "interrupt", "kill", "remove"}
StopPlace  == {"init", "notRunning", "stopped"} \cup StopBusy

\* "up" has not bound the controller, "serving" answers on it, "dying" has been
\* sent SIGKILL, and a "zombie" has ended and waits to be reaped.
ProcState  == {"free", "up", "serving", "dying", "zombie", "foreign"}

Live(p)    == proc[p] \in {"up", "serving"}
MaySignal(c, p) == c \in Sudo \/ p \notin rooted
\* processRunning asked by the command c: signal 0 succeeds for everything under a
\* pid, a zombie and a program that is not homoscale's included, unless c may not
\* signal it (EPERM): that counts as not running.
processRunning(c, p) == p \in Pids /\ proc[p] # "free" /\ MaySignal(c, p)
\* terminateProcess by c at the end of its two seconds: SIGKILL for whatever still
\* runs under p.
Killed(c, p) == IF processRunning(c, p) /\ proc[p] # "zombie"
                THEN [proc EXCEPT ![p] = "dying"] ELSE proc
\* p is given back to the operating system.
Free(p) == proc' = [proc EXCEPT ![p] = "free"] /\ rooted' = rooted \ {p}
\* removeProcessState drops the error of os.Remove.
removeProcessState == file' \in {None, file}

TypeOK ==
    /\ pc \in [Starters -> StartPlace]
    /\ child \in [Starters -> Pids \cup {None}]
    /\ cancelled \in [Starters -> BOOLEAN]
    /\ proc \in [Pids -> ProcState]
    /\ rooted \subseteq Pids
    /\ file \in Pids \cup {None, Partial}
    /\ stopPc \in [Stoppers -> StopPlace]
    /\ seen \in [Stoppers -> Pids \cup {None}]

Init ==
    /\ pc = [s \in Starters |-> "init"]
    /\ child = [s \in Starters |-> None]
    /\ cancelled = [s \in Starters |-> FALSE]
    /\ proc = [p \in Pids |-> "free"]
    /\ rooted = {}
    /\ file = None
    /\ stopPc = [k \in Stoppers |-> "init"]
    /\ seen = [k \in Stoppers |-> None]

-----------------------------------------------------------------------------
(* homoscale start.                                                        *)

Goto(s, place) == pc' = [pc EXCEPT ![s] = place]

\* StartEngine returns; nothing of it is left in this process.
Return(s) == /\ Goto(s, "done")
             /\ child' = [child EXCEPT ![s] = None]

\* Before the spawn the start may fail over its configuration, its directories or
\* the engine's binary, or find that the state file names a process that runs
\* ("already running"); otherwise the way is free.
PreflightFails(s) ==
    /\ pc[s] = "init"
    /\ Return(s)
    /\ UNCHANGED <<cancelled, table, file, stopVars>>

\* Wrong on purpose: the removal of the state file is deferred before the check.
CheckRefusesRemoving(s) ==
    /\ pc[s] = "init"
    /\ processRunning(s, file)
    /\ Return(s)
    /\ file' = None
    /\ UNCHANGED <<cancelled, table, stopVars>>

CheckRefuses(s) ==
    /\ pc[s] = "init"
    /\ processRunning(s, file)
    /\ Return(s)
    /\ UNCHANGED <<cancelled, table, file, stopVars>>

\* Wrong on purpose: the state file is not looked at.
CheckPassesBlindly(s) ==
    /\ pc[s] = "init"
    /\ Goto(s, "spawn")
    /\ UNCHANGED <<child, cancelled, table, file, stopVars>>

CheckPasses(s) ==
    /\ pc[s] = "init"
    /\ ~processRunning(s, file)
    /\ Goto(s, "spawn")
    /\ UNCHANGED <<child, cancelled, table, file, stopVars>>

\* cmd.Start: fails under a cancelled context or for want of a process.
Spawn(s) ==
    /\ pc[s] = "spawn"
    /\ ~cancelled[s]
    /\ \E p \in Pids :
         /\ proc[p] = "free"
         /\ proc' = [proc EXCEPT ![p] = "up"]
         /\ child' = [child EXCEPT ![s] = p]
         /\ rooted' = IF s \in Sudo THEN rooted \cup {p} ELSE rooted
    /\ Goto(s, "truncate")
    /\ UNCHANGED <<cancelled, file, stopVars>>

SpawnFails(s) ==
    /\ pc[s] = "spawn"
    /\ Return(s)
    /\ UNCHANGED <<cancelled, table, file, stopVars>>

\* writeProcessState is os.WriteFile: truncate, then write; either may fail, and
\* what the failure leaves in the file stays there.
Truncate(s) ==
    /\ pc[s] = "truncate"
    /\ file' = Partial
    /\ Goto(s, "fill")
    /\ UNCHANGED <<child, cancelled, table, stopVars>>

Fill(s) ==
    /\ pc[s] = "fill"
    /\ file' = child[s]
    /\ Goto(s, "ready")
    /\ UNCHANGED <<child, cancelled, table, stopVars>>

RecordFails(s) ==
    /\ pc[s] \in {"truncate", "fill"}
    /\ Goto(s, "abort")
    /\ UNCHANGED <<child, cancelled, table, file, stopVars>>

\* terminateProcess on the start's own child.  The child is not waited for, so it
\* still counts as running when the two seconds are over and it is killed.  The
\* removal of the state file is not deferred yet.
Abort(s) ==
    /\ pc[s] = "abort"
    /\ proc' = Killed(s, child[s])
    /\ Return(s)
    /\ UNCHANGED <<cancelled, rooted, file, stopVars>>

\* waitForEngineReady asks the controller's address, whoever answers there.
BecomesReady(s) ==
    /\ pc[s] = "ready"
    /\ \E p \in Pids : proc[p] = "serving"
    /\ Goto(s, "wait")
    /\ UNCHANGED <<child, cancelled, table, file, stopVars>>

ReadyTimeout(s) ==
    /\ pc[s] = "ready"
    /\ \A p \in Pids : proc[p] # "serving"
    /\ Goto(s, "giveUp")
    /\ UNCHANGED <<child, cancelled, table, file, stopVars>>

\* Wrong on purpose: an engine that does not get ready is not terminated.
GiveUpLeaving(s) ==
    /\ pc[s] = "giveUp"
    /\ Goto(s, "remove")
    /\ UNCHANGED <<child, cancelled, table, file, stopVars>>

GiveUp(s) ==
    /\ pc[s] = "giveUp"
    /\ proc' = Killed(s, child[s])
    /\ Goto(s, "remove")
    /\ UNCHANGED <<child, cancelled, rooted, file, stopVars>>

\* Wrong on purpose: the start polls processRunning instead of waiting for its child.
WaitPolls(s) ==
    /\ pc[s] = "wait"
    /\ ~processRunning(s, child[s])
    /\ Goto(s, "remove")
    /\ child' = [child EXCEPT ![s] = None]
    /\ UNCHANGED <<cancelled, table, file, stopVars>>

\* cmd.Wait reaps the engine.
WaitReturns(s) ==
    /\ pc[s] = "wait"
    /\ proc[child[s]] = "zombie"
    /\ Free(child[s])
    /\ Goto(s, "remove")
    /\ child' = [child EXCEPT ![s] = None]
    /\ UNCHANGED <<cancelled, file, stopVars>>

\* The deferred removeProcessState: whatever the state file names by now.
RemoveState(s) ==
    /\ pc[s] = "remove"
    /\ removeProcessState
    /\ Return(s)
    /\ UNCHANGED <<cancelled, table, stopVars>>

\* SIGINT or SIGTERM cancels the context of a start ...
Cancel(s) ==
    /\ pc[s] \notin {"done", "killed"}
    /\ ~cancelled[s]
    /\ cancelled' = [cancelled EXCEPT ![s] = TRUE]
    /\ UNCHANGED <<pc, child, table, file, stopVars>>

\* ... and exec.CommandContext kills the engine of a cancelled context.
ContextKills(s) ==
    /\ pc[s] \in Holding
    /\ cancelled[s]
    /\ Live(child[s])
    /\ proc' = Killed(s, child[s])
    /\ UNCHANGED <<startVars, rooted, file, stopVars>>

\* SIGKILL, or the machine's memory killer, ends a start: nothing deferred runs and
\* its engine lives on.
Crash(s) ==
    /\ pc[s] \in Active
    /\ Goto(s, "killed")
    /\ UNCHANGED <<child, cancelled, table, file, stopVars>>

StartStep(s) ==
    \/ PreflightFails(s) \/ CheckPasses(s) \/ CheckRefuses(s) \/ Spawn(s)
    \/ SpawnFails(s) \/ Truncate(s) \/ Fill(s) \/ RecordFails(s) \/ Abort(s)
    \/ BecomesReady(s) \/ ReadyTimeout(s) \/ GiveUp(s)
    \/ WaitReturns(s) \/ RemoveState(s)

-----------------------------------------------------------------------------
(* homoscale stop.                                                         *)

StopGoto(k, place) == stopPc' = [stopPc EXCEPT ![k] = place]

\* An absent file and one that does not parse are the same to readProcessState.
StopReads(k) ==
    /\ stopPc[k] = "init"
    /\ file \in Pids
    /\ seen' = [seen EXCEPT ![k] = file]
    /\ StopGoto(k, "probe")
    /\ UNCHANGED <<startVars, table, file>>

StopReadsNothing(k) ==
    /\ stopPc[k] = "init"
    /\ file \notin Pids
    /\ StopGoto(k, "notRunning")
    /\ UNCHANGED <<startVars, table, file, seen>>

StopProbes(k) ==
    /\ stopPc[k] = "probe"
    /\ StopGoto(k, IF processRunning(k, seen[k]) THEN "interrupt" ELSE "stale")
    /\ UNCHANGED <<startVars, table, file, seen>>

StopRemovesStale(k) ==
    /\ stopPc[k] = "stale"
    /\ removeProcessState
    /\ StopGoto(k, "notRunning")
    /\ UNCHANGED <<startVars, table, seen>>

\* terminateProcess: an interrupt, to which the process may or may not end (any
\* process may end at any time here), at most two seconds, then SIGKILL for
\* whatever still runs under the pid.
StopInterrupts(k) ==
    /\ stopPc[k] = "interrupt"
    /\ StopGoto(k, "kill")
    /\ UNCHANGED <<startVars, table, file, seen>>

\* Wrong on purpose: after the interrupt nothing makes sure the engine ends.
StopTrusts(k) ==
    /\ stopPc[k] = "kill"
    /\ StopGoto(k, "remove")
    /\ UNCHANGED <<startVars, table, file, seen>>

StopKills(k) ==
    /\ stopPc[k] = "kill"
    /\ proc' = Killed(k, seen[k])
    /\ StopGoto(k, "remove")
    /\ UNCHANGED <<startVars, rooted, file, seen>>

StopRemoves(k) ==
    /\ stopPc[k] = "remove"
    /\ removeProcessState
    /\ StopGoto(k, "stopped")
    /\ UNCHANGED <<startVars, table, seen>>

StopStep(k) ==
    \/ StopReads(k) \/ StopReadsNothing(k) \/ StopProbes(k) \/ StopRemovesStale(k)
    \/ StopInterrupts(k) \/ StopKills(k) \/ StopRemoves(k)

-----------------------------------------------------------------------------
(* The engine and the operating system, as the code above uses them.       *)

Become(p, state) == /\ proc' = [proc EXCEPT ![p] = state]
                    /\ UNCHANGED <<startVars, rooted, file, stopVars>>

\* One engine at a time binds the controller's address.
EngineServes(p) ==
    /\ proc[p] = "up"
    /\ \A q \in Pids : proc[q] # "serving"
    /\ Become(p, "serving")

\* An engine may end on its own at any time; a killed one ends for certain.
EngineEnds(p) == Live(p) /\ Become(p, "zombie")
KillTakesEffect(p) == proc[p] = "dying" /\ Become(p, "zombie")

\* The child of a start that has exited or crashed is reaped by init.
InitReaps(p) ==
    /\ proc[p] = "zombie"
    /\ \A s \in Starters : pc[s] \in Active => child[s] # p
    /\ Free(p)
    /\ UNCHANGED <<startVars, file, stopVars>>

\* A pid is given to a program that is not homoscale's, root's or the user's, which
\* ends at will.
ForeignStarts(p) ==
    /\ p \in Reused
    /\ proc[p] = "free"
    /\ proc' = [proc EXCEPT ![p] = "foreign"]
    /\ rooted' \in {rooted, rooted \cup {p}}
    /\ UNCHANGED <<startVars, file, stopVars>>

ForeignEnds(p) ==
    /\ proc[p] = "foreign"
    /\ Free(p)
    /\ UNCHANGED <<startVars, file, stopVars>>

SystemStep(p) ==
    \/ EngineServes(p) \/ EngineEnds(p) \/ KillTakesEffect(p) \/ InitReaps(p)
    \/ ForeignStarts(p) \/ ForeignEnds(p)

-----------------------------------------------------------------------------
Next ==
    \/ \E s \in Starters : StartStep(s) \/ Cancel(s) \/ ContextKills(s) \/ Crash(s)
    \/ \E k \in Stoppers : StopStep(k)
    \/ \E p \in Pids : SystemStep(p)

Spec == Init /\ [][Next]_vars

\* A start that is past its check and a stop that has read a pid go on by
\* themselves, the context's goroutine is scheduled, and a killed process dies.
\* Nothing makes a user run a command, nor an engine serve or end.
StartRuns(s) == pc[s] \in Active /\ StartStep(s)
StopRuns(k)  == stopPc[k] \in StopBusy /\ StopStep(k)

Fairness ==
    /\ \A s \in Starters : WF_vars(StartRuns(s)) /\ WF_vars(ContextKills(s))
    /\ \A k \in Stoppers : WF_vars(StopRuns(k))
    /\ \A p \in Pids : WF_vars(KillTakesEffect(p))

FairSpec == Spec /\ Fairness

-----------------------------------------------------------------------------
(* The commands used one after the other, by one user.  Nothing in the code *)
(* keeps two commands from interleaving, or a plain user from working      *)
(* beside root's engine; SerialSpec is what an operator observes who lets  *)
(* neither happen, and states exactly how much must not.                   *)

\* A start that has nothing left to do to the state file before its engine ends.
Settled(t) == \/ pc[t] \in {"init", "done", "killed"}
              \/ pc[t] \in {"ready", "wait"} /\ Live(child[t])

\* A command that may signal whatever engine runs: root's engine is not left to a
\* plain start or stop, which would take it for one that does not run,
Permitted(c) == \A p \in Pids : Live(p) => MaySignal(c, p)
\* a start passes its check once the other starts are settled and no stop is busy,
Quiet(s) == /\ \A t \in Starters \ {s} : Settled(t)
            /\ \A k \in Stoppers : stopPc[k] \notin StopBusy
\* a stop begins when no start is between its check and its record,
NoLaunch == \A s \in Starters : pc[s] \notin Launching
\* and no start is killed there, which leaves an engine nobody has recorded.
Serial ==
    /\ \A s \in Starters :
         /\ pc[s] = "init" /\ pc'[s] = "spawn" => Quiet(s) /\ Permitted(s)
         /\ pc[s] \in Launching => pc'[s] # "killed"
    /\ \A k \in Stoppers :
         stopPc[k] = "init" /\ stopPc'[k] # "init" => NoLaunch /\ Permitted(k)

SerialSpec == Init /\ [][Next /\ Serial]_vars

-----------------------------------------------------------------------------
(* Properties.                                                             *)

\* However the commands interleave and fail, a start never returns and leaves its
\* engine running: an engine that runs has a start that will still end it or wait
\* for it, unless that start was killed (StartEngine's terminateProcess calls).
NoStrayEngine ==
    \A p \in Pids : Live(p) =>
        \E s \in Starters : child[s] = p /\ pc[s] \in Holding \cup {"killed"}

\* Commands that do not overlap, by users who may signal the engine that runs, leave
\* at most one engine running, also with the orphaned engine of a start that was
\* killed while it waited (the "already running" check).
AtMostOneEngine == \A p, q \in Pids : Live(p) /\ Live(q) => p = q

\* ... and the state file names the engine that runs, so that stop can find it,
\* whenever no start is still on its way to record it.
EngineIsRecorded == NoLaunch => \A p \in Pids : Live(p) => file = p

\* ... and whatever a stop of such a user reports, "not running" or "engine stopped",
\* no engine runs at that moment.
StopTellsTheTruth ==
    [][\A k \in Stoppers :
         stopPc[k] # stopPc'[k] /\ stopPc'[k] \in {"notRunning", "stopped"} =>
            \A p \in Pids : ~Live(p)]_vars

\* README.md:98: "Stop the managed proxy engine. If `homoscale start` is running in
\* another terminal, it will exit after the engine stops": a stop does not report
\* "not running" while a start waits on an engine that runs.
StopFindsTheEngine ==
    [][\A k \in Stoppers :
         stopPc[k] # "notRunning" /\ stopPc'[k] = "notRunning" =>
            ~\E s \in Starters : pc[s] = "wait" /\ Live(child[s])]_vars

\* "it will exit after the engine stops" (README.md:98).
ExitsAfterEngineStops ==
    \A s \in Starters :
        pc[s] = "wait" /\ ~Live(child[s]) ~> pc[s] \in {"done", "killed"}

\* Ctrl-C or SIGTERM, wherever the start is.
CancelledStartReturns ==
    \A s \in Starters :
        pc[s] \in Active /\ cancelled[s] ~> pc[s] \in {"done", "killed"}

\* terminateProcess waits for two seconds at most.
StopReports ==
    \A k \in Stoppers :
        stopPc[k] \in StopBusy ~> stopPc[k] \in {"notRunning", "stopped"}

\* However commands overlap, each comes back: a start whose engine has ended or been
\* killed by another command, a start that is cancelled anywhere, also while another
\* engine answers on the controller it waits for, and a stop that has found a pid.
CommandsReturn == ExitsAfterEngineStops /\ CancelledStartReturns /\ StopReports

-----------------------------------------------------------------------------
(* SerialSpec implements EngineSlot: the slot holds the engine that runs.   *)

slotOf == IF \E p \in Pids : Live(p) THEN CHOOSE p \in Pids : Live(p) ELSE None

reportOf == [k \in Stoppers |->
                IF stopPc[k] \in {"notRunning", "stopped"} THEN stopPc[k] ELSE "none"]

Slot == INSTANCE EngineSlot WITH Engines <- Pids, Stops <- Stoppers, Empty <- None,
                                 slot <- slotOf, report <- reportOf

\* Commands that do not overlap, by users who may signal the engine that runs, see
\* one engine slot, which a start fills only when it is empty and which is empty
\* whenever a stop reports, also when a removal of the state file has failed.
ImplementsSlot == Slot!Spec
=============================================================================
