----------------------------- MODULE HostFootprint -----------------------------
(***************************************************************************)
(* What a desktop session leaves on the host: the system resolver's file   *)
(* (resolver.go) and the pid file of a background session (daemon.go), with *)
(* the part of the start command and of the supervisor that creates and     *)
(* removes them (cli.go, runtime.go, engine_runtime_exec.go).  A resolver  *)
(* file that is there can be read, except by a closer; the pid file, which *)
(* nothing reads, can be removed.                                          *)
(*                                                                         *)
(* A member of Procs is one session's process: in the foreground, or in the *)
(* background, the child of a "homoscale -d" that writes its pid and leaves. *)
(* Sessions may overlap, fail at every step, be signalled and be killed.   *)
(***************************************************************************)
EXTENDS FiniteSets

CONSTANTS
    Procs,      \* the sessions' processes, each of which runs once
    Foreground, \* those that may be started in the foreground
    Root,       \* those that are root's
    Suffixes,   \* MagicDNS suffixes, each of which is a file name in /etc/resolver
    NoProc,
    NoSuffix

ASSUME ProcsAssumption == Foreground \subseteq Procs /\ Root \subseteq Procs
ASSUME NoneAssumption ==
    /\ {NoProc, "none", "user", "empty"} \cap Procs = {}
    /\ NoSuffix \notin Suffixes

VARIABLES
    pc,         \* where each process is
    parent,     \* what the "homoscale -d" that started it has done, if one did
    signalled,  \* whether its context has been cancelled by a signal
    engine,     \* whether its engine process runs
    state,      \* the process whose engine the engine's state file names
    pidFile,    \* the process that homoscale.pid names, if it is there and whole
    suffix,     \* the suffix that the Tailscale status gives
    file,       \* what each resolver file is: none, the user's, empty, or written by a process
    at,         \* the resolver file each process has set out to write
    closer,     \* whether it still has to remove that file; it stays so when it fails to
    opened      \* whether the file it has opened is still the one at that path

launch   == <<parent, pidFile>>
engines  == <<engine, state>>
resolver == <<file, at, closer, opened>>
vars     == <<pc, launch, signalled, engines, suffix, resolver>>

\* isManagedResolverFile: an empty file is not.
Managed(content) == content \in Procs

Background(p) == parent[p] # "none"

Over    == {"ended", "dead"}
Running == {p \in Procs : pc[p] \notin Over \cup {"new"}}

TypeOK ==
    /\ pc \in [Procs -> {"new", "boot", "net", "spawn", "ready", "look", "open", "fill",
                         "serve", "close", "remove", "state", "pid"} \cup Over]
    /\ signalled \in [Procs -> BOOLEAN]
    /\ parent \in [Procs -> {"none", "write", "wrote", "late"}]
    /\ engine \in [Procs -> BOOLEAN]
    /\ state \in Procs \cup {NoProc}
    /\ pidFile \in Procs \cup {NoProc}
    /\ suffix \in Suffixes \cup {NoSuffix}
    /\ file \in [Suffixes -> Procs \cup {"none", "user", "empty"}]
    /\ at \in [Procs -> Suffixes \cup {NoSuffix}]
    /\ closer \in [Procs -> BOOLEAN] /\ opened \in [Procs -> BOOLEAN]
    /\ \A p \in Procs : closer[p] \/ opened[p] => at[p] # NoSuffix
    /\ \A p \in Procs : engine[p] => pc[p] \notin {"new", "boot", "net", "spawn"}

Init ==
    /\ pc = [p \in Procs |-> "new"]
    /\ parent = [p \in Procs |-> "none"]
    /\ signalled = [p \in Procs |-> FALSE]
    /\ engine = [p \in Procs |-> FALSE]
    /\ state = NoProc /\ pidFile = NoProc
    /\ suffix \in Suffixes \cup {NoSuffix}
    /\ file \in [Suffixes -> {"none", "user"}]
    /\ at = [p \in Procs |-> NoSuffix]
    /\ closer = [p \in Procs |-> FALSE]
    /\ opened = [p \in Procs |-> FALSE]

Set(f, p, v) == [f EXCEPT ![p] = v]
Goto(p, place) == pc' = Set(pc, p, place)
Step(p, from, to) == pc[p] = from /\ Goto(p, to)

-----------------------------------------------------------------------------
(* runStart and, for -d, startDaemonProcess in a process of its own.       *)

StartsForeground(p) ==
    /\ p \in Foreground /\ Step(p, "new", "boot")
    /\ UNCHANGED <<launch, signalled, engines, suffix, resolver>>

StartsDaemon(p) ==
    /\ Step(p, "new", "boot")
    /\ parent' = Set(parent, p, "write")
    /\ UNCHANGED <<pidFile, signalled, engines, suffix, resolver>>

\* The child may be over by now: its parent does not ask.
WritesPid(p) ==
    /\ parent[p] = "write"
    /\ pidFile' = p
    /\ parent' = Set(parent, p, IF pc[p] \in Over THEN "late" ELSE "wrote")
    /\ UNCHANGED <<pc, signalled, engines, suffix, resolver>>

\* The file cannot be opened, or is cut short; the child is killed without its cleanup.
PidWriteFails(p) ==
    /\ parent[p] = "write"
    /\ pidFile' \in {pidFile, NoProc}
    /\ parent' = Set(parent, p, "late")
    /\ IF p \in Running THEN Goto(p, "dead") ELSE UNCHANGED pc
    /\ UNCHANGED <<signalled, engines, suffix, resolver>>

\* The arguments or the configuration are wrong: the pid file's removal is not deferred yet.
BootFails(p) ==
    /\ Step(p, "boot", "dead")
    /\ UNCHANGED <<launch, signalled, engines, suffix, resolver>>

\* Wrong on purpose: the child clears the pid file of an earlier session away.
BootsAfresh(p) ==
    /\ Step(p, "boot", "net")
    /\ pidFile' = IF Background(p) THEN NoProc ELSE pidFile
    /\ UNCHANGED <<parent, signalled, engines, suffix, resolver>>

Boots(p) ==
    /\ Step(p, "boot", "net")
    /\ UNCHANGED <<launch, signalled, engines, suffix, resolver>>

\* removeDaemonPIDFile, deferred by a child: whichever pid the file holds.
RemovesPid(p) ==
    /\ Step(p, "pid", "ended")
    /\ pidFile' = IF Background(p) THEN NoProc ELSE pidFile
    /\ UNCHANGED <<parent, signalled, engines, suffix, resolver>>

-----------------------------------------------------------------------------
(* StartHomoscale and StartEngine.  What fails goes on with what is deferred *)
(* so far.                                                                 *)

\* An error, a check that fails, or the signal: without one it may wait for a login for ever.
NetFails(p) ==
    /\ Step(p, "net", "pid")
    /\ UNCHANGED <<launch, signalled, engines, suffix, resolver>>

\* The state file's pid gets signal 0, which a plain user may not send to a process of root's.
AlreadyRunning(p) == state # NoProc /\ engine[state] /\ (p \in Root \/ state \notin Root)

\* Tailscale is up, and the checks before the engine is started pass.
ChecksPass(p) ==
    /\ ~signalled[p] /\ ~AlreadyRunning(p)
    /\ Step(p, "net", "spawn")
    /\ UNCHANGED <<launch, signalled, engines, suffix, resolver>>

\* exec.CommandContext starts nothing once its context is done.
Spawns(p) ==
    /\ ~signalled[p] /\ Step(p, "spawn", "ready")
    /\ engine' = Set(engine, p, TRUE)
    /\ state' = p
    /\ UNCHANGED <<launch, signalled, suffix, resolver>>

SpawnFails(p) ==
    /\ Step(p, "spawn", "pid")
    /\ UNCHANGED <<launch, signalled, engines, suffix, resolver>>

\* Any engine that answers on the controller's address will do.
Ready(p) ==
    /\ \E q \in Procs : engine[q]
    /\ Step(p, "ready", "look")
    /\ UNCHANGED <<launch, signalled, engines, suffix, resolver>>

\* Wrong on purpose: a cancelled wait is left to somebody else.
TimeoutUnlessCancelled(p) ==
    /\ ~signalled[p] /\ Step(p, "ready", "state")
    /\ engine' = Set(engine, p, FALSE)
    /\ UNCHANGED <<launch, signalled, state, suffix, resolver>>

\* After 15 seconds, whatever the context says.
ReadyTimeout(p) ==
    /\ Step(p, "ready", "state")
    /\ engine' = Set(engine, p, FALSE)
    /\ UNCHANGED <<launch, signalled, state, suffix, resolver>>

\* cmd.Wait: the engine's exit, or its kill when the context is done.
WaitReturns(p) ==
    /\ ~engine[p] /\ Step(p, "serve", "close")
    /\ UNCHANGED <<launch, signalled, engines, suffix, resolver>>

\* removeProcessState, whose error is dropped, then the Tailscale runtime's end.
RemovesState(p) ==
    /\ Step(p, "state", "pid")
    /\ state' \in {state, NoProc}
    /\ UNCHANGED <<launch, signalled, engine, suffix, resolver>>

-----------------------------------------------------------------------------
(* installSystemResolver and its closer.                                   *)

\* There is none, or a managed one; the name is fixed from here on.
Looks(p) ==
    /\ suffix # NoSuffix /\ Step(p, "look", "open")
    /\ file[suffix] = "none" \/ Managed(file[suffix])
    /\ at' = Set(at, p, suffix)
    /\ UNCHANGED <<launch, signalled, engines, suffix, file, closer, opened>>

\* No suffix, somebody else's file, or no right to write: a warning, and no closer.
LeavesAlone(p) ==
    /\ Step(p, "look", "serve")
    /\ UNCHANGED <<launch, signalled, engines, suffix, resolver>>

\* os.WriteFile truncates, then writes to what it has opened.
Opens(p) ==
    /\ Step(p, "open", "fill")
    /\ file' = Set(file, at[p], "empty")
    /\ opened' = Set(opened, p, TRUE)
    /\ UNCHANGED <<launch, signalled, engines, suffix, at, closer>>

OpenFails(p) ==
    /\ Step(p, "open", "serve")
    /\ UNCHANGED <<launch, signalled, engines, suffix, resolver>>

Fills(p) ==
    /\ Step(p, "fill", "serve")
    /\ file' = IF opened[p] THEN Set(file, at[p], p) ELSE file
    /\ closer' = Set(closer, p, TRUE)
    /\ opened' = Set(opened, p, FALSE)
    /\ UNCHANGED <<launch, signalled, engines, suffix, at>>

\* Wrong on purpose: the write's error is lost.
FillFailsUnseen(p) ==
    /\ Step(p, "fill", "serve")
    /\ closer' = Set(closer, p, TRUE)
    /\ opened' = Set(opened, p, FALSE)
    /\ UNCHANGED <<launch, signalled, engines, suffix, file, at>>

FillFails(p) ==
    /\ Step(p, "fill", "serve")
    /\ opened' = Set(opened, p, FALSE)
    /\ UNCHANGED <<launch, signalled, engines, suffix, file, at, closer>>

\* Wrong on purpose: the closer looks up the suffix again.
ClosesCurrent(p) ==
    /\ Step(p, "close", IF closer[p] /\ suffix # NoSuffix /\ Managed(file[suffix]) THEN "remove" ELSE "state")
    /\ at' = IF suffix # NoSuffix THEN Set(at, p, suffix) ELSE at
    /\ closer' = IF pc'[p] = "state" THEN Set(closer, p, FALSE) ELSE closer
    /\ UNCHANGED <<launch, signalled, engines, suffix, file, opened>>

\* removeManagedResolverFile reads the file ...
ClosesManaged(p) ==
    /\ closer[p] /\ Managed(file[at[p]])
    /\ Step(p, "close", "remove")
    /\ UNCHANGED <<launch, signalled, engines, suffix, resolver>>

\* ... leaves none, or one that is not managed ...
Closes(p) ==
    /\ ~(closer[p] /\ Managed(file[at[p]]))
    /\ Step(p, "close", "state")
    /\ closer' = Set(closer, p, FALSE)
    /\ UNCHANGED <<launch, signalled, engines, suffix, file, at, opened>>

\* ... and removes whatever is there by then.  Who has it open goes on writing to no file.
Removes(p) ==
    /\ Step(p, "remove", "state")
    /\ file' = Set(file, at[p], "none")
    /\ opened' = [q \in Procs |-> opened[q] /\ at[q] # at[p]]
    /\ closer' = Set(closer, p, FALSE)
    /\ UNCHANGED <<launch, signalled, engines, suffix, at>>

\* It cannot be read or removed: StartEngine drops the closer's error.
RemovalFails(p) ==
    /\ closer[p] /\ pc[p] \in {"close", "remove"}
    /\ Goto(p, "state")
    /\ UNCHANGED <<launch, signalled, engines, suffix, resolver>>

-----------------------------------------------------------------------------
(* Everybody else.                                                         *)

\* SIGINT or SIGTERM: caught from the context's creation until its deferred end.
Signals(p) ==
    /\ p \in Running /\ ~signalled[p]
    /\ signalled' = Set(signalled, p, TRUE)
    /\ IF pc[p] \in {"boot", "pid"} THEN Goto(p, "dead") ELSE UNCHANGED pc
    /\ UNCHANGED <<launch, engines, suffix, resolver>>

Kills(p) ==
    /\ p \in Running /\ Goto(p, "dead")
    /\ UNCHANGED <<launch, signalled, engines, suffix, resolver>>

\* A crash, a stop command or the session's context.
EngineEnds(p) ==
    /\ engine[p] /\ engine' = Set(engine, p, FALSE)
    /\ UNCHANGED <<pc, launch, signalled, state, suffix, resolver>>

\* Another tailnet, or none.
SuffixChanges ==
    /\ suffix' \in (Suffixes \cup {NoSuffix}) \ {suffix}
    /\ UNCHANGED <<pc, launch, signalled, engines, resolver>>

\* By hand, and not within the moment between a process's look at the file and its change.
UserEdits(s) ==
    /\ file[s] \in {"none", "empty", "user"}
    /\ \A p \in Running : pc[p] \notin {"open", "fill", "remove"}
    /\ file' = Set(file, s, IF file[s] = "user" THEN "none" ELSE "user")
    /\ UNCHANGED <<pc, launch, signalled, engines, suffix, at, closer, opened>>

Works(p) ==
    \/ BootFails(p) \/ Boots(p) \/ RemovesPid(p)
    \/ Spawns(p) \/ SpawnFails(p)
    \/ Ready(p) \/ ReadyTimeout(p)
    \/ WaitReturns(p) \/ RemovesState(p)
    \/ Looks(p) \/ LeavesAlone(p) \/ Opens(p) \/ OpenFails(p) \/ Fills(p) \/ FillFails(p)
    \/ ClosesManaged(p) \/ Closes(p) \/ Removes(p) \/ RemovalFails(p)

Session(p) ==
    \/ StartsForeground(p) \/ StartsDaemon(p) \/ WritesPid(p) \/ PidWriteFails(p)
    \/ ChecksPass(p) \/ NetFails(p) \/ Works(p)

Others ==
    \/ \E p \in Procs : Signals(p) \/ Kills(p) \/ EngineEnds(p)
    \/ SuffixChanges
    \/ \E s \in Suffixes : UserEdits(s)

Next == (\E p \in Procs : Session(p)) \/ Others

Spec == Init /\ [][Next]_vars

\* A process runs; a cancelled context ends its wait for a login and kills its engine.
\* Nothing makes an engine get ready or end, or the user do anything.
FairSpec ==
    /\ Spec
    /\ \A p \in Procs :
         /\ WF_vars(Works(p) \/ (signalled[p] /\ NetFails(p)))
         /\ WF_vars(signalled[p] /\ p \in Running /\ EngineEnds(p))

-----------------------------------------------------------------------------
(* Properties.                                                             *)

\* A session that has ended as it should leaves no resolver file of its work but one whose
\* removal failed, also when sessions with one suffix overlap, or the suffix has changed in
\* between: its closer has removed the file it wrote, or found it taken by another session.
NoResolverLeft ==
    \A s \in Suffixes : Managed(file[s]) /\ pc[file[s]] = "ended" => closer[file[s]]

\* A session that serves keeps the resolver file it has installed, unless another one has
\* set out to write the same file: only such a one can cut it short or remove it at its end.
LoneSessionKeepsResolver ==
    \A p \in Procs :
        pc[p] = "serve" /\ closer[p] /\ (\A q \in Procs \ {p} : at[q] # at[p]) => file[at[p]] = p

\* resolver_test.go: a resolver file that homoscale does not manage stays as it is.
UserFileKept ==
    [][\A s \in Suffixes : file[s] = "user" /\ file'[s] # "user" => UserEdits(s)]_vars

\* A pid file that names a session which has ended as it should was written by a parent
\* that came too late.  One that was killed, or quit before it deferred the removal, may
\* be named for good.
StalePidIsLateWrite ==
    \A p \in Procs : pidFile = p /\ pc[p] = "ended" => parent[p] = "late"

\* The pid file has had to do with another background session than p: its parent has
\* written the file, or tried to, or the session has removed it at its end.
Meddled(p) ==
    \E q \in Procs \ {p} :
        parent[q] \in {"wrote", "late"} \/ (Background(q) /\ pc[q] = "ended")

\* What nobody but other background sessions' parents and ends can do: the pid file of a
\* session that serves is not missing, cut short or somebody else's, whatever foreground
\* sessions do meanwhile, nor does it name one that has ended, unless its parent was late.
PidFileUnlessMeddled ==
    /\ StalePidIsLateWrite
    /\ \A p \in Procs : pc[p] = "serve" /\ parent[p] = "wrote" /\ ~Meddled(p) => pidFile = p

\* A session that is signalled ends, wherever it is.
SignalEnds == \A p \in Procs : signalled[p] ~> pc[p] \in Over
=============================================================================
