--------------------------- MODULE TailscaleSnapshot ---------------------------
(***************************************************************************)
(* The embedded Tailscale runtime of a session and the snapshot it         *)
(* publishes, runtime-status.json (auth.go): StartTailscaleRuntime, the    *)
(* goroutine watchStatus that rewrites the file, Close, and those who read  *)
(* it: the status of another command or call, and the session's own engine *)
(* configuration (buildTailscaleRouting).                                  *)
(*                                                                         *)
(* On the desktop each session is a homoscale start, a process of its own; *)
(* in the Android app the sessions are goroutines of one process, one      *)
(* after the other (BridgeSession's OneSession).                           *)
(***************************************************************************)
CONSTANTS
    Sessions,   \* the sessions
    Readers,    \* the calls of ReadAuthStatus, some after a login or a logout
    Sudo,       \* the sessions and readers that run as root (README.md:84)
    InApp,      \* whether the sessions live in the Android app's process
    None,       \* no file, nothing read
    Partial     \* a file that does not parse: being written, or written twice over

ASSUME SnapshotAssumption ==
    /\ InApp \in BOOLEAN
    /\ Sudo \subseteq Sessions \cup Readers
    /\ InApp => Sudo = {}
    /\ Sessions \cap {None, Partial} = {}
    /\ None # Partial

VARIABLES
    at,         \* where each session is
    server,     \* its tsnet server: "none", "open" or "closed"
    cancelled,  \* whether its context is cancelled
    watcher,    \* where its watchStatus goroutine is
    exited,     \* whether its process has ended
    file,       \* what the snapshot file holds
    linked,     \* the sessions that write to the file with that name, not a removed one
    got,        \* what each session's engine configuration has read and not looked at yet
    readAt,     \* where each reader is
    readGot     \* what it has read and not looked at yet

fileVars    == <<file, linked>>
readerVars  == <<readAt, readGot>>
vars == <<at, server, cancelled, watcher, exited, file, linked, got, readAt, readGot>>

Place == {"unused", "up", "writing", "route", "check", "suffix", "checkSuffix", "auth",
          "checkAuth", "fallback", "serve", "close", "shut", "over"}
WatcherPlace == {"none", "idle", "polled", "writing", "over"}
Contents == Sessions \cup {None, Partial}

TypeOK ==
    /\ at \in [Sessions -> Place]
    /\ server \in [Sessions -> {"none", "open", "closed"}]
    /\ cancelled \in [Sessions -> BOOLEAN]
    /\ watcher \in [Sessions -> WatcherPlace]
    /\ exited \in [Sessions -> BOOLEAN]
    /\ file \in Contents
    /\ linked \subseteq Sessions
    /\ file = None => linked = {}
    /\ got \in [Sessions -> Contents]
    /\ readAt \in [Readers -> {"init", "login", "loaded", "second", "done"}]
    /\ readGot \in [Readers -> Contents]

Init ==
    /\ at = [s \in Sessions |-> "unused"]
    /\ server = [s \in Sessions |-> "none"]
    /\ cancelled = [s \in Sessions |-> FALSE]
    /\ watcher = [s \in Sessions |-> "none"]
    /\ exited = [s \in Sessions |-> FALSE]
    /\ file = None
    /\ linked = {}
    /\ got = [s \in Sessions |-> None]
    /\ readAt = [r \in Readers |-> "init"]
    /\ readGot = [r \in Readers |-> None]

-----------------------------------------------------------------------------
(* The file.                                                               *)

\* os.WriteFile opens and truncates, ...
TruncateBy(s) == file' = Partial /\ linked' = linked \cup {s}

\* ... and writes: to the file of that name, unless it has been removed since.  Over
\* what another has written in between, the longer of the two shows through.
FillBy(s) ==
    /\ linked' = linked \ {s}
    /\ \/ s \notin linked /\ file' = file
       \/ s \in linked /\ file' = s
       \/ s \in linked /\ file # Partial /\ file' = Partial

Removed == file' = None /\ linked' = {}

\* readRuntimeAuthSnapshot keeps a snapshot if a signal to its pid (processRunning)
\* gets through: for a session that runs, unless it is root's and the asking session or
\* reader is not; for one that has exited, if somebody else has got the pid.
Taken(a, t)    == InApp \/ exited[t] \/ a \in Sudo \/ t \notin Sudo
Rejected(a, t) == ~InApp /\ (exited[t] \/ (a \notin Sudo /\ t \in Sudo))

\* What a has read is no snapshot, or one that it rejects and removes, if it may.
Misses(a, content) ==
    \/ content \in {None, Partial} /\ UNCHANGED fileVars
    \/ content \in Sessions /\ Rejected(a, content) /\ (Removed \/ UNCHANGED fileVars)

-----------------------------------------------------------------------------
(* A session: StartTailscaleRuntime, StartEngine, Close.                   *)

Moves(s, from, to) ==
    /\ at[s] = from
    /\ at' = [at EXCEPT ![s] = to]
    /\ UNCHANGED <<exited, readerVars>>

Forget(s) == got' = [got EXCEPT ![s] = None]
Open(s)  == server' = [server EXCEPT ![s] = "open"]
Shut(s)  == server' = [server EXCEPT ![s] = "closed"]

\* The server is created and coming up.
Begin(s) ==
    /\ Moves(s, "unused", "up")
    /\ InApp => \A t \in Sessions : at[t] \in {"unused", "over"}
    /\ Open(s)
    /\ UNCHANGED <<cancelled, watcher, fileVars, got>>

\* Up, the local client, the advertised routes or the loopback listener fail.
UpFails(s) ==
    /\ Moves(s, "up", "over")
    /\ Shut(s)
    /\ UNCHANGED <<cancelled, watcher, fileVars, got>>

WriteBegins(s) ==
    /\ Moves(s, "up", "writing")
    /\ TruncateBy(s)
    /\ UNCHANGED <<server, cancelled, watcher, got>>

\* Wrong on purpose: the server is left open when the snapshot cannot be written.
WriteFailsOpen(s) ==
    /\ at[s] \in {"up", "writing"}
    /\ Moves(s, at[s], "over")
    /\ linked' = linked \ {s}
    /\ UNCHANGED <<server, cancelled, watcher, file, got>>

WriteFails(s) ==
    /\ at[s] \in {"up", "writing"}
    /\ Moves(s, at[s], "over")
    /\ Shut(s)
    /\ linked' = linked \ {s}
    /\ UNCHANGED <<cancelled, watcher, file, got>>

\* The snapshot is written and watchStatus starts.
Written(s) ==
    /\ Moves(s, "writing", "route")
    /\ FillBy(s)
    /\ watcher' = [watcher EXCEPT ![s] = "idle"]
    /\ UNCHANGED <<server, cancelled, got>>

\* The summary cannot be printed, or the engine refuses to start.
EngineRefuses(s) ==
    /\ Moves(s, "route", "close")
    /\ UNCHANGED <<server, cancelled, watcher, fileVars, got>>

\* A configuration of the user's own is not generated.
RouteSkipped(s) ==
    /\ Moves(s, "route", "serve")
    /\ UNCHANGED <<server, cancelled, watcher, fileVars, got>>

\* buildTailscaleRouting reads the snapshot for the listener; tailscaleMagicDNSSuffix
\* reads it again, and once more in ReadAuthStatus, which without one opens a second
\* server on the same state directory and closes it on every path out.
Reading == [route |-> "check",  suffix |-> "checkSuffix",      auth |-> "checkAuth"]
IfFound == [check |-> "suffix", checkSuffix |-> "serve",       checkAuth |-> "serve"]
\* "embedded tailscale runtime is not ready", if it is the first read that misses.
IfNot   == [check |-> "close",  checkSuffix |-> "auth",        checkAuth |-> "fallback"]

RouteLoads(s) ==
    /\ at[s] \in DOMAIN Reading
    /\ Moves(s, at[s], Reading[at[s]])
    /\ got' = [got EXCEPT ![s] = file]
    /\ UNCHANGED <<server, cancelled, watcher, fileVars>>

RouteFinds(s) ==
    /\ at[s] \in DOMAIN IfFound
    /\ Moves(s, at[s], IfFound[at[s]])
    /\ got[s] \in Sessions
    /\ Taken(s, got[s])
    /\ Forget(s)
    /\ UNCHANGED <<server, cancelled, watcher, fileVars>>

RouteMisses(s) ==
    /\ at[s] \in DOMAIN IfNot
    /\ Moves(s, at[s], IfNot[at[s]])
    /\ Misses(s, got[s])
    /\ Forget(s)
    /\ UNCHANGED <<server, cancelled, watcher>>

FallbackEnds(s) ==
    /\ Moves(s, "fallback", "serve")
    /\ UNCHANGED <<server, cancelled, watcher, fileVars, got>>

\* <-ctx.Done(), or the engine ends or fails by itself.
EngineReturns(s) ==
    /\ Moves(s, "serve", "close")
    /\ UNCHANGED <<server, cancelled, watcher, fileVars, got>>

\* Close.
CloseRemoves(s) ==
    /\ Moves(s, "close", "shut")
    /\ Removed
    /\ UNCHANGED <<server, cancelled, watcher, got>>

\* Wrong on purpose: Close removes the snapshot and leaves the server open.
CloseForgetsServer(s) ==
    /\ Moves(s, "shut", "over")
    /\ UNCHANGED <<server, cancelled, watcher, fileVars, got>>

CloseServer(s) ==
    /\ Moves(s, "shut", "over")
    /\ Shut(s)
    /\ UNCHANGED <<cancelled, watcher, fileVars, got>>

\* A signal, runStart's return or a call of HomoscaleStopJSON that has found the session
\* cancels the context, whatever the session does by then.
Cancel(s) ==
    /\ at[s] # "unused"
    /\ ~exited[s]
    /\ ~cancelled[s]
    /\ cancelled' = [cancelled EXCEPT ![s] = TRUE]
    /\ UNCHANGED <<at, server, watcher, exited, fileVars, got, readerVars>>

\* A homoscale start exits or is killed, and takes its goroutines and its context with it.
Exit(s) ==
    /\ ~InApp
    /\ at[s] # "unused"
    /\ ~exited[s]
    /\ exited' = [exited EXCEPT ![s] = TRUE]
    /\ at' = [at EXCEPT ![s] = "over"]
    /\ watcher' = [watcher EXCEPT ![s] = "over"]
    /\ Shut(s)
    /\ linked' = linked \ {s}
    /\ cancelled' = [cancelled EXCEPT ![s] = TRUE]
    /\ Forget(s)
    /\ UNCHANGED <<file, readerVars>>

Session(s) ==
    \/ Begin(s) \/ UpFails(s) \/ WriteBegins(s) \/ WriteFails(s) \/ Written(s)
    \/ EngineRefuses(s) \/ RouteSkipped(s) \/ RouteLoads(s) \/ RouteFinds(s)
    \/ RouteMisses(s) \/ FallbackEnds(s) \/ EngineReturns(s) \/ CloseRemoves(s)
    \/ CloseServer(s)

-----------------------------------------------------------------------------
(* watchStatus.                                                            *)

WatcherMoves(s, from, to) ==
    /\ watcher[s] = from
    /\ watcher' = [watcher EXCEPT ![s] = to]
    /\ UNCHANGED <<at, server, cancelled, exited, got, readerVars>>

\* Wrong on purpose: a snapshot is rewritten only when there is one.
WatcherPollsPublished(s) ==
    /\ WatcherMoves(s, "idle", "polled")
    /\ server[s] = "open"
    /\ file = s
    /\ UNCHANGED fileVars

\* A tick: the server must answer.  The next tick may be taken although the context is
\* done as well (select chooses).
WatcherPolls(s) ==
    /\ WatcherMoves(s, "idle", "polled")
    /\ server[s] = "open"
    /\ UNCHANGED fileVars

WatcherTruncates(s) ==
    /\ WatcherMoves(s, "polled", "writing")
    /\ TruncateBy(s)

WatcherFills(s) ==
    /\ WatcherMoves(s, "writing", "idle")
    /\ FillBy(s)

\* An error of the write is ignored.
WatcherWriteFails(s) ==
    /\ watcher[s] \in {"polled", "writing"}
    /\ WatcherMoves(s, watcher[s], "idle")
    /\ linked' = linked \ {s}
    /\ UNCHANGED file

\* Wrong on purpose: Close alone removes the snapshot.
WatcherEndsLeaving(s) ==
    /\ WatcherMoves(s, "idle", "over")
    /\ cancelled[s]
    /\ UNCHANGED fileVars

WatcherEnds(s) ==
    /\ WatcherMoves(s, "idle", "over")
    /\ cancelled[s]
    /\ Removed

Watcher(s) ==
    \/ WatcherPolls(s) \/ WatcherTruncates(s) \/ WatcherFills(s)
    \/ WatcherWriteFails(s) \/ WatcherEnds(s)

-----------------------------------------------------------------------------
(* ReadAuthStatus, LoginTailscale and LogoutTailscale: of a command, a call *)
(* of the app, or a session's resolver or configuration watcher, which want *)
(* the suffix again.                                                       *)

ReaderMoves(r, from, to) ==
    /\ readAt[r] = from
    /\ readAt' = [readAt EXCEPT ![r] = to]
    /\ UNCHANGED <<at, server, cancelled, watcher, exited, got>>

ForgetRead(r) == readGot' = [readGot EXCEPT ![r] = None]

ReadLoads(r) ==
    /\ ReaderMoves(r, "init", "loaded")
    /\ readGot' = [readGot EXCEPT ![r] = file]
    /\ UNCHANGED fileVars

ReadAccepts(r) ==
    /\ ReaderMoves(r, "loaded", "done")
    /\ readGot[r] \in Sessions
    /\ Taken(r, readGot[r])
    /\ ForgetRead(r)
    /\ UNCHANGED fileVars

\* Without a snapshot the reader starts a tsnet server of its own on the same state
\* directory; one that it rejects it removes first, with whatever is in the file by now.
ReadRejects(r) ==
    /\ ReaderMoves(r, "loaded", "second")
    /\ Misses(r, readGot[r])
    /\ ForgetRead(r)

ReadCloses(r) ==
    /\ ReaderMoves(r, "second", "done")
    /\ UNCHANGED <<fileVars, readGot>>

\* A login or a logout starts a tsnet server of its own, whatever the snapshot says, ...
LogsInOrOut(r) ==
    /\ ReaderMoves(r, "init", "login")
    /\ UNCHANGED <<fileVars, readGot>>

\* ... and closes it on every path out.  The app's call then reads the status.
LogInOrOutEnds(r) ==
    /\ ReaderMoves(r, "login", "init")
    /\ UNCHANGED <<fileVars, readGot>>

Reader(r) ==
    \/ ReadLoads(r) \/ ReadAccepts(r) \/ ReadRejects(r) \/ ReadCloses(r)
    \/ LogsInOrOut(r) \/ LogInOrOutEnds(r)

-----------------------------------------------------------------------------
Next ==
    \/ \E s \in Sessions : Session(s) \/ Watcher(s) \/ Cancel(s) \/ Exit(s)
    \/ \E r \in Readers : Reader(r)

Spec == Init /\ [][Next]_vars

\* Goroutines are scheduled, a cancelled engine returns, the ticker ticks and the server
\* answers it, and a write that is tried again and again succeeds.  Nothing makes a
\* server come up, an engine end or a context be cancelled.
Fairness ==
    \A s \in Sessions :
         /\ WF_vars(cancelled[s] /\ EngineReturns(s))
         /\ WF_vars(CloseRemoves(s) \/ CloseServer(s))
         /\ WF_vars(WatcherPolls(s)) /\ WF_vars(Watcher(s) /\ watcher[s] # "idle")
         /\ SF_vars(WatcherTruncates(s)) /\ SF_vars(WatcherFills(s))
         /\ WF_vars(WatcherEnds(s))

FairSpec == Spec /\ Fairness

\* Two starts that overlap write to one file in turn, and a reader finds the snapshot of
\* either, or neither: AloneSpec is for an operator who runs one at a time.
RunsAlone(s) == at[s] = "unused" => \A t \in Sessions : at[t] = "unused" \/ exited[t]

AloneNext ==
    \/ \E s \in Sessions :
         (RunsAlone(s) /\ Session(s)) \/ Watcher(s) \/ Cancel(s) \/ Exit(s)
    \/ \E r \in Readers : Reader(r)

AloneSpec == Init /\ [][AloneNext]_vars /\ Fairness

-----------------------------------------------------------------------------
(* Properties.                                                             *)

\* Every error path of StartTailscaleRuntime and every end of a session closes its
\* server: no session leaves its own on the state directory.
NoServerLeak ==
    \A s \in Sessions :
        server[s] = "open" => at[s] \notin {"unused", "over"}

\* In the app two sessions never have their servers open on the state directory: the
\* next session brings its server up when the former one's is closed.  (The short-lived
\* servers of readers and of a session's own fallback may be open beside it.)
OneServer ==
    InApp => \A s, t \in Sessions : server[s] = "open" /\ server[t] = "open" => s = t

\* In the app the snapshot is not a session's once its watcher has ended, and will not
\* be again: whichever of Close, a tick's write and the watcher's removal comes last.
QuietSnapshot ==
    InApp => \A s \in Sessions :
        watcher[s] = "over" => file # s /\ s \notin linked /\ at[s] \notin {"up", "writing"}

\* A serving session's snapshot comes back: in the app, when the watcher or the Close of a
\* session before has removed it or a late write of theirs has replaced it; of a homoscale
\* start that runs alone, whatever the readers do (a plain user's takes root's session for
\* one that has exited and removes its snapshot, and any may remove it for one that it has
\* read before and rejected since), and whatever a killed session has left.
ComesBack ==
    \A s \in Sessions : at[s] = "serve" ~> file = s \/ at[s] # "serve"

\* The snapshot of a session that was cancelled and is over goes, and stays away.
CancelledGoes ==
    \A s \in Sessions : cancelled[s] /\ at[s] = "over" ~> [](file # s)

\* Although three writers and removers race for one file, it follows the sessions.
SnapshotFollows == ComesBack /\ CancelledGoes
=============================================================================
