# A TLA+ model of homoscale

homoscale runs a Mihomo proxy engine and a Tailscale node side by side: a command line
program on the desktop, and an Android app that embeds the same Go core behind a C bridge.
This directory holds TLA+ modules translated from that code, TLC configurations that
model-check them, and proofs that TLAPS checks. Line numbers refer to the files under `src/`.

## 1. The system

| part | state it keeps | operations | talks to |
|---|---|---|---|
| Desktop engine supervisor (`internal/homoscale/engine_runtime_exec.go`, `engine_runtime_shared.go`, `runtime.go`, `cli.go`) | the engine state file, the engine process | `StartEngine`, `StopEngine`, `terminateProcess`, `waitForEngineReady` | the engine (child process, HTTP controller), other homoscale processes through the state file |
| Daemon launcher (`daemon.go`, `platform.go`) | `homoscale.pid`, a log file | `startDaemonProcess`, removal at the child's exit | the supervisor, by running `homoscale start` as a child |
| Embedded Tailscale runtime (`auth.go`, `tailscale.go`) | `runtime-status.json`, a tsnet server, its watcher | start, `Close`, `watchStatus`, read of the snapshot | the engine configuration reads the snapshot; `status` and `auth` read it |
| External Tailscale (`tailscale_external.go`) | none of its own | login, logout, status through the `tailscale` program | tailscaled |
| Host TCP forwarder (`tailscale_embedded_forward.go`) | the connections it bridges | `register`, `allowsPort`, `bridgeTCPConns` | tsnet |
| Engine configuration (`engine_bootstrap.go`, `config.go`) | `config.yaml`, its managed marker, imported `source.yaml` and `source-state.yaml`, the subscription provider cache | `ensureEngineConfig`, `applyEngineConfigPathOverride`, `RefreshSubscriptionProvider`, injections of proxy, rules and hosts | the supervisor before each start, the Android app |
| System resolver (`resolver.go`) | managed files under `/etc/resolver` | `installSystemResolver` and its closer | the supervisor |
| Proxy control (`proxy.go`, `status.go`) | none (the engine's controller has it) | mode, select, snapshot, rules, overall status | the engine's controller |
| Android engine (`engine_runtime_android.go`) | `androidEngineCurrent.running`, Mihomo inside the process, the state file, the configuration watcher | `StartEngine`, `StopEngine`, the watcher, installed-apps table | the bridge, Mihomo, the Tailscale snapshot |
| Android bridge (`mobilelib/main.go`) | `activeSession`, `lastBridgeErr` | `HomoscaleStartWithTunFDJSON`, `HomoscaleStopJSON`, `HomoscaleStatusJSON`, login, logout, refresh | the Android engine, the service through JNI |
| JNI shim (`homoscale_jni.c`, `protect_android.go`) | the loaded library, the VPN service reference, network snapshots | load, install, clear, protect | the bridge, the service |
| Android service (`HomoscaleService.java`, `HomoscaleBridge.java`) | `running`, `stopRequested`, `activeConfigPath`, a one-thread executor, the TUN descriptor | `onStartCommand`, `onDestroy`, `onRevoke`, `requestStop`, `startVpnRuntime` | the bridge |
| Android view model and preferences (`HomoscaleViewModel.kt`, `AppPreferences.kt`, `ConfigFiles.java`, `BridgeModels.kt`, `InstalledApps.kt`) | the subscriptions, the YAML configuration, the UI state | load, save and delete a subscription, `syncConfig`, `refreshStatus` | the service through intents, the bridge |
| Android UI (`MainActivity.kt`, theme, `DebugCommandReceiver.java`) | presentation only | | the view model |

What is hard about it: nearly every hand-over goes through a file that nobody locks (state
file, pid file, snapshot, configuration), between processes that start, stop and crash
independently; on Android a one-thread executor, the main thread, the bridge's mutex and
several goroutines that nobody waits for share one process.

## 2. Modules

### EngineSupervisor

Each `homoscale start` is a member of `Starters`, each `homoscale stop` one of `Stoppers`;
each is a process that runs once. `pc` and `stopPc` say where they are in `StartEngine` and
`StopEngine`; `child` is the start's `cmd.Process`, `cancelled` its context, `proc` the
table of operating-system processes by pid, `file` what a reader of the state file gets
(a pid, nothing, or text that does not parse). `Sudo` are the commands that run as root, as
README:84 shows, and `rooted` the pids whose process is root's: `processRunning` is signal 0,
which a plain user may not send to these, and a refusal counts as "not running".

| code | actions |
|---|---|
| `StartEngine` 16-31 | `PreflightFails`, `CheckRefuses`, `CheckPasses` |
| `StartEngine` 33-43 | `Spawn`, `SpawnFails` |
| `writeProcessState`, an `os.WriteFile` that truncates and then writes | `Truncate`, `Fill`, `RecordFails`; `Abort` is the `terminateProcess` of its error path |
| `waitForEngineReady` | `BecomesReady`, `ReadyTimeout`; `GiveUp` is the `terminateProcess` of its error path |
| `cmd.Wait`, deferred `removeProcessState` | `WaitReturns`, `RemoveState` |
| signal context, `exec.CommandContext` | `Cancel`, `ContextKills` |
| SIGKILL of a start | `Crash` |
| `StopEngine`, `terminateProcess` | `StopReads`, `StopReadsNothing`, `StopProbes`, `StopRemovesStale`, `StopInterrupts`, `StopKills`, `StopRemoves` |
| the engine and the operating system | `EngineServes`, `EngineEnds`, `KillTakesEffect`, `InitReaps`, `ForeignStarts`, `ForeignEnds` |

A pid is reused as soon as it is free, those of `Reused` also by a program that is not
homoscale's (a bound for TLC; `Reused = Pids` is the unrestricted system). The
engine's reaction to SIGINT is covered by `EngineEnds`, which may happen at any time.
`waitForEngineReady` asks the controller's address, so any serving engine answers it.

Every removal of the state file may fail, since `removeProcessState` drops its error.

`SerialSpec` adds `Serial`: a start passes its check only when the other starts are settled and
no stop is busy, a stop begins only when no start is between its check and its record, no start
is killed in that stretch, and whoever starts or stops may signal the engine that runs
(`Permitted`): root may stop anybody's, a plain user does not work beside root's. The code
enforces none of this: it is what an operator who keeps to it observes, and outside it two
engines, an engine without a record and a wrong "not running" are possible (section 5).
`EngineSlot` is what such an operator relies on: one slot, filled only when empty, and a stop
reports only when it is empty.

What makes it correct: no path out of `StartEngine` leaves an engine behind (`NoStrayEngine`),
commands come back however they overlap (`CommandsReturn`), and for commands that do not
overlap, by users who may signal the engine, there is one engine, the state file names it and
stop tells the truth (`AtMostOneEngine`, `EngineIsRecorded`, `StopTellsTheTruth`,
`ImplementsSlot`).

### BridgeSession and SessionSlot

A member of `Sessions` is one call of `HomoscaleStartWithTunFDJSON` and the goroutine it
spawns; a member of `Stops` is one call of `HomoscaleStopJSON`. `at` is where a session's
goroutine is in `StartHomoscale` and the Android `StartEngine`, whose deferred calls run in
reverse order; `mihomo` records who applied the engine's configuration last, the start or
the watcher, and for which session.

| code | actions |
|---|---|
| `startHomoscaleSession`: checks, mutex, publication of the session | `StartAccepted`, `StartRefused` |
| `StartTailscaleRuntime`, preflight, `ensureEngineConfig` | `TailscaleUp`, `TailscaleFails`, `PreflightFails` |
| `androidEngineCurrent.running` | `Claim`, `Release` |
| `startAndroidEmbeddedMihomo`, its shutdown | `Apply`, `ApplyFails`, `Shutdown` |
| `writeEngineState` and its removal | `Record`, `RecordFails`, `Unrecord` |
| `waitForEngineReady`, then `<-ctx.Done()` | `Ready`, `ReadyTimeout`, `ContextDone` |
| end of the goroutine: `tailscaleRuntime.Close`, the descriptor, `activeSession`, `lastBridgeErr` | `Return`, `Finish` |
| `watchAndroidEmbeddedTailscaleConfig` | `WatcherRenders`, `WatcherApplies`, `WatcherParseFails`, `WatcherEnds` |
| `HomoscaleStopJSON` with a session: cancel, wait for at most eight seconds | `StopFinds`, `StopCancels`, `StopReturns` |
| `HomoscaleStopJSON` without one: `StopEngine` | `StopFindsNone`, `StopLoadFails`, `StopEngineRuns`, `StopEngineNotRunning`, `StopShutsDown`, `StopUnrecords` |

What makes it correct: sessions exclude each other (`OneSession`), the engine's second guard
never contradicts the first (`ClaimIsFree`), every error path gives back what it took, in the
reverse order, except that a write of the state file which fails half way leaves text that
cannot be read (`NothingLeftBehind`), the status never shows a former session's error
(`ErrorIsFresh`), a stop makes room for the next start although it gives up after eight seconds,
and no watcher outlives its context (`StopTakesEffect`). Two things the code does not exclude
are pinned down exactly: an engine on another session's TUN descriptor (`OtherTunIsLateWatcher`)
and a serving session without its engine (`EngineLostToStop`) each have one cause and no other.
`SessionSlot` is the abstraction of all this for the Android service: one slot that a start
opens only when it is empty, that a stop can only *ask* to close, and that remembers a failure.

### AndroidService

`HomoscaleService` instances (`Services`) are created one after the other by the system.
The main thread delivers intents; each instance has a one-thread executor whose `queue`
outlives the instance. The bridge is an instance of `SessionSlot`.

| code | actions |
|---|---|
| `onStartCommand` with `ACTION_START`, `ACTION_STOP` | `StartIntent`, `StopIntent` |
| `onRevoke`, `requestStop` | `Revoke`, helper `RequestStop` |
| `onDestroy`, `executor.shutdown` | `Destroy` |
| the executor's start task: `startVpnRuntime`, then the fields it writes | `TaskStart`, `TaskStartFails`, `TaskAnswered` |
| the executor's stop task: `HomoscaleBridge.stop`, `stopSelf` | `TaskStop`, `TaskStopWaited`, `TaskStopped` |
| a session that ends | `SessionCloses` |

The answer of the bridge and the write of `running` are two actions, since the main thread
may change the field in between. `hurried` is a history variable: it becomes true when a
START arrives while an executor has work. The code does not exclude that, and the
two of them can leave the first one's session without a service; `SessionHasService` and
`NotRunningMeansStopped` are stated for behaviours in which it has not happened.

### TailscaleSnapshot

A session's tsnet server, its `watchStatus` goroutine and the file `runtime-status.json`
they publish. With `InApp = FALSE` each session is a process (exits and kills take its
goroutines with it, other commands read the file); with `InApp = TRUE` the sessions are
goroutines of one process, one after the other as BridgeSession's `OneSession` says, and the
goroutines of a session that is over may still run.

| code | actions |
|---|---|
| `StartTailscaleRuntime` | `Begin`, `UpFails`, `WriteBegins`, `WriteFails`, `Written` |
| `StartEngine` up to the engine | `EngineRefuses`, `RouteSkipped` |
| `buildTailscaleRouting`, `tailscaleMagicDNSSuffix`: up to three reads of the snapshot, the last in `ReadAuthStatus`, which opens a second server when it misses | `RouteLoads`, `RouteFinds`, `RouteMisses`, `FallbackEnds`, tables `Reading`, `IfFound`, `IfNot` |
| `readRuntimeAuthSnapshot` and its probe of the pid | operators `Taken`, `Rejected`, `Misses` |
| the engine returns, `Close` | `EngineReturns`, `CloseRemoves`, `CloseServer` |
| `watchStatus` | `WatcherPolls`, `WatcherTruncates`, `WatcherFills`, `WatcherWriteFails`, `WatcherEnds` |
| `ReadAuthStatus` | `ReadLoads`, `ReadAccepts`, `ReadRejects`, `ReadCloses` |
| `LoginTailscale`, `LogoutTailscale`, which open a short-lived server of their own | `LogsInOrOut`, `LogInOrOutEnds` |
| signals, kills | `Cancel`, `Exit` |

`linked` is the set of writers that hold the file of that name open, as opposed to one that
has been unlinked since; a write in place of what another writer has put down in between may
leave text that does not parse. Signal 0 does not tell who has the pid: a snapshot of a
process that has ended may be taken, if the pid has been given away, and one of root's running
session is rejected by a plain user's reader, which then removes the file if it may.

What makes it correct: no error path leaves a session's server open (`NoServerLeak`); in the
app two sessions never have their own servers open at once (`OneServer`; the short-lived ones
of a reader, of a login and of the fallback may be open beside it, on the same directory); in
the app the snapshot of a session whose watcher has ended is gone for good (`QuietSnapshot`);
and the file follows the sessions although writers and removers race for it: one that
serves gets its snapshot back (`ComesBack`) and a cancelled one's goes for good
(`CancelledGoes`; the two together are `SnapshotFollows`). On the desktop `ComesBack` is checked
under `AloneSpec`, one session at a time: two that overlap write to one file in turn.

### AndroidConfigRefresh

One session of the app after the other, seen from `config.yaml`: what
`ensureEngineConfig` generates, and how the watcher takes the Tailscale sections it put in
last out of the text and puts new ones in. Rules are members of a set in a sequence, the
hosts section a function, the proxy entry the listener it points to (`via`).

| code | definitions |
|---|---|
| `preferredTailscaleIP`, `magicDNSShortHostAliases` (`tailscale.go`) | operators `preferredTailscaleIP`, `WithAliases` |
| `buildTailscaleRouting`, `tailscaleMagicDNSSuffix`, `tailscaleMagicDNSHosts`: a read of the snapshot each | `ReadRouting`, `ReadHosts`, `NotReady` |
| `ensureEngineConfig` | `Begin`, `GenerateHosts`, `Generate`, `GenerateFails`, operator `Generated` |
| `injectTailscaleRules`, `injectTailscaleDNSHosts` | `InjectRules`, `InjectHosts` |
| `replaceManagedTailscaleSections` | `ReplaceSections`, `RemoveRules`, `RemoveHosts` |
| `renderAndroidEmbeddedRuntimeConfig` | `Render`, `RenderFails`, `Write` |
| parse and apply in `startAndroidEmbeddedMihomo` and in the watcher | `Apply`, `ParseFails` |
| a tick: sections, signature, comparison | `Poll`, `Compare` |

What makes it correct: patching comes to the same as generating (`RefreshIsRegeneration`),
the user's rules survive any number of refreshes in their order while the tailnet's rules
come first and once (`RulesKeepTheirOrder`), and the engine catches up with the snapshot,
its preferred addresses and the short names that no node bears included
(`EngineFollows`). `disturbed` is a history variable for the two known exceptions:
sections that changed between the generation and the first rendering, which knows no former
ones to take out, and a refresh whose text was written but did not parse.

### EngineConfigFiles and ImportedSource

A member of `Commands` is one run of the program, those of `Starts` are `homoscale start`.
`source` and `sourceState` are the two files of an import, `config` and `marker` the
engine's configuration and the empty file that says homoscale has generated it; `got` is
what a command has computed from them and `engine` the engine that runs, with the
configuration it has read. A file's content is where it comes from: an import, a start, the
user, or nothing yet (`Empty`) and two writers over each other (`Torn`).

| code | actions |
|---|---|
| `loadConfigWithFallback` (`cli.go`), `applyDefaults` (`config.go`) | `LoadConfig`, `LoadFails`, operator `applyDefaults` |
| `applyEngineConfigPathOverride`: `source.yaml`, then `source-state.yaml` | `TruncateSource`, `FillSource`, `TruncateState`, `FillState` |
| `applyRememberedEngineConfigSource`, `applyImportedEngineSource` | `NothingRemembered`, `SourceRemembered`, `readImportedEngineSourceState`, `readLocalEngineConfig` |
| `ensureEngineConfig` | `DerivesFromSource`, `KeepsConfig`, `Generates`, `TruncateConfig`, `FillConfig`, `WriteMarker` |
| the engine's start, which comes after all this | `AlreadyRunning`, `Spawn`, `BecomesReady`, `ReadyTimeout`, `WaitReturns` |
| errors, kills, the engine, the user's editor | `Fails`, `Killed`, `EngineReads`, `EngineEnds`, `UserWrites`, `UserRemoves` |

`SerialSpec` is for commands used one after the other, as in EngineSupervisor; any of them
may fail or be killed between any two writes. What makes it correct: commands look for the
engine's pid and controller where they are, whatever has been imported since
(`CommandsFindEngine`); what is kept is the user's and never homoscale's own
(`KeptIsTheUsers`); an engine reads what its own start wrote, although later starts rewrite
the file before they find that it runs (`EngineReadsOwn`). `ImportedSource` is what the
user is promised: an import is one atomic choice, and every later engine runs it as a whole
until the next (`ImplementsImportedSource`). Two leftovers are named in `Leftover` and in
the abstraction's `Fail`: a start killed between `config.yaml` and its marker leaves a file
that is taken for the user's, and an import killed between its two files pairs the new
source with the old directory until the next import.

### HostFootprint

What a desktop session leaves on the host: the file under `/etc/resolver` and, for a
background session, `homoscale.pid`. `pc` is where a session's process is, `parent` what
the `homoscale -d` that started it has done, `state` whose engine the state file names,
`file` the resolver file of each suffix, `at` and `closer` what a process will remove or has
failed to. `Foreground` are the sessions that may be started in the foreground, `Root` those
that are root's.

| code | actions |
|---|---|
| `runStart`, `startDaemonProcess` | `StartsForeground`, `StartsDaemon`, `WritesPid`, `PidWriteFails` |
| a child's start, its deferred `removeDaemonPIDFile` | `Boots`, `BootFails`, `RemovesPid` |
| `StartHomoscale`, `StartEngine` | `ChecksPass`, `NetFails`, `Spawns`, `SpawnFails`, `Ready`, `ReadyTimeout`, `WaitReturns`, `RemovesState` |
| `installSystemResolver` | `Looks`, `LeavesAlone`, `Opens`, `OpenFails`, `Fills`, `FillFails` |
| its closer, `removeManagedResolverFile` | `ClosesManaged`, `Closes`, `Removes`, `RemovalFails` |
| signals, kills, the engine's end, another tailnet, the user | `Signals`, `Kills`, `EngineEnds`, `SuffixChanges`, `UserEdits` |

What makes it correct: a session that has ended as it should leaves no resolver file but one
whose removal failed, also when two share a suffix or the suffix has changed since
(`NoResolverLeft`); one that serves keeps its file unless another has set out to write the same
(`LoneSessionKeepsResolver`); a file that is not homoscale's stays (`UserFileKept`); the pid
file of a serving background session is missing or somebody else's only when the parent or the
end of another background session has had to do with it, and names a session that ended as it
should only when its parent wrote afterwards (`PidFileUnlessMeddled`); a signalled session
ends, wherever it is (`SignalEnds`). What the pid file says of a session that was killed, or
quit before it deferred the removal, is nothing: nobody removes it then, and nothing reads it.

### HostForward

A member of `Conns` is an incoming connection of a tailnet peer and its handler. `half` is
where each of the two copying goroutines is; `sent`, `read`, `rcvd`, `fin` and `eof` follow
the data and its end in each direction.

| code | actions |
|---|---|
| `EmbeddedTailscaleConfig.validate` (`config.go`), `register`, the runtime's end | `Validates`, `ValidateFails`, `Deregisters`, `ServerCloses` |
| `newEmbeddedHostTCPForwarder`, `allowsPort` | operators `allowedPorts`, `allowsPort` |
| `handle`, with its deferred closes | `Handle`, `HandleRefuses`, `DialSucceeds`, `DialFails`, `CloseHost`, `ClosePeer` |
| `bridgeTCPConns`, `proxyTCPHalf` | `BridgeEnds`, `CopyReads`, `CopyWrites`, `CopyEnds`, `ShutHalf` |
| the two ends | `EndSends`, `EndFinishes`, `EndResets` |

What makes it correct: a list of ports is never taken for the empty one that forwards every
port, although ports are cut to 16 bits (`OnlySelectedPorts`); the end of a direction is
passed on only after all its data (`EndAfterData`); a direction goes on when the other one
has ended, and the handler ends once both ends have finished or gone (`BridgeGoesOn`). An
end that neither finishes nor goes holds its handler for ever: the code sets no limit, and
the property says so.

### SubscriptionLoad

The app's coroutines that load a subscription or write the configuration. A member of `Jobs`
is one that is under way: the main thread runs one piece of one at a time, the writing of
`homoscale.yaml` happens in an IO thread, and the refresh blocks the main thread (`main`).
`ui` is `_uiState`, `prefs` what the preferences hold, `yaml` the configuration file (whole,
or truncated and garbled), `cache` whose content the cached provider holds.

| code | actions |
|---|---|
| `setActiveSubscription` and its like, `setIpv6Enabled` and its like | `Chooses`, `SetsOption` |
| `launchBusyAction`, which checks nothing: busy actions overlap | `Launches`, `Ends` |
| the busy actions | `connectService`, `disconnectService`, `loadSubscriptionConfig`, `loginToTailnet`, `logoutTailnet`, `setProxyMode` (and `selectProxy`), `Answered` |
| `syncConfig`, `ConfigFiles` | `Listed`, `Opens`, `Writes`, `SyncFails`, `Back` |
| `HomoscaleRefreshSubscriptionJSON`, `RefreshSubscriptionProvider` | `LoadsConfig`, `LoadsGarbled`, `RemovesCache`, `FetchFailsOver`, `FetchFails`, `Fetches`, `CutsCache`, `FillsCache`, `FillsBlank`, `CacheFails` |
| what follows the refresh | `Succeeds`, `Restores` |
| the view model's start, `AppPreferencesStore.load`, the process's end | `Starts`, operator `FromPrefs`, `Dies` |

`calm` says whether the user waits for what is under way and the app's own writes work.
For every user, whatever overlaps, the next start of the app gives what was seen
(`PrefsKeepWhatIsSeen`), and the app stays busy for ever only while a login or a logout waits
for ever, which has no limit (`BusyEnds`; the first of two overlapping actions that ends clears
the flag, so "not busy" does not mean that nothing is under way). For a calm one the
configuration file agrees with the app whenever nothing is under way, also after a load that
failed (`ConfigMatchesApp`), and the cached provider is the loaded subscription's
(`LoadedIsCached`). After two actions that overlapped the file may be another subscription's
than the loaded one until it is written again. `matched` is a history variable for the
exceptions to `LoadedIsCached`: a fetch that failed over to an older cache, a death between the
refresh and the save, a start that takes the active subscription for the loaded one.

## 3. Runs

| run | what is asked | instance |
|---|---|---|
| `supervisor_overlap` | `NoStrayEngine`, `CommandsReturn` | 2 starts, 1 of them root's, 1 plain stop, 2 pids, 1 of them reused by others; no symmetry, since liveness is checked |
| `supervisor_serial` | `AtMostOneEngine`, `EngineIsRecorded`, `ImplementsSlot` | 2 starts, 2 stops, 1 of each root's, 2 reusable pids, `SerialSpec`, symmetry |
| `supervisor_notfound` | the finding: `StopFindsTheEngine` | 2 starts, 1 stop |
| `bridge_all` | `OneSession`, `NothingLeftBehind`, `OtherTunIsLateWatcher`, `EngineLostToStop`, `StopTakesEffect`, `ImplementsSlot` | 2 sessions, 2 stops |
| `service_all` | `SessionHasService`, `NotRunningMeansStopped`, `StopEndsTheSession` | 2 instances, 3 starts, 4 intents |
| `snapshot_app` | `OneServer`, `QuietSnapshot`, `SnapshotFollows` | 2 sessions of the app |
| `snapshot_desktop` | `NoServerLeak`, `ComesBack` | 2 processes of root's, one after the other, 2 readers, 1 of them a plain user's; `AloneSpec` |
| `config_refresh` | `RefreshIsRegeneration`, `RulesKeepTheirOrder`, `EngineFollows` | 2 suffixes, 2 names of which one is the other's short form, 2 addresses, 3 changes or missed reads |
| `config_files` | `CommandsFindEngine`, `KeptIsTheUsers`, `EngineReadsOwn`, `ImplementsImportedSource` | 3 commands, 2 of them starts, 1 with `-c`; 2 imports, 1 without a controller; `SerialSpec` |
| `host_footprint` | `NoResolverLeft`, `LoneSessionKeepsResolver`, `PidFileUnlessMeddled`, `SignalEnds` | 2 sessions, root's in the background, the other in either; 1 suffix that comes and goes |
| `host_forward` | `OnlySelectedPorts`, `EndAfterData`, `BridgeGoesOn` | 1 connection, 2 pieces each way, ports 22 and 65535, lists that are empty, proper, invalid and out of 16 bits |
| `subscription_load` | `PrefsKeepWhatIsSeen`, `ConfigMatchesApp`, `LoadedIsCached`, `BusyEnds` | 2 coroutines, 1 subscription or none |

`config_refresh` and `config_files` check their type invariants as well; those of the other
modules are theorems. `StopTellsTheTruth` and `ErrorIsFresh` are not checked apart from
`ImplementsSlot`, which implies them, nor `ClaimIsFree` and `UserFileKept`: they are proved.

Why the bounds are enough. Every disturbance in these programs is pairwise: one command
overwrites or removes what another has recorded, a former session's goroutine meets the next
session, one coroutine writes what another has read. Two of each actor show it; the
configuration files have a third command that only looks. The serial supervisor has a start and
a stop of root's and of a plain user's, so that every one of them meets what another has left;
its safety is a theorem for any number of commands. Pids need two so that a pid in the file can
be another's. The service's four intents (`MaxIntents`) allow a start, a stop, a start by the
next instance and a revocation; three changes of the snapshot (`MaxChanges`) allow a change
between generation and rendering, one between two reads, and one that fails to parse, with any
number of sessions after each other. Connections do not share anything, so one is enough; two
pieces (`MaxSent`) let an end come while one is in the copying goroutine's hands and another is
still to be read. A subscription and none let a load replace one by the other and go back; two
subscriptions besides none make the run with its liveness property too long, and its three
invariants are theorems for any set of them. The theorems below hold for every number of actors
and so confirm the bounds of the safety properties they name; what they leave to the bounds is
liveness.

`CHECK_DEADLOCK FALSE` stands where every actor runs once and the system ends, or where the
user may stop doing anything. `config_refresh` has no end and is checked for deadlock.

Fairness. `FairSpec` assumes that a goroutine, process, coroutine or thread that can take a step
is scheduled (the Go and the Android runtime do that), that a killed process dies, that the
context's goroutine runs (`exec.CommandContext`), that tickers tick and a running server answers
them, that calls with a limit return (`waitForEngineReady`'s 15 s, `terminateProcess`'s 2 s, the
bridge's 8 s, the dial's 10 s, the fetch's 15 s, a call of the engine's controller 10 s), and
for the snapshot's writes that one which is tried again every three seconds succeeds some time
(strong fairness of `WatcherTruncates` and `WatcherFills`). It never assumes that a user runs a
command or presses a button, that an engine comes up or ends, that a context is cancelled, that
an end of a connection sends, reads or finishes, that a login or a logout is answered, or that
the system destroys a service or kills the app.

Definitions introduced by "Wrong on purpose" are no part of any specification: each is
a plausible bug in the definition that follows it, and replacing that definition by it makes
TLC find one of the properties violated (`PROJECT.json`, "mutants", pairs them).

## 4. Proofs

TLAPS proves, for any sets of starts, stops, pids, sessions, readers, instances, connections,
coroutines and subscriptions, the type invariants of the modules below and:

- `EngineSupervisor_proofs`: `NoStrayEngine` under `Spec`, however commands of both
  users overlap, fail and are killed. It is inductive with `TypeOK` and `ChildIsOwn` (until a
  start has waited for its engine nobody else has the pid, so the start may signal it), because
  `Holding` names exactly the places from which every path leads to `terminateProcess` or
  `cmd.Wait`.
- `EngineSupervisor_proofs`, under `SerialSpec`: the invariant `SerialInv` = `TypeOK`,
  `ChildIsOwn`, `OneActive` (at most one start is past its check), `ActiveAlone` (the only
  engine that can run is then its own, and none runs before it spawns or when it removes its
  record), `StopAlone` (while a stop is busy nothing is launched and only the engine it has
  read, and may signal, can run, until it removes the record), and `EngineIsRecorded`.
  `AtMostOneEngine` alone is not inductive: it needs to know that no engine runs when a start
  passes its check, which comes from the state file's check and hence from `EngineIsRecorded`,
  which in turn needs the two exclusions. `StopTellsTheTruth` and the refinement of `EngineSlot`
  (`SerialImplementsSlot`) follow step by step.
- `BridgeSession_proofs`: `SessionInv` = `TypeOK`, `OneSession`, `ActiveInFlight` (the active
  session's goroutine exists), `ClaimedByActive` (`running` only while the active session is
  in `Claimed`), `ErrorIsFresh`, `NoStrayMihomo`, `RecordHasSession`, `StopKnows` (a stop
  is about to cancel only a session that was opened). `ClaimedByActive` with `OneSession` is
  what `ClaimIsFree` follows from, and `StopKnows` is what the refinement's `Ask` needs;
  `ImplementsTheSlot` proves that the bridge implements `SessionSlot`. On top of it
  `EngineInv` = `WatcherOfReady` (a session has a watcher from its readiness on, and is
  cancelled when it is past serving), `AppliedByWatcher`, `DownByStop` (between its
  application and its deferred shutdown only a stop takes an engine down) gives
  `OtherTunIsLateWatcher` and `EngineLostToStop`.
- `AndroidService_proofs`: `ServiceInv` = `TypeOK`, `Owned` (an open session has an owner),
  `OneAlive` (one instance at a time) and, as long as nobody has hurried: `InOrder` (a start
  is the first task of a queue and everything behind it a stop), `OneStarting`,
  `StartingAlone` (nothing unasked is open while a start is to be answered), `StopFollows` (a
  stop that was requested since is in the queue) and `Kept` (an open session's owner has a
  path, runs or is about to, and once it is asked to stop or is destroyed has a stop in its
  queue). `Kept` is what the two properties need; that a failing start cannot clear the flag
  of a service whose session is open needs `StartingAlone`, and that needs the others.
- `HostFootprint_proofs`: `FootprintInv` = `TypeOK`, `SettlesOnce` (a process settles on a
  resolver file once, and has a closer only after it has written), `WriterRemoves` (a managed
  file's writer will remove it or has failed to), `NotTheUsers` (nobody about to write or remove
  has a file of the user's in front of it), `LoneWriterIsOpen`, `LoneSessionKeepsResolver`,
  `ParentsPid`, `LonePid` (`PidFileUnlessMeddled` at every place but the end),
  `StalePidIsLateWrite`. `NoResolverLeft` is `WriterRemoves` read at the place `ended`;
  `UserFileKept` follows step by step from `NotTheUsers`.
- `EmbeddedTailscale_proofs`, about the two modules of the embedded runtime (the operators
  of `HostForward` carry their own names, so that one module can extend both). For
  `TailscaleSnapshot`, `SnapshotInv` = `TypeOK`, `NoServerLeak`, `WatcherFollows` (no
  watcher before the snapshot is first written), `WritersWrite` (who is linked is in the
  middle of a write), `Alone` (in the app only one session is between `Begin` and its end),
  `NotEnded` (in the app a watcher that has ended has left no snapshot of its session).
  `OneServer`, `NoServerLeak` and `QuietSnapshot` follow, the last from `NotEnded` with
  `WritersWrite` and `WatcherFollows`. For `HostForward`, `ForwardInv` = `ForwardTypeOK`,
  `OnlyPortsListed` (a runtime that has come up has a validated list), `OnlySelectedPorts`,
  `HalvesInBridge`, `EndedWithAll` (a direction ends with everything passed on, or an end is lost).
  `AllowedAreListed` is the lemma about the 16-bit map: for a validated list it is the list.
- `SubscriptionLoad_proofs`: `LoadInv` = `TypeOK`, `Quiet` (an idle coroutine remembers
  nothing, a dead app has none), `PrefsKeepWhatIsSeen` and, for a calm user, `Waiting`: there
  is one coroutine at a time (`OneJob`), `Progress` says at each of its places what the
  configuration file and its own fields hold, and the cache is the loaded subscription's,
  between the refresh and the save the new one's. `ConfigMatchesApp` and `LoadedIsCached`
  are `Waiting` read when nothing is under way, which is not inductive without what holds on
  the way there.
- `EngineConfigFiles_proofs`: `FilesTyped` under `Spec`, from `TypeInv` = `TypeOK`,
  `Entitled` (only a start prepares an engine, only a command with `-f` imports). Under
  `SerialSpec`, `FilesInv` adds `OneBusy`, `ImportsWhole` (nothing is torn, and the state file
  comes after the first import), `SettingsFollow`, `ImportFollows` and `ConfigFollows` (what a
  command's settings, the imported files and `config.yaml` hold at each place of the one
  command under way), `UnmarkedIsTheUsers` (before the first import an unmarked `config.yaml`
  is the user's or a leftover), `ControllersFollow`, `UnreadIsAwaited` and `EngineReadsOwn`.
  `KeptIsTheUsers` and `EngineReadsOwn` are not inductive: a configuration can only be told
  from another's by who wrote it and which source it was derived from, and that is what
  `ConfigFollows` and `UnmarkedIsTheUsers` carry from the write to the spawn. The refinement
  (`SerialImplementsImported`) maps the truncation of the source to the import, the engine's
  read to the run, and every other step to a stutter.
- `AndroidConfigRefresh_proofs`: `RefreshInv` = `TypeOK`, `EngineHasSections` (who has an
  engine has sections), `RulesInFront` (what the engine runs, and what it is about to be
  given, begins with the managed rules and has none of them again), `StaysGenerated` (a
  generated file stays the one generated for the current sections) and `OwnRulesKept`.
  `RefreshIsRegeneration` needs the file to stay generated at the places before the engine
  has it, `TailnetFirst` needs the file at `parse`. Both rest on lemmas about `Without`, for
  sequences of any length: it distributes over concatenation, drops everything of what is all
  dropped and nothing of what is not, and dropping less before makes no difference. They are
  proved by induction, stated about a set of numbers or of sequences (`Induction`,
  `SeqInduction`) and derived from `WFMin` and the well-foundedness of `<`, because the
  library's own induction theorems take an operator. `Without` is a recursive function for
  the same reason; `KeptExists` is the proof that there is such a function.

The assumptions are those on the constants only. Most keep a marker ("no value", "nobody", "the
user's", a file that is absent, empty or cut short) apart from the values (`NoneIsNoConfig`,
`MarkersAssumption` and the like); the others are that a bound is a natural number
(`ServiceAssumption`, `MaxSentAssumption`), that the ports peers connect to are ports, that
lists of ports hold integers and lists of rules rules (`PortsAssumption`, `ListsAssumption`),
that the commands of root's are commands (`SudoAssumption`), the sessions of root's and those
that may be in the foreground sessions (`ProcsAssumption`) and that ts.net, the suffix without
which there are no short names, is one of the suffixes (`RefreshAssumption`).

Only model-checked: the liveness properties, which need fairness and ENABLED.

## 5. Findings and known limits

Finding, run `supervisor_notfound`: `homoscale stop` reports "not running" while a start waits
on its engine, when a second start has truncated, rewritten or removed the shared state file
(`engine_runtime_exec.go:76`, README:98).

Limits of the code that the properties name and the models contain, so that everything else
is shown to hold around them:

- The configuration watcher, which nobody waits for, may apply a text with the former
  session's descriptor while the next session serves (`engine_runtime_android.go:462`):
  `OtherTunIsLateWatcher` says it is the only way.
- A stop that found no session acts after releasing the mutex and may shut a newer session's
  engine down (`mobilelib/main.go:294`): `EngineLostToStop` says it is the only way.
- Two START intents in a row can leave the first one's session without a service
  (`HomoscaleService.java:121`): `hurried`.
- A session whose runtime is up may be told that it is not ready, because it learns so
  through a file that is being rewritten or that a former watcher has removed
  (`engine_bootstrap.go:176`): `RouteMisses`; and one that misses the snapshot only when it wants
  the suffix opens a second server beside its own (`engine_bootstrap.go:225`), as a reader does
  that finds no snapshot (`auth.go:90`): `FallbackEnds`, `ReadRejects`.
- A plain user's start or stop takes root's engine for one that does not run
  (`engine_runtime_shared.go:76`): it runs a second one, or removes its record and reports "not
  running". `Permitted` keeps `SerialSpec` from it. Two commands that overlap, and a start that
  is killed between its spawn and its record, can do the same: the rest of `Serial`.
- Two sessions with one suffix share a resolver file; the first one's end takes it away from the
  second (`resolver.go:81`): the exception of `LoneSessionKeepsResolver`.
- Busy actions overlap: the configuration file may be the wrong one afterwards
  (`HomoscaleViewModel.kt:510`): `calm`.
- A state file that cannot be read stays when its write has failed
  (`engine_runtime_android.go:167`): the `partial` of `RecordHasSession`.
- A crash between two writes: `Leftover` and `ImportedSource`'s `Broken`.
- A parent that writes `homoscale.pid` after its child has ended (`late`), and one background
  session's end that removes another one's (`cli.go:63`): `Meddled`.
- An old subscription cache counts as refreshed: `matched`.

## 6. What is left out

Assumed in the modules:

- EngineSupervisor: `homoscale stop` may signal a pid that another program has got. The
  model has that step; nothing in the code excludes it and no property does.
- TailscaleSnapshot: host-forward registration has no effect on the file; the kill of the whole
  app is not in the app's instance, nor are readers, whose servers `OneServer` does not count.
- BridgeSession: status only reads the session; the app can remove its own state file; a
  descriptor stands for its session, so that the one a failing start call leaves open is not in
  it.
- AndroidConfigRefresh: `dns.enable` stays set once it is; a failing write of `config.yaml`;
  the end of a session in the middle of a refresh (BridgeSession's subject). A rule of the
  user's that equals a managed one, and a host with the name of a peer, are taken out with
  the managed ones: the code cannot tell them apart, and the properties are about the others.
- AndroidService: package lists and network snapshots handed to the bridge.
- EngineConfigFiles: commands that overlap (EngineSupervisor and HostFootprint have them);
  the content of a configuration beyond its source and its controller.
- HostFootprint: the user does not edit a resolver file between a process's look at it and
  its change; a resolver file that is there can be read, except by a closer (one that cannot
  would be taken for absent and overwritten, `resolver.go:57`); the pid file, which nothing
  reads, can be removed; where a parent stops between the child's start
  and the pid file is one step.
- HostForward: data is counted, not told apart; timeouts of the operating system are
  `EndResets`.
- SubscriptionLoad: what the preferences have applied is on disk before the process dies; the
  per-app routing lists are treated like the ipv6 option; the status poll only reads, and a call
  of the bridge's status returns.

Not modelled:

- External Tailscale (`tailscale_external.go`) and proxy control (`proxy.go`, `status.go`): one
  program call or HTTP request per operation, no state of their own; what they could get
  wrong is formatting and parsing.
- The JNI shim (`homoscale_jni.c`, `protect_android.go`): a library that is loaded once, a
  reference and two tables behind mutexes. What can be said about it restates a mutex. That a
  socket opened before the service is installed counts as protected is one read of a
  reference.
- In the Android engine the installed-apps table and the connection owner's lookup, in the
  service the network and package snapshots: tables that are replaced as a whole under a lock.
- The Android UI, debug intents, build scripts and examples: presentation.

## 7. Plan

What is left, in this order:

1. `BridgeSession` with descriptors apart from sessions: each is closed once, or left by a
   call that failed before it had a session.
2. The commands of `EngineConfigFiles` and `EngineSupervisor` composed, so that `Serial` of
   the first is derived from what the second proves.

Questions about neighbouring code are asked in one run per module where their instances
agree, so that a run stands for a distinct question.
