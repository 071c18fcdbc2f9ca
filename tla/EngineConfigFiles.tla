--------------------------- MODULE EngineConfigFiles ---------------------------
(***************************************************************************)
(* The files from which homoscale makes the engine's configuration         *)
(* (config.go, the first half of engine_bootstrap.go, the loading in       *)
(* cli.go): homoscale.yaml, the imported source.yaml and                   *)
(* source-state.yaml, the engine's config.yaml and the marker that tells   *)
(* that homoscale has generated it.                                        *)
(*                                                                         *)
(* A member of Commands is one run of the program.  Each loads its         *)
(* settings, and imports a Mihomo configuration when it has -f; those of   *)
(* Starts go on to write config.yaml and to run the engine.  A command may *)
(* fail or be killed between any two writes.  That one engine runs at a    *)
(* time is what EngineSlot promises.                                       *)
(***************************************************************************)
CONSTANTS
    Commands,   \* the runs of homoscale
    Starts,     \* those of them that are homoscale start
    Explicit,   \* those that are given -c
    Files,      \* the Mihomo configurations the user passes with -f
    Silent,     \* those of them that name no external-controller
    Absent,     \* no such file; no -f
    Empty,      \* a file that is truncated, and not written yet
    Torn,       \* a file that two writers have written over each other
    User,       \* a config.yaml the user has written
    Down        \* no engine runs

ASSUME CommandsAssumption == Starts \subseteq Commands /\ Explicit \subseteq Commands
ASSUME FilesAssumption ==
    /\ Silent \subseteq Files
    /\ {Absent, Empty, Torn, User, Down, "default", "own"} \cap Files = {}
    /\ Absent # Empty /\ Absent # Torn /\ Empty # Torn

VARIABLES
    yaml,       \* homoscale.yaml, which no command changes
    arg,        \* the file each command is given with -f, or Absent
    pc,         \* where each command is
    got,        \* the settings each command has computed
    body,       \* what each start is about to write into config.yaml
    source,     \* engine/source.yaml: the imported configuration
    sourceState,\* engine/source-state.yaml: the one whose directory it names
    config,     \* engine/config.yaml
    marker,     \* whether config.yaml.homoscale-managed exists
    engine      \* the engine that runs

command == <<pc, got, body>>
import  == <<source, sourceState>>
fixed   == <<yaml, arg>>
vars    == <<fixed, command, import, config, marker, engine>>

Importing == {"fillSource", "truncateState", "fillState"}
Preparing == {"derive", "truncate", "fill", "mark", "spawn"}
Loaded    == {"loaded", "ready", "serve"} \cup Preparing
Ended     == {"done", "failed", "killed"}
Place     == {"load", "stat", "import", "readState", "readSource"}
                \cup Importing \cup Loaded \cup Ended

Content  == Files \cup {Absent, Empty, Torn}
Dirs     == Files \cup {Torn, "default", "own"}
Controls == Files \cup {Torn, "own"}
Settings == [dir : Dirs, stateFile : Dirs, src : Content, ctl : Controls]
\* What a start writes: from which source, with whose controller, and which start.
Made     == [by : Starts, from : Content, ctl : Controls]
Configs  == Made \cup {Absent, Empty, Torn, User}
Engines  == [by : Starts, dir : Dirs, stateFile : Dirs, src : Content, reads : Configs]

ASSUME MarkersAssumption == {Absent, Empty, Torn, User} \cap Made = {} /\ Down \notin Engines

TypeOK ==
    /\ yaml \in {"absent", "invalid", "plain", "ownDir"}
    /\ arg \in [Commands -> Files \cup {Absent}]
    /\ pc \in [Commands -> Place]
    /\ got \in [Commands -> Settings]
    /\ body \in [Commands -> Content]
    /\ source \in Content /\ sourceState \in Content
    /\ config \in Configs
    /\ marker \in BOOLEAN
    /\ engine \in Engines \cup {Down}

\* applyDefaults: working_dir is homoscale.yaml's or the default one, and the state
\* file lies in it; nothing is imported yet.
applyDefaults == LET dir == IF yaml = "ownDir" THEN "own" ELSE "default"
                 IN  [dir |-> dir, stateFile |-> dir, src |-> Absent, ctl |-> "own"]

Init ==
    /\ yaml \in {"absent", "invalid", "plain", "ownDir"}
    /\ arg \in [Commands -> Files \cup {Absent}]
    /\ pc = [c \in Commands |-> "load"]
    /\ got = [c \in Commands |-> applyDefaults]
    /\ body = [c \in Commands |-> Absent]
    /\ source = Absent /\ sourceState = Absent
    /\ config \in {Absent, User}
    /\ marker = FALSE
    /\ engine = Down

Goto(c, place) == pc' = [pc EXCEPT ![c] = place]

-----------------------------------------------------------------------------
(* Loading the settings.                                                   *)

\* loadConfigWithFallback: an absent homoscale.yaml means the built-in defaults,
\* unless -c named it.
LoadConfig(c) ==
    /\ pc[c] = "load"
    /\ yaml # "invalid"
    /\ yaml = "absent" => c \notin Explicit
    /\ got' = [got EXCEPT ![c] = applyDefaults]
    /\ Goto(c, IF arg[c] = Absent THEN "stat" ELSE "import")
    /\ UNCHANGED <<fixed, body, import, config, marker, engine>>

LoadFails(c) ==
    /\ pc[c] = "load"
    /\ yaml = "invalid" \/ (yaml = "absent" /\ c \in Explicit)
    /\ Goto(c, "failed")
    /\ UNCHANGED <<fixed, got, body, import, config, marker, engine>>

\* os.WriteFile is two steps, of which the second overwrites what another writer has
\* put there in between.
Written(old, new) == IF old \in {Empty, new} THEN {new} ELSE {new, Torn}

\* applyEngineConfigPathOverride: the file given with -f is read and copied to
\* source.yaml, and its directory goes to source-state.yaml.
TruncateSource(c) ==
    /\ pc[c] = "import"
    /\ source' = Empty
    /\ Goto(c, "fillSource")
    /\ UNCHANGED <<fixed, got, body, sourceState, config, marker, engine>>

\* Wrong on purpose: the state file is left as it was.
FillSourceOnly(c) ==
    /\ pc[c] = "fillSource"
    /\ source' \in Written(source, arg[c])
    /\ Goto(c, "readState")
    /\ UNCHANGED <<fixed, got, body, sourceState, config, marker, engine>>

FillSource(c) ==
    /\ pc[c] = "fillSource"
    /\ source' \in Written(source, arg[c])
    /\ Goto(c, "truncateState")
    /\ UNCHANGED <<fixed, got, body, sourceState, config, marker, engine>>

TruncateState(c) ==
    /\ pc[c] = "truncateState"
    /\ sourceState' = Empty
    /\ Goto(c, "fillState")
    /\ UNCHANGED <<fixed, got, body, source, config, marker, engine>>

FillState(c) ==
    /\ pc[c] = "fillState"
    /\ sourceState' \in Written(sourceState, arg[c])
    /\ Goto(c, "readState")
    /\ UNCHANGED <<fixed, got, body, source, config, marker, engine>>

\* applyRememberedEngineConfigSource.
NothingRemembered(c) ==
    /\ pc[c] = "stat"
    /\ source = Absent
    /\ Goto(c, "loaded")
    /\ UNCHANGED <<fixed, got, body, import, config, marker, engine>>

SourceRemembered(c) ==
    /\ pc[c] = "stat"
    /\ source # Absent
    /\ Goto(c, "readState")
    /\ UNCHANGED <<fixed, got, body, import, config, marker, engine>>

\* Wrong on purpose: a state file without a directory is not told apart, ...
ReadStateBlindly(c) ==
    /\ pc[c] = "readState"
    /\ got' = [got EXCEPT ![c].dir = IF @ = "default" THEN sourceState ELSE @]
    /\ Goto(c, "readSource")
    /\ UNCHANGED <<fixed, body, import, config, marker, engine>>

\* ... or the engine's state file follows the import.
ReadStateMoving(c) ==
    /\ pc[c] = "readState"
    /\ LET dir == IF got[c].dir = "default" /\ sourceState \notin {Absent, Empty}
                  THEN sourceState ELSE got[c].dir
       IN  got' = [got EXCEPT ![c].dir = dir, ![c].stateFile = dir]
    /\ Goto(c, "readSource")
    /\ UNCHANGED <<fixed, body, import, config, marker, engine>>

\* applyImportedEngineSource: the directory of the import replaces the default one,
\* never one that homoscale.yaml names.  A state file that is absent or empty names none.
readImportedEngineSourceState(c) ==
    /\ pc[c] = "readState"
    /\ got' = [got EXCEPT ![c].dir =
                 IF @ = "default" /\ sourceState \notin {Absent, Empty} THEN sourceState ELSE @]
    /\ Goto(c, "readSource")
    /\ UNCHANGED <<fixed, body, import, config, marker, engine>>

\* The controller that a source names; an empty or a silent one leaves homoscale's.
ControllerOf(src) == IF src \in (Files \ Silent) \cup {Torn} THEN src ELSE "own"

readLocalEngineConfig(c) ==
    /\ pc[c] = "readSource"
    /\ got' = [got EXCEPT ![c] = [@ EXCEPT !.src = source, !.ctl = ControllerOf(source)]]
    /\ Goto(c, "loaded")
    /\ UNCHANGED <<fixed, body, import, config, marker, engine>>

\* Every other command uses the controller or the state file, and ends.
CommandEnds(c) ==
    /\ pc[c] = "loaded"
    /\ c \notin Starts
    /\ Goto(c, "done")
    /\ UNCHANGED <<fixed, got, body, import, config, marker, engine>>

-----------------------------------------------------------------------------
(* homoscale start: ensureEngineConfig, then the engine.                    *)

\* With an import, config.yaml is always derived from it; source.yaml is read again.
DerivesFromSource(c) ==
    /\ pc[c] = "loaded" /\ c \in Starts
    /\ got[c].src # Absent
    /\ body' = [body EXCEPT ![c] = source]
    /\ Goto(c, "truncate")
    /\ UNCHANGED <<fixed, got, import, config, marker, engine>>

\* Wrong on purpose: a config.yaml that is there is kept, generated or not.
KeepsAnyConfig(c) ==
    /\ pc[c] = "loaded" /\ c \in Starts
    /\ got[c].src = Absent
    /\ config # Absent
    /\ Goto(c, "spawn")
    /\ UNCHANGED <<fixed, got, body, import, config, marker, engine>>

\* Without one, a config.yaml that homoscale has not generated is kept as it is,
KeepsConfig(c) ==
    /\ pc[c] = "loaded" /\ c \in Starts
    /\ got[c].src = Absent
    /\ config # Absent /\ ~marker
    /\ Goto(c, "spawn")
    /\ UNCHANGED <<fixed, got, body, import, config, marker, engine>>

\* and an absent or a generated one is generated.
Generates(c) ==
    /\ pc[c] = "loaded" /\ c \in Starts
    /\ got[c].src = Absent
    /\ config = Absent \/ marker
    /\ body' = [body EXCEPT ![c] = Absent]
    /\ Goto(c, "truncate")
    /\ UNCHANGED <<fixed, got, import, config, marker, engine>>

TruncateConfig(c) ==
    /\ pc[c] = "truncate"
    /\ config' = Empty
    /\ Goto(c, "fill")
    /\ UNCHANGED <<fixed, got, body, import, marker, engine>>

\* Wrong on purpose: no marker is written.
FillConfigUnmarked(c) ==
    /\ pc[c] = "fill"
    /\ config' \in Written(config, [by |-> c, from |-> body[c], ctl |-> got[c].ctl])
    /\ Goto(c, "spawn")
    /\ UNCHANGED <<fixed, got, body, import, marker, engine>>

FillConfig(c) ==
    /\ pc[c] = "fill"
    /\ config' \in Written(config, [by |-> c, from |-> body[c], ctl |-> got[c].ctl])
    /\ Goto(c, IF got[c].src = Absent THEN "mark" ELSE "spawn")
    /\ UNCHANGED <<fixed, got, body, import, marker, engine>>

\* The marker is looked for, never read.
WriteMarker(c) ==
    /\ pc[c] = "mark"
    /\ marker' = TRUE
    /\ Goto(c, "spawn")
    /\ UNCHANGED <<fixed, got, body, import, config, engine>>

\* Only now does a start see that an engine runs already.
AlreadyRunning(c) ==
    /\ pc[c] = "spawn"
    /\ engine # Down
    /\ Goto(c, "failed")
    /\ UNCHANGED <<fixed, got, body, import, config, marker, engine>>

Spawn(c) ==
    /\ pc[c] = "spawn"
    /\ engine = Down
    /\ engine' = [by |-> c, dir |-> got[c].dir, stateFile |-> got[c].stateFile,
                  src |-> got[c].src, reads |-> Absent]
    /\ Goto(c, "ready")
    /\ UNCHANGED <<fixed, got, body, import, config, marker>>

Runs(c) == engine # Down /\ engine.by = c

\* waitForEngineReady: the engine serves its controller, so it has read config.yaml;
BecomesReady(c) ==
    /\ pc[c] = "ready"
    /\ Runs(c) /\ engine.reads # Absent
    /\ Goto(c, "serve")
    /\ UNCHANGED <<fixed, got, body, import, config, marker, engine>>

\* or it does not within fifteen seconds, and is ended.
ReadyTimeout(c) ==
    /\ pc[c] = "ready"
    /\ engine' = IF Runs(c) THEN Down ELSE engine
    /\ Goto(c, "failed")
    /\ UNCHANGED <<fixed, got, body, import, config, marker>>

WaitReturns(c) ==
    /\ pc[c] = "serve"
    /\ ~Runs(c)
    /\ Goto(c, "done")
    /\ UNCHANGED <<fixed, got, body, import, config, marker, engine>>

-----------------------------------------------------------------------------
(* Failures, the engine and the user.                                      *)

\* A read, a write or the Tailscale runtime fails: the command returns its error, and
\* what it has written so far stays.
Fails(c) ==
    /\ pc[c] \in {"import", "readState", "readSource", "loaded"} \cup Importing \cup Preparing
    /\ Goto(c, "failed")
    /\ UNCHANGED <<fixed, got, body, import, config, marker, engine>>

\* A killed start leaves its engine running.
Killed(c) ==
    /\ pc[c] \notin {"load"} \cup Ended
    /\ Goto(c, "killed")
    /\ UNCHANGED <<fixed, got, body, import, config, marker, engine>>

EngineReads ==
    /\ engine # Down /\ engine.reads = Absent
    /\ config # Absent
    /\ engine' = [engine EXCEPT !.reads = config]
    /\ UNCHANGED <<fixed, command, import, config, marker>>

EngineEnds ==
    /\ engine # Down
    /\ engine' = Down
    /\ UNCHANGED <<fixed, command, import, config, marker>>

UserWrites ==
    /\ config' = User
    /\ UNCHANGED <<fixed, command, import, marker, engine>>

UserRemoves ==
    /\ config' = Absent
    /\ UNCHANGED <<fixed, command, import, marker, engine>>

Step(c) ==
    \/ LoadConfig(c) \/ LoadFails(c) \/ TruncateSource(c) \/ FillSource(c)
    \/ TruncateState(c) \/ FillState(c) \/ NothingRemembered(c) \/ SourceRemembered(c)
    \/ readImportedEngineSourceState(c) \/ readLocalEngineConfig(c) \/ CommandEnds(c)
    \/ DerivesFromSource(c) \/ KeepsConfig(c) \/ Generates(c)
    \/ TruncateConfig(c) \/ FillConfig(c) \/ WriteMarker(c)
    \/ AlreadyRunning(c) \/ Spawn(c) \/ BecomesReady(c) \/ ReadyTimeout(c) \/ WaitReturns(c)
    \/ Fails(c) \/ Killed(c)

Next ==
    \/ \E c \in Commands : Step(c)
    \/ EngineReads \/ EngineEnds \/ UserWrites \/ UserRemoves

Spec == Init /\ [][Next]_vars

-----------------------------------------------------------------------------
(* The commands used one after the other: a command begins, and the user   *)
(* edits config.yaml, when every other command has ended or serves, and no *)
(* start is killed between its spawn and its engine's answer.              *)

Settled(c) == pc[c] \in {"load", "serve"} \cup Ended

Serial ==
    /\ \A c \in Commands :
         /\ pc[c] = "load" /\ pc'[c] # "load" => \A d \in Commands : Settled(d)
         /\ pc[c] = "ready" => pc'[c] # "killed"
    /\ UserWrites \/ UserRemoves => \A c \in Commands : Settled(c)

SerialSpec == Init /\ [][Next /\ Serial]_vars

-----------------------------------------------------------------------------
(* Properties.                                                             *)

\* Whatever was imported in between, a command looks for the engine's pid where the
\* start has recorded it, and, while the import is the engine's, asks the controller
\* that the engine was told to serve (applyEngineConfigPathOverride changes the
\* settings after applyDefaults has computed the state file's place).
CommandsFindEngine ==
    \A c \in Commands :
        engine # Down /\ pc[c] \in Loaded =>
            /\ got[c].stateFile = engine.stateFile
            /\ engine.reads \in Made /\ engine.reads.from = got[c].src =>
                 engine.reads.ctl = got[c].ctl

\* What a start leaves behind that fails or is killed before it has written the marker.
Leftover(content) ==
    \/ content = Empty /\ \E d \in Starts : pc[d] \in {"failed", "killed"}
    \/ /\ content \in Made /\ content.from = Absent
       /\ pc[content.by] \in {"failed", "killed"}

\* A start that keeps config.yaml as it is keeps what the user has written, and never
\* something homoscale made, leftovers excepted (ensureEngineConfig writes the marker
\* after the configuration, and none for a derived one).
KeptIsTheUsers ==
    \A c \in Starts :
        pc[c] = "spawn" /\ got[c].src = Absent /\ ~marker =>
            config = User \/ Leftover(config)

\* The engine runs the configuration that its own start has written, or what that start
\* has kept, though every later start rewrites config.yaml before it finds that the
\* engine runs (engine_runtime_exec.go:22 comes before :29).
EngineReadsOwn ==
    engine # Down /\ engine.reads \in Made =>
        engine.reads.by = engine.by \/ Leftover(engine.reads)

\* SerialSpec implements ImportedSource.  An import takes place when it truncates
\* source.yaml; what it leaves is whole when both files name the same import, or when
\* homoscale.yaml names the directory itself.
Whole == yaml = "ownDir" \/ sourceState = source

rememberedOf ==
    IF \E c \in Commands : pc[c] \in Importing
    THEN arg[CHOOSE c \in Commands : pc[c] \in Importing]
    ELSE IF source = Absent \/ (source \in Files /\ Whole) THEN source ELSE Torn

\* What the engine runs is whole when it has read what was derived from the import
\* that its start found, in the directory of that import.
runningOf ==
    IF engine = Down \/ engine.reads = Absent THEN Down
    ELSE IF engine.src = Absent THEN Absent
    ELSE IF /\ engine.src \in Files
            /\ engine.reads \in Made /\ engine.reads.from = engine.src
            /\ engine.dir \in {engine.src, "own"}
         THEN engine.src ELSE Torn

failedOf == {c \in Commands : pc[c] \in {"failed", "killed"}}

Imported == INSTANCE ImportedSource WITH Nothing <- Absent, Broken <- Torn,
    remembered <- rememberedOf, running <- runningOf, failed <- failedOf

\* README.md:24-25: for commands that do not overlap, every engine started after an
\* import runs that import as a whole, until the next one; also when imports and starts
\* fail or are killed in between.
ImplementsImportedSource == Imported!Spec
=============================================================================
