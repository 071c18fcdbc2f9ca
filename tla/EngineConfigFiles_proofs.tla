------------------------ MODULE EngineConfigFiles_proofs ------------------------
(***************************************************************************)
(* Theorems about EngineConfigFiles, for any sets of commands and of       *)
(* imported configurations: the types under Spec, everything else for      *)
(* commands used one after the other.                                      *)
(***************************************************************************)
EXTENDS EngineConfigFiles, TLAPS

\* Only a start prepares and runs an engine, only a command with -f imports.
Entitled ==
    /\ \A c \in Commands : pc[c] \in Preparing \cup {"ready", "serve"} => c \in Starts
    /\ \A c \in Commands : pc[c] \in {"import"} \cup Importing => arg[c] \in Files

\* What holds however commands overlap.
TypeInv == TypeOK /\ Entitled

\* One command at a time is under way.
OneBusy == \A c, d \in Commands : ~Settled(c) /\ ~Settled(d) => c = d

\* Nothing is torn then, and the state file comes after the first import.
ImportsWhole ==
    /\ source # Torn /\ sourceState # Torn
    /\ source = Absent => sourceState = Absent

\* The directory and the settings that a command computes from the files, and the
\* configuration that a start derives from them.
ImportDir == IF applyDefaults.dir = "default" /\ sourceState \notin {Absent, Empty}
             THEN sourceState ELSE applyDefaults.dir
Computed == [dir |-> ImportDir, stateFile |-> applyDefaults.stateFile,
             src |-> source, ctl |-> ControllerOf(source)]
DerivedBy(c) == [by |-> c, from |-> source, ctl |-> ControllerOf(source)]

\* What the settings hold, at each place of the command under way, ...
SettingsFollow ==
    \A c \in Commands :
        /\ pc[c] \in {"stat", "import", "readState"} \cup Importing => got[c] = applyDefaults
        /\ pc[c] = "readSource" => got[c] = [applyDefaults EXCEPT !.dir = ImportDir]
        /\ pc[c] \in {"loaded", "ready"} \cup Preparing => got[c] = Computed

\* ... what the imported files hold, ...
ImportFollows ==
    \A c \in Commands :
        /\ pc[c] = "fillSource" => source = Empty
        /\ pc[c] \in {"truncateState", "fillState"} => source = arg[c]
        /\ pc[c] = "fillState" => sourceState = Empty
        /\ pc[c] \in {"truncate", "fill"} => body[c] = source

\* ... and what config.yaml holds: what the start has derived, with a marker when nothing
\* is imported, or what it has kept.
ConfigFollows ==
    \A c \in Commands :
        /\ pc[c] = "fill" => config = Empty
        /\ pc[c] = "mark" => source = Absent /\ config = DerivedBy(c)
        /\ pc[c] \in {"spawn", "ready"} =>
             \/ config = DerivedBy(c) /\ (source = Absent => marker)
             \/ source = Absent /\ (config = User \/ Leftover(config))

\* Before the first import and without a marker, config.yaml is the user's, something
\* left over, or being written.
UnmarkedIsTheUsers ==
    source = Absent /\ ~marker =>
        \/ config \in {Absent, User}
        \/ Leftover(config)
        \/ \E c \in Commands : pc[c] \in {"fill", "mark"}

\* Settings and configurations name the controller of their source; the state file's
\* place is the one of homoscale.yaml.
ControllersFollow ==
    /\ \A c \in Commands : /\ got[c].stateFile = applyDefaults.stateFile
                           /\ got[c].ctl = ControllerOf(got[c].src)
    /\ config \in Made => config.ctl = ControllerOf(config.from)
    /\ engine # Down =>
         /\ engine.stateFile = applyDefaults.stateFile
         /\ engine.reads \in Made => engine.reads.ctl = ControllerOf(engine.reads.from)

\* An engine that has not read its configuration yet has its start waiting for it.
UnreadIsAwaited ==
    engine # Down /\ engine.reads = Absent =>
        pc[engine.by] = "ready" /\ engine.src = source /\ engine.dir = ImportDir

FilesInv ==
    /\ TypeInv /\ OneBusy /\ ImportsWhole /\ SettingsFollow /\ ImportFollows
    /\ ConfigFollows /\ UnmarkedIsTheUsers /\ ControllersFollow /\ UnreadIsAwaited
    /\ EngineReadsOwn

USE CommandsAssumption, FilesAssumption, MarkersAssumption
USE DEF Place, Importing, Preparing, Loaded, Ended

-----------------------------------------------------------------------------
(* Types.                                                                  *)

LEMMA InitTyped == ASSUME Init PROVE TypeInv
<1>1. applyDefaults \in Settings
  BY DEF Init, applyDefaults, Settings, Dirs, Controls, Content
<1>2. got \in [Commands -> Settings] BY <1>1 DEF Init
<1>3. TypeOK BY <1>2 DEF Init, TypeOK, Content, Configs
<1>4. Entitled BY DEF Init, Entitled
<1> QED BY <1>3, <1>4 DEF TypeInv

\* The defaults are settings, and they change as little as homoscale.yaml does.
LEMMA DefaultsTyped ==
  ASSUME TypeOK PROVE applyDefaults \in Settings
BY DEF TypeOK, applyDefaults, Settings, Dirs, Controls, Content

\* Loading and importing.
LEMMA LoadingTyped ==
  ASSUME TypeInv, NEW c \in Commands,
         \/ LoadConfig(c) \/ LoadFails(c) \/ TruncateSource(c) \/ FillSource(c)
         \/ TruncateState(c) \/ FillState(c) \/ NothingRemembered(c) \/ SourceRemembered(c)
         \/ readImportedEngineSourceState(c) \/ readLocalEngineConfig(c) \/ CommandEnds(c)
  PROVE  TypeInv'
<1> USE DEF TypeInv, TypeOK, Entitled, Goto, fixed, import, command
<1>1. CASE LoadConfig(c)
  BY <1>1, DefaultsTyped DEF LoadConfig
<1>2. CASE LoadFails(c) BY <1>2 DEF LoadFails
<1>3. CASE TruncateSource(c) BY <1>3 DEF TruncateSource, Content
<1>4. CASE FillSource(c) BY <1>4 DEF FillSource, Content, Written
<1>5. CASE TruncateState(c) BY <1>5 DEF TruncateState, Content
<1>6. CASE FillState(c) BY <1>6 DEF FillState, Content, Written
<1>7. CASE NothingRemembered(c) BY <1>7 DEF NothingRemembered
<1>8. CASE SourceRemembered(c) BY <1>8 DEF SourceRemembered
<1>9. CASE readImportedEngineSourceState(c)
  BY <1>9 DEF readImportedEngineSourceState, Settings, Dirs, Content
<1>10. CASE readLocalEngineConfig(c)
  <2>1. ControllerOf(source) \in Controls BY DEF ControllerOf, Controls
  <2>2. [got[c] EXCEPT !.src = source, !.ctl = ControllerOf(source)] \in Settings
    BY <2>1, ZenonT(40) DEF Settings
  <2> QED BY <1>10, <2>2 DEF readLocalEngineConfig
<1>11. CASE CommandEnds(c) BY <1>11 DEF CommandEnds
<1> QED BY <1>1, <1>2, <1>3, <1>4, <1>5, <1>6, <1>7, <1>8, <1>9, <1>10, <1>11

\* A start, its failures and its end.
LEMMA StartTyped ==
  ASSUME TypeInv, NEW c \in Commands,
         \/ DerivesFromSource(c) \/ KeepsConfig(c) \/ Generates(c)
         \/ TruncateConfig(c) \/ FillConfig(c) \/ WriteMarker(c)
         \/ AlreadyRunning(c) \/ Spawn(c) \/ BecomesReady(c) \/ ReadyTimeout(c)
         \/ WaitReturns(c) \/ Fails(c) \/ Killed(c)
  PROVE  TypeInv'
<1> USE DEF TypeInv, TypeOK, Entitled, Goto, fixed, import, command
<1>1. CASE DerivesFromSource(c) BY <1>1 DEF DerivesFromSource
<1>2. CASE KeepsConfig(c) BY <1>2 DEF KeepsConfig
<1>3. CASE Generates(c) BY <1>3 DEF Generates, Content
<1>4. CASE TruncateConfig(c) BY <1>4 DEF TruncateConfig, Configs
<1>5. CASE FillConfig(c) BY <1>5 DEF FillConfig, Configs, Made, Written, Settings
<1>6. CASE WriteMarker(c) BY <1>6 DEF WriteMarker
<1>7. CASE AlreadyRunning(c) BY <1>7 DEF AlreadyRunning
<1>8. CASE Spawn(c) BY <1>8 DEF Spawn, Engines, Settings, Configs
<1>9. CASE BecomesReady(c) BY <1>9 DEF BecomesReady
<1>10. CASE ReadyTimeout(c) BY <1>10 DEF ReadyTimeout
<1>11. CASE WaitReturns(c) BY <1>11 DEF WaitReturns
<1>12. CASE Fails(c) BY <1>12 DEF Fails
<1>13. CASE Killed(c) BY <1>13 DEF Killed
<1> QED BY <1>1, <1>2, <1>3, <1>4, <1>5, <1>6, <1>7, <1>8, <1>9, <1>10, <1>11, <1>12, <1>13

LEMMA StepTyped == ASSUME TypeInv, [Next]_vars PROVE TypeInv'
<1>1. CASE \E c \in Commands : Step(c)
  BY <1>1, LoadingTyped, StartTyped DEF Step
<1>2. CASE EngineReads
  BY <1>2 DEF EngineReads, TypeInv, TypeOK, Entitled, fixed, import, command, Engines
<1>3. CASE EngineEnds
  BY <1>3 DEF EngineEnds, TypeInv, TypeOK, Entitled, fixed, import, command
<1>4. CASE UserWrites \/ UserRemoves
  BY <1>4 DEF UserWrites, UserRemoves, TypeInv, TypeOK, Entitled, fixed, import, command, Configs
<1>5. CASE UNCHANGED vars
  BY <1>5 DEF vars, TypeInv, TypeOK, Entitled, fixed, import, command
<1> QED BY <1>1, <1>2, <1>3, <1>4, <1>5 DEF Next

\* Every place, file and setting keeps its type, however commands overlap.
THEOREM FilesTyped == Spec => []TypeOK
<1>1. Init => TypeInv BY InitTyped
<1>2. TypeInv /\ [Next]_vars => TypeInv' BY StepTyped
<1>3. TypeInv => TypeOK BY DEF TypeInv
<1> QED BY <1>1, <1>2, <1>3, PTL DEF Spec

-----------------------------------------------------------------------------
(* Commands used one after the other.                                      *)

LEMMA InitFiles == ASSUME Init PROVE FilesInv
<1>1. TypeInv BY InitTyped
<1>2. OneBusy /\ SettingsFollow /\ ImportFollows /\ ConfigFollows
  BY DEF Init, OneBusy, Settled, SettingsFollow, ImportFollows, ConfigFollows
<1>3. ImportsWhole /\ UnmarkedIsTheUsers /\ UnreadIsAwaited /\ EngineReadsOwn
  BY DEF Init, ImportsWhole, UnmarkedIsTheUsers, UnreadIsAwaited, EngineReadsOwn
<1>4. ControllersFollow
  BY DEF Init, ControllersFollow, applyDefaults, ControllerOf
<1> QED BY <1>1, <1>2, <1>3, <1>4 DEF FilesInv

\* Who awaits an engine that has not read its configuration is the one command under way.
LEMMA UnreadAlone ==
  ASSUME FilesInv, engine # Down, engine.reads = Absent
  PROVE  /\ engine.by \in Starts /\ pc[engine.by] = "ready"
         /\ \A c \in Commands : c # engine.by => Settled(c)
BY DEF FilesInv, TypeInv, TypeOK, Engines, UnreadIsAwaited, OneBusy, Settled

USE DEF FilesInv, TypeInv, TypeOK, Entitled, OneBusy, Settled, ImportsWhole, SettingsFollow,
        ImportFollows, ConfigFollows, UnmarkedIsTheUsers, ControllersFollow, UnreadIsAwaited,
        EngineReadsOwn

\* Loading: what a command computes is computed from the files as they stay.
LEMMA LoadingKeeps ==
  ASSUME FilesInv, TypeInv', Serial, NEW c \in Commands,
         \/ LoadConfig(c) \/ LoadFails(c) \/ NothingRemembered(c) \/ SourceRemembered(c)
         \/ readImportedEngineSourceState(c) \/ readLocalEngineConfig(c) \/ CommandEnds(c)
  PROVE  FilesInv'
<1> USE DEF Goto, fixed, import, Serial, Computed, ImportDir, applyDefaults, ControllerOf,
            DerivedBy, Leftover
<1>1. CASE LoadConfig(c) BY <1>1 DEF LoadConfig
<1>2. CASE LoadFails(c) BY <1>2 DEF LoadFails
<1>3. CASE NothingRemembered(c) BY <1>3 DEF NothingRemembered
<1>4. CASE SourceRemembered(c) BY <1>4 DEF SourceRemembered
<1>5. CASE readImportedEngineSourceState(c)
  BY <1>5 DEF readImportedEngineSourceState
<1>6. CASE readLocalEngineConfig(c)
  <2> USE <1>6 DEF readLocalEngineConfig
  <2>1. got[c] = [applyDefaults EXCEPT !.dir = ImportDir] OBVIOUS
  <2>2. got'[c] = [got[c] EXCEPT !.src = source, !.ctl = ControllerOf(source)]
    OBVIOUS
  <2>3. got'[c] = Computed'
    <3> HIDE DEF ControllerOf, ImportDir, applyDefaults
    <3>1. /\ got'[c].src = source /\ got'[c].ctl = ControllerOf(source)
          /\ got'[c].dir = got[c].dir /\ got'[c].stateFile = got[c].stateFile
      BY <2>2 DEF Settings
    <3>2. got[c].dir = ImportDir /\ got[c].stateFile = applyDefaults.stateFile
      BY <2>1, DefaultsTyped DEF Settings
    <3>3. Computed' = [dir |-> ImportDir, stateFile |-> applyDefaults.stateFile,
                       src |-> source, ctl |-> ControllerOf(source)]
      BY DEF ImportDir, applyDefaults, ControllerOf
    <3> DEFINE g == got'[c]
    <3>4. g = [dir |-> g.dir, stateFile |-> g.stateFile, src |-> g.src, ctl |-> g.ctl]
      BY DEF Settings
    <3>5. /\ g.dir = ImportDir /\ g.stateFile = applyDefaults.stateFile
          /\ g.src = source /\ g.ctl = ControllerOf(source)
      BY <3>1, <3>2
    <3> HIDE DEF g
    <3> QED BY <3>3, <3>4, <3>5 DEF g
  <2>4. SettingsFollow' BY <2>3
  <2>5. ControllersFollow' BY <2>3
  <2> QED BY <2>4, <2>5
<1>7. CASE CommandEnds(c) BY <1>7 DEF CommandEnds
<1> QED BY <1>1, <1>2, <1>3, <1>4, <1>5, <1>6, <1>7

\* Importing: nobody else is under way, so nobody has read what is overwritten.
LEMMA ImportingKeeps ==
  ASSUME FilesInv, TypeInv', Serial, NEW c \in Commands,
         TruncateSource(c) \/ FillSource(c) \/ TruncateState(c) \/ FillState(c)
  PROVE  FilesInv'
<1> USE DEF Goto, fixed, Serial, Computed, ImportDir, applyDefaults, ControllerOf,
            DerivedBy, Leftover, Written
<1>1. engine # Down => engine.reads # Absent
  BY UnreadAlone DEF TruncateSource, FillSource, TruncateState, FillState
<1>2. CASE TruncateSource(c)
  <2> USE <1>2 DEF TruncateSource
  <2>1. OneBusy' /\ ImportsWhole' OBVIOUS
  <2>2. SettingsFollow' OBVIOUS
  <2>3. ImportFollows' /\ ConfigFollows' OBVIOUS
  <2>4. UnmarkedIsTheUsers' /\ ControllersFollow' OBVIOUS
  <2>5. UnreadIsAwaited' /\ EngineReadsOwn' BY <1>1
  <2> QED BY <2>1, <2>2, <2>3, <2>4, <2>5
<1>3. CASE FillSource(c) BY <1>1, <1>3 DEF FillSource
<1>4. CASE TruncateState(c) BY <1>1, <1>4 DEF TruncateState
<1>5. CASE FillState(c) BY <1>1, <1>5 DEF FillState
<1> QED BY <1>2, <1>3, <1>4, <1>5

\* Deriving config.yaml, or keeping it.
LEMMA DerivingKeeps ==
  ASSUME FilesInv, TypeInv', Serial, NEW c \in Commands,
         \/ DerivesFromSource(c) \/ KeepsConfig(c) \/ Generates(c)
         \/ TruncateConfig(c) \/ FillConfig(c) \/ WriteMarker(c)
  PROVE  FilesInv'
<1> USE DEF Goto, fixed, import, Serial, Computed, ImportDir, applyDefaults, ControllerOf,
            DerivedBy, Leftover, Written, Made
<1>1. CASE DerivesFromSource(c) BY <1>1 DEF DerivesFromSource
<1>2. CASE KeepsConfig(c) BY <1>2 DEF KeepsConfig
<1>3. CASE Generates(c) BY <1>3 DEF Generates
<1>4. CASE TruncateConfig(c) BY <1>4 DEF TruncateConfig
<1>5. CASE FillConfig(c) BY <1>5 DEF FillConfig
<1>6. CASE WriteMarker(c) BY <1>6 DEF WriteMarker
<1> QED BY <1>1, <1>2, <1>3, <1>4, <1>5, <1>6

\* Running the engine, failing and being killed.
LEMMA RunningKeeps ==
  ASSUME FilesInv, TypeInv', Serial, NEW c \in Commands,
         \/ AlreadyRunning(c) \/ Spawn(c) \/ BecomesReady(c) \/ ReadyTimeout(c)
         \/ WaitReturns(c) \/ Fails(c) \/ Killed(c)
  PROVE  FilesInv'
<1> USE DEF Goto, fixed, import, Serial, Computed, ImportDir, applyDefaults, ControllerOf,
            DerivedBy, Leftover, Made, Content, Controls, Engines, Runs
<1>1. CASE AlreadyRunning(c) BY <1>1 DEF AlreadyRunning
<1>2. CASE Spawn(c) BY <1>2 DEF Spawn
<1>3. CASE BecomesReady(c) BY <1>3 DEF BecomesReady
<1>4. CASE ReadyTimeout(c) BY <1>4 DEF ReadyTimeout
<1>5. CASE WaitReturns(c) BY <1>5 DEF WaitReturns
<1>6. CASE Fails(c) BY <1>6 DEF Fails
<1>7. CASE Killed(c) BY <1>7 DEF Killed
<1> QED BY <1>1, <1>2, <1>3, <1>4, <1>5, <1>6, <1>7

\* The engine and the user.  What an engine reads is what its start, which still waits
\* for it, has derived or kept.
LEMMA OutsideKeeps ==
  ASSUME FilesInv, TypeInv', Serial,
         EngineReads \/ EngineEnds \/ UserWrites \/ UserRemoves
  PROVE  FilesInv'
<1> USE DEF fixed, command, import, Serial, Computed, ImportDir, applyDefaults, ControllerOf,
            DerivedBy, Leftover, Made
<1>1. CASE EngineReads BY <1>1, UnreadAlone DEF EngineReads, Engines
<1>2. CASE EngineEnds BY <1>2 DEF EngineEnds
<1>3. CASE UserWrites BY <1>3, UnreadAlone DEF UserWrites
<1>4. CASE UserRemoves BY <1>4, UnreadAlone DEF UserRemoves
<1> QED BY <1>1, <1>2, <1>3, <1>4

LEMMA StepFiles == ASSUME FilesInv, [Next /\ Serial]_vars PROVE FilesInv'
<1>1. TypeInv' BY StepTyped
<1>2. CASE \E c \in Commands : Step(c) /\ Serial
  BY <1>1, <1>2, LoadingKeeps, ImportingKeeps, DerivingKeeps, RunningKeeps DEF Step
<1>3. CASE Serial /\ (EngineReads \/ EngineEnds \/ UserWrites \/ UserRemoves)
  BY <1>1, <1>3, OutsideKeeps
<1>4. CASE UNCHANGED vars
  BY <1>4 DEF vars, fixed, command, import, Computed, ImportDir, applyDefaults, DerivedBy,
              Leftover
<1> QED BY <1>2, <1>3, <1>4 DEF Next

LEMMA FilesInvariant == SerialSpec => []FilesInv
<1>1. Init => FilesInv BY InitFiles
<1>2. FilesInv /\ [Next /\ Serial]_vars => FilesInv' BY StepFiles
<1> HIDE DEF FilesInv
<1> QED BY <1>1, <1>2, PTL DEF SerialSpec

\* A command finds the engine that runs, whatever has been imported since: its settings
\* name the state file of the engine's start, and the controller of the source that the
\* engine has read.
THEOREM EngineIsFound == SerialSpec => []CommandsFindEngine
<1>1. FilesInv => CommandsFindEngine
  BY DEF CommandsFindEngine
<1> QED BY <1>1, FilesInvariant, PTL

\* A start that keeps config.yaml keeps the user's, or what a failed start has left over.
THEOREM UsersConfigKept == SerialSpec => []KeptIsTheUsers
<1>1. FilesInv => KeptIsTheUsers
  BY DEF KeptIsTheUsers, Computed
<1> QED BY <1>1, FilesInvariant, PTL

\* An engine runs what its own start has derived or kept.
THEOREM OwnConfigRead == SerialSpec => []EngineReadsOwn
<1>1. FilesInv => EngineReadsOwn OBVIOUS
<1> QED BY <1>1, FilesInvariant, PTL

-----------------------------------------------------------------------------
(* SerialSpec implements ImportedSource.                                   *)

\* While a command imports, what is remembered is the file it was given, ...
LEMMA ImportIsRemembered ==
  ASSUME FilesInv, FilesInv', NEW c \in Commands
  PROVE  /\ pc[c] \in Importing => rememberedOf = arg[c]
         /\ pc'[c] \in Importing => rememberedOf' = arg'[c]
<1>1. ASSUME pc[c] \in Importing PROVE rememberedOf = arg[c]
  <2>1. (CHOOSE d \in Commands : pc[d] \in Importing) = c BY <1>1
  <2> QED BY <1>1, <2>1 DEF rememberedOf
<1>2. ASSUME pc'[c] \in Importing PROVE rememberedOf' = arg'[c]
  <2>1. (CHOOSE d \in Commands : pc'[d] \in Importing) = c BY <1>2
  <2> QED BY <1>2, <2>1 DEF rememberedOf
<1> QED BY <1>1, <1>2

\* ... and otherwise what source.yaml and source-state.yaml say together.
FromFiles == IF source = Absent \/ (source \in Files /\ Whole) THEN source ELSE Torn

LEMMA FilesAreRemembered ==
  /\ (\A c \in Commands : pc[c] \notin Importing) => rememberedOf = FromFiles
  /\ (\A c \in Commands : pc'[c] \notin Importing) => rememberedOf' = FromFiles'
BY DEF rememberedOf, FromFiles

\* It changes only with these files, or when an import begins or ends.
LEMMA RememberedKept ==
  ASSUME FilesInv, FilesInv', UNCHANGED <<yaml, arg, source, sourceState>>,
         \A c \in Commands : pc[c] \in Importing <=> pc'[c] \in Importing
  PROVE  rememberedOf' = rememberedOf
<1>1. CASE \E c \in Commands : pc[c] \in Importing
  BY <1>1, ImportIsRemembered
<1>2. CASE \A c \in Commands : pc[c] \notin Importing
  <2>1. rememberedOf = FromFiles /\ rememberedOf' = FromFiles' BY <1>2, FilesAreRemembered
  <2> QED BY <2>1 DEF FromFiles, Whole
<1> QED BY <1>1, <1>2

LEMMA RunningKept == ASSUME UNCHANGED engine PROVE runningOf' = runningOf
BY DEF runningOf

imported == <<rememberedOf, runningOf, failedOf>>

\* Loading, deriving and waiting are not seen, nor is what the user does.
LEMMA UnseenStep ==
  ASSUME FilesInv, FilesInv',
         \/ \E c \in Commands :
              \/ LoadConfig(c) \/ NothingRemembered(c) \/ SourceRemembered(c)
              \/ readImportedEngineSourceState(c) \/ readLocalEngineConfig(c)
              \/ CommandEnds(c) \/ DerivesFromSource(c) \/ KeepsConfig(c) \/ Generates(c)
              \/ TruncateConfig(c) \/ FillConfig(c) \/ WriteMarker(c)
              \/ BecomesReady(c) \/ WaitReturns(c)
         \/ UserWrites \/ UserRemoves
  PROVE  UNCHANGED imported
<1> USE DEF Goto, fixed, import, command
<1> DEFINE seen(d) == <<pc[d] \in Importing, pc[d] \in {"failed", "killed"}>>
<1>1. UNCHANGED <<yaml, arg, source, sourceState, engine>>
  BY DEF LoadConfig, NothingRemembered, SourceRemembered, readImportedEngineSourceState,
         readLocalEngineConfig, CommandEnds, DerivesFromSource, KeepsConfig, Generates,
         TruncateConfig, FillConfig, WriteMarker, BecomesReady, WaitReturns, UserWrites,
         UserRemoves
<1>2. ASSUME NEW c \in Commands, NEW d \in Commands,
             \/ LoadConfig(c) \/ NothingRemembered(c) \/ SourceRemembered(c)
             \/ readImportedEngineSourceState(c) \/ readLocalEngineConfig(c)
             \/ CommandEnds(c)
      PROVE  seen(d)' = seen(d)
  <2>1. CASE LoadConfig(c) BY <2>1 DEF LoadConfig
  <2>2. CASE NothingRemembered(c) \/ SourceRemembered(c) \/ CommandEnds(c)
    BY <2>2 DEF NothingRemembered, SourceRemembered, CommandEnds
  <2>3. CASE readImportedEngineSourceState(c) BY <2>3 DEF readImportedEngineSourceState
  <2>4. CASE readLocalEngineConfig(c)
    <3>1. pc[c] = "readSource" /\ pc' = [pc EXCEPT ![c] = "loaded"]
      BY <2>4, Zenon DEF readLocalEngineConfig
    <3> QED BY <3>1
  <2> QED BY <1>2, <2>1, <2>2, <2>3, <2>4
<1>3. ASSUME NEW c \in Commands, NEW d \in Commands,
             \/ DerivesFromSource(c) \/ KeepsConfig(c) \/ Generates(c)
             \/ TruncateConfig(c) \/ FillConfig(c) \/ WriteMarker(c)
             \/ BecomesReady(c) \/ WaitReturns(c)
      PROVE  seen(d)' = seen(d)
  BY <1>3 DEF DerivesFromSource, KeepsConfig, Generates, TruncateConfig, FillConfig,
         WriteMarker, BecomesReady, WaitReturns
<1>4. \A d \in Commands : seen(d)' = seen(d)
  BY <1>2, <1>3 DEF UserWrites, UserRemoves
<1> QED BY <1>1, <1>4, RememberedKept, RunningKept DEF imported, failedOf

\* An import takes place when it truncates source.yaml; writing it out is not seen.
LEMMA ImportStep ==
  ASSUME FilesInv, FilesInv', NEW c \in Commands,
         TruncateSource(c) \/ FillSource(c) \/ TruncateState(c) \/ FillState(c)
  PROVE  [Imported!Next]_imported
<1> USE DEF Goto, fixed, imported
<1>1. runningOf' = runningOf /\ failedOf' = failedOf
  BY RunningKept DEF TruncateSource, FillSource, TruncateState, FillState, failedOf
<1>2. CASE TruncateSource(c)
  <2>1. rememberedOf' \in Files
    BY <1>2, ImportIsRemembered DEF TruncateSource
  <2> QED BY <1>1, <2>1 DEF Imported!Next, Imported!Import
<1>3. CASE FillSource(c) \/ TruncateState(c)
  <2>1. rememberedOf' = rememberedOf
    BY <1>3, ImportIsRemembered DEF FillSource, TruncateState
  <2> QED BY <1>1, <2>1
<1>4. CASE FillState(c)
  <2>1. rememberedOf = arg[c] /\ arg[c] \in Files
    BY <1>4, ImportIsRemembered DEF FillState
  <2>2. rememberedOf' = FromFiles'
    BY <1>4, FilesAreRemembered DEF FillState
  <2>3. source' = arg[c] /\ sourceState' = arg[c]
    BY <1>4 DEF FillState, Written
  <2> QED BY <1>1, <2>1, <2>2, <2>3 DEF FromFiles, Whole
<1> QED BY <1>2, <1>3, <1>4

\* What fails in the middle of an import leaves the new one, or a broken one; what fails
\* elsewhere changes nothing that is remembered.
LEMMA FailStep ==
  ASSUME FilesInv, FilesInv', NEW c \in Commands,
         LoadFails(c) \/ AlreadyRunning(c) \/ ReadyTimeout(c) \/ Fails(c) \/ Killed(c)
  PROVE  Imported!Fail(c)
<1> USE DEF Goto, fixed, import
<1>1. /\ UNCHANGED <<yaml, arg, source, sourceState>>
      /\ pc[c] \notin {"failed", "killed"} /\ pc'[c] \in {"failed", "killed"}
      /\ \A d \in Commands : d # c => pc'[d] = pc[d]
      /\ engine' \in {engine, Down}
  BY DEF LoadFails, AlreadyRunning, ReadyTimeout, Fails, Killed
<1>2. c \notin failedOf /\ failedOf' = failedOf \cup {c}
  BY <1>1 DEF failedOf
<1>3. runningOf' \in {runningOf, Down}
  BY <1>1 DEF runningOf
<1>4. rememberedOf' \in {rememberedOf, Torn}
  <2>1. CASE pc[c] \in Importing
    <3>1. rememberedOf = arg[c] /\ arg[c] \in Files BY <2>1, ImportIsRemembered
    <3>2. rememberedOf' = FromFiles' BY <1>1, <2>1, FilesAreRemembered
    <3>3. source' \in {Empty, arg[c]} BY <1>1, <2>1
    <3> QED BY <3>1, <3>2, <3>3 DEF FromFiles
  <2>2. CASE pc[c] \notin Importing
    BY <1>1, <2>2, RememberedKept
  <2> QED BY <2>1, <2>2
<1> QED BY <1>2, <1>3, <1>4 DEF Imported!Fail

\* An engine is launched when it reads its configuration: it then runs what is remembered.
LEMMA LaunchStep ==
  ASSUME FilesInv, FilesInv', EngineReads
  PROVE  Imported!Launch
<1> USE DEF EngineReads, fixed, command, import
<1> DEFINE c == engine.by
<1>1. /\ c \in Starts /\ pc[c] = "ready"
      /\ \A d \in Commands : pc[d] \notin Importing
  BY UnreadAlone
<1>2. rememberedOf = FromFiles /\ rememberedOf' = FromFiles
  BY <1>1, FilesAreRemembered DEF FromFiles, Whole
<1>3. failedOf' = failedOf /\ runningOf = Down
  BY DEF failedOf, runningOf
<1>4. /\ engine' # Down /\ engine'.reads = config /\ config # Absent
      /\ engine'.src = source /\ engine'.dir = ImportDir
  BY DEF Engines
<1>5. runningOf' = FromFiles
  <2>1. CASE source = Absent
    BY <1>4, <2>1 DEF runningOf, FromFiles
  <2>2. CASE source \in Files
    <3>1. config = DerivedBy(c) BY <1>1, <2>2
    <3>2. config \in Made /\ config.from = source
      BY <1>1, <3>1 DEF DerivedBy, Made, ControllerOf, Controls, Content
    <3>3. ImportDir \in {source, "own"} <=> Whole
      BY <2>2 DEF ImportDir, applyDefaults, Whole, Content
    <3> QED BY <1>4, <2>2, <3>2, <3>3 DEF runningOf, FromFiles
  <2>3. CASE source = Empty
    BY <1>4, <2>3 DEF runningOf, FromFiles
  <2> QED BY <2>1, <2>2, <2>3 DEF Content
<1> QED BY <1>2, <1>3, <1>5 DEF Imported!Launch

LEMMA StepImported ==
  ASSUME FilesInv, FilesInv', [Next /\ Serial]_vars
  PROVE  [Imported!Next]_imported
<1>1. ASSUME NEW c \in Commands, Step(c) PROVE [Imported!Next]_imported
  <2>1. CASE TruncateSource(c) \/ FillSource(c) \/ TruncateState(c) \/ FillState(c)
    BY <2>1, ImportStep
  <2>2. CASE LoadFails(c) \/ AlreadyRunning(c) \/ ReadyTimeout(c) \/ Fails(c) \/ Killed(c)
    BY <2>2, FailStep DEF Imported!Next
  <2>3. CASE Spawn(c)
    <3>1. rememberedOf' = rememberedOf
      BY <2>3, RememberedKept DEF Spawn, Goto, fixed, import
    <3>2. runningOf = Down /\ runningOf' = Down /\ failedOf' = failedOf
      BY <2>3 DEF Spawn, Goto, runningOf, failedOf
    <3> QED BY <3>1, <3>2 DEF imported
  <2> QED BY <1>1, <2>1, <2>2, <2>3, UnseenStep DEF Step
<1>2. CASE EngineReads BY <1>2, LaunchStep DEF Imported!Next
<1>3. CASE EngineEnds
  <2>1. rememberedOf' = rememberedOf
    BY <1>3, RememberedKept DEF EngineEnds, fixed, command, import
  <2>2. runningOf' = Down /\ failedOf' = failedOf
    BY <1>3 DEF EngineEnds, command, runningOf, failedOf
  <2> QED BY <2>1, <2>2 DEF Imported!Next, Imported!End
<1>4. CASE UserWrites \/ UserRemoves BY <1>4, UnseenStep
<1>5. CASE UNCHANGED vars
  BY <1>5, RememberedKept, RunningKept DEF vars, fixed, command, import, imported, failedOf
<1> QED BY <1>1, <1>2, <1>3, <1>4, <1>5 DEF Next

\* README.md:24-25, for commands used one after the other: an import replaces the one
\* before, and every engine started later runs it as a whole, whatever fails or is killed.
THEOREM SerialImplementsImported == SerialSpec => ImplementsImportedSource
<1>1. Init => Imported!Init
  BY DEF Init, Imported!Init, rememberedOf, runningOf, failedOf
<1>2. FilesInv /\ FilesInv' /\ [Next /\ Serial]_vars
        => [Imported!Next]_<<rememberedOf, runningOf, failedOf>>
  BY StepImported DEF imported
<1> HIDE DEF FilesInv
<1> QED BY <1>1, <1>2, FilesInvariant, PTL
      DEF SerialSpec, Imported!Spec, ImplementsImportedSource
=============================================================================
