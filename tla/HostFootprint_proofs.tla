-------------------------- MODULE HostFootprint_proofs --------------------------
(***************************************************************************)
(* The safety properties of HostFootprint, for any number of sessions and  *)
(* suffixes, from one inductive invariant, FootprintInv.                   *)
(***************************************************************************)
EXTENDS HostFootprint, TLAPS

\* Places a process is at before it has looked at the resolver file, and at which it has
\* to remove the one it has written.
Early == {"new", "boot", "net", "spawn", "ready", "look"}
Kept  == {"serve", "close", "remove", "dead"}

Lone(p) == \A q \in Procs \ {p} : at[q] # at[p]

\* A process settles on a resolver file once, and has a closer only after it has written.
SettlesOnce ==
    \A p \in Procs :
        /\ pc[p] \in Early => at[p] = NoSuffix
        /\ pc[p] \in {"open", "fill", "remove"} => at[p] # NoSuffix
        /\ closer[p] => pc[p] \in Kept \cup {"state", "pid", "ended"}

\* A managed file is the one its writer will remove, or has failed to.
WriterRemoves ==
    \A s \in Suffixes : Managed(file[s]) =>
        closer[file[s]] /\ at[file[s]] = s

\* Nobody about to write or remove a file has a file of the user's in front of it.
NotTheUsers ==
    \A p \in Procs : pc[p] \in {"open", "fill", "remove"} => file[at[p]] # "user"

\* A process that writes a file nobody else has set out to write keeps it open.
LoneWriterIsOpen == \A p \in Procs : pc[p] = "fill" /\ Lone(p) => opened[p]

\* A session has its parent from its start on, and the pid file names one that has.
ParentsPid ==
    /\ \A p \in Procs : Background(p) => pc[p] # "new"
    /\ pidFile \in Procs => parent[pidFile] \in {"wrote", "late"}

LonePid ==
    \A p \in Procs :
        parent[p] = "wrote" /\ pc[p] # "ended" /\ ~Meddled(p) => pidFile = p

FootprintInv ==
    /\ TypeOK
    /\ SettlesOnce /\ WriterRemoves /\ NotTheUsers
    /\ LoneWriterIsOpen /\ LoneSessionKeepsResolver
    /\ ParentsPid /\ LonePid /\ StalePidIsLateWrite

USE ProcsAssumption, NoneAssumption
    DEF Set, Step, Goto, Over, Running, Managed, launch, engines, resolver, Early, Kept, Lone,
        Background, Meddled

-----------------------------------------------------------------------------
\* Every step keeps the type invariant.
LEMMA TypeStep ==
  ASSUME TypeOK, SettlesOnce, [Next]_vars
  PROVE  TypeOK'
<1> USE DEF TypeOK
<1>1. ASSUME NEW p \in Procs,
             StartsForeground(p) \/ StartsDaemon(p) \/ WritesPid(p) \/ BootFails(p) \/ Boots(p)
      PROVE  TypeOK'
  BY <1>1 DEF StartsForeground, StartsDaemon, WritesPid, BootFails, Boots
<1>2. ASSUME NEW p \in Procs, PidWriteFails(p) PROVE TypeOK' BY <1>2 DEF PidWriteFails
<1>3. ASSUME NEW p \in Procs,
             RemovesPid(p) \/ NetFails(p) \/ ChecksPass(p)
      PROVE  TypeOK'
  BY <1>3 DEF RemovesPid, NetFails, ChecksPass
<1>4. ASSUME NEW p \in Procs, SpawnFails(p) \/ Ready(p) PROVE TypeOK'
  BY <1>4 DEF SpawnFails, Ready
<1>5. ASSUME NEW p \in Procs, Spawns(p) PROVE TypeOK' BY <1>5 DEF Spawns
<1>6. ASSUME NEW p \in Procs, ReadyTimeout(p) PROVE TypeOK' BY <1>6 DEF ReadyTimeout
<1>7. ASSUME NEW p \in Procs, WaitReturns(p) \/ RemovesState(p) PROVE TypeOK'
  BY <1>7 DEF WaitReturns, RemovesState
<1>8. ASSUME NEW p \in Procs, Looks(p) \/ LeavesAlone(p) \/ OpenFails(p) PROVE TypeOK'
  BY <1>8 DEF Looks, LeavesAlone, OpenFails, SettlesOnce
<1>9. ASSUME NEW p \in Procs, Opens(p) PROVE TypeOK'
  BY <1>9 DEF Opens, SettlesOnce
<1>10. ASSUME NEW p \in Procs, Fills(p) PROVE TypeOK' BY <1>10 DEF Fills, SettlesOnce
<1>11. ASSUME NEW p \in Procs, FillFails(p) PROVE TypeOK' BY <1>11 DEF FillFails
<1>12. ASSUME NEW p \in Procs, ClosesManaged(p) \/ RemovalFails(p) PROVE TypeOK'
  <2>1. p \notin {q \in Procs : pc'[q] \in {"new", "boot", "net", "spawn"}}
    BY <1>12 DEF ClosesManaged, RemovalFails
  <2> QED BY <1>12, <2>1 DEF ClosesManaged, RemovalFails
<1>19. ASSUME NEW p \in Procs, Closes(p) PROVE TypeOK' BY <1>19 DEF Closes
<1>13. ASSUME NEW p \in Procs, Removes(p) PROVE TypeOK' BY <1>13 DEF Removes
<1>14. ASSUME NEW p \in Procs, Signals(p) PROVE TypeOK' BY <1>14 DEF Signals
<1>15. ASSUME NEW p \in Procs, Kills(p) PROVE TypeOK' BY <1>15 DEF Kills
<1>16. ASSUME NEW p \in Procs, EngineEnds(p) PROVE TypeOK' BY <1>16 DEF EngineEnds
<1>17. CASE SuffixChanges \/ \E s \in Suffixes : UserEdits(s)
  BY <1>17 DEF SuffixChanges, UserEdits
<1>18. CASE UNCHANGED vars BY <1>18 DEF vars
<1> QED BY <1>1, <1>2, <1>3, <1>4, <1>5, <1>6, <1>7, <1>8, <1>9,
           <1>10, <1>11, <1>12, <1>13, <1>14, <1>15, <1>16, <1>17, <1>18,
           <1>19
        DEF Next, Session, Works, Others

-----------------------------------------------------------------------------
\* The launch of a session, the pid file's part included, keeps the invariant.
LEMMA LaunchStep ==
  ASSUME FootprintInv, NEW p \in Procs, TypeOK',
         \/ StartsForeground(p) \/ StartsDaemon(p) \/ WritesPid(p) \/ PidWriteFails(p)
         \/ BootFails(p) \/ Boots(p) \/ RemovesPid(p)
  PROVE  FootprintInv'
<1> USE DEF FootprintInv, TypeOK, SettlesOnce, WriterRemoves, NotTheUsers, LoneWriterIsOpen,
            LoneSessionKeepsResolver, ParentsPid, LonePid, StalePidIsLateWrite
<1>1. CASE StartsForeground(p) BY <1>1 DEF StartsForeground
<1>2. CASE StartsDaemon(p) BY <1>2 DEF StartsDaemon
<1>3. CASE WritesPid(p) BY <1>3 DEF WritesPid
<1>4. CASE PidWriteFails(p) BY <1>4 DEF PidWriteFails
<1>5. CASE BootFails(p) BY <1>5 DEF BootFails
<1>6. CASE Boots(p) BY <1>6 DEF Boots
<1>7. CASE RemovesPid(p) BY <1>7 DEF RemovesPid
<1> QED BY <1>1, <1>2, <1>3, <1>4, <1>5, <1>6, <1>7

\* The start of the runtime and of the engine, and the engine's end, keep it.
LEMMA EngineStep ==
  ASSUME FootprintInv, NEW p \in Procs, TypeOK',
         \/ NetFails(p) \/ ChecksPass(p)
         \/ Spawns(p) \/ SpawnFails(p) \/ Ready(p) \/ ReadyTimeout(p)
         \/ WaitReturns(p) \/ RemovesState(p)
  PROVE  FootprintInv'
<1> USE DEF FootprintInv, TypeOK, SettlesOnce, WriterRemoves, NotTheUsers, LoneWriterIsOpen,
            LoneSessionKeepsResolver, ParentsPid, LonePid, StalePidIsLateWrite
<1>1. CASE NetFails(p) BY <1>1 DEF NetFails
<1>2. CASE ChecksPass(p) BY <1>2 DEF ChecksPass
<1>3. CASE Spawns(p) BY <1>3 DEF Spawns
<1>4. CASE SpawnFails(p) BY <1>4 DEF SpawnFails
<1>5. CASE Ready(p) BY <1>5 DEF Ready
<1>6. CASE ReadyTimeout(p) BY <1>6 DEF ReadyTimeout
<1>7. CASE WaitReturns(p) BY <1>7 DEF WaitReturns
<1>8. CASE RemovesState(p) BY <1>8 DEF RemovesState
<1> QED BY <1>1, <1>2, <1>3, <1>4, <1>5, <1>6, <1>7, <1>8

\* The installation of the resolver file and its removal keep it.
LEMMA ResolverStep ==
  ASSUME FootprintInv, NEW p \in Procs, TypeOK',
         \/ Looks(p) \/ LeavesAlone(p) \/ Opens(p) \/ OpenFails(p) \/ Fills(p)
         \/ FillFails(p) \/ ClosesManaged(p) \/ Closes(p) \/ Removes(p) \/ RemovalFails(p)
  PROVE  FootprintInv'
<1> USE DEF FootprintInv, TypeOK, SettlesOnce, WriterRemoves, NotTheUsers, LoneWriterIsOpen,
            LoneSessionKeepsResolver, ParentsPid, LonePid, StalePidIsLateWrite
<1>1. CASE Looks(p) BY <1>1 DEF Looks
<1>2. CASE LeavesAlone(p) BY <1>2 DEF LeavesAlone
<1>3. CASE Opens(p) BY <1>3 DEF Opens
<1>4. CASE OpenFails(p) BY <1>4 DEF OpenFails
<1>5. CASE Fills(p) BY <1>5 DEF Fills
<1>6. CASE FillFails(p) BY <1>6 DEF FillFails
<1>7. CASE Closes(p) BY <1>7 DEF Closes
<1>8. CASE Removes(p) BY <1>8 DEF Removes
<1>9. CASE ClosesManaged(p) BY <1>9 DEF ClosesManaged
<1>10. CASE RemovalFails(p) BY <1>10 DEF RemovalFails
<1> QED BY <1>1, <1>2, <1>3, <1>4, <1>5, <1>6, <1>7, <1>8, <1>9, <1>10

\* Signals, kills, the engine's end, another suffix and the user's edits keep it.
LEMMA OtherStep ==
  ASSUME FootprintInv, TypeOK', Others
  PROVE  FootprintInv'
<1> USE DEF FootprintInv, TypeOK, SettlesOnce, WriterRemoves, NotTheUsers, LoneWriterIsOpen,
            LoneSessionKeepsResolver, ParentsPid, LonePid, StalePidIsLateWrite
<1>1. ASSUME NEW p \in Procs, Signals(p) PROVE FootprintInv' BY <1>1 DEF Signals
<1>2. ASSUME NEW p \in Procs, Kills(p) PROVE FootprintInv' BY <1>2 DEF Kills
<1>3. ASSUME NEW p \in Procs, EngineEnds(p) PROVE FootprintInv' BY <1>3 DEF EngineEnds
<1>4. CASE SuffixChanges BY <1>4 DEF SuffixChanges
<1>5. ASSUME NEW s \in Suffixes, UserEdits(s) PROVE FootprintInv' BY <1>5 DEF UserEdits
<1> QED BY <1>1, <1>2, <1>3, <1>4, <1>5 DEF Others

LEMMA AlwaysFootprintInv == Spec => []FootprintInv
<1>1. Init => FootprintInv
  BY DEF Init, FootprintInv, TypeOK, SettlesOnce, WriterRemoves, NotTheUsers, LoneWriterIsOpen,
         LoneSessionKeepsResolver, ParentsPid, LonePid, StalePidIsLateWrite
<1>2. FootprintInv /\ [Next]_vars => FootprintInv'
  <2> SUFFICES ASSUME FootprintInv, [Next]_vars PROVE FootprintInv'
    OBVIOUS
  <2>1. TypeOK' BY TypeStep DEF FootprintInv
  <2>2. CASE \E p \in Procs : Session(p)
    BY <2>1, <2>2, LaunchStep, EngineStep, ResolverStep DEF Session, Works
  <2>3. CASE Others BY <2>1, <2>3, OtherStep
  <2>4. CASE UNCHANGED vars
    BY <2>4 DEF vars, FootprintInv, TypeOK, SettlesOnce, WriterRemoves, NotTheUsers,
                LoneWriterIsOpen, LoneSessionKeepsResolver, ParentsPid, LonePid,
                StalePidIsLateWrite
  <2> QED BY <2>2, <2>3, <2>4 DEF Next
<1> QED BY <1>1, <1>2, PTL DEF Spec

-----------------------------------------------------------------------------
\* The variables hold values of their types; a closer has a file, an engine a session.
THEOREM FootprintTyped == Spec => []TypeOK
<1>1. FootprintInv => TypeOK BY DEF FootprintInv
<1> QED BY <1>1, AlwaysFootprintInv, PTL

\* A session that ends as it should leaves no resolver file of its making, whatever
\* overlaps with it, but one that it failed to remove.
THEOREM LeavesNoResolver == Spec => []NoResolverLeft
<1>1. FootprintInv => NoResolverLeft BY DEF FootprintInv, WriterRemoves, NoResolverLeft
<1> QED BY <1>1, AlwaysFootprintInv, PTL

\* A session that shares its resolver file with no other keeps it while it serves.
THEOREM KeepsLoneResolver == Spec => []LoneSessionKeepsResolver
<1>1. FootprintInv => LoneSessionKeepsResolver BY DEF FootprintInv
<1> QED BY <1>1, AlwaysFootprintInv, PTL

\* The pid file is wrong about a session in the known ways only: a parent that writes
\* late, or another background session's parent or end.
THEOREM PidFileIsMeddledWith == Spec => []PidFileUnlessMeddled
<1>1. FootprintInv => PidFileUnlessMeddled
  BY DEF FootprintInv, LonePid, PidFileUnlessMeddled
<1> QED BY <1>1, AlwaysFootprintInv, PTL

\* Nobody but the user changes a resolver file of the user's: from the invariant, who
\* opens or removes a file has none of the user's in front of it.
THEOREM NeverTouchesUserFile == Spec => UserFileKept
<1> DEFINE Keeps == \A s \in Suffixes : file[s] = "user" /\ file'[s] # "user" => UserEdits(s)
<1>1. ASSUME FootprintInv, [Next]_vars PROVE Keeps
  <2> USE DEF FootprintInv, TypeOK, SettlesOnce, NotTheUsers
  <2> SUFFICES ASSUME NEW s \in Suffixes, file[s] = "user", file'[s] # "user"
               PROVE  UserEdits(s)
    OBVIOUS
  <2>1. ASSUME NEW p \in Procs, Session(p) PROVE FALSE
    <3>1. CASE Opens(p) BY <1>1, <3>1 DEF Opens
    <3>2. CASE Fills(p) BY <1>1, <3>2 DEF Fills
    <3>3. CASE Removes(p) BY <1>1, <3>3 DEF Removes
    <3>4. CASE ~(Opens(p) \/ Fills(p) \/ Removes(p))
      <4>1. file' = file
        BY <2>1, <3>4
        DEF Session, Works, StartsForeground, StartsDaemon, WritesPid, PidWriteFails, BootFails,
            Boots, RemovesPid, NetFails, ChecksPass, Spawns, SpawnFails,
            Ready, ReadyTimeout, WaitReturns, RemovesState, Looks, LeavesAlone,
            OpenFails, FillFails, ClosesManaged, Closes, RemovalFails
      <4> QED BY <4>1
    <3> QED BY <3>1, <3>2, <3>3, <3>4
  <2>2. CASE Others
    <3>1. PICK t \in Suffixes : UserEdits(t)
      BY <2>2 DEF Others, Signals, Kills, EngineEnds, SuffixChanges
    <3>2. t = s BY <1>1, <3>1 DEF UserEdits
    <3> QED BY <3>1, <3>2
  <2>3. CASE UNCHANGED vars BY <2>3 DEF vars
  <2> QED BY <1>1, <2>1, <2>2, <2>3 DEF Next
<1>2. Spec => [][Keeps]_vars BY <1>1, AlwaysFootprintInv, PTL DEF Spec
<1> QED BY <1>2 DEF UserFileKept
=============================================================================
