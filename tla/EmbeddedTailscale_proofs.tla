----------------------- MODULE EmbeddedTailscale_proofs -----------------------
(***************************************************************************)
(* Theorems about the embedded Tailscale runtime: its snapshot              *)
(* (TailscaleSnapshot), for any sets of sessions and readers, on the        *)
(* desktop and in the app, and its host forwarder (HostForward), for any    *)
(* connections, ports, lists of ports and amounts of data.                  *)
(***************************************************************************)
EXTENDS TailscaleSnapshot, HostForward, TLAPS

(***************************************************************************)
(* The snapshot: the inductive invariant is SnapshotInv.                    *)
(***************************************************************************)

\* A session writes the file before it has a watcher, then its watcher alone does.
WatcherFollows == \A s \in Sessions : at[s] \in {"unused", "up", "writing"} => watcher[s] = "none"
WritersWrite   == \A s \in linked : at[s] = "writing" \/ watcher[s] = "writing"

\* In the app a session is between its beginning and its end only alone.
Alone ==
    InApp => \A s, t \in Sessions :
        at[s] \notin {"unused", "over"} /\ at[t] \notin {"unused", "over"} => s = t

\* In the app the last thing a watcher does is to remove the snapshot.
NotEnded == InApp => \A s \in Sessions : watcher[s] = "over" => file # s

\* The inductive invariant.
SnapshotInv ==
    /\ TypeOK
    /\ NoServerLeak
    /\ WatcherFollows
    /\ WritersWrite
    /\ Alone
    /\ NotEnded

USE SnapshotAssumption
    DEF Place, WatcherPlace, Contents, fileVars, readerVars, TruncateBy, FillBy, Removed,
        Misses, Moves, WatcherMoves, ReaderMoves, Open, Shut, Forget, ForgetRead,
        Reading, IfFound, IfNot

-----------------------------------------------------------------------------
\* A step of a session, its watcher, its context or its process keeps the type invariant.
LEMMA SessionTypeOK ==
  ASSUME TypeOK, NEW s \in Sessions, Session(s) \/ Watcher(s) \/ Cancel(s) \/ Exit(s)
  PROVE  TypeOK'
<1> USE DEF TypeOK
<1>1. CASE Begin(s) \/ UpFails(s) \/ WriteBegins(s) BY <1>1 DEF Begin, UpFails, WriteBegins
<1>2. CASE WriteFails(s) BY <1>2 DEF WriteFails
<1>3. CASE Written(s) BY <1>3 DEF Written
<1>4. CASE EngineRefuses(s) \/ RouteSkipped(s) \/ RouteLoads(s) \/ RouteFinds(s) \/ FallbackEnds(s)
  BY <1>4 DEF EngineRefuses, RouteSkipped, RouteLoads, RouteFinds, FallbackEnds
<1>5. CASE RouteMisses(s) BY <1>5 DEF RouteMisses
<1>6. CASE EngineReturns(s) \/ CloseRemoves(s) \/ CloseServer(s)
  BY <1>6 DEF EngineReturns, CloseRemoves, CloseServer
<1>7. CASE Watcher(s)
  <2>1. CASE WatcherPolls(s) \/ WatcherTruncates(s) BY <2>1 DEF WatcherPolls, WatcherTruncates
  <2>2. CASE WatcherFills(s) BY <2>2 DEF WatcherFills
  <2>3. CASE WatcherWriteFails(s) \/ WatcherEnds(s) BY <2>3 DEF WatcherWriteFails, WatcherEnds
  <2> QED BY <1>7, <2>1, <2>2, <2>3 DEF Watcher
<1>8. CASE Cancel(s) BY <1>8 DEF Cancel
<1>9. CASE Exit(s) BY <1>9 DEF Exit
<1> QED BY <1>1, <1>2, <1>3, <1>4, <1>5, <1>6, <1>7, <1>8, <1>9 DEF Session

\* A step of a reader keeps the type invariant.
LEMMA ReaderTypeOK ==
  ASSUME TypeOK, NEW r \in Readers, Reader(r)
  PROVE  TypeOK'
<1> USE DEF TypeOK
<1>1. CASE ReadLoads(r) \/ ReadAccepts(r) BY <1>1 DEF ReadLoads, ReadAccepts
<1>2. CASE ReadRejects(r) \/ ReadCloses(r) BY <1>2 DEF ReadRejects, ReadCloses
<1>3. CASE LogsInOrOut(r) \/ LogInOrOutEnds(r) BY <1>3 DEF LogsInOrOut, LogInOrOutEnds
<1> QED BY <1>1, <1>2, <1>3 DEF Reader

-----------------------------------------------------------------------------
\* A step of a session keeps the invariant: it opens a server only when no other session
\* is on its way, and closes it on every path to its end.
LEMMA SessionInv ==
  ASSUME SnapshotInv, NEW s \in Sessions, Session(s)
  PROVE  SnapshotInv'
<1>1. TypeOK' BY SessionTypeOK DEF SnapshotInv
<1> USE DEF SnapshotInv, TypeOK, NoServerLeak, WatcherFollows, WritersWrite, Alone, NotEnded
<1>2. CASE Begin(s) BY <1>1, <1>2 DEF Begin
<1>3. CASE UpFails(s) BY <1>1, <1>3 DEF UpFails
<1>4. CASE WriteBegins(s) BY <1>1, <1>4 DEF WriteBegins
<1>5. CASE WriteFails(s) BY <1>1, <1>5 DEF WriteFails
<1>6. CASE Written(s) BY <1>1, <1>6 DEF Written
<1>7. CASE EngineRefuses(s) BY <1>1, <1>7 DEF EngineRefuses
<1>8. CASE RouteSkipped(s) BY <1>1, <1>8 DEF RouteSkipped
<1>9. CASE RouteLoads(s) BY <1>1, <1>9 DEF RouteLoads
<1>10. CASE RouteFinds(s) BY <1>1, <1>10 DEF RouteFinds
<1>11. CASE RouteMisses(s) BY <1>1, <1>11 DEF RouteMisses
<1>12. CASE EngineReturns(s) BY <1>1, <1>12 DEF EngineReturns
<1>13. CASE CloseRemoves(s) BY <1>1, <1>13 DEF CloseRemoves
<1>14. CASE CloseServer(s) BY <1>1, <1>14 DEF CloseServer
<1>15. CASE FallbackEnds(s) BY <1>1, <1>15 DEF FallbackEnds
<1> QED BY <1>2, <1>3, <1>4, <1>5, <1>6, <1>7, <1>8, <1>9, <1>10, <1>11, <1>12, <1>13,
           <1>14, <1>15 DEF Session

\* A step of a watcher, a reader, a cancellation or the end of a process keeps it.
LEMMA OtherInv ==
  ASSUME SnapshotInv,
         \/ \E s \in Sessions : Watcher(s) \/ Cancel(s) \/ Exit(s)
         \/ \E r \in Readers : Reader(r)
  PROVE  SnapshotInv'
<1>1. TypeOK' BY SessionTypeOK, ReaderTypeOK DEF SnapshotInv
<1> USE DEF SnapshotInv, TypeOK, NoServerLeak, WatcherFollows, WritersWrite, Alone, NotEnded
<1>2. ASSUME NEW s \in Sessions, Watcher(s) PROVE SnapshotInv'
  <2>1. CASE WatcherPolls(s) BY <1>1, <2>1 DEF WatcherPolls
  <2>2. CASE WatcherTruncates(s) BY <1>1, <2>2 DEF WatcherTruncates
  <2>3. CASE WatcherFills(s) BY <1>1, <2>3 DEF WatcherFills
  <2>4. CASE WatcherWriteFails(s) BY <1>1, <2>4 DEF WatcherWriteFails
  <2>5. CASE WatcherEnds(s) BY <1>1, <2>5 DEF WatcherEnds
  <2> QED BY <1>2, <2>1, <2>2, <2>3, <2>4, <2>5 DEF Watcher
<1>3. ASSUME NEW s \in Sessions, Cancel(s) PROVE SnapshotInv' BY <1>1, <1>3 DEF Cancel
<1>4. ASSUME NEW s \in Sessions, Exit(s) PROVE SnapshotInv'
  <2>1. Alone' /\ NotEnded' BY <1>4 DEF Exit
  <2>2. WatcherFollows' BY <1>4 DEF Exit
  <2>3. WritersWrite' BY <1>4 DEF Exit
  <2>4. NoServerLeak' BY <1>4 DEF Exit
  <2> QED BY <1>1, <2>1, <2>2, <2>3, <2>4
<1>5. ASSUME NEW r \in Readers, Reader(r) PROVE SnapshotInv'
  BY <1>1, <1>5 DEF Reader, ReadLoads, ReadAccepts, ReadRejects, ReadCloses, LogsInOrOut,
                    LogInOrOutEnds
<1> QED BY <1>2, <1>3, <1>4, <1>5

LEMMA StepInv ==
  ASSUME SnapshotInv, [Next]_vars
  PROVE  SnapshotInv'
<1>1. CASE Next BY <1>1, SessionInv, OtherInv DEF Next
<1>2. CASE UNCHANGED vars
  BY <1>2 DEF vars, SnapshotInv, TypeOK, NoServerLeak, WatcherFollows, WritersWrite, Alone,
              NotEnded
<1> QED BY <1>1, <1>2

LEMMA AlwaysInv == Spec => []SnapshotInv
<1>1. Init => SnapshotInv
  BY DEF Init, SnapshotInv, TypeOK, NoServerLeak, WatcherFollows, WritersWrite, Alone, NotEnded
<1>2. SnapshotInv /\ [Next]_vars => SnapshotInv' BY StepInv
<1> QED BY <1>1, <1>2, PTL DEF Spec

-----------------------------------------------------------------------------
\* The runtime's variables hold values of their types, and nobody writes to a file that
\* is not there.
THEOREM TypeCorrect == Spec => []TypeOK
<1>1. SnapshotInv => TypeOK BY DEF SnapshotInv
<1> QED BY <1>1, AlwaysInv, PTL

\* No path through StartTailscaleRuntime and Close leaves a session's tsnet server open,
\* however many sessions overlap.
THEOREM NeverLeaks == Spec => []NoServerLeak
<1>1. SnapshotInv => NoServerLeak BY DEF SnapshotInv
<1> QED BY <1>1, AlwaysInv, PTL

\* In the app two sessions never have their servers open on the same state directory.
THEOREM SingleServer == Spec => []OneServer
<1>1. SnapshotInv => OneServer BY DEF SnapshotInv, NoServerLeak, Alone, OneServer
<1> QED BY <1>1, AlwaysInv, PTL

\* In the app the snapshot of a session whose watcher has ended is gone for good.
THEOREM EndsQuiet == Spec => []QuietSnapshot
<1>1. SnapshotInv => QuietSnapshot
  BY DEF SnapshotInv, NotEnded, WatcherFollows, WritersWrite, QuietSnapshot
<1> QED BY <1>1, AlwaysInv, PTL

HIDE SnapshotAssumption
     DEF Place, WatcherPlace, Contents, fileVars, readerVars, TruncateBy, FillBy, Removed,
         Misses, Moves, WatcherMoves, ReaderMoves, Open, Shut, Forget, ForgetRead,
        Reading, IfFound, IfNot

(***************************************************************************)
(* The host forwarder: the inductive invariant is ForwardInv.               *)
(***************************************************************************)

\* A runtime that has come up has a list of nothing but ports.
OnlyPortsListed ==
    runtime \in {"up", "deregistered", "closed"} => \A p \in ports : ~Invalid(p)

\* A direction is copied only within the bridge, and its connections are open till then.
HalvesInBridge ==
    \A c \in Conns :
        /\ \A d \in Dirs : half[c][d] \in {"copy", "shut"} => pc[c] = "bridge"
        /\ \A e \in Ends : closed[c][e] => pc[c] \in {"closePeer", "done"}
        /\ \A d \in Dirs : eof[c][d] => half[c][d] = "done"
        /\ pc[c] \in {"new", "dial"} => \A d \in Dirs : half[c][d] = "none"

\* A direction ends with everything passed on, unless an end is lost.
EndedWithAll ==
    \A c \in Conns, d \in Dirs :
        half[c][d] \in {"shut", "done"} /\ ~gone[c][Src(d)] /\ ~gone[c][Dst(d)]
        => fin[c][d] /\ rcvd[c][d] = sent[c][d]

ForwardInv ==
    /\ ForwardTypeOK /\ OnlyPortsListed /\ OnlySelectedPorts
    /\ HalvesInBridge /\ EndedWithAll

USE MaxSentAssumption, MaxPortAssumption, PortsAssumption, ListsAssumption
    DEF Dirs, Ends, Src, Dst, PerDir, PerEnd, ends, flow

-----------------------------------------------------------------------------
\* The map of allowed ports is the list itself once the list has been validated.
LEMMA AllowedAreListed ==
  ASSUME ports \in Lists, \A p \in ports : ~Invalid(p)
  PROVE  allowedPorts = ports
<1>1. ASSUME NEW p \in ports PROVE p % (MaxPort + 1) = p
  <2>1. p \in Int BY ListsAssumption
  <2>2. p >= 0 /\ p < MaxPort + 1 BY <2>1 DEF Invalid
  <2> QED BY <2>1, <2>2
<1>2. {q \in ports : ~Invalid(q)} = ports OBVIOUS
<1>3. allowedPorts = {p % (MaxPort + 1) : p \in ports} BY <1>2 DEF allowedPorts
<1> QED BY <1>1, <1>3

-----------------------------------------------------------------------------
\* A step of the runtime keeps the invariant.
LEMMA RuntimeStep ==
  ASSUME ForwardInv, Validates \/ ValidateFails \/ Deregisters \/ ServerCloses
  PROVE  ForwardInv'
<1> USE DEF ForwardInv, ForwardTypeOK, OnlyPortsListed, OnlySelectedPorts, HalvesInBridge, EndedWithAll,
            RuntimeGoes, Invalid
<1>1. CASE Validates BY <1>1 DEF Validates
<1>2. CASE ValidateFails BY <1>2 DEF ValidateFails
<1>3. CASE Deregisters BY <1>3 DEF Deregisters
<1>4. CASE ServerCloses
  <2>1. ForwardTypeOK' BY <1>4 DEF ServerCloses
  <2>2. OnlyPortsListed' /\ OnlySelectedPorts' /\ HalvesInBridge' BY <1>4 DEF ServerCloses
  <2>4. ASSUME NEW c \in Conns, ~gone'[c]["peer"] PROVE pc[c] = "new"
    <3>1. gone' = [b \in Conns |-> [gone[b] EXCEPT !["peer"] = pc[b] # "new"]]
      BY <1>4 DEF ServerCloses
    <3>2. gone'[c] = [gone[c] EXCEPT !["peer"] = pc[c] # "new"] BY ONLY <3>1
    <3>3. gone[c] \in [Ends -> BOOLEAN] OBVIOUS
    <3>4. gone'[c]["peer"] = (pc[c] # "new") BY ONLY <3>2, <3>3, Zenon DEF Ends
    <3> QED BY ONLY <2>4, <3>4
  <2>5. ASSUME NEW c \in Conns, NEW d \in Dirs,
               half[c][d] \in {"shut", "done"}, ~gone'[c][Src(d)], ~gone'[c][Dst(d)]
        PROVE  FALSE
    <3>1. ~gone'[c]["peer"] BY <2>5
    <3>2. pc[c] = "new" BY <3>1, <2>4
    <3> QED BY <3>2, <2>5
  <2>6. half' = half BY <1>4 DEF ServerCloses
  <2>7. EndedWithAll' BY ONLY <2>5, <2>6 DEF EndedWithAll
  <2> QED BY <2>1, <2>2, <2>7
<1> QED BY <1>1, <1>2, <1>3, <1>4

\* A step of a handler keeps it: it goes beyond its check only for a listed port.
LEMMA HandlerStep ==
  ASSUME ForwardInv, NEW c \in Conns, Handler(c)
  PROVE  ForwardInv'
<1> USE DEF ForwardInv, ForwardTypeOK, OnlyPortsListed, OnlySelectedPorts, HalvesInBridge, EndedWithAll,
            Goto, Invalid
<1>1. CASE Handle(c)
  <2>1. runtime = "up" BY <1>1 DEF Handle
  <2>2. allowedPorts = ports BY <2>1, AllowedAreListed
  <2>3. ports # {} => port[c] \in ports BY <1>1, <2>2 DEF Handle, allowsPort
  <2>4. ForwardTypeOK' BY <1>1 DEF Handle
  <2>5. OnlyPortsListed' /\ HalvesInBridge' /\ EndedWithAll' BY <1>1 DEF Handle
  <2>6. OnlySelectedPorts' BY <1>1, <2>3 DEF Handle
  <2> QED BY <2>4, <2>5, <2>6
<1>2. CASE HandleRefuses(c) BY <1>2 DEF HandleRefuses
<1>3. CASE DialSucceeds(c)
  <2>1. ForwardTypeOK' BY <1>3 DEF DialSucceeds
  <2>2. OnlyPortsListed' /\ OnlySelectedPorts' BY <1>3 DEF DialSucceeds
  <2>3. \A d \in Dirs : half'[c][d] = "copy" BY <1>3 DEF DialSucceeds
  <2>4. pc'[c] = "bridge" /\ (\A d \in Dirs : half[c][d] \notin {"done"})
    BY <1>3 DEF DialSucceeds
  <2>5. HalvesInBridge' BY <1>3, <2>3, <2>4 DEF DialSucceeds
  <2>6. EndedWithAll' BY <1>3, <2>3 DEF DialSucceeds
  <2> QED BY <2>1, <2>2, <2>5, <2>6
<1>4. CASE DialFails(c) BY <1>4 DEF DialFails
<1>5. CASE BridgeEnds(c) BY <1>5 DEF BridgeEnds
<1>6. CASE CloseHost(c) BY <1>6 DEF CloseHost
<1>7. CASE ClosePeer(c) BY <1>7 DEF ClosePeer
<1> QED BY <1>1, <1>2, <1>3, <1>4, <1>5, <1>6, <1>7 DEF Handler

\* A step of a copying goroutine keeps it.
LEMMA HalfStep ==
  ASSUME ForwardInv, NEW c \in Conns, NEW d \in Dirs, Half(c, d)
  PROVE  ForwardInv'
<1> USE DEF ForwardInv, ForwardTypeOK, OnlyPortsListed, OnlySelectedPorts, HalvesInBridge, EndedWithAll,
            HalfGoes, Copying, Holds, Lost
<1>1. CASE CopyReads(c, d) BY <1>1 DEF CopyReads
<1>2. CASE CopyWrites(c, d) BY <1>2 DEF CopyWrites
<1>3. CASE CopyEnds(c, d)
  <2>1. ForwardTypeOK' BY <1>3 DEF CopyEnds
  <2>2. OnlyPortsListed' /\ OnlySelectedPorts' /\ HalvesInBridge' BY <1>3 DEF CopyEnds
  <2>3. pc[c] = "bridge" BY <1>3 DEF CopyEnds
  <2>4. ASSUME ~gone[c][Src(d)], ~gone[c][Dst(d)]
        PROVE  fin[c][d] /\ rcvd[c][d] = sent[c][d]
    <3>1. Src(d) \in Ends /\ Dst(d) \in Ends OBVIOUS
    <3>2. ~Lost(c, Src(d)) /\ ~Lost(c, Dst(d)) BY <2>3, <2>4, <3>1
    <3>3. ~Holds(c, d) /\ fin[c][d] /\ read[c][d] = sent[c][d]
      BY ONLY <1>3, <3>2 DEF CopyEnds
    <3>4. read[c][d] \in Nat /\ rcvd[c][d] \in Nat /\ rcvd[c][d] <= read[c][d]
      OBVIOUS
    <3> QED BY ONLY <3>3, <3>4 DEF Holds
  <2>5. EndedWithAll' BY <1>3, <2>4 DEF CopyEnds
  <2> QED BY <2>1, <2>2, <2>5
<1>4. CASE ShutHalf(c, d) BY <1>4 DEF ShutHalf
<1> QED BY <1>1, <1>2, <1>3, <1>4 DEF Half

\* What the two ends do keeps it.
LEMMA EndStep ==
  ASSUME ForwardInv, NEW c \in Conns, NEW d \in Dirs, NEW e \in Ends,
         EndSends(c, d) \/ EndFinishes(c, d) \/ EndResets(c, e)
  PROVE  ForwardInv'
<1> USE DEF ForwardInv, ForwardTypeOK, OnlyPortsListed, OnlySelectedPorts, HalvesInBridge, EndedWithAll,
            Alive
<1>1. CASE EndSends(c, d) BY <1>1 DEF EndSends
<1>2. CASE EndFinishes(c, d) BY <1>2 DEF EndFinishes
<1>3. CASE EndResets(c, e) BY <1>3 DEF EndResets
<1> QED BY <1>1, <1>2, <1>3

LEMMA AlwaysForwardInv == ForwardSpec => []ForwardInv
<1>1. ForwardInit => ForwardInv
  BY DEF ForwardInit, All, ForwardInv, ForwardTypeOK, OnlyPortsListed, OnlySelectedPorts, HalvesInBridge,
         EndedWithAll
<1>2. ForwardInv /\ [ForwardNext]_forwardVars => ForwardInv'
  <2> SUFFICES ASSUME ForwardInv, [ForwardNext]_forwardVars PROVE ForwardInv'
    OBVIOUS
  <2>1. CASE ForwardNext BY <2>1, RuntimeStep, HandlerStep, HalfStep, EndStep DEF ForwardNext
  <2>2. CASE UNCHANGED forwardVars
    BY <2>2 DEF forwardVars, ForwardInv, ForwardTypeOK, OnlyPortsListed, OnlySelectedPorts, HalvesInBridge,
                EndedWithAll
  <2> QED BY <2>1, <2>2
<1> QED BY <1>1, <1>2, PTL DEF ForwardSpec

-----------------------------------------------------------------------------
\* The forwarder's variables hold values of their types: a direction never delivers what
\* was not sent, and holds one piece at most.
THEOREM ForwardTyped == ForwardSpec => []ForwardTypeOK
<1>1. ForwardInv => ForwardTypeOK BY DEF ForwardInv
<1> QED BY <1>1, AlwaysForwardInv, PTL

\* A list of ports, whatever its numbers, never forwards a port that is not in it.
THEOREM ForwardsOnlySelected == ForwardSpec => []OnlySelectedPorts
<1>1. ForwardInv => OnlySelectedPorts BY DEF ForwardInv
<1> QED BY <1>1, AlwaysForwardInv, PTL

\* The end of a direction follows everything that was sent in it.
THEOREM EndsAfterData == ForwardSpec => []EndAfterData
<1>1. ForwardInv => EndAfterData
  BY DEF ForwardInv, ForwardTypeOK, HalvesInBridge, EndedWithAll, EndAfterData
<1> QED BY <1>1, AlwaysForwardInv, PTL
===============================================================================
