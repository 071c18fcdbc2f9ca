------------------------------ MODULE HostForward ------------------------------
(***************************************************************************)
(* The host TCP forwarder of the embedded Tailscale runtime                *)
(* (tailscale_embedded_forward.go): a tailnet peer connects to a port of   *)
(* the node, the forwarder dials the same port of the host and copies both *)
(* ways, a goroutine for each, until both directions have ended.           *)
(*                                                                         *)
(* A member of Conns is one incoming connection and its handler.  The two   *)
(* ends are the tailnet "peer" and the "host"'s service; direction "in"    *)
(* copies from the peer to the host and "out" back.                        *)
(***************************************************************************)
EXTENDS Integers

CONSTANTS
    Conns,      \* the incoming connections
    MaxPort,    \* the largest port of a uint16, 65535
    Ports,      \* the ports that peers connect to
    Lists,      \* the values of forward_host_tcp_ports
    MaxSent     \* bound: how much each end sends on a connection

ASSUME MaxPortAssumption == MaxPort \in Nat
ASSUME PortsAssumption == Ports \subseteq 1 .. MaxPort
ASSUME ListsAssumption == \A list \in Lists : list \subseteq Int
ASSUME MaxSentAssumption == MaxSent \in Nat

VARIABLES
    ports,      \* forward_host_tcp_ports
    runtime,    \* what the embedded runtime is doing
    pc,         \* where each handler is
    port,       \* the port each connection is for
    half,       \* where each copying goroutine is
    sent,       \* how much the source of each direction has sent
    read,       \* how much of it has been read from the source
    rcvd,       \* how much of it has reached the destination
    fin,        \* whether the source has closed its sending half
    eof,        \* whether the destination has been told the end
    gone,       \* whether an end has reset or lost its connection
    deaf,       \* whether an end does not read what it is sent
    closed      \* whether the handler has closed its side of a connection

ends  == <<sent, fin, gone, deaf>>
flow  == <<read, rcvd, eof>>
forwardVars == <<ports, runtime, pc, port, half, ends, flow, closed>>

Dirs  == {"in", "out"}
Ends  == {"peer", "host"}
Src(d) == IF d = "in" THEN "peer" ELSE "host"
Dst(d) == IF d = "in" THEN "host" ELSE "peer"

PerDir(S) == [Conns -> [Dirs -> S]]
PerEnd(S) == [Conns -> [Ends -> S]]

ForwardTypeOK ==
    /\ ports \in Lists
    /\ runtime \in {"down", "rejected", "up", "deregistered", "closed"}
    /\ pc \in [Conns -> {"new", "refused", "dial", "bridge", "closeHost", "closePeer", "done"}]
    /\ port \in [Conns -> Ports]
    /\ half \in PerDir({"none", "copy", "shut", "done"})
    /\ sent \in PerDir(0 .. MaxSent)
    /\ read \in PerDir(0 .. MaxSent) /\ rcvd \in PerDir(0 .. MaxSent)
    /\ \A c \in Conns, d \in Dirs :
         /\ rcvd[c][d] <= read[c][d] /\ read[c][d] <= rcvd[c][d] + 1
         /\ read[c][d] <= sent[c][d]
    /\ fin \in PerDir(BOOLEAN) /\ eof \in PerDir(BOOLEAN)
    /\ gone \in PerEnd(BOOLEAN) /\ deaf \in PerEnd(BOOLEAN) /\ closed \in PerEnd(BOOLEAN)

All(S, x) == [c \in Conns |-> [i \in S |-> x]]

ForwardInit ==
    /\ ports \in Lists
    /\ runtime = "down"
    /\ pc = [c \in Conns |-> "new"]
    /\ port \in [Conns -> Ports]
    /\ half = All(Dirs, "none")
    /\ sent = All(Dirs, 0) /\ read = All(Dirs, 0) /\ rcvd = All(Dirs, 0)
    /\ fin = All(Dirs, FALSE) /\ eof = All(Dirs, FALSE)
    /\ gone = All(Ends, FALSE) /\ closed = All(Ends, FALSE)
    /\ deaf \in PerEnd(BOOLEAN)

-----------------------------------------------------------------------------
(* The runtime: the configuration is validated, the handler registered, and *)
(* taken back before the server is closed.                                 *)

RuntimeGoes(from, to) == /\ runtime = from /\ runtime' = to
                         /\ UNCHANGED <<ports, pc, port, half, flow, closed>>

Invalid(p) == p <= 0 \/ p > MaxPort

\* Wrong on purpose: the list is not validated.
ValidatesNothing == runtime = "down" /\ RuntimeGoes("down", "up") /\ UNCHANGED ends

\* EmbeddedTailscaleConfig.validate, when the configuration is loaded.
Validates == /\ \A p \in ports : ~Invalid(p)
             /\ RuntimeGoes("down", "up")
             /\ UNCHANGED ends

ValidateFails == /\ \E p \in ports : Invalid(p)
                 /\ RuntimeGoes("down", "rejected")
                 /\ UNCHANGED ends

Deregisters == RuntimeGoes("up", "deregistered") /\ UNCHANGED ends

\* The node goes, and with it the peers' ends of all connections.
ServerCloses ==
    /\ RuntimeGoes("deregistered", "closed")
    /\ gone' = [c \in Conns |-> [gone[c] EXCEPT !["peer"] = pc[c] # "new"]]
    /\ UNCHANGED <<sent, fin, deaf>>

\* newEmbeddedHostTCPForwarder skips what is no port; the map is of uint16.
allowedPorts == {p % (MaxPort + 1) : p \in {q \in ports : ~Invalid(q)}}
\* An empty map means every port.
allowsPort(p) == allowedPorts = {} \/ p \in allowedPorts

-----------------------------------------------------------------------------
(* The handler.                                                            *)

Goto(c, place) == pc' = [pc EXCEPT ![c] = place]

Handle(c) ==
    /\ pc[c] = "new" /\ runtime = "up"
    /\ allowsPort(port[c])
    /\ Goto(c, "dial")
    /\ UNCHANGED <<ports, runtime, port, half, ends, flow, closed>>

HandleRefuses(c) ==
    /\ pc[c] = "new" /\ runtime = "up"
    /\ ~allowsPort(port[c])
    /\ Goto(c, "refused")
    /\ UNCHANGED <<ports, runtime, port, half, ends, flow, closed>>

DialSucceeds(c) ==
    /\ pc[c] = "dial"
    /\ ~gone[c]["host"]
    /\ Goto(c, "bridge")
    /\ half' = [half EXCEPT ![c] = [d \in Dirs |-> "copy"]]
    /\ UNCHANGED <<ports, runtime, port, ends, flow, closed>>

\* Refused, or no answer within ten seconds; nothing is there to close but the peer.
DialFails(c) ==
    /\ pc[c] = "dial"
    /\ Goto(c, "closePeer")
    /\ UNCHANGED <<ports, runtime, port, half, ends, flow, closed>>

\* bridgeTCPConns waits for both halves, then the deferred calls run, last one first.
BridgeEnds(c) ==
    /\ pc[c] = "bridge"
    /\ \A d \in Dirs : half[c][d] = "done"
    /\ Goto(c, "closeHost")
    /\ UNCHANGED <<ports, runtime, port, half, ends, flow, closed>>

CloseHost(c) ==
    /\ pc[c] = "closeHost"
    /\ closed' = [closed EXCEPT ![c]["host"] = TRUE]
    /\ Goto(c, "closePeer")
    /\ UNCHANGED <<ports, runtime, port, half, ends, flow>>

ClosePeer(c) ==
    /\ pc[c] = "closePeer"
    /\ closed' = [closed EXCEPT ![c]["peer"] = TRUE]
    /\ Goto(c, "done")
    /\ UNCHANGED <<ports, runtime, port, half, ends, flow>>

Handler(c) ==
    \/ Handle(c) \/ HandleRefuses(c) \/ DialSucceeds(c) \/ DialFails(c)
    \/ BridgeEnds(c) \/ CloseHost(c) \/ ClosePeer(c)

-----------------------------------------------------------------------------
(* proxyTCPHalf: io.Copy holds at most one piece between a read and a write. *)

Copying(c, d) == half[c][d] = "copy"
Holds(c, d)   == read[c][d] > rcvd[c][d]
\* A connection that is gone or that this process has shut answers with an error.
Lost(c, e)    == gone[c][e] \/ closed[c][e]

HalfGoes(c, d, place) == /\ half' = [half EXCEPT ![c][d] = place]
                         /\ UNCHANGED <<ports, runtime, pc, port, ends, closed>>

CopyReads(c, d) ==
    /\ Copying(c, d) /\ ~Holds(c, d)
    /\ ~Lost(c, Src(d))
    /\ read[c][d] < sent[c][d]
    /\ read' = [read EXCEPT ![c][d] = @ + 1]
    /\ HalfGoes(c, d, "copy")
    /\ UNCHANGED <<rcvd, eof>>

CopyWrites(c, d) ==
    /\ Copying(c, d) /\ Holds(c, d)
    /\ ~Lost(c, Dst(d)) /\ ~deaf[c][Dst(d)]
    /\ rcvd' = [rcvd EXCEPT ![c][d] = @ + 1]
    /\ HalfGoes(c, d, "copy")
    /\ UNCHANGED <<read, eof>>

\* Wrong on purpose: the copy ends while there is something left to read.
CopyEndsEarly(c, d) ==
    /\ Copying(c, d)
    /\ IF Holds(c, d) THEN Lost(c, Dst(d)) ELSE Lost(c, Src(d)) \/ fin[c][d]
    /\ HalfGoes(c, d, "shut")
    /\ UNCHANGED flow

\* The end of what the source sends, or an error on either side.
CopyEnds(c, d) ==
    /\ Copying(c, d)
    /\ IF Holds(c, d) THEN Lost(c, Dst(d))
       ELSE Lost(c, Src(d)) \/ (fin[c][d] /\ read[c][d] = sent[c][d])
    /\ HalfGoes(c, d, "shut")
    /\ UNCHANGED flow

\* Wrong on purpose: both connections are closed when one direction has ended.
ShutBoth(c, d) ==
    /\ half[c][d] = "shut"
    /\ half' = [half EXCEPT ![c][d] = "done"]
    /\ closed' = [closed EXCEPT ![c] = [e \in Ends |-> TRUE]]
    /\ UNCHANGED <<ports, runtime, pc, port, ends, flow>>

\* CloseWrite tells the destination the end, CloseRead drops what the source still sends.
ShutHalf(c, d) ==
    /\ half[c][d] = "shut"
    /\ eof' = [eof EXCEPT ![c][d] = TRUE]
    /\ HalfGoes(c, d, "done")
    /\ UNCHANGED <<read, rcvd>>

Half(c, d) == CopyReads(c, d) \/ CopyWrites(c, d) \/ CopyEnds(c, d) \/ ShutHalf(c, d)

-----------------------------------------------------------------------------
(* The two ends of a connection.                                           *)

Alive(c, e) == ~gone[c][e] /\ pc[c] # "new" /\ (e = "host" => pc[c] = "bridge")

EndSends(c, d) ==
    /\ Alive(c, Src(d)) /\ ~fin[c][d]
    /\ sent[c][d] < MaxSent
    /\ sent' = [sent EXCEPT ![c][d] = @ + 1]
    /\ UNCHANGED <<ports, runtime, pc, port, half, fin, gone, deaf, flow, closed>>

EndFinishes(c, d) ==
    /\ Alive(c, Src(d)) /\ ~fin[c][d]
    /\ fin' = [fin EXCEPT ![c][d] = TRUE]
    /\ UNCHANGED <<ports, runtime, pc, port, half, sent, gone, deaf, flow, closed>>

EndResets(c, e) ==
    /\ Alive(c, e)
    /\ gone' = [gone EXCEPT ![c][e] = TRUE]
    /\ UNCHANGED <<ports, runtime, pc, port, half, sent, fin, deaf, flow, closed>>

ForwardNext ==
    \/ Validates \/ ValidateFails \/ Deregisters \/ ServerCloses
    \/ \E c \in Conns :
         \/ Handler(c)
         \/ \E d \in Dirs : Half(c, d) \/ EndSends(c, d) \/ EndFinishes(c, d)
         \/ \E e \in Ends : EndResets(c, e)

ForwardSpec == ForwardInit /\ [][ForwardNext]_forwardVars

\* The goroutines of a handler run, and the dial has a limit.  Nothing makes an end
\* send, read, finish or go.
ForwardFairSpec ==
    /\ ForwardSpec
    /\ \A c \in Conns : WF_forwardVars(pc[c] # "new" /\ Handler(c))
    /\ \A c \in Conns, d \in Dirs : WF_forwardVars(Half(c, d))

-----------------------------------------------------------------------------
(* Properties.                                                             *)

\* README.md:217: "restrict it to selected host ports": a list of ports is never
\* taken for the empty list that forwards every port, whatever numbers it has
\* (newEmbeddedHostTCPForwarder skips invalid ones).
OnlySelectedPorts ==
    \A c \in Conns : pc[c] \notin {"new", "refused"} /\ ports # {} => port[c] \in ports

\* The end of a direction is passed on only after everything that was sent before it,
\* unless one of the ends is lost; also when the other direction has ended.
EndAfterData ==
    \A c \in Conns, d \in Dirs :
        eof[c][d] /\ ~gone[c][Src(d)] /\ ~gone[c][Dst(d)] => rcvd[c][d] = sent[c][d]

\* What an end has sent reaches the other one that reads, for as long as both are
\* there: a direction goes on when the other one has ended.
DataArrives ==
    \A c \in Conns, d \in Dirs :
        pc[c] = "bridge" /\ rcvd[c][d] < sent[c][d] ~>
            rcvd[c][d] = sent[c][d] \/ deaf[c][Dst(d)] \/ (\E e \in Ends : gone[c][e])

\* A handler ends, with both connections closed, once each end is gone or has finished
\* and reads.  An end that neither finishes nor goes holds it for ever, also after the
\* runtime is closed (bridgeTCPConns has no limit).
Settled(c, d) == gone[c][Src(d)] \/ (fin[c][d] /\ ~deaf[c][Src(d)])
HandlerEnds ==
    \A c \in Conns :
        pc[c] = "bridge" /\ (\A d \in Dirs : Settled(c, d)) ~>
            pc[c] = "done" /\ (\A e \in Ends : closed[c][e])

\* A bridged connection neither stalls while someone reads nor outlives its two ends.
BridgeGoesOn == DataArrives /\ HandlerEnds
=============================================================================
