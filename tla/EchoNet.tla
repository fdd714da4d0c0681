------------------------------- MODULE EchoNet -------------------------------
(***************************************************************************)
(* The network measurement: measureNet in the guest and echoServer on the  *)
(* host, over one TCP connection.  Each direction is a bounded queue, the  *)
(* socket buffers of its two ends taken together, and is kept by counting. *)
(* In the program Pings is 200 and Stream the bytes of 512 blocks of 64    *)
(* KiB; a Write returns once the last of its bytes has found room.         *)
(***************************************************************************)
EXTENDS Integers

CONSTANTS Pings,            \* round trips
          Stream,           \* bytes streamed after them
          UpRoom, DownRoom, \* bytes a direction holds: to the host, to the guest
          Chunk,            \* bytes io.Copy takes up at once
          Patience,         \* how long measureNet dials: 10 s
          TryFor,           \* how long it lets one attempt last: 2 s
          Pause,            \* what it sleeps between two: 100 ms
          Longest           \* what an attempt lasts if the guest is not run meanwhile

ASSUME NetAssumption ==
    /\ Pings \in Nat \ {0} /\ Stream \in Nat
    /\ UpRoom \in Nat \ {0} /\ DownRoom \in Nat \ {0} /\ Chunk \in Nat \ {0}
    /\ Patience \in Nat /\ TryFor \in Nat /\ Pause \in Nat \ {0} /\ Longest \in Nat

VARIABLES
    filtered,       \* the host's packet filter drops what comes from the guest
    listener,       \* "open" or "closed"
    net,            \* the connection: "none", "backlog", "open", "closed" by the guest,
                    \* "cut" by the host
    echo,           \* the goroutine of the accepted connection: "none", "copying", "ended"
    step,           \* where measureNet is
    clock, tries,   \* while it dials: the time that took, the attempts that failed,
    stalled,        \* and whether one of them lasted longer than it is let
    sink,           \* the goroutine that drains what comes back
    pinged, sent,   \* round trips completed; bytes streamed
    up, held, down, \* bytes on their way to the host, in io.Copy, on their way back
    back            \* bytes read by the guest

hostVars  == <<filtered, listener, echo, held>>
dialVars  == <<clock, tries, stalled>>
guestVars == <<step, dialVars, sink, pinged, sent, back>>
netVars   == <<hostVars, guestVars, net, up, down>>

\* bootOne listens before it starts Firecracker.
NetInit ==
    /\ filtered \in BOOLEAN /\ listener = "open" /\ net = "none" /\ echo = "none"
    /\ step = "dial" /\ clock = 0 /\ tries = 0 /\ stalled = FALSE /\ sink = "none"
    /\ pinged = 0 /\ sent = 0 /\ up = 0 /\ held = 0 /\ down = 0 /\ back = 0

Reachable == listener = "open" /\ ~filtered
Connected == net \in {"backlog", "open"}

-----------------------------------------------------------------------------
(* measureNet.                                                             *)

\* The kernel completes the handshake; Accept comes later.  The clock, if it
\* has run out, is not asked, and what dialling took is forgotten.
Connect ==
    /\ step = "dial" /\ Reachable
    /\ net' = "backlog" /\ step' = "ping"
    /\ clock' = 0 /\ tries' = 0 /\ stalled' = FALSE
    /\ UNCHANGED <<hostVars, sink, pinged, sent, back, up, down>>

\* After an attempt that took d: out of patience, or a pause and the next one.
GiveUpOrPause(d) ==
    IF clock + d > Patience
    THEN step' = "failed" /\ clock' = clock + d
    ELSE clock' = clock + d + Pause /\ UNCHANGED step

\* Slip: an attempt is let last as long as all of them together.
DialFailsSlowly ==
    /\ step = "dial"
    /\ \E d \in 0 .. Longest : stalled' = (stalled \/ d > Patience) /\ GiveUpOrPause(d)
    /\ tries' = tries + 1
    /\ UNCHANGED <<hostVars, sink, pinged, sent, back, net, up, down>>

\* An attempt fails: refused at once, unanswered, or too slow for its timeout,
\* be the host reachable or not.  It outlasts the timeout if the guest stalls;
\* a stall in the pause counts to the attempt after it.
DialFails ==
    /\ step = "dial"
    /\ \E d \in 0 .. Longest : stalled' = (stalled \/ d > TryFor) /\ GiveUpOrPause(d)
    /\ tries' = tries + 1
    /\ UNCHANGED <<hostVars, sink, pinged, sent, back, net, up, down>>

Ping ==
    /\ step = "ping" /\ pinged < Pings /\ Connected /\ up < UpRoom
    /\ up' = up + 1 /\ step' = "pong"
    /\ UNCHANGED <<hostVars, dialVars, sink, pinged, sent, back, net, down>>

\* Slip: the reply is not waited for.
PongUnread ==
    /\ step = "pong" /\ Connected
    /\ pinged' = pinged + 1 /\ step' = "ping"
    /\ UNCHANGED <<hostVars, dialVars, sink, sent, back, net, up, down>>

Pong ==
    /\ step = "pong" /\ Connected /\ down > 0
    /\ down' = down - 1 /\ back' = back + 1
    /\ pinged' = pinged + 1 /\ step' = "ping"
    /\ UNCHANGED <<hostVars, dialVars, sink, sent, net, up>>

\* Slip: no goroutine reads while the guest streams.
StartStreamAlone ==
    /\ step = "ping" /\ pinged = Pings
    /\ step' = "stream"
    /\ UNCHANGED <<hostVars, dialVars, sink, pinged, sent, back, net, up, down>>

StartStream ==
    /\ step = "ping" /\ pinged = Pings
    /\ step' = "stream" /\ sink' = "reading"
    /\ UNCHANGED <<hostVars, dialVars, pinged, sent, back, net, up, down>>

\* Slip: a Write that does not wait for room.
StreamWriteUnbounded ==
    /\ step = "stream" /\ sent < Stream /\ Connected
    /\ up' = up + 1 /\ sent' = sent + 1
    /\ UNCHANGED <<hostVars, step, dialVars, sink, pinged, back, net, down>>

StreamWrite ==
    /\ step = "stream" /\ sent < Stream /\ Connected /\ up < UpRoom
    /\ up' = up + 1 /\ sent' = sent + 1
    /\ UNCHANGED <<hostVars, step, dialVars, sink, pinged, back, net, down>>

\* It does not wait for what is still to come back; the deferred Close runs.
StreamDone ==
    /\ step = "stream" /\ sent = Stream
    /\ step' = "measured" /\ net' = IF Connected THEN "closed" ELSE net
    /\ UNCHANGED <<hostVars, dialVars, sink, pinged, sent, back, up, down>>

\* Slip: dials again where a connection broke.
MeasureRedials ==
    /\ net = "cut" /\ step \in {"ping", "pong", "stream"}
    /\ step' = "dial"
    /\ UNCHANGED <<hostVars, dialVars, sink, pinged, sent, back, net, up, down>>

\* A read or a write on a connection the host has cut.
MeasureFails ==
    /\ net = "cut"
    /\ \/ step = "ping" /\ pinged < Pings
       \/ step = "pong"
       \/ step = "stream" /\ sent < Stream
    /\ step' = "failed"
    /\ UNCHANGED <<hostVars, dialVars, sink, pinged, sent, back, net, up, down>>

measureNet ==
    \/ Connect \/ DialFails \/ Ping \/ Pong
    \/ StartStream \/ StreamWrite \/ StreamDone \/ MeasureFails

SinkRead ==
    /\ sink = "reading" /\ Connected /\ down > 0
    /\ down' = down - 1 /\ back' = back + 1
    /\ UNCHANGED <<hostVars, step, dialVars, sink, pinged, sent, net, up>>

SinkEnds ==
    /\ sink = "reading" /\ net \in {"closed", "cut"}
    /\ sink' = "ended"
    /\ UNCHANGED <<hostVars, step, dialVars, pinged, sent, back, net, up, down>>

Sink == SinkRead \/ SinkEnds

-----------------------------------------------------------------------------
(* echoServer.                                                             *)

Accept ==
    /\ net = "backlog" /\ listener = "open"
    /\ net' = "open" /\ echo' = "copying"
    /\ UNCHANGED <<filtered, listener, held, guestVars, up, down>>

EchoRead ==
    /\ echo = "copying" /\ held = 0 /\ up > 0
    /\ \E n \in 1 .. Chunk :
          n <= up /\ held' = n /\ up' = up - n
    /\ UNCHANGED <<filtered, listener, echo, guestVars, net, down>>

\* Slip: what does not fit is not written again.
EchoWriteShort ==
    /\ echo = "copying" /\ net = "open" /\ held > 0 /\ down < DownRoom
    /\ held' = 0 /\ down' = IF down + held < DownRoom THEN down + held ELSE DownRoom
    /\ UNCHANGED <<filtered, listener, echo, guestVars, net, up>>

EchoWrite ==
    /\ echo = "copying" /\ net = "open" /\ held > 0 /\ down < DownRoom
    /\ held' = held - 1 /\ down' = down + 1
    /\ UNCHANGED <<filtered, listener, echo, guestVars, net, up>>

\* Slip: waits on the context like the listener.
EchoEndsWithContext ==
    /\ echo = "copying" /\ net = "closed" /\ listener = "closed"
    /\ echo' = "ended"
    /\ UNCHANGED <<filtered, listener, held, guestVars, net, up, down>>

\* End of file or a reset, as the guest left something unread or not.
EchoEnds ==
    /\ echo = "copying" /\ net = "closed"
    /\ echo' = "ended"
    /\ UNCHANGED <<filtered, listener, held, guestVars, net, up, down>>

echoServer == Accept \/ EchoRead \/ EchoWrite \/ EchoEnds

\* The context is done.  Connections that were accepted live on.
CloseEchoListener ==
    /\ listener = "open"
    /\ listener' = "closed"
    /\ net' = IF net = "backlog" THEN "cut" ELSE net
    /\ UNCHANGED <<filtered, echo, held, guestVars, up, down>>

\* The host's process dies, and with it every socket; the guest may outlive it.
HostDies ==
    /\ Connected
    /\ listener' = "closed" /\ net' = "cut"
    /\ echo' = IF echo = "copying" THEN "ended" ELSE echo
    /\ UNCHANGED <<filtered, held, guestVars, up, down>>

HostEnvironment == CloseEchoListener \/ HostDies

-----------------------------------------------------------------------------

NetOver == step \in {"measured", "failed"}

NetNext == measureNet \/ Sink \/ echoServer \/ HostEnvironment

NetSafe == NetInit /\ [][NetNext \/ (NetOver /\ UNCHANGED netVars)]_netVars

-----------------------------------------------------------------------------
(* Properties.                                                             *)

\* Every variable keeps to the values the code can give it.
NetTypeOK ==
    /\ filtered \in BOOLEAN /\ listener \in {"open", "closed"}
    /\ net \in {"none", "backlog", "open", "closed", "cut"}
    /\ echo \in {"none", "copying", "ended"}
    /\ step \in {"dial", "ping", "pong", "stream", "measured", "failed"}
    /\ clock \in Nat /\ tries \in Nat /\ stalled \in BOOLEAN
    /\ sink \in {"none", "reading", "ended"}
    /\ pinged \in 0 .. Pings /\ sent \in 0 .. Stream
    /\ up \in 0 .. UpRoom /\ held \in 0 .. Chunk /\ down \in 0 .. DownRoom
    /\ back \in Nat

(***************************************************************************)
(* The guest streams at a server that streams back, and all buffers are    *)
(* bounded.  Until the measurement is over somebody can always move: the   *)
(* guest, its sink or the echo.                                            *)
(***************************************************************************)
GuestCanMove ==
    \/ step = "dial"
    \/ step = "ping" /\ (pinged = Pings \/ net = "cut" \/ up < UpRoom)
    \/ step = "pong" /\ (net = "cut" \/ down > 0)
    \/ step = "stream" /\ (sent = Stream \/ net = "cut" \/ up < UpRoom)

SinkCanMove == sink = "reading" /\ down > 0

EchoCanMove ==
    \/ net = "backlog" /\ listener = "open"
    \/ echo = "copying" /\ held = 0 /\ up > 0
    \/ echo = "copying" /\ net = "open" /\ held > 0 /\ down < DownRoom

NeverStuck == NetOver \/ GuestCanMove \/ SinkCanMove \/ EchoCanMove

(***************************************************************************)
(* A round trip times its own byte: while the guest pings, nothing but the *)
(* one byte it waits for is under way, so the stream too starts on an      *)
(* empty path.                                                             *)
(***************************************************************************)
OnePingUnderWay ==
    step \in {"ping", "pong"} =>
        up + held + down = IF step = "pong" THEN 1 ELSE 0

(***************************************************************************)
(* The throughput reported is of bytes that were carried: when the last    *)
(* Write has returned, all but what the buffers hold has made the whole    *)
(* way to the host and back, and none has been lost or made up.            *)
(***************************************************************************)
MeasuredWasCarried ==
    step = "measured" =>
        /\ pinged = Pings /\ sent = Stream
        /\ back <= Pings + Stream
        /\ Pings + Stream - back <= UpRoom + Chunk + DownRoom

(***************************************************************************)
(* measureNet does not give up lightly.  Where it fails without ever       *)
(* having connected, it dialled for all its patience, and in all that time *)
(* one attempt stalled beyond its timeout, or it made as many attempts as  *)
(* fit in: a listener that comes up late, or an attempt or two that are    *)
(* lost, do not fail it, and it is through a timeout after the last pause. *)
(* Where it had connected, the host took the server away.                  *)
(***************************************************************************)
NotGivenUpLightly ==
    step = "failed" =>
        \/ net = "cut" /\ listener = "closed"
        \/ /\ net = "none" /\ clock > Patience
           /\ \/ stalled
              \/ /\ tries * (TryFor + Pause) > Patience + Pause
                 /\ clock <= Patience + Pause + TryFor

(***************************************************************************)
(* The exchange is over after a bounded number of steps, whoever takes     *)
(* them.  A byte has four moves to make: into the buffer to the host, into *)
(* io.Copy, into the buffer back, and out.  Every step moves a byte on or  *)
(* leaves a stage of somebody's for good, or takes of the time there is to *)
(* dial, and none gives anything back: no retry, echo or close can go      *)
(* round without end.                                                      *)
(***************************************************************************)
StepOrder == [dial |-> 0, ping |-> 1, pong |-> 1, stream |-> 2, measured |-> 3, failed |-> 3]
NetOrder  == [none |-> 0, backlog |-> 1, open |-> 2, closed |-> 3, cut |-> 3]
EchoOrder == [none |-> 0, copying |-> 1, ended |-> 2]
SinkOrder == [none |-> 0, reading |-> 1, ended |-> 2]
HostOrder == [open |-> 0, closed |-> 1]
Dialled   == IF step = "dial" THEN clock ELSE Patience + Pause

Moves == up + 2 * held + 3 * down + 4 * back
Work  == Moves + StepOrder[step] + NetOrder[net] + EchoOrder[echo] + SinkOrder[sink]
         + HostOrder[listener] + Dialled

Headway == [][Work < Work' /\ Work' <= 4 * (Pings + Stream) + 11 + Patience + Pause]_netVars

(***************************************************************************)
(* Nothing closes a connection that was accepted but the goroutine that    *)
(* copies it, and that one ends when the guest has closed its side.        *)
(***************************************************************************)
EchoLetsGo == net = "closed" ~> echo # "copying"

=============================================================================
