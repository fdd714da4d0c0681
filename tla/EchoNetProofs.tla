---------------------------- MODULE EchoNetProofs ----------------------------
(***************************************************************************)
(* Proofs about EchoNet, for every number of round trips, length of the    *)
(* stream and size of the buffers.                                         *)
(***************************************************************************)
EXTENDS EchoNet, TLAPS

USE NetAssumption

(***************************************************************************)
(* The inductive invariant.  Its heart is Carried: what the guest has sent *)
(* is in one of three places or has come back.  The rest says which stage  *)
(* of the measurement goes with which state of the connection.             *)
(***************************************************************************)
Carried ==
    step # "failed" =>
        pinged + sent + (IF step = "pong" THEN 1 ELSE 0) = back + up + held + down

Stages ==
    /\ step = "dial" => net = "none" /\ sink = "none" /\ pinged = 0 /\ sent = 0 /\ back = 0
    /\ step \in {"ping", "pong"} => sink = "none" /\ sent = 0 /\ back = pinged
    /\ step = "pong" => pinged < Pings
    /\ step \in {"ping", "pong", "stream"} => net \in {"backlog", "open", "cut"}
    /\ step \in {"stream", "measured"} => pinged = Pings
    /\ step = "stream" => sink = "reading" \/ net = "cut"
    /\ step = "measured" => sent = Stream

Ends ==
    /\ net \in {"none", "backlog"} => echo = "none"
    /\ net = "backlog" => listener = "open"
    /\ net = "open" => echo = "copying"
    /\ net = "cut" => listener = "closed"

\* Unless one stalls, an attempt and the pause after it take TryFor + Pause at most.
Dialling ==
    /\ step = "dial" => clock <= Patience + Pause
    /\ step = "dial" => stalled \/ clock <= tries * (TryFor + Pause)
    /\ NotGivenUpLightly

\* A failure loses count of who has what, but makes no bytes.
Bounded == up + held + down + back <= Pings + Stream

NetInv == NetTypeOK /\ Carried /\ Stages /\ Ends /\ Dialling /\ Bounded

LEMMA NetInvInit ==
    ASSUME NetInit
    PROVE  NetInv
<1>1. NetTypeOK
    <2>1. filtered \in BOOLEAN /\ clock \in Nat /\ tries \in Nat /\ stalled \in BOOLEAN
        BY DEF NetInit
    <2>2. 0 \in 0 .. Pings /\ 0 \in 0 .. Stream
        BY DEF NetAssumption
    <2>3. 0 \in 0 .. UpRoom /\ 0 \in 0 .. Chunk /\ 0 \in 0 .. DownRoom
        BY DEF NetAssumption
    <2>4. QED
        BY <2>1, <2>2, <2>3 DEF NetInit, NetTypeOK
<1>2. Carried
    <2>1. (IF step = "pong" THEN 1 ELSE 0) = 0
        BY DEF NetInit
    <2>2. QED
        BY <2>1 DEF NetInit, Carried
<1>3. Stages
    BY DEF NetInit, Stages
<1>4. Ends
    BY DEF NetInit, Ends
<1>5. Dialling
    BY DEF NetInit, Dialling, NotGivenUpLightly, NetAssumption
<1>6. Bounded
    BY DEF NetInit, Bounded, NetAssumption
<1>7. QED
    BY <1>1, <1>2, <1>3, <1>4, <1>5, <1>6 DEF NetInv

(***************************************************************************)
(* What dialling has taken so far, and what is left of it once it is over. *)
(***************************************************************************)
LEMMA DialFailsKeepsDialling ==
    ASSUME NetInv, DialFails
    PROVE  /\ Dialling' /\ clock' \in Nat /\ tries' \in Nat /\ stalled' \in BOOLEAN
           /\ step' = "failed" \/ (step' = "dial" /\ clock < clock' /\ clock' <= Patience + Pause)
<1>1. PICK d \in 0 .. Longest :
        stalled' = (stalled \/ d > TryFor) /\ GiveUpOrPause(d)
    BY DEF DialFails
<1> DEFINE Each == TryFor + Pause
<1>2. /\ Patience \in Nat /\ TryFor \in Nat /\ Pause \in Nat /\ Pause > 0 /\ d \in Nat
      /\ clock \in Nat /\ tries \in Nat /\ stalled \in BOOLEAN
      /\ clock <= Patience + Pause /\ tries' = tries + 1 /\ net' = net /\ net = "none"
    BY DEF NetAssumption, NetInv, NetTypeOK, Stages, Dialling, DialFails
<1>3. stalled \/ clock <= tries * Each
    BY DEF NetInv, Dialling, DialFails
<1>4. /\ tries * Each \in Nat /\ (tries + 1) * Each = tries * Each + Each
      /\ Each \in Nat /\ Each = TryFor + Pause
    BY <1>2
<1>5. tries' * Each = tries * Each + Each
    BY <1>2, <1>4
<1>6. stalled' \in BOOLEAN /\ (stalled => stalled') /\ (~stalled' => d <= TryFor)
    <2> DEFINE over == d > TryFor
    <2>1. over \in BOOLEAN /\ (~over => d <= TryFor)
        BY <1>2
    <2>2. stalled' = (stalled \/ over)
        BY <1>1
    <2> HIDE DEF over
    <2>3. QED
        BY <1>2, <2>1, <2>2, Zenon
<1>7. CASE clock + d > Patience
    <2>1. step' = "failed" /\ clock' = clock + d
        BY <1>1, <1>7 DEF GiveUpOrPause
    <2>2. stalled' \/ (tries' * Each > Patience + Pause /\ clock' <= Patience + Pause + TryFor)
        BY <1>2, <1>3, <1>4, <1>5, <1>6, <1>7, <2>1
    <2>3. Dialling'
        BY <2>1, <2>2, <1>2, <1>7 DEF Dialling, NotGivenUpLightly
    <2>4. QED
        BY <2>1, <2>3, <1>2, <1>6
<1>8. CASE ~(clock + d > Patience)
    <2>1. step' = "dial" /\ clock' = clock + d + Pause
        BY <1>1, <1>8 DEF GiveUpOrPause, DialFails
    <2>2. clock < clock' /\ clock' <= Patience + Pause
        BY <2>1, <1>2, <1>8
    <2>3. stalled' \/ clock' <= tries' * Each
        BY <2>1, <1>2, <1>3, <1>4, <1>5, <1>6
    <2>4. Dialling'
        BY <2>1, <2>2, <2>3 DEF Dialling, NotGivenUpLightly
    <2>5. QED
        BY <2>1, <2>2, <2>4, <1>2, <1>6
<1>9. QED
    BY <1>7, <1>8

\* Nothing else has to do with dialling, but that a connection cut is a failure too.
LEMMA OthersKeepDialling ==
    ASSUME NetInv,
           \/ Connect \/ Ping \/ Pong \/ StartStream \/ StreamWrite \/ StreamDone \/ MeasureFails
           \/ SinkRead \/ SinkEnds \/ Accept \/ EchoRead \/ EchoWrite \/ EchoEnds
           \/ CloseEchoListener \/ HostDies
    PROVE  Dialling'
<1>1. CASE Connect
    BY <1>1 DEF Connect, Dialling, NotGivenUpLightly
<1>2. CASE MeasureFails
    <2>1. net' = "cut" /\ listener' = "closed" /\ step' = "failed"
        BY <1>2 DEF MeasureFails, NetInv, Ends, hostVars
    <2>2. QED
        BY <2>1 DEF Dialling, NotGivenUpLightly
<1>3. CASE Ping \/ Pong \/ StartStream \/ StreamWrite \/ StreamDone
    <2>1. step' \in {"ping", "pong", "stream", "measured"}
        BY <1>3 DEF Ping, Pong, StartStream, StreamWrite, StreamDone
    <2>2. QED
        BY <2>1 DEF Dialling, NotGivenUpLightly
<1>4. CASE SinkRead \/ SinkEnds \/ Accept \/ EchoRead \/ EchoWrite \/ EchoEnds
           \/ CloseEchoListener \/ HostDies
    <2>1. step' = step /\ UNCHANGED dialVars
        BY <1>4 DEF SinkRead, SinkEnds, Accept, EchoRead, EchoWrite, EchoEnds, CloseEchoListener,
                    HostDies, guestVars
    <2>2. net \in {"none", "cut"} => net' = net
        BY <1>4 DEF SinkRead, SinkEnds, Accept, EchoRead, EchoWrite, EchoEnds, CloseEchoListener,
                    HostDies, Connected
    <2>3. listener = "closed" => listener' = "closed"
        BY <1>4 DEF SinkRead, SinkEnds, Accept, EchoRead, EchoWrite, EchoEnds, CloseEchoListener,
                    HostDies, hostVars
    <2>4. Dialling
        BY DEF NetInv
    <2>5. QED
        BY <2>1, <2>2, <2>3, <2>4, Zenon DEF Dialling, NotGivenUpLightly, dialVars
<1>5. QED
    BY <1>1, <1>2, <1>3, <1>4

LEMMA NetInvStep ==
    ASSUME NetInv, NetNext
    PROVE  NetInv'
<1> DEFINE Rest == NetTypeOK /\ Carried /\ Stages /\ Ends /\ Bounded
<1>0. Rest
    BY DEF NetInv
<1>1. CASE DialFails
    <2>1. UNCHANGED <<hostVars, sink, pinged, sent, back, net, up, down>> /\ step = "dial"
        BY <1>1 DEF DialFails
    <2>2. clock' \in Nat /\ tries' \in Nat /\ stalled' \in BOOLEAN /\ step' \in {"dial", "failed"}
        BY <1>1, DialFailsKeepsDialling
    <2>3. Rest'
        BY <1>0, <2>1, <2>2 DEF NetTypeOK, Carried, Stages, Ends, Bounded, hostVars
    <2>4. QED
        BY <1>1, <2>3, DialFailsKeepsDialling DEF NetInv
<1> USE DEF NetTypeOK, Carried, Stages, Ends, Bounded, hostVars, guestVars, dialVars
<1>2. CASE Connect
    BY <1>0, <1>2, OthersKeepDialling DEF NetInv, Connect, Reachable
<1>3. CASE Ping
    BY <1>0, <1>3, OthersKeepDialling DEF NetInv, Ping, Connected
<1>4. CASE Pong
    BY <1>0, <1>4, OthersKeepDialling DEF NetInv, Pong, Connected
<1>5. CASE StartStream
    BY <1>0, <1>5, OthersKeepDialling DEF NetInv, StartStream
<1>6. CASE StreamWrite
    BY <1>0, <1>6, OthersKeepDialling DEF NetInv, StreamWrite, Connected
<1>7. CASE StreamDone
    BY <1>0, <1>7, OthersKeepDialling DEF NetInv, StreamDone, Connected
<1>8. CASE MeasureFails
    BY <1>0, <1>8, OthersKeepDialling DEF NetInv, MeasureFails
<1>9. CASE SinkRead
    BY <1>0, <1>9, OthersKeepDialling DEF NetInv, SinkRead, Connected
<1>10. CASE SinkEnds
    BY <1>0, <1>10, OthersKeepDialling DEF NetInv, SinkEnds
<1>11. CASE Accept
    BY <1>0, <1>11, OthersKeepDialling DEF NetInv, Accept
<1>12. CASE EchoRead
    BY <1>0, <1>12, OthersKeepDialling DEF NetInv, EchoRead
<1>13. CASE EchoWrite
    BY <1>0, <1>13, OthersKeepDialling DEF NetInv, EchoWrite
<1>14. CASE EchoEnds
    BY <1>0, <1>14, OthersKeepDialling DEF NetInv, EchoEnds
<1>15. CASE CloseEchoListener
    BY <1>0, <1>15, OthersKeepDialling DEF NetInv, CloseEchoListener
<1>16. CASE HostDies
    BY <1>0, <1>16, OthersKeepDialling DEF NetInv, HostDies, Connected
<1>17. QED
    BY <1>1, <1>2, <1>3, <1>4, <1>5, <1>6, <1>7, <1>8, <1>9,
       <1>10, <1>11, <1>12, <1>13, <1>14, <1>15, <1>16
    DEF NetNext, measureNet, Sink, echoServer, HostEnvironment

\* A step of the rest of the system leaves the exchange as it is.
LEMMA NetInvStutter ==
    ASSUME NetInv, UNCHANGED netVars
    PROVE  NetInv'
<1>1. Dialling'
    BY Zenon DEF NetInv, Dialling, NotGivenUpLightly, netVars, hostVars, guestVars, dialVars
<1>2. QED
    BY <1>1 DEF NetInv, NetTypeOK, Carried, Stages, Ends, Bounded, netVars, hostVars, guestVars,
                dialVars

THEOREM NetInvariance == NetSafe => []NetInv
<1>1. NetInv /\ [NetNext \/ (NetOver /\ UNCHANGED netVars)]_netVars => NetInv'
    BY NetInvStep, NetInvStutter
<1>2. QED
    BY <1>1, NetInvInit, PTL DEF NetSafe

-----------------------------------------------------------------------------

(***************************************************************************)
(* Nobody waits for everybody: whatever the sizes of the buffers, one of   *)
(* the guest, its sink and the echo can move until the measurement ends.   *)
(***************************************************************************)
LEMMA InvNeverStuck ==
    ASSUME NetInv
    PROVE  NeverStuck
<1> USE DEF NetInv, NetTypeOK, Carried, Stages, Ends, NeverStuck
<1>1. CASE step \in {"dial", "measured", "failed"}
    BY <1>1 DEF NetOver, GuestCanMove
<1>2. CASE step = "ping"
    <2>1. up = 0
        BY <1>2
    <2>2. QED
        BY <1>2, <2>1 DEF GuestCanMove
<1>3. CASE step = "pong"
    <2>1. up + held + down = 1
        BY <1>3
    <2>2. CASE net = "cut" \/ down > 0
        BY <1>3, <2>2 DEF GuestCanMove
    <2>3. CASE net = "backlog"
        BY <2>3 DEF EchoCanMove
    <2>4. CASE net = "open" /\ down = 0
        <3>1. (held = 0 /\ up > 0) \/ held > 0
            BY <2>1, <2>4
        <3>2. QED
            BY <3>1, <2>4 DEF EchoCanMove
    <2>5. QED
        BY <1>3, <2>2, <2>3, <2>4
<1>4. CASE step = "stream"
    <2>1. CASE net = "cut" \/ up < UpRoom
        BY <1>4, <2>1 DEF GuestCanMove
    <2>2. CASE net = "backlog"
        BY <2>2 DEF EchoCanMove
    <2>3. CASE net = "open" /\ up = UpRoom
        <3>1. CASE held = 0
            BY <2>3, <3>1 DEF EchoCanMove
        <3>2. CASE held > 0 /\ down < DownRoom
            BY <2>3, <3>2 DEF EchoCanMove
        <3>3. CASE down = DownRoom
            BY <1>4, <2>3, <3>3 DEF SinkCanMove
        <3>4. QED
            BY <3>1, <3>2, <3>3
    <2>4. QED
        BY <1>4, <2>1, <2>2, <2>3
<1>5. QED
    BY <1>1, <1>2, <1>3, <1>4

LEMMA InvOnePing ==
    ASSUME NetInv
    PROVE  OnePingUnderWay
BY DEF NetInv, NetTypeOK, Carried, Stages, OnePingUnderWay

LEMMA InvCarried ==
    ASSUME NetInv
    PROVE  MeasuredWasCarried
BY DEF NetInv, NetTypeOK, Carried, Stages, MeasuredWasCarried

LEMMA InvGivesUp ==
    ASSUME NetInv
    PROVE  NotGivenUpLightly
BY DEF NetInv, Dialling

(***************************************************************************)
(* The guest streams at a server that streams back: bounded buffers never  *)
(* bring both of them to a standstill.                                     *)
(***************************************************************************)
THEOREM ExchangeNeverStuck == NetSafe => []NeverStuck
BY NetInvariance, InvNeverStuck, PTL

(***************************************************************************)
(* While measureNet times a round trip, its byte is alone on the path.     *)
(***************************************************************************)
THEOREM RoundTripsAreTimed == NetSafe => []OnePingUnderWay
BY NetInvariance, InvOnePing, PTL

(***************************************************************************)
(* A measurement that succeeded moved all its bytes, but for what the      *)
(* buffers hold.                                                           *)
(***************************************************************************)
THEOREM ThroughputIsReal == NetSafe => []MeasuredWasCarried
BY NetInvariance, InvCarried, PTL

(***************************************************************************)
(* Whatever the patience, timeout and pause: measureNet gives up on a host *)
(* only after all its attempts, unless the guest itself is held up.        *)
(***************************************************************************)
THEOREM GivesUpAfterAll == NetSafe => []NotGivenUpLightly
BY NetInvariance, InvGivesUp, PTL

-----------------------------------------------------------------------------
(* Headway.                                                                *)

\* The stages in their order, as numbers.
LEMMA OrderValues ==
    /\ /\ StepOrder["dial"] = 0 /\ StepOrder["ping"] = 1 /\ StepOrder["pong"] = 1
       /\ StepOrder["stream"] = 2 /\ StepOrder["measured"] = 3 /\ StepOrder["failed"] = 3
    /\ /\ NetOrder["none"] = 0 /\ NetOrder["backlog"] = 1 /\ NetOrder["open"] = 2
       /\ NetOrder["closed"] = 3 /\ NetOrder["cut"] = 3
    /\ EchoOrder["none"] = 0 /\ EchoOrder["copying"] = 1 /\ EchoOrder["ended"] = 2
    /\ SinkOrder["none"] = 0 /\ SinkOrder["reading"] = 1 /\ SinkOrder["ended"] = 2
    /\ HostOrder["open"] = 0 /\ HostOrder["closed"] = 1
BY DEF StepOrder, NetOrder, EchoOrder, SinkOrder, HostOrder

LEMMA OrderBounds ==
    /\ \A s \in {"dial", "ping", "pong", "stream", "measured", "failed"} : StepOrder[s] \in 0 .. 3
    /\ \A n \in {"none", "backlog", "open", "closed", "cut"} : NetOrder[n] \in 0 .. 3
    /\ \A e \in {"none", "copying", "ended"} : EchoOrder[e] \in 0 .. 2
    /\ \A e \in {"none", "reading", "ended"} : SinkOrder[e] \in 0 .. 2
    /\ \A l \in {"open", "closed"} : HostOrder[l] \in 0 .. 1
<1>1. \A s \in {"dial", "ping", "pong", "stream", "measured", "failed"} : StepOrder[s] \in 0 .. 3
    BY OrderValues
<1>2. \A n \in {"none", "backlog", "open", "closed", "cut"} : NetOrder[n] \in 0 .. 3
    BY OrderValues
<1>3. \A e \in {"none", "copying", "ended"} : EchoOrder[e] \in 0 .. 2
    BY OrderValues
<1>4. \A e \in {"none", "reading", "ended"} : SinkOrder[e] \in 0 .. 2
    BY OrderValues
<1>5. \A l \in {"open", "closed"} : HostOrder[l] \in 0 .. 1
    BY OrderValues
<1>6. QED
    BY <1>1, <1>2, <1>3, <1>4, <1>5

LEMMA DialledBounds ==
    ASSUME NetInv
    PROVE  Dialled \in Nat /\ Dialled <= Patience + Pause
BY DEF NetInv, NetTypeOK, Dialling, Dialled, NetAssumption

\* No step of anybody takes a stage back, and one that moves no byte leaves a stage behind.
StagesAhead ==
    /\ StepOrder[step] <= StepOrder[step'] /\ NetOrder[net] <= NetOrder[net']
    /\ EchoOrder[echo] <= EchoOrder[echo'] /\ SinkOrder[sink] <= SinkOrder[sink']
    /\ HostOrder[listener] <= HostOrder[listener'] /\ Dialled <= Dialled'

StageLeft ==
    \/ StepOrder[step] < StepOrder[step'] \/ NetOrder[net] < NetOrder[net']
    \/ EchoOrder[echo] < EchoOrder[echo'] \/ SinkOrder[sink] < SinkOrder[sink']
    \/ HostOrder[listener] < HostOrder[listener'] \/ Dialled < Dialled'

LEMMA DialledAhead ==
    ASSUME NetInv, NetInv', step' = "dial" => step = "dial" /\ clock <= clock'
    PROVE  Dialled \in Nat /\ Dialled' \in Nat /\ Dialled <= Dialled'
<1>1. /\ clock \in Nat /\ clock' \in Nat /\ Patience + Pause \in Nat
      /\ step = "dial" => clock <= Patience + Pause
    BY DEF NetInv, NetTypeOK, Dialling, NetAssumption
<1>2. QED
    BY <1>1 DEF Dialled

LEMMA ByteSteps ==
    ASSUME NetInv, NetInv', Ping \/ Pong \/ StreamWrite \/ SinkRead \/ EchoRead \/ EchoWrite
    PROVE  Moves < Moves' /\ StagesAhead
<1> USE DEF NetInv, NetTypeOK, Moves, hostVars, guestVars
<1>1. Moves < Moves'
    <2>1. CASE Ping
        BY <2>1 DEF Ping
    <2>2. CASE Pong
        BY <2>2 DEF Pong
    <2>3. CASE StreamWrite
        BY <2>3 DEF StreamWrite
    <2>4. CASE SinkRead
        BY <2>4 DEF SinkRead
    <2>5. CASE EchoRead
        BY <2>5 DEF EchoRead
    <2>6. CASE EchoWrite
        BY <2>6 DEF EchoWrite
    <2>7. QED
        BY <2>1, <2>2, <2>3, <2>4, <2>5, <2>6
<1>2. /\ step' = step \/ (step = "ping" /\ step' = "pong") \/ (step = "pong" /\ step' = "ping")
      /\ UNCHANGED <<net, echo, sink, listener>>
    BY DEF Ping, Pong, StreamWrite, SinkRead, EchoRead, EchoWrite
<1>3. step' = "dial" => step = "dial" /\ clock' = clock
    BY DEF Ping, Pong, StreamWrite, SinkRead, EchoRead, EchoWrite, guestVars, dialVars
<1>4. Dialled <= Dialled'
    <2>1. step' = "dial" => step = "dial" /\ clock <= clock'
        BY <1>3
    <2>2. QED
        BY <2>1, DialledAhead
<1>5. StepOrder[step] <= StepOrder[step']
    <2>1. StepOrder[step] \in Nat
        BY OrderBounds
    <2>2. QED
        BY <1>2, <2>1, OrderValues
<1>6. /\ NetOrder[net] \in Nat /\ EchoOrder[echo] \in Nat /\ SinkOrder[sink] \in Nat
      /\ HostOrder[listener] \in Nat
    BY OrderBounds
<1>7. StagesAhead
    BY <1>2, <1>4, <1>5, <1>6 DEF StagesAhead
<1>8. QED
    BY <1>1, <1>7

LEMMA StageSteps ==
    ASSUME NetInv, NetInv',
           \/ Connect \/ DialFails \/ StartStream \/ StreamDone \/ MeasureFails
           \/ SinkEnds \/ Accept \/ EchoEnds \/ CloseEchoListener \/ HostDies
    PROVE  Moves' = Moves /\ StagesAhead /\ StageLeft
<1>1. UNCHANGED <<up, held, down, back>>
    BY DEF Connect, DialFails, StartStream, StreamDone, MeasureFails, SinkEnds, Accept,
           EchoEnds, CloseEchoListener, HostDies, hostVars, guestVars
<1>2. Moves' = Moves
    BY <1>1 DEF Moves
<1>3. /\ StepOrder[step] \in Nat /\ NetOrder[net] \in Nat /\ EchoOrder[echo] \in Nat
      /\ SinkOrder[sink] \in Nat /\ HostOrder[listener] \in Nat
    BY OrderBounds DEF NetInv, NetTypeOK
<1>4. Dialled \in Nat /\ Dialled' \in Nat /\ Dialled <= Dialled'
    <2>1. step' = "dial" => step = "dial" /\ (clock' = clock \/ clock < clock')
        BY DialFailsKeepsDialling
        DEF Connect, DialFails, StartStream, StreamDone, MeasureFails, SinkEnds, Accept,
            EchoEnds, CloseEchoListener, HostDies, guestVars, dialVars
    <2>2. clock \in Nat /\ clock' \in Nat
        BY DEF NetInv, NetTypeOK
    <2>3. step' = "dial" => step = "dial" /\ clock <= clock'
        BY <2>1, <2>2
    <2>4. QED
        BY <2>3, DialledAhead
<1>5. CASE Connect
    <2>1. /\ step = "dial" /\ step' = "ping" /\ net = "none" /\ net' = "backlog"
          /\ UNCHANGED <<echo, sink, listener>>
        BY <1>5 DEF Connect, NetInv, NetTypeOK, Stages, Ends, Connected, hostVars, guestVars
    <2>2. QED
        BY <2>1, <1>2, <1>3, <1>4, OrderValues DEF StagesAhead, StageLeft
<1>6. CASE DialFails
    <2>1. /\ step = "dial" /\ UNCHANGED <<net, echo, sink, listener>>
          /\ step' = "failed" \/ (step' = "dial" /\ clock < clock')
        BY <1>6, DialFailsKeepsDialling DEF DialFails, hostVars
    <2>2. CASE step' = "failed"
        BY <2>1, <2>2, <1>2, <1>3, <1>4, OrderValues DEF StagesAhead, StageLeft
    <2>3. CASE step' = "dial" /\ clock < clock'
        <3>1. Dialled < Dialled'
            BY <2>1, <2>3 DEF Dialled
        <3>2. QED
            BY <2>1, <2>3, <3>1, <1>2, <1>3, <1>4 DEF StagesAhead, StageLeft
    <2>4. QED
        BY <2>1, <2>2, <2>3
<1>7. CASE StartStream
    <2>1. /\ step = "ping" /\ step' = "stream" /\ sink = "none" /\ sink' = "reading"
          /\ UNCHANGED <<net, echo, listener>>
        BY <1>7 DEF StartStream, NetInv, NetTypeOK, Stages, Ends, Connected, hostVars, guestVars
    <2>2. QED
        BY <2>1, <1>2, <1>3, <1>4, OrderValues DEF StagesAhead, StageLeft
<1>8. CASE StreamDone
    <2>1. /\ step = "stream" /\ step' = "measured" /\ UNCHANGED <<echo, sink, listener>>
          /\ net' = net \/ (net \in {"backlog", "open"} /\ net' = "closed")
        BY <1>8 DEF StreamDone, NetInv, NetTypeOK, Stages, Ends, Connected, hostVars, guestVars
    <2>2. QED
        BY <2>1, <1>2, <1>3, <1>4, OrderValues DEF StagesAhead, StageLeft
<1>9. CASE MeasureFails
    <2>1. /\ step \in {"ping", "pong", "stream"} /\ step' = "failed"
          /\ UNCHANGED <<net, echo, sink, listener>>
        BY <1>9 DEF MeasureFails, NetInv, NetTypeOK, Stages, Ends, Connected, hostVars, guestVars
    <2>2. QED
        BY <2>1, <1>2, <1>3, <1>4, OrderValues DEF StagesAhead, StageLeft
<1>10. CASE SinkEnds
    <2>1. /\ sink = "reading" /\ sink' = "ended" /\ UNCHANGED <<step, net, echo, listener>>
        BY <1>10 DEF SinkEnds, NetInv, NetTypeOK, Stages, Ends, Connected, hostVars, guestVars
    <2>2. QED
        BY <2>1, <1>2, <1>3, <1>4, OrderValues DEF StagesAhead, StageLeft
<1>11. CASE Accept
    <2>1. /\ net = "backlog" /\ net' = "open" /\ echo = "none" /\ echo' = "copying"
          /\ UNCHANGED <<step, sink, listener>>
        BY <1>11 DEF Accept, NetInv, NetTypeOK, Stages, Ends, Connected, hostVars, guestVars
    <2>2. QED
        BY <2>1, <1>2, <1>3, <1>4, OrderValues DEF StagesAhead, StageLeft
<1>12. CASE EchoEnds
    <2>1. /\ echo = "copying" /\ echo' = "ended" /\ UNCHANGED <<step, net, sink, listener>>
        BY <1>12 DEF EchoEnds, NetInv, NetTypeOK, Stages, Ends, Connected, hostVars, guestVars
    <2>2. QED
        BY <2>1, <1>2, <1>3, <1>4, OrderValues DEF StagesAhead, StageLeft
<1>13. CASE CloseEchoListener
    <2>1. /\ listener = "open" /\ listener' = "closed" /\ UNCHANGED <<step, echo, sink>>
          /\ net' = net \/ (net = "backlog" /\ net' = "cut")
        BY <1>13 DEF CloseEchoListener, NetInv, NetTypeOK, Stages, Ends, Connected, hostVars, guestVars
    <2>2. QED
        BY <2>1, <1>2, <1>3, <1>4, OrderValues DEF StagesAhead, StageLeft
<1>14. CASE HostDies
    <2>1. /\ net \in {"backlog", "open"} /\ net' = "cut" /\ UNCHANGED <<step, sink>>
          /\ listener' = listener \/ (listener = "open" /\ listener' = "closed")
          /\ echo' = echo \/ (echo = "copying" /\ echo' = "ended")
        BY <1>14 DEF HostDies, NetInv, NetTypeOK, Stages, Ends, Connected, hostVars, guestVars
    <2>2. QED
        BY <2>1, <1>2, <1>3, <1>4, OrderValues DEF StagesAhead, StageLeft
<1>15. QED
    BY <1>5, <1>6, <1>7, <1>8, <1>9, <1>10, <1>11, <1>12, <1>13, <1>14

LEMMA WorkGrows ==
    ASSUME NetInv, NetInv', NetNext
    PROVE  Work < Work'
<1>1. /\ StagesAhead
      /\ Moves < Moves' \/ (Moves' = Moves /\ StageLeft)
    BY ByteSteps, StageSteps DEF NetNext, measureNet, Sink, echoServer, HostEnvironment
<1>2. Moves \in Nat /\ Moves' \in Nat
    <2>1. /\ up \in Nat /\ held \in Nat /\ down \in Nat /\ back \in Nat
          /\ up' \in Nat /\ held' \in Nat /\ down' \in Nat /\ back' \in Nat
        BY DEF NetInv, NetTypeOK
    <2>2. \A a, b, c, d \in Nat : a + 2 * b + 3 * c + 4 * d \in Nat
        OBVIOUS
    <2>3. Moves = up + 2 * held + 3 * down + 4 * back
        BY DEF Moves
    <2>4. Moves' = up' + 2 * held' + 3 * down' + 4 * back'
        BY DEF Moves
    <2>5. QED
        BY <2>1, <2>2, <2>3, <2>4
<1>3. /\ StepOrder[step] \in Nat /\ NetOrder[net] \in Nat /\ EchoOrder[echo] \in Nat
      /\ SinkOrder[sink] \in Nat /\ HostOrder[listener] \in Nat /\ Dialled \in Nat
    BY OrderBounds, DialledBounds DEF NetInv, NetTypeOK
<1>4. /\ StepOrder[step'] \in Nat /\ NetOrder[net'] \in Nat /\ EchoOrder[echo'] \in Nat
      /\ SinkOrder[sink'] \in Nat /\ HostOrder[listener'] \in Nat /\ Dialled' \in Nat
    BY OrderBounds DEF NetInv, NetTypeOK, Dialled, NetAssumption
<1>5. /\ StepOrder' = StepOrder /\ NetOrder' = NetOrder /\ EchoOrder' = EchoOrder
      /\ SinkOrder' = SinkOrder /\ HostOrder' = HostOrder
    BY DEF StepOrder, NetOrder, EchoOrder, SinkOrder, HostOrder
<1>6. QED
    BY <1>1, <1>2, <1>3, <1>4, <1>5 DEF Work, StagesAhead, StageLeft

LEMMA WorkIsBounded ==
    ASSUME NetInv
    PROVE  Work <= 4 * (Pings + Stream) + 11 + Patience + Pause
<1>1. /\ up \in Nat /\ held \in Nat /\ down \in Nat /\ back \in Nat
      /\ up + held + down + back <= Pings + Stream
    BY DEF NetInv, NetTypeOK, Bounded
<1>2. Moves \in Nat /\ Moves <= 4 * (Pings + Stream)
    BY <1>1 DEF Moves, NetAssumption
<1>3. /\ StepOrder[step] \in 0 .. 3 /\ NetOrder[net] \in 0 .. 3 /\ EchoOrder[echo] \in 0 .. 2
      /\ SinkOrder[sink] \in 0 .. 2 /\ HostOrder[listener] \in 0 .. 1
      /\ Dialled \in Nat /\ Dialled <= Patience + Pause
    BY OrderBounds, DialledBounds DEF NetInv, NetTypeOK
<1>4. QED
    BY <1>2, <1>3 DEF Work, NetAssumption

(***************************************************************************)
(* Whatever the sizes and the times, an exchange takes at most             *)
(* 4 * (Pings + Stream) + 11 + Patience + Pause steps of its guest, its    *)
(* echo server and its host; and as it never stands still before its end   *)
(* (ExchangeNeverStuck), it comes to it.                                   *)
(***************************************************************************)
THEOREM ExchangeMakesHeadway == NetSafe => Headway
<1> DEFINE Room == Work <= 4 * (Pings + Stream) + 11 + Patience + Pause
<1>1. NetInv => Room
    BY WorkIsBounded
<1>2. ASSUME NetInv, NetInv', Room', [NetNext \/ (NetOver /\ UNCHANGED netVars)]_netVars
      PROVE  [Work < Work' /\ Work' <= 4 * (Pings + Stream) + 11 + Patience + Pause]_netVars
    BY <1>2, WorkGrows
<1>3. QED
    BY <1>1, <1>2, NetInvariance, PTL DEF NetSafe, Headway

=============================================================================
