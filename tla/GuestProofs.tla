----------------------------- MODULE GuestProofs -----------------------------
(***************************************************************************)
(* Proofs about Guest: the invariants of the archive and of the exchange   *)
(* hold in the guest that goes through both, its report is true, and it    *)
(* keeps the safety part of its promise.                                   *)
(***************************************************************************)
EXTENDS Guest, EchoNetProofs, InitramfsProofs

USE SleepAssumption

(***************************************************************************)
(* The inductive invariant.  Spoken relates the report's line to where     *)
(* runGuest is and to the time that has passed; Grounded, what the report  *)
(* says to what was found.                                                 *)
(***************************************************************************)
OwnTypeOK ==
    /\ vm \in {"off", "proc", "sys", "dev", "tmp", "probe", "disk", "configure", "net",
               "report", "drain", "reset", "dead"}
    /\ bound \subseteq Driver /\ mounted \subseteq {"proc", "sys", "dev", "tmp"}
    /\ drivers \subseteq Driver /\ disk \in BOOLEAN
    /\ NetError \in {"", "no address", "configure", "measure"}
    /\ line \in {"none", "printed", "arrived", "lost"}
    /\ needed \in 0 .. Slowest /\ slept \in Nat

Spoken ==
    /\ vm \notin {"off", "dead"} => reader = "done"
    /\ vm \notin {"drain", "reset", "dead"} => line = "none" /\ needed = 0 /\ slept = 0
    /\ vm = "drain" => line \in {"printed", "arrived"}
    /\ vm = "drain" => (line = "printed" <=> slept < needed)
    /\ vm = "reset" => line = "arrived" \/ (line = "lost" /\ needed > Sleep)
    /\ vm = "dead" => line \in {"none", "arrived", "lost"}

Grounded ==
    /\ drivers \subseteq bound
    /\ drivers # {} => "sys" \in mounted
    /\ vm = "net" => "proc" \in mounted
    /\ (vm = "report" \/ line \in {"printed", "arrived"}) /\ NetError = ""
          => step = "measured" /\ "proc" \in mounted

GuestInv == NetInv /\ ArchiveInv /\ OwnTypeOK /\ Spoken /\ Grounded

LEMMA GuestInvInit ==
    ASSUME Init
    PROVE  GuestInv
<1>1. NetInv /\ ArchiveInv
    BY NetInvInit, ArchiveInvInit DEF Init
<1>2. OwnTypeOK
    <2>1. 0 \in 0 .. Slowest
        BY DEF SleepAssumption
    <2>2. QED
        BY <2>1 DEF Init, OwnTypeOK, Driver
<1>3. Spoken /\ Grounded
    BY DEF Init, Spoken, Grounded
<1>4. QED
    BY <1>1, <1>2, <1>3 DEF GuestInv

LEMMA Times ==
    ASSUME GuestInv
    PROVE  /\ Sleep \in Nat \ {0} /\ needed \in Nat /\ slept \in Nat
           /\ vm = "drain" => (line = "printed" <=> slept < needed)
<1>1. Sleep \in Nat \ {0} /\ Slowest \in Nat
    BY DEF SleepAssumption
<1>2. needed \in 0 .. Slowest /\ slept \in Nat
    BY DEF GuestInv, OwnTypeOK
<1>3. needed \in Nat
    BY <1>1, <1>2
<1>4. vm = "drain" => (line = "printed" <=> slept < needed)
    BY DEF GuestInv, Spoken
<1>5. QED
    BY <1>1, <1>2, <1>3, <1>4

-----------------------------------------------------------------------------

\* The kernel that ran /init had unpacked all there was, the console's node included.
LEMMA EverythingUnpacked ==
    ASSUME GuestInv, reader = "done"
    PROVE  UnpackedName("dev/console")
<1>1. unpacked = [k \in 1 .. 6 |-> k]
    BY InvReadsBack, EntriesCount DEF GuestInv, ReadsBack
<1>2. Len(unpacked) = 6
    BY DEF GuestInv, ArchiveInv, Progress
<1>3. Entries[5].name = "dev/console"
    BY DEF Entries, Entry
<1>4. 5 \in 1 .. Len(unpacked) /\ unpacked[5] = 5
    BY <1>1, <1>2
<1>5. QED
    BY <1>3, <1>4 DEF UnpackedName

LEMMA NetUntouched ==
    ASSUME GuestInv, UNCHANGED netVars
    PROVE  NetInv' /\ step' = step
BY NetInvStutter DEF GuestInv, netVars, guestVars

LEMMA ArchiveUntouched ==
    ASSUME GuestInv, UNCHANGED archiveVars
    PROVE  ArchiveInv' /\ reader' = reader
BY ArchiveInvStutter DEF GuestInv, archiveVars, readerVars

\* The four mounts come one after the other, and the probe after them.
LEMMA MountOrder ==
    ASSUME NEW j \in 1 .. Len(Mounts), Mount(j)
    PROVE  /\ vm \in {"proc", "sys", "dev", "tmp"} /\ vm' \in {"sys", "dev", "tmp", "probe"}
           /\ mounted' = mounted \/ mounted' = mounted \cup {vm}
<1>1. j = 1 \/ j = 2 \/ j = 3 \/ j = 4
    BY DEF Mounts
<1>2. /\ Len(Mounts) = 4 /\ Mounts[1] = "proc" /\ Mounts[2] = "sys" /\ Mounts[3] = "dev"
      /\ Mounts[4] = "tmp"
    BY DEF Mounts
<1>3. vm = Mounts[j] /\ vm' = IF j < Len(Mounts) THEN Mounts[j + 1] ELSE "probe"
    BY DEF Mount
<1>4. mounted' = mounted \/ mounted' = mounted \cup {vm}
    BY DEF Mount
<1>5. vm \in {"proc", "sys", "dev", "tmp"} /\ vm' \in {"sys", "dev", "tmp", "probe"}
    BY <1>1, <1>2, <1>3
<1>6. QED
    BY <1>4, <1>5

LEMMA RunGuestStep ==
    ASSUME GuestInv, runGuest
    PROVE  GuestInv'
<1> USE DEF OwnTypeOK, Spoken, Grounded, lineVars
<1>1. CASE RunInit
    <2>1. vm' = "proc"
        BY <1>1 DEF RunInit, Mounts
    <2>2. QED
        BY <1>1, <2>1, NetUntouched, ArchiveUntouched DEF GuestInv, RunInit, reportVars
<1>2. ASSUME NEW j \in 1 .. Len(Mounts), Mount(j)
      PROVE  GuestInv'
    BY <1>2, MountOrder, NetUntouched, ArchiveUntouched DEF GuestInv, Mount, reportVars
<1>3. CASE Probe
    BY <1>3, NetUntouched, ArchiveUntouched DEF GuestInv, Probe, Found
<1>4. CASE MeasureDisk
    BY <1>4, NetUntouched, ArchiveUntouched DEF GuestInv, MeasureDisk
<1>5. CASE NoAddress
    BY <1>5, NetUntouched, ArchiveUntouched DEF GuestInv, NoAddress
<1>6. CASE configureGuestNet
    BY <1>6, NetUntouched, ArchiveUntouched DEF GuestInv, configureGuestNet
<1>7. CASE MeasureNet
    BY <1>7, NetInvStep, ArchiveUntouched
    DEF GuestInv, MeasureNet, NetNext, initVars, reportVars
<1>8. CASE NetMeasured
    BY <1>8, NetUntouched, ArchiveUntouched DEF GuestInv, NetMeasured, NetOver
<1>9. CASE PrintReport
    <2>1. line' = "printed"
        BY <1>9, EverythingUnpacked DEF GuestInv, PrintReport
    <2>2. slept = 0 /\ slept' = 0 /\ needed' \in 1 .. Slowest
        BY <1>9 DEF GuestInv, PrintReport
    <2>3. needed' \in 0 .. Slowest /\ slept' < needed' /\ slept' \in Nat
        BY <2>2 DEF SleepAssumption
    <2>4. vm' = "drain" /\ vm = "report"
        BY <1>9 DEF PrintReport
    <2>5. Spoken'
        BY <1>9, <2>1, <2>3, <2>4, ArchiveUntouched DEF GuestInv, PrintReport
    <2>6. QED
        BY <1>9, <2>1, <2>3, <2>5, NetUntouched, ArchiveUntouched DEF GuestInv, PrintReport
<1>10. CASE Reboot
    <2>1. /\ Sleep \in Nat /\ needed \in Nat /\ slept \in Nat /\ slept >= Sleep
          /\ line = "printed" => slept < needed
        BY <1>10, Times DEF Reboot
    <2>2. line = "printed" => needed > Sleep
        BY <2>1
    <2>3. QED
        BY <1>10, <2>2, NetUntouched, ArchiveUntouched DEF GuestInv, Reboot
<1>11. QED
    BY <1>1, <1>2, <1>3, <1>4, <1>5, <1>6, <1>7, <1>8, <1>9, <1>10 DEF runGuest

LEMMA BesideStep ==
    ASSUME GuestInv, Archive \/ GuestSink \/ ConsoleDrains \/ Host \/ Killed
    PROVE  GuestInv'
<1> USE DEF OwnTypeOK, Spoken, Grounded, lineVars
<1>1. CASE Archive
    BY <1>1, NetUntouched, ArchiveInvStep DEF GuestInv, Archive, initVars, reportVars
<1>2. CASE GuestSink
    <2>1. step' = step
        BY <1>2 DEF GuestSink, Sink, SinkRead, SinkEnds
    <2>2. QED
        BY <1>2, <2>1, NetInvStep, ArchiveUntouched
        DEF GuestInv, GuestSink, NetNext, initVars, reportVars
<1>3. CASE ConsoleDrains
    <2>1. /\ needed \in Nat /\ slept \in Nat /\ slept' = slept + 1 /\ needed' = needed
          /\ vm = "drain" /\ vm' = "drain" /\ (line = "printed" <=> slept < needed)
          /\ line' = IF line = "printed" /\ slept' >= needed THEN "arrived" ELSE line
        BY <1>3, Times DEF ConsoleDrains
    <2>2. line \in {"printed", "arrived"} /\ line' \in {"printed", "arrived"}
        BY <1>3, <2>1 DEF GuestInv
    <2>3. line' = "printed" <=> slept' < needed'
        <3>1. CASE slept' < needed
            <4>1. slept < needed /\ ~(slept' >= needed)
                BY <2>1, <3>1
            <4>2. line = "printed" /\ line' = line
                BY <2>1, <4>1, Zenon
            <4>3. QED
                BY <2>1, <3>1, <4>2
        <3>2. CASE ~(slept' < needed)
            <4>1. slept' >= needed
                BY <2>1, <3>2
            <4>2. line' = "arrived"
                BY <2>1, <2>2, <4>1
            <4>3. QED
                BY <2>1, <3>2, <4>2
        <3>3. QED
            BY <3>1, <3>2
    <2>4. reader' = "done"
        BY <1>3, <2>1, ArchiveUntouched DEF GuestInv, ConsoleDrains
    <2>5. Spoken'
        BY <2>1, <2>2, <2>3, <2>4
    <2>6. slept' \in Nat
        BY <2>1
    <2>7. QED
        BY <1>3, <2>2, <2>5, <2>6, NetUntouched, ArchiveUntouched DEF GuestInv, ConsoleDrains
<1>4. CASE Host
    <2>1. step' = step
        BY <1>4 DEF Host, echoServer, Accept, EchoRead, EchoWrite, EchoEnds, HostEnvironment,
                    CloseEchoListener, HostDies, guestVars
    <2>2. QED
        BY <1>4, <2>1, NetInvStep, ArchiveUntouched
        DEF GuestInv, Host, NetNext, initVars, reportVars
<1>5. CASE Killed
    BY <1>5, NetUntouched, ArchiveUntouched DEF GuestInv, Killed
<1>6. QED
    BY <1>1, <1>2, <1>3, <1>4, <1>5

LEMMA GuestInvStutter ==
    ASSUME GuestInv, UNCHANGED vars
    PROVE  GuestInv'
BY NetUntouched, ArchiveUntouched
DEF GuestInv, OwnTypeOK, Spoken, Grounded, vars, initVars, reportVars, lineVars

(***************************************************************************)
(* The guest's inductive invariant, for every binary, buffer and stream.   *)
(***************************************************************************)
THEOREM GuestInvariance == Spec => []GuestInv
<1>1. GuestInv /\ [Next]_vars => GuestInv'
    BY RunGuestStep, BesideStep, GuestInvStutter DEF Next
<1>2. QED
    BY <1>1, GuestInvInit, PTL DEF Spec

-----------------------------------------------------------------------------

(***************************************************************************)
(* Type correctness of the archive, the exchange and the guest's init.     *)
(***************************************************************************)
THEOREM GuestTypeCorrect == Spec => []TypeOK
<1>1. GuestInv => TypeOK
    BY DEF GuestInv, NetInv, ArchiveInv, OwnTypeOK, TypeOK
<1>2. QED
    BY <1>1, GuestInvariance, PTL

(***************************************************************************)
(* A report that judgeOutcomes takes for a good one comes from a guest     *)
(* that bound both drivers and made the whole exchange with the host.      *)
(***************************************************************************)
THEOREM GoodReportsAreTrue == Spec => []GoodReportIsTrue
<1>1. ASSUME GuestInv
      PROVE  GoodReportIsTrue
    <2> SUFFICES ASSUME line \in {"printed", "arrived"},
                        \A field \in DOMAIN Report : Report[field]
                 PROVE  /\ {"proc", "sys"} \subseteq mounted /\ bound = Driver
                        /\ step = "measured" /\ pinged = Pings /\ sent = Stream
        BY DEF GoodReportIsTrue
    <2>1. Report.blk /\ Report.net /\ Report.netOK
        BY DEF Report
    <2>2. drivers = Driver /\ NetError = ""
        BY <1>1, <2>1 DEF Report, GuestInv, OwnTypeOK, Driver
    <2>3. bound = Driver /\ "sys" \in mounted
        BY <1>1, <2>2 DEF GuestInv, OwnTypeOK, Grounded, Driver
    <2>4. step = "measured" /\ "proc" \in mounted
        BY <1>1, <2>2 DEF GuestInv, Grounded
    <2>5. pinged = Pings /\ sent = Stream
        BY <1>1, <2>4 DEF GuestInv, NetInv, Stages
    <2>6. QED
        BY <2>3, <2>4, <2>5
<1>2. QED
    BY <1>1, GuestInvariance, PTL

(***************************************************************************)
(* The parts.  A guest is made of an archive and an exchange that do not   *)
(* know of it: each of its steps is a step of one of them, or none.  So    *)
(* what is proved of either alone holds inside the guest.                  *)
(***************************************************************************)
LEMMA GuestStepOfNet ==
    ASSUME [Next]_vars
    PROVE  [NetNext \/ (NetOver /\ UNCHANGED netVars)]_netVars
<1>1. CASE MeasureNet \/ GuestSink \/ Host
    BY <1>1 DEF MeasureNet, GuestSink, Host, NetNext
<1>2. CASE RunInit \/ (\E j \in 1 .. Len(Mounts) : Mount(j)) \/ Probe \/ MeasureDisk
           \/ NoAddress \/ configureGuestNet \/ NetMeasured \/ PrintReport \/ Reboot
    BY <1>2 DEF RunInit, Mount, Probe, MeasureDisk, NoAddress, configureGuestNet, NetMeasured,
                PrintReport, Reboot
<1>3. CASE Archive \/ ConsoleDrains \/ Killed \/ UNCHANGED vars
    BY <1>3 DEF Archive, ConsoleDrains, Killed, vars
<1>4. QED
    BY <1>1, <1>2, <1>3 DEF Next, runGuest

LEMMA GuestStepOfArchive ==
    ASSUME [Next]_vars
    PROVE  [ArchiveNext]_archiveVars
<1>1. CASE Archive
    BY <1>1 DEF Archive
<1>2. CASE RunInit \/ (\E j \in 1 .. Len(Mounts) : Mount(j)) \/ Probe \/ MeasureDisk
           \/ NoAddress \/ configureGuestNet \/ NetMeasured \/ PrintReport \/ Reboot
    BY <1>2 DEF RunInit, Mount, Probe, MeasureDisk, NoAddress, configureGuestNet, NetMeasured,
                PrintReport, Reboot
<1>3. CASE MeasureNet \/ GuestSink \/ Host \/ ConsoleDrains \/ Killed \/ UNCHANGED vars
    BY <1>3 DEF MeasureNet, GuestSink, Host, ConsoleDrains, Killed, vars
<1>4. QED
    BY <1>1, <1>2, <1>3 DEF Next, runGuest

(***************************************************************************)
(* A guest implements the exchange of EchoNet and the archive of Initramfs.*)
(***************************************************************************)
THEOREM GuestRunsItsParts == Spec => NetSafe /\ ArchiveSpec
<1>1. Init => NetInit /\ ArchiveInit
    BY DEF Init
<1>2. QED
    BY <1>1, GuestStepOfNet, GuestStepOfArchive, PTL DEF Spec, NetSafe, ArchiveSpec

(***************************************************************************)
(* The measurement cannot stall inside a guest either.                     *)
(***************************************************************************)
THEOREM GuestNeverStuck == Spec => []NeverStuck
BY GuestRunsItsParts, ExchangeNeverStuck, PTL

(***************************************************************************)
(* Every guest unpacks what its host has packed.                           *)
(***************************************************************************)
THEOREM GuestReadsBack == Spec => []ReadsBack
BY GuestRunsItsParts, ArchiveReadsBack, PTL

(***************************************************************************)
(* What a guest measures is what it says: its round trips were timed       *)
(* alone, its throughput was carried, and it does not give up lightly.     *)
(***************************************************************************)
THEOREM GuestMeasuresTruly == Spec => [](OnePingUnderWay /\ MeasuredWasCarried /\ NotGivenUpLightly)
BY GuestRunsItsParts, RoundTripsAreTimed, ThroughputIsReal, GivesUpAfterAll, PTL

(***************************************************************************)
(* The exchange inside a guest goes forward, whatever the guest, the       *)
(* console or the host do beside it.                                       *)
(***************************************************************************)
THEOREM GuestMakesHeadway == Spec => Headway
BY GuestRunsItsParts, ExchangeMakesHeadway, PTL

-----------------------------------------------------------------------------

LEMMA ReportIsAReport ==
    Report \in GuestReports
BY DEF Report, GuestReports

\* Once the report has arrived nothing changes it; a console that is too slow
\* for the sleep lags from the printing on.
LEMMA PromiseStep ==
    ASSUME GuestInv, [Next]_vars
    PROVE  [Promise!Next]_(Promise!vars)
<1> USE DEF OwnTypeOK, Spoken
<1>1. CASE ConsoleDrains
    <2>1. Report' = Report /\ vm = "drain" /\ vm' = vm /\ needed' = needed
        BY <1>1 DEF ConsoleDrains, Report
    <2>2. CASE line' = line
        BY <2>1, <2>2 DEF Promise!vars
    <2>3. CASE line # "arrived" /\ line' = "arrived"
        <3>1. Promise!Speak
            BY <2>1, <2>3, ReportIsAReport DEF Promise!Speak
        <3>2. QED
            BY <3>1 DEF Promise!Next
    <2>4. QED
        BY <1>1, <2>2, <2>3 DEF ConsoleDrains
<1>2. CASE Reboot
    <2>1. /\ Report' = Report /\ needed' = needed /\ vm = "drain" /\ vm' = "reset"
          /\ (line = "arrived") <=> (line' = "arrived")
        BY <1>2 DEF Reboot, Report
    <2>2. line = "arrived" \/ ~(needed <= Sleep)
        <3>1. /\ Sleep \in Nat /\ needed \in Nat /\ slept \in Nat /\ slept >= Sleep
              /\ line = "printed" => slept < needed
            BY <1>2, Times DEF Reboot
        <3>2. line = "printed" \/ line = "arrived"
            BY <1>2 DEF GuestInv, Reboot
        <3>3. QED
            BY <3>1, <3>2
    <2>3. Report # NoReport
        BY ReportIsAReport, NoReportAssumption DEF NoReportAssumption
    <2>4. Promise!Leave
        BY <2>1, <2>2, <2>3, Zenon DEF Promise!Leave
    <2>5. QED
        BY <2>4 DEF Promise!Next
<1>3. CASE Killed
    <2>1. vm \notin {"reset", "dead"} /\ vm' = "dead" /\ Report' = Report /\ needed' = needed
        BY <1>3 DEF Killed, Report
    <2>2. (line = "arrived") <=> (line' = "arrived")
        BY <1>3 DEF Killed
    <2>3. Promise!Die
        BY <2>1, <2>2 DEF Promise!Die
    <2>4. QED
        BY <2>3 DEF Promise!Next
<1>4. CASE PrintReport
    <2>1. /\ vm = "report" /\ vm' = "drain" /\ line = "none" /\ line' # "arrived"
          /\ needed = 0
        BY <1>4 DEF GuestInv, PrintReport
    <2>2. needed <= Sleep
        BY <2>1 DEF SleepAssumption
    <2>3. CASE needed' <= Sleep
        <3>1. (needed <= Sleep) = TRUE /\ (needed' <= Sleep) = TRUE
            BY <2>2, <2>3
        <3>2. QED
            BY <2>1, <3>1 DEF Promise!vars
    <2>4. CASE ~(needed' <= Sleep)
        <3>1. (needed' <= Sleep) = FALSE
            BY <2>4
        <3>2. Promise!Lag
            BY <2>1, <3>1 DEF Promise!Lag
        <3>3. QED
            BY <3>2 DEF Promise!Next
    <2>5. QED
        BY <2>3, <2>4
<1>5. ASSUME line # "arrived", line' # "arrived", needed' = needed,
             vm \notin {"reset", "dead"}, vm' \notin {"reset", "dead"}
      PROVE  UNCHANGED Promise!vars
    BY <1>5 DEF Promise!vars
<1>6. ASSUME UNCHANGED <<vm, reportVars>>
      PROVE  UNCHANGED Promise!vars
    BY <1>6 DEF Promise!vars, reportVars, lineVars, Report
<1>7. CASE RunInit \/ (\E j \in 1 .. Len(Mounts) : Mount(j))
    <2>1. /\ vm' \in {"proc", "sys", "dev", "tmp", "probe"} /\ line' = line /\ needed' = needed
          /\ vm \in {"off", "proc", "sys", "dev", "tmp"}
        BY <1>7, MountOrder DEF RunInit, Mounts, Mount, reportVars, lineVars
    <2>2. QED
        BY <2>1, <1>5 DEF GuestInv
<1>8. CASE Probe \/ MeasureDisk \/ NoAddress \/ configureGuestNet \/ NetMeasured
    <2>1. /\ vm' \in {"disk", "configure", "net", "report"} /\ line' # "arrived"
          /\ vm \in {"probe", "disk", "configure", "net"} /\ line # "arrived"
          /\ needed' = needed
        BY <1>8 DEF GuestInv, Probe, MeasureDisk, NoAddress, configureGuestNet, NetMeasured, lineVars
    <2>2. QED
        BY <2>1, <1>5
<1>9. CASE MeasureNet \/ Archive \/ GuestSink \/ Host \/ UNCHANGED vars
    BY <1>9, <1>6 DEF MeasureNet, Archive, GuestSink, Host, vars, initVars
<1>10. QED
    BY <1>1, <1>2, <1>3, <1>4, <1>7, <1>8, <1>9 DEF Next, runGuest

(***************************************************************************)
(* The safety half of KeepsGuestPromise: a guest speaks at most once, does *)
(* not take back what has arrived, and has been heard before it leaves of  *)
(* its own accord on every console that needs no more than the sleep for a *)
(* line, whatever the sleep.                                               *)
(***************************************************************************)
THEOREM GuestKeepsPromise == Spec => Promise!Safe
<1>1. Init => Promise!Init
    <2>1. ASSUME Init
          PROVE  Promise!Init
        <3>1. needed = 0
            BY <2>1 DEF Init
        <3>2. needed <= Sleep
            BY <3>1 DEF SleepAssumption
        <3>3. (needed <= Sleep) = TRUE
            BY <3>2
        <3>4. QED
            BY <2>1, <3>3 DEF Init, Promise!Init
    <2>2. QED
        BY <2>1
<1>2. QED
    BY <1>1, PromiseStep, GuestInvariance, PTL DEF Spec, Promise!Safe

=============================================================================
