-------------------------------- MODULE Guest --------------------------------
(***************************************************************************)
(* A guest from the making of its archive to its reset.  The host packs    *)
(* its own binary (Initramfs), the guest's kernel unpacks that and runs    *)
(* /init, which is runGuest: it mounts, looks for devices, measures, talks *)
(* to the host's echo server (EchoNet), prints one line, sleeps a moment   *)
(* for the console to get it out, and resets.                              *)
(***************************************************************************)
EXTENDS EchoNet, Initramfs

CONSTANTS NoReport,
          Sleep,    \* what runGuest sleeps before the reset: 200 ms
          Slowest   \* the longest that the console takes for the line

\* The report as judgeOutcomes reads it.
GuestReports == [blk : BOOLEAN, net : BOOLEAN, netOK : BOOLEAN]

ASSUME NoReportAssumption == NoReport \notin GuestReports
ASSUME SleepAssumption    == Sleep \in Nat \ {0} /\ Slowest \in Nat \ {0}

VARIABLES
    vm,        \* where the guest is
    bound,     \* the virtio drivers that its kernel bound
    mounted,   \* what runGuest mounted
    drivers,   \* GuestReport.VirtioDevices, by driver
    disk,      \* the disk was measured
    NetError,  \* "" or the step that failed
    line,      \* the report: "none", "printed", "arrived" at the host, "lost"
    needed,    \* the time the console takes for it, 0 before it is printed
    slept      \* the time that has passed since

lineVars   == <<line, needed, slept>>
reportVars == <<drivers, disk, NetError, lineVars>>
initVars   == <<vm, bound, mounted, reportVars>>
vars       == <<initVars, archiveVars, netVars>>

Driver == {"virtio_blk", "virtio_net"}
Mounts == <<"proc", "sys", "dev", "tmp">>

Init ==
    /\ ArchiveInit /\ NetInit
    /\ vm = "off" /\ bound \in SUBSET Driver /\ mounted = {}
    /\ drivers = {} /\ disk = FALSE /\ NetError = "" /\ line = "none"
    /\ needed = 0 /\ slept = 0

-----------------------------------------------------------------------------
(* The kernel, and runGuest.                                               *)

\* Without /init the kernel has nothing to run.
RunInit ==
    /\ vm = "off" /\ reader = "done" /\ UnpackedName("init")
    /\ vm' = Mounts[1]
    /\ UNCHANGED <<bound, mounted, reportVars, archiveVars, netVars>>

\* A failure is noted and the next one tried.
Mount(j) ==
    /\ vm = Mounts[j]
    /\ mounted' \in {mounted} \cup IF UnpackedName(Mounts[j]) THEN {mounted \cup {Mounts[j]}} ELSE {}
    /\ vm' = IF j < Len(Mounts) THEN Mounts[j + 1] ELSE "probe"
    /\ UNCHANGED <<bound, reportVars, archiveVars, netVars>>

\* Slip: what Firecracker was told to attach.
FoundAttached == Driver

\* /sys/bus/virtio/devices and the drivers linked there.
Found == IF "sys" \in mounted THEN bound ELSE {}

\* The measurements that cannot fail change nothing here.
Probe ==
    /\ vm = "probe"
    /\ drivers' = Found
    /\ vm' = "disk"
    /\ UNCHANGED <<bound, mounted, disk, NetError, lineVars, archiveVars, netVars>>

\* The command line, which /proc shows, names the disk; an error is logged, no more.
MeasureDisk ==
    /\ vm = "disk"
    /\ disk' \in {FALSE} \cup
                 IF {"proc", "dev"} \subseteq mounted /\ "virtio_blk" \in bound THEN {TRUE} ELSE {}
    /\ vm' = "configure"
    /\ UNCHANGED <<bound, mounted, drivers, NetError, lineVars, archiveVars, netVars>>

\* The addresses are on the command line too.
NoAddress ==
    /\ vm = "configure" /\ "proc" \notin mounted
    /\ NetError' = "no address" /\ vm' = "report"
    /\ UNCHANGED <<bound, mounted, drivers, disk, lineVars, archiveVars, netVars>>

\* Socket and ioctls; without a driver there is no such interface.
configureGuestNet ==
    /\ vm = "configure" /\ "proc" \in mounted
    /\ \/ "virtio_net" \in bound /\ vm' = "net" /\ UNCHANGED NetError
       \/ NetError' = "configure" /\ vm' = "report"
    /\ UNCHANGED <<bound, mounted, drivers, disk, lineVars, archiveVars, netVars>>

MeasureNet ==
    /\ vm = "net" /\ measureNet
    /\ UNCHANGED <<initVars, archiveVars>>

NetMeasured ==
    /\ vm = "net" /\ NetOver
    /\ NetError' = IF step = "failed" THEN "measure" ELSE ""
    /\ vm' = "report"
    /\ UNCHANGED <<bound, mounted, drivers, disk, lineVars, archiveVars, netVars>>

\* Standard output is the /dev/console that the kernel opened before it ran /init.
PrintReport ==
    /\ vm = "report"
    /\ line' = IF UnpackedName("dev/console") THEN "printed" ELSE "lost"
    /\ needed' \in 1 .. Slowest /\ vm' = "drain"
    /\ UNCHANGED <<bound, mounted, drivers, disk, NetError, slept, archiveVars, netVars>>

\* Slip: reset without the sleep.
RebootAtOnce ==
    /\ vm = "drain"
    /\ vm' = "reset" /\ line' = IF line = "printed" THEN "lost" ELSE line
    /\ UNCHANGED <<bound, mounted, drivers, disk, NetError, needed, slept, archiveVars, netVars>>

\* The sleep is over, and with it what the console still has to get out.
Reboot ==
    /\ vm = "drain" /\ slept >= Sleep
    /\ vm' = "reset" /\ line' = IF line = "printed" THEN "lost" ELSE line
    /\ UNCHANGED <<bound, mounted, drivers, disk, NetError, needed, slept, archiveVars, netVars>>

runGuest ==
    \/ RunInit \/ (\E j \in 1 .. Len(Mounts) : Mount(j))
    \/ Probe \/ MeasureDisk \/ NoAddress \/ configureGuestNet
    \/ MeasureNet \/ NetMeasured \/ PrintReport \/ Reboot

-----------------------------------------------------------------------------
(* What goes on beside it.                                                 *)

Running == vm \notin {"off", "reset", "dead"}

GuestSink == Running /\ Sink /\ UNCHANGED <<initVars, archiveVars>>

\* Time passes while runGuest sleeps, or wakes late, and the console drains.
ConsoleDrains ==
    /\ vm = "drain" /\ (slept < Sleep \/ line = "printed")
    /\ slept' = slept + 1
    /\ line' = IF line = "printed" /\ slept + 1 >= needed THEN "arrived" ELSE line
    /\ UNCHANGED <<vm, bound, mounted, drivers, disk, NetError, needed, archiveVars, netVars>>

Host ==
    /\ echoServer \/ HostEnvironment
    /\ UNCHANGED <<initVars, archiveVars>>

\* The archive is written, and unpacked by a kernel that then runs /init.
Archive ==
    /\ vm = "off" /\ ArchiveNext
    /\ UNCHANGED <<initVars, netVars>>

\* The host's deadline or signal, or Firecracker's own end.
Killed ==
    /\ reader # "waiting" /\ vm \notin {"reset", "dead"}
    /\ vm' = "dead" /\ line' = IF line = "printed" THEN "lost" ELSE line
    /\ UNCHANGED <<bound, mounted, drivers, disk, NetError, needed, slept, archiveVars, netVars>>

GuestOver == vm \in {"reset", "dead"}

Next ==
    \/ Archive \/ runGuest \/ GuestSink \/ ConsoleDrains \/ Host \/ Killed
    \/ GuestOver /\ UNCHANGED vars

\* Guest and host run, and time passes; nobody has to be killed.
Fairness ==
    /\ WF_vars(Archive) /\ WF_vars(runGuest) /\ WF_vars(GuestSink) /\ WF_vars(ConsoleDrains)
    /\ WF_vars(echoServer /\ UNCHANGED <<initVars, archiveVars>>)

Spec == Init /\ [][Next]_vars /\ Fairness

-----------------------------------------------------------------------------
(* Properties.                                                             *)

\* Every variable keeps to the values the code can give it.
TypeOK ==
    /\ ArchiveTypeOK /\ NetTypeOK
    /\ vm \in {"off", "proc", "sys", "dev", "tmp", "probe", "disk", "configure", "net",
               "report", "drain", "reset", "dead"}
    /\ bound \subseteq Driver /\ mounted \subseteq {"proc", "sys", "dev", "tmp"}
    /\ drivers \subseteq Driver /\ disk \in BOOLEAN
    /\ NetError \in {"", "no address", "configure", "measure"}
    /\ line \in {"none", "printed", "arrived", "lost"}
    /\ needed \in 0 .. Slowest /\ slept \in Nat

Report == [blk   |-> "virtio_blk" \in drivers,
           net   |-> "virtio_net" \in drivers,
           netOK |-> NetError = ""]

(***************************************************************************)
(* runGuest's comment: it reports, then resets the VM.  Whatever fails on  *)
(* the way, mounts, devices, addresses or the host, the guest leaves, and  *)
(* one report has arrived before it does, unless it is killed first or the *)
(* console takes longer for a line than runGuest sleeps: that the sleep is *)
(* long enough is all it has to go by.                                     *)
(***************************************************************************)
Promise == INSTANCE GuestPromise WITH
              Reports <- GuestReports,
              life   <- IF vm = "reset" THEN "left" ELSE IF vm = "dead" THEN "dead" ELSE "on",
              heard  <- IF line = "arrived" THEN Report ELSE NoReport,
              prompt <- needed <= Sleep

KeepsGuestPromise == Promise!Spec

(***************************************************************************)
(* judgeOutcomes looks at the drivers and at NetError, never at OK or at   *)
(* Errors.  Yet a report that is good in its eyes comes from a guest that  *)
(* had /proc and /sys, whose kernel bound both drivers, and whose exchange *)
(* with the host was made in full.                                         *)
(***************************************************************************)
GoodReportIsTrue ==
    line \in {"printed", "arrived"} /\ (\A field \in DOMAIN Report : Report[field]) =>
        /\ {"proc", "sys"} \subseteq mounted /\ bound = Driver
        /\ step = "measured" /\ pinged = Pings /\ sent = Stream

=============================================================================
