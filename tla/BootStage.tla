------------------------------ MODULE BootStage ------------------------------
(***************************************************************************)
(* The boot stage of fc-preflight from the working directory on: the       *)
(* scatter of one goroutine per microVM, the life of each microVM          *)
(* (bootOne), the gather over the `done` channel and the judgement.        *)
(*                                                                         *)
(* Actors: the goroutine of runBootStage, one goroutine per VM, and an     *)
(* environment made of the signal handler, the deadline timers, os/exec's  *)
(* context watcher, Firecracker and the guest inside it.                   *)
(*                                                                         *)
(* What a configuration may throw at the program is the set Faults: a kind *)
(* of system call that may fail at any time.  The signal needs no fault.   *)
(***************************************************************************)
EXTENDS Integers, Sequences, FiniteSets

CONSTANTS N,         \* -vms
          Reports,   \* the guest reports that can be told apart
          NoReport,  \* a nil *GuestReport, and "nothing on the console"
          Garbled,   \* a report line the kernel log has written into
          NoOutcome, \* an element of `outcomes` nobody has assigned
          Faults     \* the kinds of call that may fail

FaultKinds == {"workdir", "initramfs", "ip", "listen", "scratch", "config", "start"}

\* blk, net: the virtio drivers the guest bound; netOK: NetError is empty.
ReportShape == [blk : BOOLEAN, net : BOOLEAN, netOK : BOOLEAN]

ASSUME NAssumption == N \in Nat
ASSUME ReportsAssumption == Reports \subseteq ReportShape
ASSUME FaultsAssumption == Faults \subseteq FaultKinds

VM == 0 .. N-1

VARIABLES
    stage,      \* where runBootStage is
    workDir,    \* the temporary directory exists
    cancelled,  \* ctx is done: SIGINT or SIGTERM arrived
    pc,         \* where each bootOne is
    tap,        \* the host's tap device fcpf<i>
    listener,   \* the echo server's socket is open
    scratch,    \* the scratch drive's file
    fc,         \* the Firecracker process
    said,       \* the report line the guest printed
    pipe,       \* the report line still unread in the stdout pipe
    vmErr,      \* vmCtx.Err()
    err,        \* out.Err
    guest,      \* out.Guest
    code,       \* out.ExitCode
    done,       \* the buffered channel
    received,   \* how many times the gather loop went round
    outcomes,   \* the slice handed to judgeOutcomes
    setup, launch, virtio, network, \* the checks added to the report
    panicked

devVars   == <<tap, listener, scratch>>
guestVars == <<fc, said, pipe>>
outVars   == <<err, guest, code>>
vmVars    == <<pc, vmErr, devVars, guestVars, outVars>>
gather    == <<done, received, outcomes>>
checks    == <<setup, launch, virtio, network, panicked>>
mainVars  == <<stage, workDir, checks>>
vars      == <<mainVars, cancelled, vmVars, gather>>

TapState == {"absent", "bare", "addressed", "up"}
Reason   == {"none", "tap", "echo", "scratch", "config", "start",
             "parse", "silent", "timeout"}
Dead     == {"exit0", "exit1", "killed"}
PC       == {"idle", "del", "add", "addr", "up", "listen", "scratch", "config",
             "arm", "start", "scan", "wait", "unwind", "deltap", "return", "gone"}

\* The vmOutcome that bootOne returns.
Outcome(i) == [index |-> i, err |-> err[i], guest |-> guest[i], code |-> code[i]]
OutcomeShape == [index : VM, err : Reason, guest : Reports \cup {NoReport}, code : {0, 1, -1}]

ASSUME NilAssumption ==
    /\ NoReport \notin Reports /\ Garbled \notin Reports /\ NoReport # Garbled
    /\ NoOutcome \notin OutcomeShape

(***************************************************************************)
(* A run killed outright leaves its persistent taps behind, in any state,  *)
(* and this run finds them: tap is arbitrary at first.                     *)
(***************************************************************************)
Init ==
    /\ stage = "workdir" /\ workDir = FALSE /\ cancelled = FALSE
    /\ pc = [i \in VM |-> "idle"]
    /\ tap \in [VM -> TapState]
    /\ listener = [i \in VM |-> FALSE]
    /\ scratch = [i \in VM |-> "none"]
    /\ fc = [i \in VM |-> "none"]
    /\ said = [i \in VM |-> NoReport] /\ pipe = [i \in VM |-> NoReport]
    /\ vmErr = [i \in VM |-> "none"]
    /\ err = [i \in VM |-> "none"]
    /\ guest = [i \in VM |-> NoReport]
    /\ code = [i \in VM |-> 0]
    /\ done = <<>> /\ received = 0
    /\ outcomes = [i \in VM |-> NoOutcome]
    /\ setup = "none" /\ launch = "none" /\ virtio = "none" /\ network = "none"
    /\ panicked = FALSE

-----------------------------------------------------------------------------
(* One microVM: bootOne.                                                   *)

Goto(i, next) == pc' = [pc EXCEPT ![i] = next]

\* The early returns: out.Err is set and the deferred calls from `next` on run.
Fail(i, why, next) == err' = [err EXCEPT ![i] = why] /\ Goto(i, next)

\* Goroutine i alone moves: what nobody but the VM's own setup touches.
OnlySetup == UNCHANGED <<mainVars, cancelled, gather, guestVars, vmErr, guest, code>>

(***************************************************************************)
(* setupTap, command by command.  exec.CommandContext refuses to start or  *)
(* kills the command once ctx is done, and a command killed in flight may  *)
(* already have changed the device.  Any error leaves setupTap, and        *)
(* bootOne before its deferred teardownTap is registered.                  *)
(***************************************************************************)
\* Slip: a stale tap left for `tuntap add` to trip over.
DelStaleTapSkipped(i) ==
    /\ pc[i] = "del"
    /\ Goto(i, "add")
    /\ OnlySetup /\ UNCHANGED <<devVars, err>>

DelStaleTap(i) ==
    /\ pc[i] = "del"
    /\ \/ ~cancelled /\ tap' = [tap EXCEPT ![i] = "absent"]
       \/ (cancelled \/ "ip" \in Faults) /\ UNCHANGED tap
    /\ Goto(i, "add")
    /\ OnlySetup /\ UNCHANGED <<listener, scratch, err>>

\* Slip: a goroutine that ends without a word.
SetupExitUnsent == "gone"

SetupExit == "return"

IpCommand(i, at, pre, post, next) ==
    /\ pc[i] = at
    /\ \/ /\ ~cancelled /\ tap[i] = pre
          /\ tap' = [tap EXCEPT ![i] = post]
          /\ Goto(i, next) /\ UNCHANGED err
       \/ /\ cancelled
          /\ tap' \in {tap, [tap EXCEPT ![i] = IF @ = pre THEN post ELSE @]}
          /\ Fail(i, "tap", SetupExit)
       \/ /\ "ip" \in Faults \/ tap[i] # pre
          /\ Fail(i, "tap", SetupExit) /\ UNCHANGED tap
    /\ OnlySetup /\ UNCHANGED <<listener, scratch>>

AddTap(i)     == IpCommand(i, "add", "absent", "bare", "addr")
AddressTap(i) == IpCommand(i, "addr", "bare", "addressed", "up")
RaiseTap(i)   == IpCommand(i, "up", "addressed", "up", "listen")

\* echoServer; net.Listen does not look at ctx.
Listen(i) ==
    /\ pc[i] = "listen"
    /\ \/ listener' = [listener EXCEPT ![i] = TRUE] /\ Goto(i, "scratch") /\ UNCHANGED err
       \/ "listen" \in Faults /\ Fail(i, "echo", "unwind") /\ UNCHANGED listener
    /\ OnlySetup /\ UNCHANGED <<tap, scratch>>

\* Create, then Truncate: the second failing leaves the file, with no deferred Remove.
CreateScratch(i) ==
    /\ pc[i] = "scratch"
    /\ \/ scratch' = [scratch EXCEPT ![i] = "sized"] /\ Goto(i, "config") /\ UNCHANGED err
       \/ /\ "scratch" \in Faults
          /\ scratch' \in {scratch, [scratch EXCEPT ![i] = "created"]}
          /\ Fail(i, "scratch", "unwind")
    /\ OnlySetup /\ UNCHANGED <<tap, listener>>

WriteConfig(i) ==
    /\ pc[i] = "config"
    /\ \/ Goto(i, "arm") /\ UNCHANGED err
       \/ "config" \in Faults /\ Fail(i, "config", "unwind")
    /\ OnlySetup /\ UNCHANGED devVars

\* context.WithTimeout: a child of a context that is done is done at once.
Arm(i) ==
    /\ pc[i] = "arm"
    /\ vmErr' = [vmErr EXCEPT ![i] = IF cancelled THEN "canceled" ELSE "none"]
    /\ Goto(i, "start")
    /\ UNCHANGED <<mainVars, cancelled, gather, devVars, guestVars, outVars>>

\* cmd.Start refuses a context that is done.
Start(i) ==
    /\ pc[i] = "start"
    /\ \/ /\ vmErr[i] = "none"
          /\ fc' = [fc EXCEPT ![i] = "running"]
          /\ Goto(i, "scan") /\ UNCHANGED err
       \/ /\ vmErr[i] # "none" \/ "start" \in Faults
          /\ Fail(i, "start", "unwind") /\ UNCHANGED fc
    /\ UNCHANGED <<mainVars, cancelled, gather, devVars, said, pipe, vmErr, guest, code>>

\* One iteration of the Scan loop that meets the report line.
Scan(i) ==
    /\ pc[i] = "scan" /\ pipe[i] # NoReport
    /\ IF pipe[i] = Garbled
       THEN err' = [err EXCEPT ![i] = "parse"] /\ UNCHANGED guest
       ELSE guest' = [guest EXCEPT ![i] = pipe[i]] /\ UNCHANGED err
    /\ pipe' = [pipe EXCEPT ![i] = NoReport]
    /\ UNCHANGED <<mainVars, cancelled, gather, devVars, pc, fc, said, vmErr, code>>

\* Slip: Wait closes the pipe under a reader that is not finished.
DrainedOnExit(i) == fc[i] \in Dead

\* Scan returns false: every write end is closed and everything written was read.
Drained(i) == pipe[i] = NoReport /\ fc[i] \in Dead

\* Slip: giving up on a done vmCtx instead of waiting for the process.
EndOfOutputGivesUp(i) ==
    /\ pc[i] = "scan" /\ (Drained(i) \/ vmErr[i] # "none")
    /\ Goto(i, "unwind")
    /\ UNCHANGED <<mainVars, cancelled, gather, devVars, guestVars, vmErr, outVars>>

\* Slip: a guest that said nothing booted once more, under the same deadline.
EndOfOutputRetries(i) ==
    /\ pc[i] = "scan" /\ Drained(i)
    /\ Goto(i, IF said[i] = NoReport /\ vmErr[i] = "none" THEN "start" ELSE "wait")
    /\ UNCHANGED <<mainVars, cancelled, gather, devVars, guestVars, vmErr, outVars>>

EndOfOutput(i) ==
    /\ pc[i] = "scan" /\ Drained(i)
    /\ Goto(i, "wait")
    /\ UNCHANGED <<mainVars, cancelled, gather, devVars, guestVars, vmErr, outVars>>

\* Slip: the shell's convention for a process killed by a signal.
ExitCodeOfShell(process) == CASE process = "exit0" -> 0 [] process = "exit1" -> 1 [] OTHER -> 137

ExitCode(process) == CASE process = "exit0" -> 0 [] process = "exit1" -> 1 [] OTHER -> -1

\* Slip: any done context called a timeout.
FinalErrAnyDone(i) ==
    IF guest[i] = NoReport /\ err[i] = "none"
    THEN IF vmErr[i] # "none" THEN "timeout" ELSE "silent"
    ELSE err[i]

\* Slip: the deadline consulted before the report.
FinalErrDeadlineFirst(i) ==
    IF vmErr[i] = "deadline" THEN "timeout"
    ELSE IF guest[i] = NoReport /\ err[i] = "none" THEN "silent" ELSE err[i]

\* Lines 488-494: a VM that said nothing gets a reason, any other keeps what it has.
FinalErr(i) ==
    IF guest[i] = NoReport /\ err[i] = "none"
    THEN IF vmErr[i] = "deadline" THEN "timeout" ELSE "silent"
    ELSE err[i]

Wait(i) ==
    /\ pc[i] = "wait" /\ fc[i] \in Dead
    /\ code' = [code EXCEPT ![i] = ExitCode(fc[i])]
    /\ err' = [err EXCEPT ![i] = FinalErr(i)]
    /\ Goto(i, "unwind")
    /\ UNCHANGED <<mainVars, cancelled, gather, devVars, guestVars, vmErr, guest>>

(***************************************************************************)
(* The deferred calls, last first: cancel (the timer is disarmed), Remove  *)
(* (registered only once the file has its size), cancelEcho (which closes  *)
(* nothing itself: see CloseListener), then teardownTap, which runs under  *)
(* a context of its own.                                                   *)
(***************************************************************************)
Unwind(i) ==
    /\ pc[i] = "unwind"
    /\ scratch' = [scratch EXCEPT ![i] = IF @ = "sized" THEN "none" ELSE @]
    /\ Goto(i, "deltap")
    /\ OnlySetup /\ UNCHANGED <<tap, listener, err>>

\* Slip: teardown under the run's own context.
TeardownFailsOnCancel == cancelled \/ "ip" \in Faults

TeardownFails == "ip" \in Faults

TeardownTap(i) ==
    /\ pc[i] = "deltap"
    /\ \/ tap' = [tap EXCEPT ![i] = "absent"]
       \/ TeardownFails /\ UNCHANGED tap
    /\ Goto(i, "return")
    /\ OnlySetup /\ UNCHANGED <<listener, scratch, err>>

\* One VM is called directly; several send to a channel with room for all.
Return(i) ==
    /\ pc[i] = "return"
    /\ IF N = 1
       THEN /\ outcomes' = [outcomes EXCEPT ![i] = Outcome(i)]
            /\ received' = 1 /\ UNCHANGED done
       ELSE done' = Append(done, Outcome(i)) /\ UNCHANGED <<outcomes, received>>
    /\ Goto(i, "gone")
    /\ UNCHANGED <<mainVars, cancelled, devVars, guestVars, vmErr, outVars>>

BootOne(i) ==
    \/ DelStaleTap(i) \/ AddTap(i) \/ AddressTap(i) \/ RaiseTap(i)
    \/ Listen(i) \/ CreateScratch(i) \/ WriteConfig(i)
    \/ Arm(i) \/ Start(i) \/ Scan(i) \/ EndOfOutput(i) \/ Wait(i)
    \/ Unwind(i) \/ TeardownTap(i) \/ Return(i)

-----------------------------------------------------------------------------
(* Around the microVM.                                                     *)

\* vmCtx exists and its cancel has not run.
Armed(i) == pc[i] \in {"start", "scan", "wait"}

Expire(i) ==
    /\ Armed(i) /\ vmErr[i] = "none"
    /\ vmErr' = [vmErr EXCEPT ![i] = "deadline"]
    /\ UNCHANGED <<mainVars, cancelled, gather, pc, devVars, guestVars, outVars>>

\* Slip: a process started with exec.Command and killed only by the deadline.
KillOnDeadlineOnly(i) ==
    /\ fc[i] = "running" /\ vmErr[i] = "deadline"
    /\ fc' = [fc EXCEPT ![i] = "killed"]
    /\ UNCHANGED <<mainVars, cancelled, gather, pc, devVars, said, pipe, vmErr, outVars>>

\* os/exec's watcher: Process.Kill as soon as vmCtx is done.
Kill(i) ==
    /\ fc[i] = "running" /\ vmErr[i] # "none"
    /\ fc' = [fc EXCEPT ![i] = "killed"]
    /\ UNCHANGED <<mainVars, cancelled, gather, pc, devVars, said, pipe, vmErr, outVars>>

\* The guest prints its one report line, or half of it and a kernel message.
GuestPrint(i) ==
    /\ fc[i] = "running" /\ said[i] = NoReport
    /\ \E line \in Reports \cup {Garbled} :
          said' = [said EXCEPT ![i] = line] /\ pipe' = [pipe EXCEPT ![i] = line]
    /\ UNCHANGED <<mainVars, cancelled, gather, pc, devVars, fc, vmErr, outVars>>

\* The guest reboots or panics (0), Firecracker gives up (1), or somebody else
\* kills it: a Ctrl-C at the terminal reaches the whole process group.
FcExit(i) ==
    /\ fc[i] = "running"
    /\ \E how \in Dead : fc' = [fc EXCEPT ![i] = how]
    /\ UNCHANGED <<mainVars, cancelled, gather, pc, devVars, said, pipe, vmErr, outVars>>

\* echoServer's first goroutine, released by cancelEcho or by ctx.
CloseListener(i) ==
    /\ listener[i] /\ (cancelled \/ pc[i] \in {"deltap", "return", "gone"})
    /\ listener' = [listener EXCEPT ![i] = FALSE]
    /\ UNCHANGED <<mainVars, cancelled, gather, pc, tap, scratch, guestVars, vmErr, outVars>>

\* SIGINT or SIGTERM: ctx and every context derived from it are done together.
Cancel ==
    /\ ~cancelled /\ stage # "done"
    /\ cancelled' = TRUE
    /\ vmErr' = [i \in VM |-> IF Armed(i) /\ vmErr[i] = "none" THEN "canceled" ELSE vmErr[i]]
    /\ UNCHANGED <<mainVars, gather, pc, devVars, guestVars, outVars>>

-----------------------------------------------------------------------------
(* runBootStage, from MkdirTemp on.                                        *)

MakeWorkDir ==
    /\ stage = "workdir"
    /\ \/ workDir' = TRUE /\ stage' = "initramfs" /\ UNCHANGED setup
       \/ /\ "workdir" \in Faults
          /\ setup' = "fail" /\ stage' = "done" /\ UNCHANGED workDir
    /\ UNCHANGED <<cancelled, vmVars, gather, launch, virtio, network, panicked>>

\* Slip: the early return forgotten.
WriteInitramfsGoesOn ==
    /\ stage = "initramfs"
    /\ \/ setup' = "pass" /\ stage' = "fanout"
       \/ "initramfs" \in Faults /\ setup' = "fail" /\ stage' = "fanout"
    /\ UNCHANGED <<workDir, cancelled, vmVars, gather, launch, virtio, network, panicked>>

WriteInitramfs ==
    /\ stage = "initramfs"
    /\ \/ setup' = "pass" /\ stage' = "fanout"
       \/ "initramfs" \in Faults /\ setup' = "fail" /\ stage' = "remove"
    /\ UNCHANGED <<workDir, cancelled, vmVars, gather, launch, virtio, network, panicked>>

\* A goroutine that has been started and has not run yet is at "del".
FanOut ==
    /\ stage = "fanout"
    /\ stage' = "collect"
    /\ pc' = [i \in VM |-> "del"]
    /\ UNCHANGED <<workDir, checks, cancelled, vmErr, devVars, guestVars, outVars, gather>>

\* Slip: outcomes stored in the order they arrive.
SlotByArrival(o) == received

\* Where the gather loop stores what it received.
Slot(o) == o.index

Collect ==
    /\ stage = "collect" /\ received < N /\ done # <<>>
    /\ outcomes' = [outcomes EXCEPT ![Slot(Head(done))] = Head(done)]
    /\ done' = Tail(done)
    /\ received' = received + 1
    /\ UNCHANGED <<mainVars, cancelled, vmVars>>

GatherEnds ==
    /\ stage = "collect" /\ received = N
    /\ stage' = "judge"
    /\ UNCHANGED <<workDir, checks, cancelled, vmVars, gather>>

Failed(o) == o.err # "none" \/ o.guest = NoReport

Verdict(good) == IF good THEN "pass" ELSE "fail"

\* Slip: vm0 asked in the name of all.
NetworkOKOfFirst == outcomes[0].guest.netOK

NetworkOK == \A i \in VM : outcomes[i].guest.netOK

\* outcomes[0] is indexed before anything is asked of the other outcomes.
Judge ==
    /\ stage = "judge"
    /\ IF \E i \in VM : Failed(outcomes[i])
       THEN launch' = "fail" /\ UNCHANGED <<virtio, network, panicked>>
       ELSE /\ launch' = "pass"
            /\ IF N = 0
               THEN panicked' = TRUE /\ UNCHANGED <<virtio, network>>
               ELSE /\ virtio' = Verdict(outcomes[0].guest.blk /\ outcomes[0].guest.net)
                    /\ network' = Verdict(NetworkOK)
                    /\ UNCHANGED panicked
    /\ stage' = "remove"
    /\ UNCHANGED <<workDir, setup, cancelled, vmVars, gather>>

\* The deferred RemoveAll, on a return and on a panic alike.
RemoveWorkDir ==
    /\ stage = "remove"
    /\ workDir' = FALSE
    /\ scratch' = [i \in VM |-> "none"]
    /\ stage' = "done"
    /\ UNCHANGED <<checks, cancelled, pc, vmErr, tap, listener, guestVars, outVars, gather>>

Main == MakeWorkDir \/ WriteInitramfs \/ FanOut \/ Collect \/ GatherEnds \/ Judge \/ RemoveWorkDir

\* The stage has returned: nothing but a socket still to be closed moves.
Terminated == stage = "done" /\ UNCHANGED vars

Next ==
    \/ Main
    \/ Cancel
    \/ \E i \in VM :
          \/ BootOne(i)
          \/ Expire(i) \/ Kill(i) \/ CloseListener(i)
          \/ GuestPrint(i) \/ FcExit(i)
    \/ Terminated

(***************************************************************************)
(* The Go scheduler runs every runnable goroutine, timers fire, a killed   *)
(* process dies.  The guest owes nothing, nor does the user.               *)
(***************************************************************************)
Fairness ==
    /\ WF_vars(Main)
    /\ \A i \in VM :
          /\ WF_vars(BootOne(i))
          /\ WF_vars(Expire(i))
          /\ WF_vars(Kill(i))
          /\ WF_vars(CloseListener(i))

Safe == Init /\ [][Next]_vars
Spec == Safe /\ Fairness

-----------------------------------------------------------------------------
(* Properties.                                                             *)

Lines == Reports \cup {NoReport, Garbled}

\* Every variable keeps to the values the code can give it.
TypeOK ==
    /\ stage \in {"workdir", "initramfs", "fanout", "collect", "judge", "remove", "done"}
    /\ workDir \in BOOLEAN /\ cancelled \in BOOLEAN /\ panicked \in BOOLEAN
    /\ pc \in [VM -> PC]
    /\ tap \in [VM -> TapState]
    /\ listener \in [VM -> BOOLEAN]
    /\ scratch \in [VM -> {"none", "created", "sized"}]
    /\ fc \in [VM -> {"none", "running"} \cup Dead]
    /\ said \in [VM -> Lines] /\ pipe \in [VM -> Lines]
    /\ vmErr \in [VM -> {"none", "deadline", "canceled"}]
    /\ err \in [VM -> Reason]
    /\ guest \in [VM -> Reports \cup {NoReport}]
    /\ code \in [VM -> {0, 1, -1}]
    /\ done \in Seq(OutcomeShape)
    /\ received \in 0 .. N
    /\ outcomes \in [VM -> OutcomeShape \cup {NoOutcome}]
    /\ setup \in {"none", "pass", "fail"} /\ launch \in {"none", "pass", "fail"}
    /\ virtio \in {"none", "pass", "fail"} /\ network \in {"none", "pass", "fail"}

(***************************************************************************)
(* While a Firecracker process lives nothing it was given is taken from    *)
(* it: its tap is up, its drive and the directory with its kernel, initrd  *)
(* and config are there, and the echo server the guest will dial listens   *)
(* unless the whole run was interrupted.  In particular none outlives the  *)
(* stage.  It rests on the order of the deferred calls, on Wait coming     *)
(* before any of them and on the gather loop outwaiting every goroutine.   *)
(***************************************************************************)
RunningVMHasItsDevices ==
    \A i \in VM : fc[i] = "running" =>
        /\ tap[i] = "up"
        /\ workDir /\ scratch[i] = "sized"
        /\ listener[i] \/ cancelled

(***************************************************************************)
(* Short of `ip link del` failing, a tap is left on the host only by a     *)
(* setupTap that did not finish: teardown survives the signal that killed  *)
(* the VM, and a failure of any later step.                                *)
(***************************************************************************)
TapLeftOnlyByFailedSetup ==
    \A i \in VM : pc[i] = "gone" /\ tap[i] # "absent" => err[i] = "tap" \/ "ip" \in Faults

(***************************************************************************)
(* Whatever the order in which the goroutines finish, each outcome lies at *)
(* its own VM's index, is that VM's last word, and none is missing when    *)
(* judgeOutcomes reads them.                                               *)
(***************************************************************************)
OutcomesFaithful ==
    /\ \A i \in VM : outcomes[i] # NoOutcome => pc[i] = "gone" /\ outcomes[i] = Outcome(i)
    /\ stage = "judge" => \A i \in VM : outcomes[i] # NoOutcome

(***************************************************************************)
(* The reason bootOne gives is a true one: each is backed by a fault, the  *)
(* signal, the deadline or what the guest did; and a VM that returns       *)
(* without a guest report never returns without a reason.                  *)
(***************************************************************************)
ReasonIsTrue(i) ==
    CASE err[i] = "tap"     -> cancelled \/ "ip" \in Faults
      [] err[i] = "echo"    -> "listen" \in Faults
      [] err[i] = "scratch" -> "scratch" \in Faults
      [] err[i] = "config"  -> "config" \in Faults
      [] err[i] = "start"   -> vmErr[i] # "none" \/ "start" \in Faults
      [] err[i] = "parse"   -> said[i] = Garbled
      [] err[i] = "timeout" -> vmErr[i] = "deadline" /\ said[i] = NoReport
      [] err[i] = "silent"  -> vmErr[i] # "deadline" /\ said[i] = NoReport
      [] OTHER              -> pc[i] \in {"return", "gone"} => guest[i] # NoReport

FailureHasCause == \A i \in VM : ReasonIsTrue(i)

(***************************************************************************)
(* A report the guest got out is never lost, however Firecracker ended and *)
(* whatever expired meanwhile: the pipe is drained before Wait.            *)
(***************************************************************************)
ReportNotLost ==
    \A i \in VM : pc[i] \in {"unwind", "deltap", "return", "gone"} /\ said[i] \in Reports
                    => guest[i] = said[i] /\ err[i] = "none"

(***************************************************************************)
(* A late deadline, signal or exit status never takes back a report that   *)
(* was read.                                                               *)
(***************************************************************************)
ReportSticks ==
    [][\A i \in VM : guest[i] # NoReport => guest'[i] = guest[i] /\ err'[i] = err[i]]_vars

(***************************************************************************)
(* End to end, from what the guests printed to what the report says: the   *)
(* launch check passes exactly when every guest got a report out, and then *)
(* networking passes exactly when every guest reached the host.            *)
(***************************************************************************)
ChecksMatchGuests ==
    /\ launch = "pass" => \A i \in VM : said[i] \in Reports
    /\ launch = "fail" => \E i \in VM : said[i] \notin Reports
    /\ network = "pass" => \A i \in VM : said[i].netOK
    /\ network = "fail" => launch = "pass" /\ \E i \in VM : ~said[i].netOK

(***************************************************************************)
(* The stage ends, whatever hangs in the guests and whenever the signal    *)
(* comes.                                                                  *)
(***************************************************************************)
StageEnds == <>(stage = "done")

(***************************************************************************)
(* Nobody waits in vain.  A bootOne that has not returned can go on, or    *)
(* its timer or the watcher that kills Firecracker can free it, without    *)
(* the help of any other VM; its outcome finds room in the channel; and    *)
(* while the gather loop finds the channel empty some bootOne still owes   *)
(* it an outcome.                                                          *)
(***************************************************************************)
BootOneCanMove(i) ==
    \/ pc[i] \notin {"scan", "wait", "return"}
    \/ pc[i] = "scan" /\ (pipe[i] # NoReport \/ fc[i] \in Dead)
    \/ pc[i] = "wait" /\ fc[i] \in Dead
    \/ pc[i] = "return" /\ Len(done) < N

FreedByTheClock(i) == (Armed(i) /\ vmErr[i] = "none") \/ (fc[i] = "running" /\ vmErr[i] # "none")

StageNeverStuck ==
    /\ \A i \in VM : pc[i] \in {"idle", "gone"} \/ BootOneCanMove(i) \/ FreedByTheClock(i)
    /\ stage = "collect" => received = N \/ done # <<>> \/ \E i \in VM : pc[i] # "gone"

(***************************************************************************)
(* The stage goes forward only.  Each step moves runBootStage, the count   *)
(* of outcomes, the signal, or of some VM the goroutine, the process, the  *)
(* deadline, the report or the echo server on, and none moves anything of  *)
(* any of them back; so there are no more steps than there are places.     *)
(* Together with StageNeverStuck: the stage ends, for any number of VMs.   *)
(***************************************************************************)
StageOrder == [workdir |-> 0, initramfs |-> 1, fanout |-> 2, collect |-> 3, judge |-> 4,
               remove |-> 5, done |-> 6]

PCOrder == [idle |-> 0, del |-> 1, add |-> 2, addr |-> 3, up |-> 4, listen |-> 5, scratch |-> 6,
            config |-> 7, arm |-> 8, start |-> 9, scan |-> 10, wait |-> 11, unwind |-> 12,
            deltap |-> 13, return |-> 14, gone |-> 15]

NotBack(i) ==
    /\ PCOrder[pc[i]] <= PCOrder[pc'[i]]
    /\ fc[i] # "none" => fc'[i] # "none"
    /\ fc[i] \in Dead => fc'[i] = fc[i]
    /\ vmErr[i] # "none" => vmErr'[i] = vmErr[i]
    /\ said[i] # NoReport => said'[i] = said[i]
    /\ said[i] # NoReport /\ pipe[i] = NoReport => pipe'[i] = NoReport
    /\ listener'[i] => listener[i] \/ (pc[i] = "listen" /\ pc'[i] # "listen")

Places == <<stage, received, cancelled, pc, fc, vmErr, said, pipe, listener>>

Onward ==
    [][/\ StageOrder[stage] <= StageOrder[stage'] /\ received <= received'
       /\ cancelled => cancelled'
       /\ \A i \in VM : NotBack(i)
       /\ Places' # Places]_vars

(***************************************************************************)
(* The stage keeps BootPromise: a VM has settled when its goroutine has    *)
(* returned, and the verdict is the launch check, or the setup check that  *)
(* stopped the stage before it.                                            *)
(***************************************************************************)
Settled(i) ==
    IF pc[i] # "gone" THEN "pending"
    ELSE IF err[i] = "none" /\ guest[i] # NoReport THEN "ok" ELSE "failed"

Promise == INSTANCE BootPromise WITH
               vm <- [i \in VM |-> Settled(i)],
               verdict <- IF setup = "fail" THEN "aborted" ELSE launch

PromiseKept == Promise!Spec

-----------------------------------------------------------------------------
(* Why it holds: the inductive invariant behind the properties above.      *)

HasTap     == {"listen", "scratch", "config", "arm", "start", "scan", "wait", "unwind", "deltap"}
HasEcho    == HasTap \ {"listen", "unwind", "deltap"}
HasScratch == HasEcho \ {"scratch"}

\* Where runBootStage is says where every bootOne can be.
StageInv ==
    /\ stage \in {"workdir", "initramfs", "fanout"} => \A i \in VM : pc[i] = "idle"
    /\ stage = "collect" => \A i \in VM : pc[i] # "idle"
    /\ stage = "judge" => \A i \in VM : pc[i] = "gone" /\ outcomes[i] # NoOutcome
    /\ stage \in {"remove", "done"} =>
          \/ setup = "fail" /\ \A i \in VM : pc[i] = "idle"
          \/ setup = "pass" /\ launch # "none" /\ \A i \in VM : pc[i] = "gone"
    /\ stage \in {"workdir", "initramfs"} => setup = "none"
    /\ stage \in {"fanout", "collect", "judge"} => setup = "pass"
    /\ stage \notin {"remove", "done"} => launch = "none"
    /\ setup = "fail" => launch = "none"
    /\ workDir <=> stage \notin {"workdir", "done"}

\* Where a bootOne is says what its VM owns.
Owned(i) ==
    /\ pc[i] = "add" => tap[i] = "absent" \/ cancelled \/ "ip" \in Faults
    /\ pc[i] = "addr" => tap[i] = "bare"
    /\ pc[i] = "up" => tap[i] = "addressed"
    /\ pc[i] \in HasTap => tap[i] = "up"
    /\ pc[i] \in HasEcho => listener[i] \/ cancelled
    /\ pc[i] \in HasScratch => scratch[i] = "sized"
    /\ fc[i] = "running" => pc[i] = "scan"
    /\ pc[i] \in {"return", "gone"} /\ tap[i] # "absent" => err[i] = "tap" \/ "ip" \in Faults

DeviceInv == \A i \in VM : Owned(i)

\* What is in the channel and what has been taken out of it, each VM once.
Gathered == {i \in VM : outcomes[i] # NoOutcome}

InFlight(o) == o.index \notin Gathered /\ pc[o.index] = "gone" /\ o = Outcome(o.index)

GatherInv ==
    /\ \A k \in 1 .. Len(done) : InFlight(done[k])
    /\ \A k, l \in 1 .. Len(done) : done[k].index = done[l].index => k = l
    /\ \A i \in Gathered : pc[i] = "gone" /\ outcomes[i] = Outcome(i)
    /\ \A i \in VM : pc[i] = "gone" => i \in Gathered \/ \E k \in 1 .. Len(done) : done[k].index = i
    /\ received = Cardinality(Gathered)

\* What the guest said, what is still in the pipe and what bootOne has made of it.
BeforeScan == {"idle", "del", "add", "addr", "up", "listen", "scratch", "config", "arm", "start"}
AfterScan  == {"unwind", "deltap", "return", "gone"}

Heard(i) ==
    \/ said[i] = NoReport /\ guest[i] = NoReport /\ err[i] = "none"
    \/ said[i] = Garbled /\ guest[i] = NoReport /\ err[i] = "parse"
    \/ said[i] \in Reports /\ guest[i] = said[i] /\ err[i] = "none"

Told(i) ==
    /\ pc[i] \in BeforeScan => fc[i] = "none" /\ err[i] = "none"
    /\ fc[i] = "none" => said[i] = NoReport
    /\ pc[i] \in BeforeScan \ {"start"} => vmErr[i] = "none"
    /\ pc[i] = "scan" => fc[i] # "none"
    /\ said[i] = NoReport => pipe[i] = NoReport /\ guest[i] = NoReport
    /\ pipe[i] # NoReport => pc[i] = "scan" /\ pipe[i] = said[i] /\ guest[i] = NoReport /\ err[i] = "none"
    /\ pc[i] \in {"scan", "wait"} /\ pipe[i] = NoReport => Heard(i)
    /\ pc[i] = "wait" => fc[i] \in Dead
    /\ pc[i] \in AfterScan =>
          /\ fc[i] # "running" /\ ReasonIsTrue(i)
          /\ said[i] \in Reports <=> err[i] = "none"
          /\ guest[i] = IF said[i] \in Reports THEN said[i] ELSE NoReport

ReportInv == \A i \in VM : Told(i)

\* What the checks rest on once made.
ChecksInv == ChecksMatchGuests /\ (launch = "none" => network = "none")

-----------------------------------------------------------------------------
(* What the documentation or a message says and the code does not do.      *)

(***************************************************************************)
(* README: the boot stage removes the tap device it creates.  Once `tuntap *)
(* add` has succeeded, bootOne does not return with the tap still there.   *)
(***************************************************************************)
BootOneRemovesItsTap ==
    [][\A i \in VM : pc[i] \in {"addr", "up", "deltap"} /\ pc'[i] = "return"
                      => tap'[i] = "absent"]_vars

(***************************************************************************)
(* README: a guest that boots but binds no drivers is a failure.  When the *)
(* boot.virtio check passes, every guest bound both drivers.               *)
(***************************************************************************)
EveryGuestBoundItsDrivers ==
    virtio = "pass" => \A i \in VM : guest[i].blk /\ guest[i].net

=============================================================================
