-------------------------------- MODULE Run ---------------------------------
(***************************************************************************)
(* One run of fc-preflight from its command line to its exit status: the   *)
(* preflight's checks, the KVM ladder among them, the gate between the two *)
(* stages, the boot stage's own gates, the report and what main makes of   *)
(* it.  The microVMs are BootPromise, which BootStage is shown to keep.    *)
(*                                                                         *)
(* What the host, the network and the file system answer is chosen when it *)
(* is asked for.                                                           *)
(***************************************************************************)
EXTENDS Integers, Sequences

CONSTANT N  \* -vms

ASSUME NAssumption == N \in Nat

VM == 0 .. N-1

VARIABLES
    flagStage, flagJSON, root, arch,  \* the invocation
    pc,                               \* where main and what it calls are
    rung,                             \* the next rung of checkKVM's ladder
    results,                          \* Report.Results
    k, Verdict, blocked,              \* Finish: its loop and its locals
    rendered,                         \* the report was printed
    json,                             \* the JSON copy: "none", "written", "failed"
    exit,                             \* the exit status, -1 while running
    vm, launched                      \* BootPromise's variables

invocation == <<flagStage, flagJSON, root, arch>>
finishVars == <<k, Verdict, blocked>>
endVars    == <<rendered, json, exit>>
bootVars   == <<vm, launched>>
vars == <<invocation, pc, rung, results, finishVars, endVars, bootVars>>

Boot == INSTANCE BootPromise WITH verdict <- launched

Status == {"pass", "fail", "warn", "info", "skip", "blocked"}

\* checkKVM's checks in order.
Rungs == <<"kvm.device", "kvm.open", "kvm.api_version", "kvm.caps.required",
           "kvm.create_vm", "kvm.create_vcpu">>

\* Slip: the one rung that does not stop the ladder left out.
BlockingIDsShort == {Rungs[j] : j \in 1 .. 6} \ {"kvm.caps.required"}
BlockingIDs == {Rungs[j] : j \in 1 .. 6} \cup {"host.cpu_virt"}

BootIDs == {"boot.skipped", "boot.privileges", "boot.arch", "boot.firecracker", "boot.kernel",
            "boot.initramfs", "boot.initramfs.linkage", "boot.workdir", "boot.launch",
            "boot.virtio", "boot.network"}

\* A Result: which check, and what it found.
CheckID == BlockingIDs \cup BootIDs \cup {"host.platform", "host.rest", "kvm.arch", "kvm.cap"}
Entry   == [id : CheckID, status : Status]

Init ==
    /\ flagStage \in {"preflight", "boot", "all", "other"}
    /\ flagJSON \in BOOLEAN /\ root \in BOOLEAN /\ arch \in {"amd64", "arm64", "other"}
    /\ pc = "start" /\ rung = 1 /\ results = <<>>
    /\ k = 0 /\ Verdict = "pass" /\ blocked = FALSE
    /\ rendered = FALSE /\ json = "none" /\ exit = -1
    /\ Boot!Init

Result(id, status) == [id |-> id, status |-> status]

Add(id, status) == results' = Append(results, Result(id, status))

Quiet == UNCHANGED <<invocation, finishVars, endVars, bootVars>>

-----------------------------------------------------------------------------
(* The command line and the preflight.                                     *)

\* resolveGuestNet (see GuestNet) and the stage switch.
ParseArgs ==
    /\ pc = "start"
    /\ \/ /\ flagStage \in {"preflight", "all"} /\ pc' = "platform" /\ UNCHANGED exit
       \/ /\ flagStage = "boot" /\ pc' = "boot" /\ UNCHANGED exit
       \/ /\ exit' = 2 /\ pc' = "exited"  \* a bad -guest-net, or an unknown stage
    /\ UNCHANGED <<invocation, rung, results, finishVars, rendered, json, bootVars>>

\* checkPlatform and checkVirtPosture.
checkPlatform ==
    /\ pc = "platform"
    /\ \E status \in {"pass", "warn", "fail"} : Add("host.platform", status)
    /\ pc' = "cpu"
    /\ UNCHANGED rung /\ Quiet

checkCPUVirtExtensions ==
    /\ pc = "cpu"
    /\ \E status \in IF arch = "amd64" THEN {"pass", "fail"} ELSE {"info"} :
          Add("host.cpu_virt", status)
    /\ pc' = "kvm"
    /\ UNCHANGED rung /\ Quiet

UnknownArch ==
    /\ pc = "kvm" /\ arch = "other"
    /\ Add("kvm.arch", "fail") /\ pc' = "rest"
    /\ UNCHANGED rung /\ Quiet

\* A refusal to open as an ordinary user says nothing about the host.
RungStatus == {"pass", "fail"} \cup IF Rungs[rung] = "kvm.open" /\ ~root THEN {"blocked"} ELSE {}

\* Optional capabilities that are missing are warned of before the required ones.
Notes == {<<>>} \cup IF Rungs[rung] = "kvm.caps.required" THEN {<<Result("kvm.cap", "warn")>>} ELSE {}

\* Slip: a rung past the last.
MoreRungsByOne == rung <= Len(Rungs)

MoreRungs == rung < Len(Rungs)

\* Missing capabilities are reported and climbed past; any other failure ends it.
checkKVM ==
    /\ pc = "kvm" /\ arch # "other"
    /\ \E status \in RungStatus, notes \in Notes :
          /\ results' = results \o notes \o <<Result(Rungs[rung], status)>>
          /\ IF (status = "pass" \/ Rungs[rung] = "kvm.caps.required") /\ MoreRungs
             THEN rung' = rung + 1 /\ UNCHANGED pc
             ELSE pc' = "rest" /\ UNCHANGED rung
    /\ Quiet

\* checkKVMTuning to checkHostKernelConfig.
RestOfPreflight ==
    /\ pc = "rest"
    /\ \E status \in {"pass", "warn", "skip", "fail"} : Add("host.rest", status)
    /\ pc' = IF flagStage = "all" THEN "gate" ELSE "finish"
    /\ UNCHANGED rung /\ Quiet

\* Slip: anything short of a pass taken for a blocking failure.
hasBlockingShortOfPass ==
    \E j \in 1 .. Len(results) : results[j].id \in BlockingIDs /\ results[j].status # "pass"

hasBlockingKVMFailure ==
    \E j \in 1 .. Len(results) : /\ results[j].status \in {"fail", "blocked"}
                                 /\ results[j].id \in BlockingIDs

Gate ==
    /\ pc = "gate"
    /\ IF hasBlockingKVMFailure
       THEN Add("boot.skipped", "skip") /\ pc' = "finish"
       ELSE UNCHANGED results /\ pc' = "boot"
    /\ UNCHANGED rung /\ Quiet

-----------------------------------------------------------------------------
(* runBootStage.                                                           *)

\* A gate of the stage that records its status and goes on, or stops the stage.
BootGate(at, id, going, stopping, next) ==
    /\ pc = at
    /\ \/ \E status \in going : Add(id, status) /\ pc' = next
       \/ \E status \in stopping : Add(id, status) /\ pc' = "finish"
    /\ UNCHANGED rung /\ Quiet

BootPrivileges ==
    IF ~root THEN BootGate("boot", "boot.privileges", {}, {"blocked"}, "finish")
    ELSE IF arch = "other" THEN BootGate("boot", "boot.arch", {}, {"skip"}, "finish")
    ELSE BootGate("boot", "boot.firecracker", {"info", "pass"}, {"fail"}, "kernel")

BootKernel   == BootGate("kernel", "boot.kernel", {"pass", "warn"}, {"fail"}, "self")
LocateSelf   == BootGate("self", "boot.initramfs", {}, {"fail"}, "finish")
CheckLinkage == BootGate("self", "boot.initramfs.linkage", {"pass", "warn"}, {"fail"}, "read")
ReadSelf     == BootGate("read", "boot.initramfs", {}, {"fail"}, "finish")

\* From MkdirTemp to the VMs: here the stage gives up before it has started any.
PrepareBoot ==
    /\ pc = "read"
    /\ \/ Add("boot.initramfs", "pass") /\ pc' = "vms" /\ UNCHANGED bootVars
       \/ /\ \E id \in {"boot.workdir", "boot.initramfs"} : Add(id, "fail")
          /\ pc' = "finish" /\ Boot!GiveUp
    /\ UNCHANGED <<invocation, rung, finishVars, endVars>>

BootVMs ==
    /\ pc = "vms"
    /\ Boot!Decide \/ \E i \in VM : Boot!Settle(i)
    /\ UNCHANGED <<invocation, pc, rung, results, finishVars, endVars>>

\* judgeOutcomes, as far as its results have a say in the exit status.  With no
\* VM at all it indexes outcomes[0] of an empty slice.
Judge ==
    /\ pc = "vms"
    /\ \/ /\ launched = "fail"
          /\ Add("boot.launch", "fail") /\ pc' = "finish" /\ UNCHANGED exit
       \/ /\ launched = "pass"
          /\ IF N = 0
             THEN Add("boot.launch", "pass") /\ pc' = "exited" /\ exit' = 2
             ELSE /\ \E virtio, network \in {"pass", "fail"} :
                        results' = results \o <<Result("boot.launch", "pass"),
                                                Result("boot.virtio", virtio),
                                                Result("boot.network", network)>>
                  /\ pc' = "finish" /\ UNCHANGED exit
    /\ UNCHANGED <<invocation, rung, finishVars, rendered, json, bootVars>>

-----------------------------------------------------------------------------
(* The report and the exit status.                                         *)

\* Slip: the last status that matters wins.
VerdictLastWins(status) == IF status \in {"fail", "blocked"} THEN status ELSE Verdict

VerdictAfter(status) == IF status = "fail" THEN "fail" ELSE Verdict

FinishStep ==
    /\ pc = "finish" /\ k < Len(results)
    /\ k' = k + 1
    /\ Verdict' = VerdictAfter(results[k + 1].status)
    /\ blocked' = (blocked \/ results[k + 1].status = "blocked")
    /\ UNCHANGED <<invocation, pc, rung, results, endVars, bootVars>>

FinishAndRender ==
    /\ pc = "finish" /\ k = Len(results)
    /\ Verdict' = IF blocked /\ Verdict # "fail" THEN "blocked" ELSE Verdict
    /\ rendered' = TRUE
    /\ pc' = "json"
    /\ UNCHANGED <<invocation, rung, results, k, blocked, json, exit, bootVars>>

\* Create or Encode may fail, and main leaves with 1 there and then.
WriteJSON ==
    /\ pc = "json"
    /\ \/ ~flagJSON /\ pc' = "exit" /\ UNCHANGED <<json, exit>>
       \/ flagJSON /\ json' = "written" /\ pc' = "exit" /\ UNCHANGED exit
       \/ flagJSON /\ json' = "failed" /\ exit' = 1 /\ pc' = "exited"
    /\ UNCHANGED <<invocation, rung, results, finishVars, rendered, bootVars>>

Exit ==
    /\ pc = "exit"
    /\ exit' = CASE Verdict = "fail" -> 1 [] Verdict = "blocked" -> 3 [] OTHER -> 0
    /\ pc' = "exited"
    /\ UNCHANGED <<invocation, rung, results, finishVars, rendered, json, bootVars>>

Exited == pc = "exited" /\ UNCHANGED vars

Next ==
    \/ ParseArgs
    \/ checkPlatform \/ checkCPUVirtExtensions \/ UnknownArch \/ checkKVM \/ RestOfPreflight
    \/ Gate
    \/ BootPrivileges \/ BootKernel \/ LocateSelf \/ CheckLinkage \/ ReadSelf
    \/ PrepareBoot \/ BootVMs \/ Judge
    \/ FinishStep \/ FinishAndRender \/ WriteJSON \/ Exit
    \/ Exited

Spec == Init /\ [][Next]_vars

-----------------------------------------------------------------------------
(* Properties.                                                             *)

Has(id, status) == \E j \in 1 .. Len(results) : results[j] = Result(id, status)

PC == {"start", "platform", "cpu", "kvm", "rest", "gate", "boot", "kernel", "self",
       "read", "vms", "finish", "json", "exit", "exited"}

\* Every variable keeps to the values the code can give it.
TypeOK ==
    /\ flagStage \in {"preflight", "boot", "all", "other"}
    /\ flagJSON \in BOOLEAN /\ root \in BOOLEAN /\ arch \in {"amd64", "arm64", "other"}
    /\ pc \in PC /\ rung \in 1 .. 6
    /\ results \in Seq(Entry)
    /\ k \in 0 .. Len(results) /\ Verdict \in {"pass", "fail", "blocked"} /\ blocked \in BOOLEAN
    /\ rendered \in BOOLEAN /\ json \in {"none", "written", "failed"} /\ exit \in {-1, 0, 1, 2, 3}
    /\ Boot!TypeOK

(***************************************************************************)
(* The exit status of a run that got its report out tells a pipeline what  *)
(* the results say: 1 when something failed, 3 when nothing failed but     *)
(* something could not be checked, 0 otherwise; wherever in the report the *)
(* deciding result stands, and never because of a warning.                 *)
(***************************************************************************)
Some(status) == \E j \in 1 .. Len(results) : results[j].status = status

ExitTellsResults ==
    pc = "exited" /\ rendered /\ json # "failed" =>
        exit = IF Some("fail") THEN 1 ELSE IF Some("blocked") THEN 3 ELSE 0

(***************************************************************************)
(* Under -stage all no microVM is started unless this process is root and  *)
(* KVM handed it a VM and a vCPU with every capability Firecracker needs,  *)
(* on a CPU that was not found wanting.                                    *)
(***************************************************************************)
BootOnlyOnProvenKVM ==
    flagStage = "all" /\ pc = "vms" =>
        /\ root
        /\ Has("kvm.create_vcpu", "pass") /\ Has("kvm.caps.required", "pass")
        /\ ~Has("host.cpu_virt", "fail")

(***************************************************************************)
(* Exit status 0 is evidence: after a preflight KVM created a VM and a     *)
(* vCPU; after the boot stage every microVM asked for booted and the       *)
(* network and the drivers were found good.  One run gets 0 for nothing:   *)
(* -stage boot on an architecture that has no pinned artifacts, whose      *)
(* whole report is that it was skipped.                                    *)
(***************************************************************************)
Booted        == (\A i \in VM : vm[i] = "ok") /\ Has("boot.network", "pass") /\ Has("boot.virtio", "pass")
NothingToBoot == flagStage = "boot" /\ results = <<Result("boot.arch", "skip")>>

ExitZeroMeansProven ==
    exit = 0 =>
        /\ flagStage \in {"preflight", "all"} => Has("kvm.create_vcpu", "pass")
        /\ flagStage \in {"boot", "all"} => Booted \/ NothingToBoot

-----------------------------------------------------------------------------
(* Why it holds: the inductive invariant behind the properties above.      *)

BootPC   == {"boot", "kernel", "self", "read", "vms"}
ReportPC == {"json", "exit"}
RunPC    == {"start", "platform", "cpu", "kvm", "rest", "gate"} \cup BootPC

\* What has been climbed of the ladder stays on record until the VMs start.
Climbed(r) == Has(Rungs[r], "pass") \/ hasBlockingKVMFailure
Proven     == \A r \in 1 .. 6 : Climbed(r)

LadderInv ==
    /\ pc \in {"start", "platform", "cpu"} => rung = 1
    /\ pc = "kvm" => \A r \in 1 .. rung - 1 : Climbed(r)
    /\ pc \in {"rest", "gate"} => arch = "other" \/ Proven
    /\ pc \in BootPC /\ flagStage = "all" => arch = "other" \/ (Proven /\ ~hasBlockingKVMFailure)
    /\ pc \in BootPC \ {"boot"} => root /\ arch # "other"

\* What Finish has made of the first k results.
Among(n, status) == \E j \in 1 .. n : results[j].status = status

FinishInv ==
    /\ pc \in RunPC => k = 0 /\ Verdict = "pass" /\ ~blocked
    /\ pc \in RunPC \cup {"finish"} => ~rendered /\ json = "none"
    /\ pc # "exited" => exit = -1
    /\ pc = "finish" => /\ Verdict = IF Among(k, "fail") THEN "fail" ELSE "pass"
                        /\ blocked <=> Among(k, "blocked")
    /\ pc \in ReportPC => /\ json # "failed"
                          /\ Verdict = IF Some("fail") THEN "fail"
                                       ELSE IF Some("blocked") THEN "blocked" ELSE "pass"

\* A run that has not got its evidence has the trouble on record.
Trouble == Some("fail") \/ Some("blocked")

EndPC == {"finish"} \cup ReportPC

RecordInv ==
    /\ pc \in {"rest", "gate"} \cup BootPC \cup EndPC /\ flagStage \in {"preflight", "all"}
          => Trouble \/ Has("kvm.create_vcpu", "pass")
    /\ pc \in {"rest", "gate"} \cup BootPC /\ flagStage = "all" /\ arch = "other" => Trouble
    /\ pc \in {"platform", "cpu", "kvm", "rest", "gate"} => flagStage \in {"preflight", "all"}
    /\ pc \in {"start", "boot"} /\ flagStage = "boot" => results = <<>>
    /\ pc \in EndPC /\ flagStage \in {"boot", "all"} => Trouble \/ Booted \/ NothingToBoot
    /\ launched = "pass" => \A i \in VM : vm[i] = "ok"

IInv == TypeOK /\ LadderInv /\ FinishInv /\ ExitTellsResults /\ RecordInv /\ ExitZeroMeansProven

=============================================================================
