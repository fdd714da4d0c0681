------------------------------ MODULE HostChecks ------------------------------
(***************************************************************************)
(* The host checks of the preflight around the KVM ladder, which is Run's: *)
(* what each makes of what it reads.  A host lacks some of the features    *)
(* and hides some of the files that the checks look at; both are settled   *)
(* when they are first asked for, and then stay.  A module that was built  *)
(* but is not loaded is lacking and yet not unbuilt.  Of the report,       *)
(* `adding` has the results of the latest check and `failed` every check   *)
(* that has failed.                                                        *)
(***************************************************************************)
EXTENDS Integers, Sequences

VARIABLES
    arch,
    at,       \* the next check of runPreflight
    lacks,    \* features the host turned out not to have
    unbuilt,  \* options that the kernel's config turned out not to have
    hides,    \* what could not be read, however it is there
    adding,   \* results of the latest check
    failed    \* ids of the checks that failed

vars == <<arch, at, lacks, unbuilt, hides, adding, failed>>

Checks == <<"platform", "virt", "cpu", "kvm", "tuning", "devices", "syscalls",
            "firewall", "cgroups", "memory", "config", "done">>

\* What the running kernel has to offer, as the probes ask for it.
Probed == {"kvm", "vendor", "tun", "cgroups"}

\* What it can be built with: "rest" are the other required options, that of nbd among them.
Option == Probed \cup {"rest", "optional"}

\* A supported CPU, the oldest kernel that will do, CPU extensions, nested paging; and
\* device nodes, which may be there without their driver, or be missing beside it.
Feature == Probed \cup {"arch", "kernel", "virt", "paging", "seccomp", "kvmnode", "tunnode"}
File    == {"osrelease", "cpuinfo", "devkvm", "parameters", "status", "cgroup", "config"}

ID == {"host.platform", "host.distro", "host.kernel_version", "host.virt_posture", "host.cpu_virt",
       "host.cpu", "host.tsc", "host.clocksource", "host.kvm_tuning", "host.tun", "host.vhost_vsock",
       "host.nbd", "host.nftables", "host.cpuid_dev", "host.syscalls", "host.io_uring",
       "host.userfaultfd", "host.seccomp", "host.firewall", "host.cgroups", "host.memory",
       "host.overcommit", "host.thp", "host.max_map_count", "host.nofile", "host.kernel_config",
       "host.kernel_config.vendor_kvm", "host.kernel_config.optional", "kvm.arch", "kvm.device",
       "kvm.open"}
Status == {"pass", "fail", "blocked", "warn", "info", "skip"}

Init ==
    /\ arch \in {"amd64", "arm64", "other"} /\ at = 1
    /\ lacks = {} /\ unbuilt = {} /\ hides = {} /\ adding = {} /\ failed = {}

Result(id, status) == [id |-> id, status |-> status]
Judge(id, good)    == Result(id, IF good THEN "pass" ELSE "fail")
Rate(id, good)     == Result(id, IF good THEN "pass" ELSE "warn")

\* One check: what it finds lacking, unbuilt or hidden, and the results it adds.
AnyCheck(name, lacking, absent, hidden, results) ==
    /\ Checks[at] = name
    /\ lacks' = lacks \cup lacking /\ unbuilt' = unbuilt \cup absent /\ hides' = hides \cup hidden
    /\ adding' = results
    /\ failed' = failed \cup {r.id : r \in {x \in results : x.status = "fail"}}
    /\ at' = at + 1
    /\ UNCHANGED arch

Check(name, lacking, hidden, results) == AnyCheck(name, lacking, {}, hidden, results)

-----------------------------------------------------------------------------

\* Major and minor number; of a release that cannot be read there are none.
Versions == {<<4, 20>>, <<5, 9>>, <<5, 10>>, <<6, 0>>}

TooOld(v) == v[1] < 5 \/ (v[1] = 5 /\ v[2] < 10)

\* Slip: a version that does not parse leaves a result without a status.
KernelVersionUnset(v) ==
    IF v = <<>> THEN {Result("host.kernel_version", "")}
    ELSE {Result("host.kernel_version",
                 IF TooOld(v) THEN "fail" ELSE IF v[1] = 5 THEN "warn" ELSE "pass")}

\* A version that does not parse leaves no result.
KernelVersion(v) ==
    IF v = <<>> THEN {}
    ELSE {Result("host.kernel_version",
                 IF TooOld(v) THEN "fail" ELSE IF v[1] = 5 THEN "warn" ELSE "pass")}

\* What a host of the release v finds, its osrelease open or hidden.
checkPlatformOf(ubuntu, v, hidden) ==
    Check("platform", IF 1000 * v[1] + v[2] < 5010 THEN {"kernel"} ELSE {}, hidden,
          {Result("host.platform", "info"), Rate("host.distro", ubuntu)}
          \cup KernelVersion(IF hidden = {} THEN v ELSE <<>>))

checkPlatform ==
    \E ubuntu \in BOOLEAN, v \in Versions, hidden \in {{}, {"osrelease"}} :
        checkPlatformOf(ubuntu, v, hidden)

\* Slip: asked of every CPU.
checkCPUVirtExtensionsEverywhere(flags) == Judge("host.cpu_virt", "virt" \in flags)

checkCPUVirtExtensions(flags) ==
    IF arch # "amd64" THEN Result("host.cpu_virt", "info")
    ELSE Judge("host.cpu_virt", "virt" \in flags)

\* No flag can be read of a cpuinfo that cannot be opened.  Only amd64 has these flags.
checkVirtPosture ==
    \E lacking \in IF arch = "amd64" THEN {{}, {"virt"}} ELSE {{}}, hidden \in {{}, {"cpuinfo"}},
       signal \in BOOLEAN :
        LET flags == IF hidden = {} /\ arch = "amd64" THEN {"virt"} \ lacking ELSE {}
        IN  Check("virt", lacking, hidden,
                  {Rate("host.virt_posture", ~signal), checkCPUVirtExtensions(flags)})

checkCPU ==
    \E tsc, clock \in BOOLEAN :
        Check("cpu", {}, {},
              {Result("host.cpu", "info"), Rate("host.clocksource", clock)}
              \cup IF arch = "arm64" THEN {} ELSE {Rate("host.tsc", tsc /\ "cpuinfo" \notin hides)})

\* Refused to a user who is not root, it says nothing of the host; refused to root, it does.
KVMOpen(lacking, refused) ==
    IF refused = "user" THEN Result("kvm.open", "blocked")
    ELSE Judge("kvm.open", refused = "no" /\ lacking = {})

\* checkKVM up to the first ioctl; the ladder is in Run.
checkKVM ==
    \/ /\ arch = "other"
       /\ Check("kvm", {"arch"}, {}, {Result("kvm.arch", "fail")})
    \/ /\ arch # "other"
       /\ \E lacking \in SUBSET ({"kvmnode", "kvm"} \cup IF arch = "amd64" THEN {"vendor"} ELSE {}),
             refused \in {"no", "user", "root"} :
             IF "kvmnode" \in lacking
             THEN Check("kvm", lacking, {}, {Result("kvm.device", "fail")})
             ELSE Check("kvm", lacking, IF refused = "no" THEN {} ELSE {"devkvm"},
                        {Result("kvm.device", "pass"), KVMOpen(lacking, refused)})

\* Only the module of an amd64 vendor shows ept or npt.  The rest is recorded, if any is found.
checkKVMTuning ==
    LET vendor == arch = "amd64" /\ "vendor" \notin lacks
    IN  \E lacking \in IF vendor THEN {{}, {"paging"}} ELSE {{}}, hidden \in {{}, {"parameters"}} :
            \/ /\ lacking # {} /\ hidden = {}
               /\ Check("tuning", lacking, hidden, {Result("host.kvm_tuning", "fail")})
            \/ /\ lacking = {} \/ hidden # {}
               /\ Check("tuning", lacking, hidden, {Result("host.kvm_tuning", "info")})
            \/ /\ ~vendor \/ hidden # {}
               /\ Check("tuning", lacking, hidden, {Result("host.kvm_tuning", "warn")})

\* Slip: whatever the error, a warning.
TunWarned(lacking, refused) ==
    Rate("host.tun", {"tunnode", "tun"} \cap lacking = {} /\ ~refused)

\* /dev/net/tun: absent, or there and not to be opened, for want of a driver or of the right.
Tun(lacking, refused) ==
    IF "tunnode" \in lacking THEN Result("host.tun", "fail")
    ELSE Rate("host.tun", "tun" \notin lacking /\ ~refused)

checkDevices ==
    \E lacking \in SUBSET {"tunnode", "tun"}, refused, nbd, nft, cpuid \in BOOLEAN :
        Check("devices", lacking, {},
              {Tun(lacking, refused), Result("host.vhost_vsock", "info"),
               Rate("host.nbd", nbd), Rate("host.nftables", nft)}
              \cup IF cpuid THEN {Result("host.cpuid_dev", "info")} ELSE {})

\* A system call that is missing or restricted is worth a warning.
checkSyscalls ==
    \/ /\ arch = "other"
       /\ Check("syscalls", {}, {}, {Result("host.syscalls", "skip")})
    \/ /\ arch # "other"
       /\ \E lacking \in {{}, {"seccomp"}}, hidden \in {{}, {"status"}},
             uring, fault \in BOOLEAN :
             Check("syscalls", lacking, hidden,
                   {Rate("host.io_uring", uring), Rate("host.userfaultfd", fault),
                    Judge("host.seccomp", hidden = {} /\ lacking = {})})

\* A tool that is missing, or refuses to list its rules, counts as one that drops nothing.
checkHostFirewall ==
    \E nft, iptables \in {"absent", "refused", "accepts", "drops"} :
        Check("firewall", {}, {}, {Rate("host.firewall", "drops" \notin {nft, iptables})})

CgroupFails(fs) == fs = "none"

checkCgroups ==
    \E lacking \in {{}, {"cgroups"}}, controllers \in BOOLEAN :
    \E fs \in IF lacking = {} THEN {"none", "other", "cgroup2"} ELSE {"none", "other"} :
        Check("cgroups", lacking, IF fs = "none" /\ lacking = {} THEN {"cgroup"} ELSE {},
              {IF CgroupFails(fs) THEN Result("host.cgroups", "fail")
               ELSE Rate("host.cgroups", fs = "cgroup2" /\ controllers)})

\* What cannot be read of overcommit and max_map_count passes; thp and nofile then say nothing.
checkMemory ==
    \E overcommit, maps \in BOOLEAN,
       thp \in {{}, {"info"}, {"warn"}}, nofile \in {{}, {"pass"}, {"warn"}} :
        Check("memory", {}, {},
              {Result("host.memory", "info"), Rate("host.overcommit", overcommit),
               Rate("host.max_map_count", maps)}
              \cup {Result("host.thp", s) : s \in thp} \cup {Result("host.nofile", s) : s \in nofile})

Required == {"kvm", "tun", "cgroups", "rest"}

\* The vendor's module is asked for on amd64 alone.
MissingRequired(absent) ==
    (Required \cap absent) \cup IF arch = "amd64" THEN {"vendor"} \cap absent ELSE {}

\* What is there was built; checkKVM asks nothing of an architecture it does not know.
Built == (IF arch = "other" THEN Probed \ {"kvm", "vendor"} ELSE Probed) \ lacks

checkHostKernelConfig ==
    \/ Check("config", {}, {"config"}, {Result("host.kernel_config", "skip")})
    \/ \E absent \in SUBSET (Option \ Built) :
          AnyCheck("config", {}, absent, {},
              {Judge("host.kernel_config", MissingRequired(absent) = {})}
              \cup (IF arch = "amd64" /\ "vendor" \notin absent
                    THEN {Result("host.kernel_config.vendor_kvm", "pass")} ELSE {})
              \cup (IF "optional" \in absent
                    THEN {Result("host.kernel_config.optional", "warn")} ELSE {}))

Done == Checks[at] = "done" /\ UNCHANGED vars

Next ==
    \/ checkPlatform \/ checkVirtPosture \/ checkCPU \/ checkKVM \/ checkKVMTuning
    \/ checkDevices \/ checkSyscalls \/ checkHostFirewall \/ checkCgroups \/ checkMemory
    \/ checkHostKernelConfig
    \/ Done

Spec == Init /\ [][Next]_vars

-----------------------------------------------------------------------------
(* Properties.                                                             *)

\* Every variable keeps to the values the code can give it.
TypeOK ==
    /\ arch \in {"amd64", "arm64", "other"} /\ at \in 1 .. Len(Checks)
    /\ lacks \subseteq Feature /\ unbuilt \subseteq Option /\ hides \subseteq File
    /\ adding \subseteq [id : ID, status : Status] /\ failed \subseteq ID

(***************************************************************************)
(* A failure is never a false one: each names something that this host     *)
(* lacks, or a file it hides.  A host that is nested, or an Arm host that  *)
(* has none of the x86 flags, fails nothing for that.                      *)
(***************************************************************************)
Cause(id) ==
    CASE id = "host.kernel_version" -> {"kernel"}
      [] id = "host.cpu_virt"       -> {"virt", "cpuinfo"}
      [] id = "kvm.arch"            -> {"arch"}
      [] id = "kvm.device"          -> {"kvmnode"}
      [] id = "kvm.open"            -> {"kvm", "vendor", "devkvm"}
      [] id = "host.kvm_tuning"     -> {"paging"}
      [] id = "host.tun"            -> {"tunnode"}
      [] id = "host.seccomp"        -> {"seccomp", "status"}
      [] id = "host.cgroups"        -> {"cgroups", "cgroup"}
      [] OTHER                      -> {}

FailureNamesALack ==
    \A id \in failed :
        \/ Cause(id) \cap (lacks \cup hides) # {}
        \/ id = "host.kernel_config" /\ unbuilt \cap (Required \cup {"vendor"}) # {}

(***************************************************************************)
(* Nothing that Firecracker cannot do without is passed over: by the end   *)
(* of the preflight each lack has failed the check that is there to find   *)
(* it, and no other check's failure will do.  What stands behind a file    *)
(* that cannot be read gets by: an old kernel of an unreadable release, a  *)
(* driver behind a /dev/kvm that this user may not open (the check is then *)
(* blocked), paging turned off where no parameter shows.  The driver of    *)
(* tun is not among them: see TunWarnedForTheUserAlone.                    *)
(***************************************************************************)
Indispensable == {"arch", "kernel", "virt", "kvmnode", "kvm", "vendor", "paging", "tunnode", "seccomp"}

FoundBy ==
    [f \in Indispensable |->
        CASE f = "arch"              -> {"kvm.arch"}
          [] f = "kernel"            -> {"host.kernel_version"}
          [] f = "virt"              -> {"host.cpu_virt"}
          [] f = "kvmnode"           -> {"kvm.device"}
          [] f \in {"kvm", "vendor"} -> {"kvm.device", "kvm.open"}
          [] f = "paging"            -> {"host.kvm_tuning"}
          [] f = "tunnode"           -> {"host.tun"}
          [] f = "seccomp"           -> {"host.seccomp"}]

Behind ==
    [f \in Indispensable |->
        CASE f = "kernel"            -> {"osrelease"}
          [] f \in {"kvm", "vendor"} -> {"devkvm"}
          [] f = "paging"            -> {"parameters"}
          [] OTHER                   -> {}]

LackIsFailed ==
    Checks[at] = "done" =>
        \A f \in lacks \cap Indispensable : FoundBy[f] \cap failed # {} \/ Behind[f] \cap hides # {}

(***************************************************************************)
(* What the warning of host.tun says: "The node exists but this user       *)
(* cannot open it", so the host itself has what it takes.  (It need not:   *)
(* the node may have no driver behind it.)                                 *)
(***************************************************************************)
TunWarnedForTheUserAlone == Result("host.tun", "warn") \in adding => "tun" \notin lacks

=============================================================================
