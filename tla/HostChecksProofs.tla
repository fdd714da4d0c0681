--------------------------- MODULE HostChecksProofs ---------------------------
(***************************************************************************)
(* Proofs about HostChecks: of every host the checks can meet, what fails  *)
(* and what the host lacks answer to one another.                          *)
(***************************************************************************)
EXTENDS HostChecks, TLAPS

(***************************************************************************)
(* The inductive invariant.  LackIsFailed speaks of the end of a run; what *)
(* the checks keep all along is that each indispensable feature found      *)
(* lacking so far has failed a check which is there to find it, or stands  *)
(* behind something hidden so far.                                         *)
(***************************************************************************)
Explained(id, lacking, absent, hidden) ==
    \/ Cause(id) \cap (lacking \cup hidden) # {}
    \/ id = "host.kernel_config" /\ absent \cap (Required \cup {"vendor"}) # {}

Judged(f, failing, hidden) == FoundBy[f] \cap failing # {} \/ Behind[f] \cap hidden # {}

HostInv ==
    /\ TypeOK
    /\ \A id \in failed : Explained(id, lacks, unbuilt, hides)
    /\ \A f \in lacks \cap Indispensable : Judged(f, failed, hides)

Failing(results) == {r.id : r \in {x \in results : x.status = "fail"}}

\* What a run has found lacking, absent or hidden only grows, so a failure stays explained.
LEMMA ExplainedGrows ==
    ASSUME NEW id, NEW l1, NEW u1, NEW h1, NEW l2, NEW u2, NEW h2,
           Explained(id, l1, u1, h1)
    PROVE  Explained(id, l1 \cup l2, u1 \cup u2, h1 \cup h2)
BY DEF Explained

(***************************************************************************)
(* What a check owes: results of the right form, a cause for each failure  *)
(* and a failure for each indispensable feature that it finds lacking.     *)
(***************************************************************************)
LEMMA CheckKeepsInv ==
    ASSUME HostInv,
           NEW name, NEW lacking \in SUBSET Feature, NEW absent \in SUBSET Option,
           NEW hidden \in SUBSET File, NEW results \in SUBSET [id : ID, status : Status],
           name # "done",
           AnyCheck(name, lacking, absent, hidden, results),
           \A r \in results : r.status = "fail" =>
               Explained(r.id, lacks \cup lacking, unbuilt \cup absent, hides \cup hidden),
           \A f \in lacking \cap Indispensable : Judged(f, Failing(results), hidden)
    PROVE  HostInv'
<1>1. TypeOK'
    <2>1. at' \in 1 .. Len(Checks)
        <3>1. Len(Checks) = 12 /\ Checks[12] = "done"
            BY DEF Checks
        <3>2. at \in 1 .. 12 /\ at # 12 /\ at' = at + 1
            BY <3>1 DEF HostInv, TypeOK, AnyCheck
        <3>3. QED
            BY <3>1, <3>2
    <2>2. failed' \subseteq ID
        BY DEF HostInv, TypeOK, AnyCheck
    <2>3. QED
        BY <2>1, <2>2 DEF HostInv, TypeOK, AnyCheck
<1>2. \A id \in failed' : Explained(id, lacks', unbuilt', hides')
    <2>1. /\ failed' = failed \cup Failing(results)
          /\ lacks' = lacks \cup lacking /\ unbuilt' = unbuilt \cup absent
          /\ hides' = hides \cup hidden
        BY DEF AnyCheck, Failing
    <2>2. ASSUME NEW id \in failed
          PROVE  Explained(id, lacks', unbuilt', hides')
        BY <2>1, <2>2, ExplainedGrows DEF HostInv
    <2>3. ASSUME NEW id \in Failing(results)
          PROVE  Explained(id, lacks', unbuilt', hides')
        BY <2>1, <2>3 DEF Failing
    <2>4. QED
        BY <2>1, <2>2, <2>3
<1>3. \A f \in lacks' \cap Indispensable : Judged(f, failed', hides')
    BY DEF HostInv, AnyCheck, Failing, Judged
<1>4. QED
    BY <1>1, <1>2, <1>3 DEF HostInv

\* A result is of the right form, and only Judge and a plain "fail" make a failure.
LEMMA ResultForm ==
    ASSUME NEW id \in ID, NEW status \in Status
    PROVE  /\ Result(id, status) \in [id : ID, status : Status]
           /\ Result(id, status).id = id /\ Result(id, status).status = status
BY DEF Result

LEMMA RateForm ==
    ASSUME NEW id \in ID, NEW good \in BOOLEAN
    PROVE  /\ Rate(id, good) \in [id : ID, status : Status]
           /\ Rate(id, good).status # "fail"
BY DEF Rate, Result, Status

LEMMA JudgeForm ==
    ASSUME NEW id \in ID, NEW good \in BOOLEAN
    PROVE  /\ Judge(id, good) \in [id : ID, status : Status]
           /\ Judge(id, good).id = id
           /\ Judge(id, good).status = "fail" <=> ~good
BY DEF Judge, Result, Status

(***************************************************************************)
(* A check all of whose results are of the right form and none a failure   *)
(* owes nothing, if it finds nothing indispensable lacking.                *)
(***************************************************************************)
LEMMA MildCheckKeepsInv ==
    ASSUME HostInv,
           NEW name, NEW lacking \in SUBSET Feature, NEW absent \in SUBSET Option,
           NEW hidden \in SUBSET File, NEW results \in SUBSET [id : ID, status : Status],
           name # "done", lacking \cap Indispensable = {},
           AnyCheck(name, lacking, absent, hidden, results),
           \A r \in results : r.status # "fail"
    PROVE  HostInv'
BY CheckKeepsInv

LEMMA CPUKeepsInv ==
    ASSUME HostInv, checkCPU
    PROVE  HostInv'
<1>1. PICK tsc \in BOOLEAN, clock \in BOOLEAN :
        Check("cpu", {}, {},
              {Result("host.cpu", "info"), Rate("host.clocksource", clock)}
              \cup IF arch = "arm64" THEN {}
                   ELSE {Rate("host.tsc", tsc /\ "cpuinfo" \notin hides)})
    BY DEF checkCPU
<1>2. /\ "host.cpu" \in ID /\ "host.clocksource" \in ID /\ "host.tsc" \in ID
      /\ "info" \in Status
    BY DEF ID, Status
<1> DEFINE tscs == IF arch = "arm64" THEN {}
                    ELSE {Rate("host.tsc", tsc /\ "cpuinfo" \notin hides)}
           results == {Result("host.cpu", "info"), Rate("host.clocksource", clock)} \cup tscs
<1>3. \A r \in tscs : r \in [id : ID, status : Status] /\ r.status # "fail"
    BY <1>2, RateForm
<1>4. \A r \in results : r \in [id : ID, status : Status] /\ r.status # "fail"
    BY <1>2, <1>3, ResultForm, RateForm
<1>5. AnyCheck("cpu", {}, {}, {}, results)
    BY <1>1 DEF Check
<1> HIDE DEF tscs, results
<1>6. QED
    BY <1>4, <1>5, MildCheckKeepsInv

LEMMA FirewallKeepsInv ==
    ASSUME HostInv, checkHostFirewall
    PROVE  HostInv'
<1>1. PICK good \in BOOLEAN : Check("firewall", {}, {}, {Rate("host.firewall", good)})
    BY DEF checkHostFirewall
<1>2. "host.firewall" \in ID
    BY DEF ID
<1>3. QED
    BY <1>1, <1>2, RateForm, MildCheckKeepsInv DEF Check

LEMMA MemoryKeepsInv ==
    ASSUME HostInv, checkMemory
    PROVE  HostInv'
<1>1. PICK overcommit \in BOOLEAN, maps \in BOOLEAN,
           thp \in {{}, {"info"}, {"warn"}}, nofile \in {{}, {"pass"}, {"warn"}} :
        Check("memory", {}, {},
              {Result("host.memory", "info"), Rate("host.overcommit", overcommit),
               Rate("host.max_map_count", maps)}
              \cup {Result("host.thp", s) : s \in thp} \cup {Result("host.nofile", s) : s \in nofile})
    BY DEF checkMemory
<1>2. /\ "host.memory" \in ID /\ "host.overcommit" \in ID /\ "host.max_map_count" \in ID
      /\ "host.thp" \in ID /\ "host.nofile" \in ID
    BY DEF ID
<1>3. "info" \in Status /\ thp \subseteq Status \ {"fail"} /\ nofile \subseteq Status \ {"fail"}
    BY DEF Status
<1>4. ASSUME NEW id \in ID, NEW S \in SUBSET (Status \ {"fail"}),
             NEW r \in {Result(id, s) : s \in S}
      PROVE  r \in [id : ID, status : Status] /\ r.status # "fail"
    BY ResultForm
<1> DEFINE some    == {Result("host.thp", s) : s \in thp} \cup {Result("host.nofile", s) : s \in nofile}
           always  == {Result("host.memory", "info"), Rate("host.overcommit", overcommit),
                       Rate("host.max_map_count", maps)}
           results == always \cup some
<1>5. \A r \in some : r \in [id : ID, status : Status] /\ r.status # "fail"
    BY <1>2, <1>3, <1>4
<1>6. \A r \in always : r \in [id : ID, status : Status] /\ r.status # "fail"
    BY <1>2, <1>3, ResultForm, RateForm
<1>7. AnyCheck("memory", {}, {}, {}, results)
    BY <1>1 DEF Check
<1>8. \A r \in results : r \in [id : ID, status : Status] /\ r.status # "fail"
    BY <1>5, <1>6
<1> HIDE DEF some, always, results
<1>9. QED
    BY <1>7, <1>8, MildCheckKeepsInv

LEMMA KernelVersionForm ==
    ASSUME NEW v \in Versions \cup {<<>>}, NEW r \in KernelVersion(v)
    PROVE  /\ r \in [id : ID, status : Status] /\ r.id = "host.kernel_version"
           /\ r.status = "fail" <=> TooOld(v)
<1>1. "host.kernel_version" \in ID /\ {"fail", "warn", "pass"} \subseteq Status
    BY DEF ID, Status
<1>2. PICK s \in {"fail", "warn", "pass"} :
        r = Result("host.kernel_version", s) /\ (s = "fail" <=> TooOld(v))
    BY DEF KernelVersion
<1>3. QED
    BY <1>1, <1>2, ResultForm

\* The two ways in which the code asks for Linux 5.10 agree on every release of the model.
LEMMA OneThreshold ==
    ASSUME NEW v \in Versions
    PROVE  v # <<>> /\ (TooOld(v) <=> 1000 * v[1] + v[2] < 5010)
BY DEF Versions, TooOld

LEMMA PlatformKeepsInv ==
    ASSUME HostInv, checkPlatform
    PROVE  HostInv'
<1>1. PICK ubuntu \in BOOLEAN, v \in Versions, hidden \in {{}, {"osrelease"}} :
        checkPlatformOf(ubuntu, v, hidden)
    BY DEF checkPlatform
<1> DEFINE lacking == IF 1000 * v[1] + v[2] < 5010 THEN {"kernel"} ELSE {}
           seen    == IF hidden = {} THEN v ELSE <<>>
           results == {Result("host.platform", "info"), Rate("host.distro", ubuntu)}
                      \cup KernelVersion(seen)
<1>2. "host.platform" \in ID /\ "host.distro" \in ID /\ "info" \in Status
    BY DEF ID, Status
<1>3. AnyCheck("platform", lacking, {}, hidden, results)
    BY <1>1 DEF checkPlatformOf, Check
<1>4. lacking \in {{}, {"kernel"}} /\ (lacking = {"kernel"} <=> TooOld(v)) /\ v # <<>>
    BY OneThreshold
<1>5. seen \in Versions \cup {<<>>} /\ (hidden = {} <=> seen = v) /\ (hidden # {} <=> seen = <<>>)
    BY <1>4
<1> HIDE DEF lacking, seen
<1>6. \A r \in KernelVersion(seen) :
        /\ r \in [id : ID, status : Status] /\ r.id = "host.kernel_version"
        /\ r.status = "fail" <=> TooOld(seen)
    BY <1>5, KernelVersionForm
<1>7. hidden # {} => KernelVersion(seen) = {}
    BY <1>5 DEF KernelVersion
<1>8. \A r \in results : r \in [id : ID, status : Status]
    BY <1>2, <1>6, ResultForm, RateForm
<1>9. ASSUME NEW r \in results, r.status = "fail"
      PROVE  r.id = "host.kernel_version" /\ lacking = {"kernel"}
    <2>1. r \in KernelVersion(seen)
        BY <1>2, <1>9, ResultForm, RateForm
    <2>2. QED
        BY <2>1, <1>4, <1>5, <1>6, <1>7, <1>9
<1>10. ASSUME lacking = {"kernel"}, hidden = {}
       PROVE  "host.kernel_version" \in Failing(results)
    <2>1. KernelVersion(seen) # {}
        BY <1>4, <1>5, <1>10 DEF KernelVersion
    <2>2. PICK r \in KernelVersion(seen) : r.id = "host.kernel_version" /\ r.status = "fail"
        BY <2>1, <1>4, <1>5, <1>6, <1>10
    <2>3. QED
        BY <2>2 DEF Failing
<1> HIDE DEF results
<1>11. \A r \in results : r.status = "fail" =>
            Explained(r.id, lacks \cup lacking, unbuilt \cup {}, hides \cup hidden)
    BY <1>9 DEF Explained, Cause
<1>12. \A f \in lacking \cap Indispensable : Judged(f, Failing(results), hidden)
    <2>1. ASSUME lacking = {"kernel"}
          PROVE  Judged("kernel", Failing(results), hidden)
        BY <2>1, <1>10 DEF Judged, FoundBy, Behind, Indispensable
    <2>2. QED
        BY <2>1, <1>4
<1>13. /\ lacking \in SUBSET Feature /\ hidden \in SUBSET File
       /\ {} \in SUBSET Option /\ results \in SUBSET [id : ID, status : Status]
    BY <1>4, <1>8 DEF Feature, File
<1>14. QED
    BY <1>3, <1>11, <1>12, <1>13, CheckKeepsInv

LEMMA VirtKeepsInv ==
    ASSUME HostInv, checkVirtPosture
    PROVE  HostInv'
<1>1. PICK lacking \in {{}, {"virt"}}, hidden \in {{}, {"cpuinfo"}}, signal \in BOOLEAN :
        /\ arch # "amd64" => lacking = {}
        /\ LET flags == IF hidden = {} /\ arch = "amd64" THEN {"virt"} \ lacking ELSE {}
           IN  Check("virt", lacking, hidden,
                     {Rate("host.virt_posture", ~signal), checkCPUVirtExtensions(flags)})
    BY DEF checkVirtPosture
<1> DEFINE flags   == IF hidden = {} /\ arch = "amd64" THEN {"virt"} \ lacking ELSE {}
           good    == "virt" \in flags
           results == {Rate("host.virt_posture", ~signal), checkCPUVirtExtensions(flags)}
<1>2. AnyCheck("virt", lacking, {}, hidden, results)
    BY <1>1 DEF Check
<1>3. "host.virt_posture" \in ID /\ "host.cpu_virt" \in ID /\ "info" \in Status
    BY DEF ID, Status
<1>4. checkCPUVirtExtensions(flags) =
        IF arch = "amd64" THEN Judge("host.cpu_virt", good) ELSE Result("host.cpu_virt", "info")
    BY DEF checkCPUVirtExtensions
<1>5. good \in BOOLEAN /\ (good <=> hidden = {} /\ arch = "amd64" /\ lacking = {})
    OBVIOUS
<1> HIDE DEF good, flags
<1>6. /\ checkCPUVirtExtensions(flags) \in [id : ID, status : Status]
      /\ checkCPUVirtExtensions(flags).id = "host.cpu_virt"
      /\ checkCPUVirtExtensions(flags).status = "fail" <=> arch = "amd64" /\ ~good
    BY <1>3, <1>4, <1>5, ResultForm, JudgeForm
<1>7. \A r \in results : r \in [id : ID, status : Status]
    BY <1>3, <1>6, RateForm
<1>8. ASSUME NEW r \in results, r.status = "fail"
      PROVE  r.id = "host.cpu_virt" /\ (lacking = {"virt"} \/ hidden = {"cpuinfo"})
    BY <1>3, <1>5, <1>6, <1>8, RateForm
<1>9. lacking = {"virt"} => "host.cpu_virt" \in Failing(results)
    BY <1>1, <1>5, <1>6 DEF Failing
<1> HIDE DEF results
<1>10. \A r \in results : r.status = "fail" =>
            Explained(r.id, lacks \cup lacking, unbuilt \cup {}, hides \cup hidden)
    BY <1>8 DEF Explained, Cause
<1>11. \A f \in lacking \cap Indispensable : Judged(f, Failing(results), hidden)
    BY <1>9 DEF Judged, FoundBy, Behind, Indispensable
<1>12. /\ lacking \in SUBSET Feature /\ hidden \in SUBSET File
       /\ {} \in SUBSET Option /\ results \in SUBSET [id : ID, status : Status]
    BY <1>7 DEF Feature, File
<1>13. QED
    BY <1>2, <1>10, <1>11, <1>12, CheckKeepsInv

\* Past the node: the driver is asked for by opening it, and what the user may not open is hidden.
LEMMA OpenKeepsInv ==
    ASSUME HostInv, NEW lacking \in SUBSET {"kvm", "vendor"}, NEW refused \in {"no", "user", "root"},
           Check("kvm", lacking, IF refused = "no" THEN {} ELSE {"devkvm"},
                 {Result("kvm.device", "pass"), KVMOpen(lacking, refused)})
    PROVE  HostInv'
<1> DEFINE hidden  == IF refused = "no" THEN {} ELSE {"devkvm"}
           good    == refused = "no" /\ lacking = {}
           open    == KVMOpen(lacking, refused)
           results == {Result("kvm.device", "pass"), open}
<1>1. AnyCheck("kvm", lacking, {}, hidden, results)
    BY DEF Check
<1>2. /\ "kvm.device" \in ID /\ "kvm.open" \in ID
      /\ {"pass", "blocked"} \subseteq Status /\ "blocked" # "fail" /\ "pass" # "fail"
    BY DEF ID, Status
<1>3. good \in BOOLEAN /\ (good <=> refused = "no" /\ lacking = {})
    OBVIOUS
<1>4. hidden \in SUBSET {"devkvm"} /\ (refused # "no" => hidden = {"devkvm"})
    OBVIOUS
<1>5. open = IF refused = "user" THEN Result("kvm.open", "blocked") ELSE Judge("kvm.open", good)
    BY DEF KVMOpen
<1> HIDE DEF good, hidden, open
<1>6. /\ open \in [id : ID, status : Status] /\ open.id = "kvm.open"
      /\ open.status = "fail" => ~good
      /\ refused = "no" /\ lacking # {} => open.status = "fail"
    <2>1. CASE refused = "user"
        BY <2>1, <1>2, <1>5, ResultForm
    <2>2. CASE refused # "user"
        BY <2>2, <1>2, <1>3, <1>5, JudgeForm
    <2>3. QED
        BY <2>1, <2>2
<1>7. /\ Result("kvm.device", "pass") \in [id : ID, status : Status]
      /\ Result("kvm.device", "pass").status # "fail"
    BY <1>2, ResultForm
<1>8. \A r \in results : /\ r \in [id : ID, status : Status]
                         /\ r.status = "fail" => r.id = "kvm.open" /\ ~good
    BY <1>6, <1>7
<1>9. refused = "no" /\ lacking # {} => "kvm.open" \in Failing(results)
    BY <1>6 DEF Failing
<1> HIDE DEF results
<1>10. \A r \in results : r.status = "fail" =>
            Explained(r.id, lacks \cup lacking, unbuilt \cup {}, hides \cup hidden)
    BY <1>3, <1>4, <1>8 DEF Explained, Cause
<1>11. \A f \in lacking \cap Indispensable : Judged(f, Failing(results), hidden)
    <2>1. ASSUME NEW f \in lacking \cap Indispensable
          PROVE  FoundBy[f] = {"kvm.device", "kvm.open"} /\ Behind[f] = {"devkvm"}
        BY <2>1 DEF FoundBy, Behind, Indispensable
    <2>2. QED
        BY <2>1, <1>4, <1>9 DEF Judged
<1>12. /\ lacking \in SUBSET Feature /\ hidden \in SUBSET File
       /\ {} \in SUBSET Option /\ results \in SUBSET [id : ID, status : Status]
    BY <1>4, <1>8 DEF Feature, Probed, File
<1>13. QED
    BY <1>1, <1>10, <1>11, <1>12, CheckKeepsInv

LEMMA KVMKeepsInv ==
    ASSUME HostInv, checkKVM
    PROVE  HostInv'
<1>1. "kvm.arch" \in ID /\ "kvm.device" \in ID /\ "fail" \in Status
    BY DEF ID, Status
<1>2. CASE Check("kvm", {"arch"}, {}, {Result("kvm.arch", "fail")})
    <2> DEFINE results == {Result("kvm.arch", "fail")}
    <2>1. AnyCheck("kvm", {"arch"}, {}, {}, results)
        BY <1>2 DEF Check
    <2>2. /\ results \in SUBSET [id : ID, status : Status]
          /\ \A r \in results : r.id = "kvm.arch"
          /\ "kvm.arch" \in Failing(results)
        BY <1>1, ResultForm DEF Failing
    <2> HIDE DEF results
    <2>3. \A r \in results : r.status = "fail" =>
                Explained(r.id, lacks \cup {"arch"}, unbuilt \cup {}, hides \cup {})
        BY <2>2 DEF Explained, Cause
    <2>4. \A f \in {"arch"} \cap Indispensable : Judged(f, Failing(results), {})
        BY <2>2 DEF Judged, FoundBy, Indispensable
    <2>5. QED
        BY <2>1, <2>2, <2>3, <2>4, CheckKeepsInv DEF Feature
<1>3. ASSUME NEW lacking \in SUBSET {"kvmnode", "kvm", "vendor"}, "kvmnode" \in lacking,
             Check("kvm", lacking, {}, {Result("kvm.device", "fail")})
      PROVE  HostInv'
    <2> DEFINE results == {Result("kvm.device", "fail")}
    <2>1. AnyCheck("kvm", lacking, {}, {}, results)
        BY <1>3 DEF Check
    <2>2. /\ results \in SUBSET [id : ID, status : Status]
          /\ \A r \in results : r.id = "kvm.device"
          /\ "kvm.device" \in Failing(results)
        BY <1>1, ResultForm DEF Failing
    <2> HIDE DEF results
    <2>3. \A r \in results : r.status = "fail" =>
                Explained(r.id, lacks \cup lacking, unbuilt \cup {}, hides \cup {})
        BY <2>2, <1>3 DEF Explained, Cause
    <2>4. \A f \in lacking \cap Indispensable : Judged(f, Failing(results), {})
        BY <2>2 DEF Judged, FoundBy, Indispensable
    <2>5. lacking \in SUBSET Feature
        BY DEF Feature, Probed
    <2>6. QED
        BY <2>1, <2>2, <2>3, <2>4, <2>5, CheckKeepsInv
<1>4. CASE arch = "other"
    BY <1>2, <1>4 DEF checkKVM
<1>5. CASE arch # "other"
    <2>1. PICK lacking \in SUBSET ({"kvmnode", "kvm"} \cup IF arch = "amd64" THEN {"vendor"} ELSE {}),
               refused \in {"no", "user", "root"} :
             IF "kvmnode" \in lacking
             THEN Check("kvm", lacking, {}, {Result("kvm.device", "fail")})
             ELSE Check("kvm", lacking, IF refused = "no" THEN {} ELSE {"devkvm"},
                        {Result("kvm.device", "pass"), KVMOpen(lacking, refused)})
        BY Zenon, <1>5 DEF checkKVM
    <2>2. lacking \in SUBSET {"kvmnode", "kvm", "vendor"}
        BY <2>1
    <2>3. CASE "kvmnode" \in lacking
        BY <2>1, <2>2, <2>3, <1>3
    <2>4. CASE "kvmnode" \notin lacking
        <3>1. lacking \in SUBSET {"kvm", "vendor"}
            BY <2>2, <2>4
        <3>2. QED
            BY <2>1, <2>4, <3>1, OpenKeepsInv
    <2>5. QED
        BY <2>3, <2>4
<1>6. QED
    BY <1>4, <1>5

LEMMA TuningKeepsInv ==
    ASSUME HostInv, checkKVMTuning
    PROVE  HostInv'
<1>1. PICK lacking \in {{}, {"paging"}}, hidden \in {{}, {"parameters"}},
           s \in {"fail", "info", "warn"} :
        /\ Check("tuning", lacking, hidden, {Result("host.kvm_tuning", s)})
        /\ s = "fail" => lacking # {}
        /\ lacking # {} /\ hidden = {} => s = "fail"
    <2> DEFINE vendor == arch = "amd64" /\ "vendor" \notin lacks
    <2>1. PICK lacking \in IF vendor THEN {{}, {"paging"}} ELSE {{}}, hidden \in {{}, {"parameters"}} :
            \/ /\ lacking # {} /\ hidden = {}
               /\ Check("tuning", lacking, hidden, {Result("host.kvm_tuning", "fail")})
            \/ /\ lacking = {} \/ hidden # {}
               /\ Check("tuning", lacking, hidden, {Result("host.kvm_tuning", "info")})
            \/ /\ ~vendor \/ hidden # {}
               /\ Check("tuning", lacking, hidden, {Result("host.kvm_tuning", "warn")})
        BY Zenon DEF checkKVMTuning
    <2>2. lacking \in {{}, {"paging"}} /\ (~vendor => lacking = {})
        BY <2>1
    <2> HIDE DEF vendor
    <2>3. QED
        BY <2>1, <2>2
<1>2. "host.kvm_tuning" \in ID /\ {"info", "warn", "fail"} \subseteq Status
    BY DEF ID, Status
<1> DEFINE results == {Result("host.kvm_tuning", s)}
<1>3. AnyCheck("tuning", lacking, {}, hidden, results)
    BY <1>1 DEF Check
<1>4. /\ results \in SUBSET [id : ID, status : Status]
      /\ \A r \in results : r.id = "host.kvm_tuning" /\ r.status = s
      /\ s = "fail" => "host.kvm_tuning" \in Failing(results)
    BY <1>2, ResultForm DEF Failing
<1> HIDE DEF results
<1>5. \A r \in results : r.status = "fail" =>
            Explained(r.id, lacks \cup lacking, unbuilt \cup {}, hides \cup hidden)
    BY <1>1, <1>4 DEF Explained, Cause
<1>6. \A f \in lacking \cap Indispensable : Judged(f, Failing(results), hidden)
    <2>1. FoundBy["paging"] = {"host.kvm_tuning"} /\ Behind["paging"] = {"parameters"}
        BY DEF FoundBy, Behind, Indispensable
    <2>2. QED
        BY <2>1, <1>1, <1>4 DEF Judged
<1>7. /\ lacking \in SUBSET Feature /\ hidden \in SUBSET File /\ {} \in SUBSET Option
    BY DEF Feature, File
<1>8. QED
    BY <1>3, <1>4, <1>5, <1>6, <1>7, CheckKeepsInv

LEMMA DevicesKeepsInv ==
    ASSUME HostInv, checkDevices
    PROVE  HostInv'
<1>1. PICK lacking \in SUBSET {"tunnode", "tun"}, refused \in BOOLEAN, nbd \in BOOLEAN,
           nft \in BOOLEAN, cpuid \in BOOLEAN :
        Check("devices", lacking, {},
              {Tun(lacking, refused), Result("host.vhost_vsock", "info"),
               Rate("host.nbd", nbd), Rate("host.nftables", nft)}
              \cup IF cpuid THEN {Result("host.cpuid_dev", "info")} ELSE {})
    BY DEF checkDevices
<1> DEFINE extra   == IF cpuid THEN {Result("host.cpuid_dev", "info")} ELSE {}
           mild    == {Result("host.vhost_vsock", "info"), Rate("host.nbd", nbd),
                       Rate("host.nftables", nft)} \cup extra
           results == {Tun(lacking, refused)} \cup mild
<1>2. AnyCheck("devices", lacking, {}, {}, results)
    BY <1>1 DEF Check
<1>3. /\ "host.tun" \in ID /\ "host.vhost_vsock" \in ID /\ "host.nbd" \in ID
      /\ "host.nftables" \in ID /\ "host.cpuid_dev" \in ID /\ {"info", "fail"} \subseteq Status
    BY DEF ID, Status
<1>5. \A r \in mild : r \in [id : ID, status : Status] /\ r.status # "fail"
    <2>1. \A r \in extra : r \in [id : ID, status : Status] /\ r.status # "fail"
        BY <1>3, ResultForm
    <2> HIDE DEF extra
    <2>2. /\ Result("host.vhost_vsock", "info") \in [id : ID, status : Status]
          /\ Result("host.vhost_vsock", "info").status # "fail"
        BY <1>3, ResultForm
    <2>3. /\ Rate("host.nbd", nbd) \in [id : ID, status : Status]
          /\ Rate("host.nbd", nbd).status # "fail"
        BY <1>3, RateForm
    <2>4. /\ Rate("host.nftables", nft) \in [id : ID, status : Status]
          /\ Rate("host.nftables", nft).status # "fail"
        BY <1>3, RateForm
    <2>5. QED
        BY <2>1, <2>2, <2>3, <2>4
<1>6. /\ Tun(lacking, refused) \in [id : ID, status : Status]
      /\ Tun(lacking, refused).status = "fail" <=> "tunnode" \in lacking
      /\ "tunnode" \in lacking => Tun(lacking, refused).id = "host.tun"
    <2>1. CASE "tunnode" \in lacking
        <3>1. Tun(lacking, refused) = Result("host.tun", "fail")
            BY <2>1 DEF Tun
        <3>2. QED
            BY <2>1, <3>1, <1>3, ResultForm
    <2>2. CASE "tunnode" \notin lacking
        <3> DEFINE open == "tun" \notin lacking /\ ~refused
        <3>1. Tun(lacking, refused) = Rate("host.tun", open)
            BY <2>2 DEF Tun
        <3>2. open \in BOOLEAN
            OBVIOUS
        <3> HIDE DEF open
        <3>3. QED
            BY <2>2, <3>1, <3>2, <1>3, RateForm
    <2>3. QED
        BY <2>1, <2>2
<1> HIDE DEF mild
<1>7. \A r \in results : /\ r \in [id : ID, status : Status]
                         /\ r.status = "fail" => r.id = "host.tun" /\ "tunnode" \in lacking
    BY <1>5, <1>6
<1>8. "tunnode" \in lacking => "host.tun" \in Failing(results)
    BY <1>6 DEF Failing
<1> HIDE DEF results
<1>9. \A r \in results : r.status = "fail" =>
            Explained(r.id, lacks \cup lacking, unbuilt \cup {}, hides \cup {})
    BY <1>7 DEF Explained, Cause
<1>10. \A f \in lacking \cap Indispensable : Judged(f, Failing(results), {})
    BY <1>8 DEF Judged, FoundBy, Behind, Indispensable
<1>11. lacking \in SUBSET Feature /\ results \in SUBSET [id : ID, status : Status]
    BY <1>7 DEF Feature, Probed
<1>12. QED
    BY <1>2, <1>9, <1>10, <1>11, CheckKeepsInv

LEMMA SyscallsKeepsInv ==
    ASSUME HostInv, checkSyscalls
    PROVE  HostInv'
<1>1. CASE Check("syscalls", {}, {}, {Result("host.syscalls", "skip")})
    <2>1. "host.syscalls" \in ID /\ "skip" \in Status
        BY DEF ID, Status
    <2>2. QED
        BY <1>1, <2>1, ResultForm, MildCheckKeepsInv DEF Check
<1>2. ASSUME NEW lacking \in {{}, {"seccomp"}}, NEW hidden \in {{}, {"status"}},
             NEW uring \in BOOLEAN, NEW fault \in BOOLEAN,
             Check("syscalls", lacking, hidden,
                   {Rate("host.io_uring", uring), Rate("host.userfaultfd", fault),
                    Judge("host.seccomp", hidden = {} /\ lacking = {})})
      PROVE  HostInv'
    <2> DEFINE good    == hidden = {} /\ lacking = {}
               results == {Rate("host.io_uring", uring), Rate("host.userfaultfd", fault),
                           Judge("host.seccomp", good)}
    <2>1. AnyCheck("syscalls", lacking, {}, hidden, results)
        BY <1>2 DEF Check
    <2>2. good \in BOOLEAN /\ (good <=> hidden = {} /\ lacking = {})
        OBVIOUS
    <2>3. "host.io_uring" \in ID /\ "host.userfaultfd" \in ID /\ "host.seccomp" \in ID
        BY DEF ID
    <2> HIDE DEF good
    <2>4. /\ Judge("host.seccomp", good) \in [id : ID, status : Status]
          /\ Judge("host.seccomp", good).id = "host.seccomp"
          /\ Judge("host.seccomp", good).status = "fail" <=> ~good
        BY <2>2, <2>3, JudgeForm
    <2>5. \A r \in results : /\ r \in [id : ID, status : Status]
                             /\ r.status = "fail" => r.id = "host.seccomp" /\ ~good
        BY <2>3, <2>4, RateForm
    <2>6. ~good => "host.seccomp" \in Failing(results)
        BY <2>4 DEF Failing
    <2> HIDE DEF results
    <2>7. \A r \in results : r.status = "fail" =>
                Explained(r.id, lacks \cup lacking, unbuilt \cup {}, hides \cup hidden)
        BY <2>2, <2>5 DEF Explained, Cause
    <2>8. \A f \in lacking \cap Indispensable : Judged(f, Failing(results), hidden)
        BY <2>2, <2>6 DEF Judged, FoundBy, Behind, Indispensable
    <2>9. /\ lacking \in SUBSET Feature /\ hidden \in SUBSET File
          /\ {} \in SUBSET Option /\ results \in SUBSET [id : ID, status : Status]
        BY <2>5 DEF Feature, File
    <2>10. QED
        BY <2>1, <2>7, <2>8, <2>9, CheckKeepsInv
<1>3. QED
    BY <1>1, <1>2 DEF checkSyscalls

LEMMA CgroupsKeepsInv ==
    ASSUME HostInv, checkCgroups
    PROVE  HostInv'
<1>1. PICK lacking \in {{}, {"cgroups"}}, controllers \in BOOLEAN :
        \E fs \in IF lacking = {} THEN {"none", "other", "cgroup2"} ELSE {"none", "other"} :
            Check("cgroups", lacking, IF fs = "none" /\ lacking = {} THEN {"cgroup"} ELSE {},
                  {IF CgroupFails(fs) THEN Result("host.cgroups", "fail")
                   ELSE Rate("host.cgroups", fs = "cgroup2" /\ controllers)})
    BY DEF checkCgroups
<1>2. PICK fs \in {"none", "other", "cgroup2"} :
        Check("cgroups", lacking, IF fs = "none" /\ lacking = {} THEN {"cgroup"} ELSE {},
              {IF CgroupFails(fs) THEN Result("host.cgroups", "fail")
               ELSE Rate("host.cgroups", fs = "cgroup2" /\ controllers)})
    BY <1>1
<1> DEFINE hidden  == IF fs = "none" /\ lacking = {} THEN {"cgroup"} ELSE {}
           good    == fs = "cgroup2" /\ controllers
           result  == IF CgroupFails(fs) THEN Result("host.cgroups", "fail")
                      ELSE Rate("host.cgroups", good)
<1>3. AnyCheck("cgroups", lacking, {}, hidden, {result})
    BY <1>2 DEF Check
<1>4. "host.cgroups" \in ID /\ "fail" \in Status
    BY DEF ID, Status
<1>5. good \in BOOLEAN
    OBVIOUS
<1>6. /\ hidden \in SUBSET {"cgroup"}
      /\ CgroupFails(fs) => "cgroups" \in lacking \/ "cgroup" \in hidden
    BY DEF CgroupFails
<1> HIDE DEF good, hidden
<1>7. /\ result \in [id : ID, status : Status]
      /\ result.status = "fail" => result.id = "host.cgroups" /\ CgroupFails(fs)
    <2>1. CASE CgroupFails(fs)
        BY <2>1, <1>4, ResultForm
    <2>2. CASE ~CgroupFails(fs)
        BY <2>2, <1>4, <1>5, RateForm
    <2>3. QED
        BY <2>1, <2>2
<1> HIDE DEF result
<1>8. \A r \in {result} : r.status = "fail" =>
            Explained(r.id, lacks \cup lacking, unbuilt \cup {}, hides \cup hidden)
    BY <1>6, <1>7 DEF Explained, Cause
<1>9. /\ lacking \in SUBSET Feature /\ hidden \in SUBSET File
      /\ {} \in SUBSET Option /\ {result} \in SUBSET [id : ID, status : Status]
    BY <1>6, <1>7 DEF Feature, Probed, File
<1>10. \A f \in lacking \cap Indispensable : Judged(f, Failing({result}), hidden)
    BY DEF Indispensable
<1> DEFINE results == {result}
<1>11. /\ AnyCheck("cgroups", lacking, {}, hidden, results)
       /\ \A r \in results : r.status = "fail" =>
            Explained(r.id, lacks \cup lacking, unbuilt \cup {}, hides \cup hidden)
       /\ \A f \in lacking \cap Indispensable : Judged(f, Failing(results), hidden)
       /\ results \in SUBSET [id : ID, status : Status]
    BY <1>3, <1>8, <1>9, <1>10
<1> HIDE DEF results
<1>12. QED
    BY <1>9, <1>11, CheckKeepsInv

LEMMA ConfigKeepsInv ==
    ASSUME HostInv, checkHostKernelConfig
    PROVE  HostInv'
<1>1. /\ "host.kernel_config" \in ID /\ "host.kernel_config.vendor_kvm" \in ID
      /\ "host.kernel_config.optional" \in ID /\ {"skip", "pass", "warn"} \subseteq Status
    BY DEF ID, Status
<1>2. CASE Check("config", {}, {"config"}, {Result("host.kernel_config", "skip")})
    BY <1>1, <1>2, ResultForm, MildCheckKeepsInv DEF Check, File
<1>3. ASSUME NEW absent \in SUBSET (Option \ Built),
             AnyCheck("config", {}, absent, {},
                 {Judge("host.kernel_config", MissingRequired(absent) = {})}
                 \cup (IF arch = "amd64" /\ "vendor" \notin absent
                       THEN {Result("host.kernel_config.vendor_kvm", "pass")} ELSE {})
                 \cup (IF "optional" \in absent
                       THEN {Result("host.kernel_config.optional", "warn")} ELSE {}))
      PROVE  HostInv'
    <2> DEFINE good    == MissingRequired(absent) = {}
               vendor  == IF arch = "amd64" /\ "vendor" \notin absent
                          THEN {Result("host.kernel_config.vendor_kvm", "pass")} ELSE {}
               extra   == IF "optional" \in absent
                          THEN {Result("host.kernel_config.optional", "warn")} ELSE {}
               results == {Judge("host.kernel_config", good)} \cup vendor \cup extra
    <2>1. AnyCheck("config", {}, absent, {}, results)
        BY <1>3
    <2>2. /\ good \in BOOLEAN
          /\ ~good => absent \cap (Required \cup {"vendor"}) # {}
        BY DEF MissingRequired
    <2>3. \A r \in vendor \cup extra : r \in [id : ID, status : Status] /\ r.status # "fail"
        BY <1>1, ResultForm
    <2> HIDE DEF good, vendor, extra
    <2>4. /\ Judge("host.kernel_config", good) \in [id : ID, status : Status]
          /\ Judge("host.kernel_config", good).id = "host.kernel_config"
          /\ Judge("host.kernel_config", good).status = "fail" <=> ~good
        BY <1>1, <2>2, JudgeForm
    <2>5. \A r \in results : /\ r \in [id : ID, status : Status]
                             /\ r.status = "fail" => r.id = "host.kernel_config" /\ ~good
        BY <2>3, <2>4
    <2> HIDE DEF results
    <2>6. \A r \in results : r.status = "fail" =>
                Explained(r.id, lacks \cup {}, unbuilt \cup absent, hides \cup {})
        BY <2>2, <2>5 DEF Explained
    <2>7. absent \in SUBSET Option /\ results \in SUBSET [id : ID, status : Status]
        BY <2>5
    <2>8. QED
        BY <2>1, <2>6, <2>7, CheckKeepsInv
<1>4. QED
    BY <1>2, <1>3 DEF checkHostKernelConfig

-----------------------------------------------------------------------------

LEMMA HostInvInit ==
    ASSUME Init
    PROVE  HostInv
<1>1. Len(Checks) = 12
    BY DEF Checks
<1>2. QED
    BY <1>1 DEF Init, HostInv, TypeOK

LEMMA HostInvNext ==
    ASSUME HostInv, [Next]_vars
    PROVE  HostInv'
<1>1. CASE UNCHANGED vars
    BY <1>1 DEF vars, HostInv, TypeOK, Explained, Judged
<1>2. CASE Done
    BY <1>1, <1>2 DEF Done
<1>3. QED
    BY <1>1, <1>2, PlatformKeepsInv, VirtKeepsInv, CPUKeepsInv, KVMKeepsInv, TuningKeepsInv,
       DevicesKeepsInv, SyscallsKeepsInv, FirewallKeepsInv, CgroupsKeepsInv, MemoryKeepsInv,
       ConfigKeepsInv
    DEF Next

THEOREM HostInvariant == Spec => []HostInv
<1>1. Init => HostInv
    BY HostInvInit
<1>2. HostInv /\ [Next]_vars => HostInv'
    BY HostInvNext
<1>3. QED
    BY <1>1, <1>2, PTL DEF Spec

\* Every result of every check has an id and a status of the report's.
THEOREM TypeCorrect == Spec => []TypeOK
<1>1. HostInv => TypeOK
    BY DEF HostInv
<1>2. QED
    BY <1>1, HostInvariant, PTL

\* No check fails a host for what it has and shows.
THEOREM FailuresAreReal == Spec => []FailureNamesALack
<1>1. HostInv => FailureNamesALack
    BY DEF HostInv, FailureNamesALack, Explained
<1>2. QED
    BY <1>1, HostInvariant, PTL

\* What Firecracker cannot do without never passes a whole preflight unfailed.
THEOREM LacksAreCaught == Spec => []LackIsFailed
<1>1. HostInv => LackIsFailed
    BY DEF HostInv, LackIsFailed, Judged, Indispensable
<1>2. QED
    BY <1>1, HostInvariant, PTL

===============================================================================
