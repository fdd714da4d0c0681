------------------------------ MODULE RunProofs ------------------------------
(***************************************************************************)
(* Proofs about Run, for any number of microVMs and a report of any        *)
(* length.                                                                 *)
(***************************************************************************)
EXTENDS Run, SequenceTheorems, TLAPS

USE NAssumption

-----------------------------------------------------------------------------
(* A report only grows.                                                    *)

\* Appending to a report keeps what is there and where it is.
LEMMA Grows ==
    ASSUME NEW s \in Seq(Entry), NEW t \in Seq(Entry)
    PROVE  /\ s \o t \in Seq(Entry)
           /\ Len(s \o t) = Len(s) + Len(t)
           /\ \A j \in 1 .. Len(s) : (s \o t)[j] = s[j]
           /\ \A j \in 1 .. Len(t) : (s \o t)[Len(s) + j] = t[j]
  OBVIOUS

\* What each action does to the report, said once: it adds a list of entries.
Extends(t) == t \in Seq(Entry) /\ results' = results \o t

\* One entry is a report.
LEMMA Single ==
    ASSUME NEW e \in Entry
    PROVE  <<e>> \in Seq(Entry)
  OBVIOUS

\* Report.Add extends the report.
LEMMA AddExtends ==
    ASSUME TypeOK, NEW id \in CheckID, NEW status \in Status, Add(id, status)
    PROVE  Extends(<<Result(id, status)>>)
<1>1. Result(id, status) \in Entry
  BY DEF Result, Entry
<1>2. results \in Seq(Entry)
  BY DEF TypeOK
<1>3. Append(results, Result(id, status)) = results \o <<Result(id, status)>>
  BY <1>1, <1>2, AppendIsConcat
<1>4. <<Result(id, status)>> \in Seq(Entry)
  BY <1>1, Single
<1> QED
  BY <1>3, <1>4 DEF Extends, Add

\* A result that was recorded stays recorded.
LEMMA HasSticks ==
    ASSUME TypeOK, NEW t, Extends(t), NEW id, NEW status, Has(id, status)
    PROVE  Has(id, status)'
<1>1. results \in Seq(Entry)
  BY DEF TypeOK
<1>2. PICK j \in 1 .. Len(results) : results[j] = Result(id, status)
  BY DEF Has
<1>3. /\ Len(results') = Len(results) + Len(t) /\ Len(t) \in Nat /\ Len(results) \in Nat
      /\ results'[j] = results[j]
  BY <1>1, <1>2, Grows DEF Extends
<1> QED
  BY <1>2, <1>3 DEF Has, Result

\* A blocking failure that was recorded stays recorded.
LEMMA BlockingSticks ==
    ASSUME TypeOK, NEW t, Extends(t), hasBlockingKVMFailure
    PROVE  hasBlockingKVMFailure'
<1>1. results \in Seq(Entry)
  BY DEF TypeOK
<1>2. PICK j \in 1 .. Len(results) :
         results[j].status \in {"fail", "blocked"} /\ results[j].id \in BlockingIDs
  BY DEF hasBlockingKVMFailure
<1>3. /\ Len(results') = Len(results) + Len(t) /\ Len(t) \in Nat /\ Len(results) \in Nat
      /\ results'[j] = results[j]
  BY <1>1, <1>2, Grows DEF Extends
<1> QED
  BY <1>2, <1>3 DEF hasBlockingKVMFailure

\* Results that are none of the ladder's do not block.
LEMMA NotBlockingSticks ==
    ASSUME TypeOK, NEW t, Extends(t), ~hasBlockingKVMFailure,
           \A j \in 1 .. Len(t) : t[j].id \notin BlockingIDs
    PROVE  ~hasBlockingKVMFailure'
<1>1. results \in Seq(Entry)
  BY DEF TypeOK
<1>2. SUFFICES ASSUME NEW j \in 1 .. Len(results'),
                      results'[j].status \in {"fail", "blocked"}, results'[j].id \in BlockingIDs
               PROVE  FALSE
  BY DEF hasBlockingKVMFailure
<1>3. Len(results') = Len(results) + Len(t) /\ Len(t) \in Nat /\ Len(results) \in Nat
  BY <1>1, Grows DEF Extends
<1>4. CASE j <= Len(results)
  <2>1. j \in 1 .. Len(results) BY <1>3, <1>4
  <2>2. results'[j] = results[j] BY <1>1, <2>1, Grows DEF Extends
  <2> QED BY <1>2, <2>1, <2>2 DEF hasBlockingKVMFailure
<1>5. CASE j > Len(results)
  <2>1. PICK l \in 1 .. Len(t) : j = Len(results) + l
    <3>1. j - Len(results) \in 1 .. Len(t) /\ j = Len(results) + (j - Len(results)) BY <1>3, <1>5
    <3> QED BY <3>1
  <2>2. results'[j] = t[l] BY <1>1, <2>1, Grows DEF Extends
  <2> QED BY <1>2, <2>1, <2>2
<1> QED
  BY <1>3, <1>4, <1>5

\* A rung that was climbed, or stopped at, stays so.
LEMMA ClimbedSticks ==
    ASSUME TypeOK, NEW t, Extends(t), NEW r \in 1 .. 6, Climbed(r)
    PROVE  Climbed(r)'
  BY HasSticks, BlockingSticks DEF Climbed

\* And so does the whole ladder.
LEMMA ProvenSticks ==
    ASSUME TypeOK, NEW t, Extends(t), Proven
    PROVE  Proven'
<1>1. ASSUME NEW r \in 1 .. 6 PROVE Climbed(r)'
  BY <1>1, ClimbedSticks DEF Proven
<1> QED
  BY <1>1 DEF Proven

\* The ladder's checks and the boot stage's, told apart.
LEMMA IDFacts ==
    /\ Len(Rungs) = 6
    /\ Rungs[1] = "kvm.device" /\ Rungs[2] = "kvm.open" /\ Rungs[3] = "kvm.api_version"
    /\ Rungs[4] = "kvm.caps.required" /\ Rungs[5] = "kvm.create_vm" /\ Rungs[6] = "kvm.create_vcpu"
    /\ \A r \in 1 .. 6 : Rungs[r] \in BlockingIDs
    /\ "host.cpu_virt" \in BlockingIDs
    /\ BlockingIDs \subseteq CheckID /\ BootIDs \subseteq CheckID
    /\ BootIDs \cap BlockingIDs = {}
    /\ {"host.platform", "host.rest", "kvm.arch", "kvm.cap"} \subseteq CheckID
<1>1. /\ Len(Rungs) = 6
      /\ Rungs[1] = "kvm.device" /\ Rungs[2] = "kvm.open" /\ Rungs[3] = "kvm.api_version"
      /\ Rungs[4] = "kvm.caps.required" /\ Rungs[5] = "kvm.create_vm" /\ Rungs[6] = "kvm.create_vcpu"
  BY DEF Rungs
<1>2. \A r \in 1 .. 6 : Rungs[r] \in BlockingIDs
  BY DEF BlockingIDs
<1>3. "host.cpu_virt" \in BlockingIDs
  BY DEF BlockingIDs
<1>4. BootIDs \cap BlockingIDs = {}
  <2>1. BlockingIDs = {"kvm.device", "kvm.open", "kvm.api_version", "kvm.caps.required",
                       "kvm.create_vm", "kvm.create_vcpu", "host.cpu_virt"}
    <3>1. \A j \in 1 .. 6 : j = 1 \/ j = 2 \/ j = 3 \/ j = 4 \/ j = 5 \/ j = 6
      OBVIOUS
    <3> QED BY <1>1, <3>1 DEF BlockingIDs
  <2> QED BY <2>1 DEF BootIDs
<1> QED
  BY <1>1, <1>2, <1>3, <1>4 DEF CheckID

-----------------------------------------------------------------------------
(* Types.                                                                  *)

\* The report and Finish's index keep their types while it grows.
LEMMA GrowingKeepsType ==
    ASSUME TypeOK, NEW t, Extends(t)
    PROVE  results' \in Seq(Entry) /\ k \in 0 .. Len(results')
<1>1. results \in Seq(Entry) /\ k \in 0 .. Len(results)
  BY DEF TypeOK
<1>2. /\ results' \in Seq(Entry)
      /\ Len(results') = Len(results) + Len(t) /\ Len(t) \in Nat /\ Len(results) \in Nat
  BY <1>1, Grows DEF Extends
<1> QED
  BY <1>1, <1>2

\* A gate of the boot stage records one result and goes on or stops.
LEMMA GateExtends ==
    ASSUME TypeOK, NEW at, NEW id \in CheckID, NEW going \in SUBSET Status,
           NEW stopping \in SUBSET Status, NEW next, BootGate(at, id, going, stopping, next)
    PROVE  \E status \in Status :
              /\ Extends(<<Result(id, status)>>)
              /\ pc' = next \/ pc' = "finish"
<1>1. PICK status \in Status : Add(id, status) /\ (pc' = next \/ pc' = "finish")
  BY DEF BootGate
<1>2. Extends(<<Result(id, status)>>)
  BY <1>1, AddExtends
<1> QED
  BY <1>1, <1>2

\* The gates of runBootStage, all at once.
AnyBootGate == BootPrivileges \/ BootKernel \/ LocateSelf \/ CheckLinkage \/ ReadSelf

\* The same of all the gates together, and what passing them shows.
LEMMA GatesExtend ==
    ASSUME TypeOK, AnyBootGate
    PROVE  /\ pc \in BootPC
           /\ \E id \in BootIDs, status \in Status : Extends(<<Result(id, status)>>)
           /\ \/ pc' = "finish"
              \/ pc = "boot" /\ pc' = "kernel" /\ root /\ arch # "other"
              \/ pc # "boot" /\ pc' \in BootPC \ {"boot"}
           /\ Quiet /\ rung' = rung
<1> USE IDFacts DEF BootIDs
<1>1. CASE BootPrivileges
  <2> USE <1>1 DEF BootPrivileges
  <2>1. CASE ~root
    <3>1. BootGate("boot", "boot.privileges", {}, {"blocked"}, "finish")
      BY <2>1
    <3>2. \E status \in Status : Extends(<<Result("boot.privileges", status)>>) /\ pc' = "finish"
      BY <3>1, GateExtends DEF Status
    <3> QED BY <3>1, <3>2 DEF BootGate, BootPC
  <2>2. CASE root /\ arch = "other"
    <3>1. BootGate("boot", "boot.arch", {}, {"skip"}, "finish")
      BY <2>2
    <3>2. \E status \in Status : Extends(<<Result("boot.arch", status)>>) /\ pc' = "finish"
      BY <3>1, GateExtends DEF Status
    <3> QED BY <3>1, <3>2 DEF BootGate, BootPC
  <2>3. CASE root /\ arch # "other"
    <3>1. BootGate("boot", "boot.firecracker", {"info", "pass"}, {"fail"}, "kernel")
      BY <2>3
    <3>2. \E status \in Status : Extends(<<Result("boot.firecracker", status)>>)
                               /\ (pc' = "kernel" \/ pc' = "finish")
      BY <3>1, GateExtends DEF Status
    <3> QED BY <2>3, <3>1, <3>2 DEF BootGate, BootPC
  <2> QED BY <2>1, <2>2, <2>3
<1>2. CASE BootKernel
  <2>1. \E status \in Status : Extends(<<Result("boot.kernel", status)>>)
                             /\ (pc' = "self" \/ pc' = "finish")
    BY <1>2, GateExtends DEF BootKernel, Status
  <2> QED BY <1>2, <2>1 DEF BootKernel, BootGate, BootPC
<1>3. CASE LocateSelf
  <2>1. \E status \in Status : Extends(<<Result("boot.initramfs", status)>>) /\ pc' = "finish"
    BY <1>3, GateExtends DEF LocateSelf, Status
  <2> QED BY <1>3, <2>1 DEF LocateSelf, BootGate, BootPC
<1>4. CASE CheckLinkage
  <2>1. \E status \in Status : Extends(<<Result("boot.initramfs.linkage", status)>>)
                             /\ (pc' = "read" \/ pc' = "finish")
    BY <1>4, GateExtends DEF CheckLinkage, Status
  <2> QED BY <1>4, <2>1 DEF CheckLinkage, BootGate, BootPC
<1>5. CASE ReadSelf
  <2>1. \E status \in Status : Extends(<<Result("boot.initramfs", status)>>) /\ pc' = "finish"
    BY <1>5, GateExtends DEF ReadSelf, Status
  <2> QED BY <1>5, <2>1 DEF ReadSelf, BootGate, BootPC
<1> QED
  BY <1>1, <1>2, <1>3, <1>4, <1>5 DEF AnyBootGate

\* What was appended is in the report.
LEMMA Added ==
    ASSUME TypeOK, NEW t, Extends(t), NEW j \in 1 .. Len(t)
    PROVE  \E l \in 1 .. Len(results') : results'[l] = t[j]
<1>1. results \in Seq(Entry) /\ t \in Seq(Entry)
  BY DEF TypeOK, Extends
<1>2. /\ Len(results') = Len(results) + Len(t) /\ Len(t) \in Nat /\ Len(results) \in Nat
      /\ results'[Len(results) + j] = t[j]
  BY <1>1, Grows DEF Extends
<1>3. Len(results) + j \in 1 .. Len(results')
  BY <1>2
<1> QED
  BY <1>2, <1>3

\* Whatever a rung finds, what comes after knows of it.
LEMMA RungExtends ==
    ASSUME TypeOK, checkKVM
    PROVE  /\ \E t : Extends(t)
           /\ \A r : r = rung => Climbed(r)'
           /\ \/ rung < 6 /\ rung' = rung + 1 /\ pc' = "kvm"
              \/ rung' = rung /\ pc' = "rest" /\ (rung = 6 \/ hasBlockingKVMFailure')
<1>1. results \in Seq(Entry) /\ rung \in 1 .. 6
  BY DEF TypeOK
<1>2. PICK status \in RungStatus, notes \in Notes :
         /\ results' = results \o notes \o <<Result(Rungs[rung], status)>>
         /\ IF (status = "pass" \/ Rungs[rung] = "kvm.caps.required") /\ MoreRungs
            THEN rung' = rung + 1 /\ pc' = pc
            ELSE pc' = "rest" /\ rung' = rung
  BY DEF checkKVM
<1> DEFINE new == Result(Rungs[rung], status)
           t == notes \o <<new>>
<1>3. status \in {"pass", "fail", "blocked"}
  BY DEF RungStatus
<1>4. new \in Entry /\ new.id = Rungs[rung] /\ new.status = status
  <2>1. Rungs[rung] \in CheckID BY <1>1, IDFacts
  <2> QED BY <1>3, <2>1 DEF Result, Entry, Status
<1>5. notes \in Seq(Entry)
  <2>1. Result("kvm.cap", "warn") \in Entry BY IDFacts DEF Result, Entry, Status
  <2>2. <<Result("kvm.cap", "warn")>> \in Seq(Entry) BY <2>1, Single
  <2>3. notes = <<>> \/ notes = <<Result("kvm.cap", "warn")>> BY DEF Notes
  <2>4. <<>> \in Seq(Entry) OBVIOUS
  <2> QED BY <2>2, <2>3, <2>4
<1>6. <<new>> \in Seq(Entry) /\ Len(<<new>>) = 1 /\ <<new>>[1] = new
  BY <1>4, Single
<1> HIDE DEF new
<1>7. /\ t \in Seq(Entry) /\ Len(t) = Len(notes) + 1 /\ Len(notes) \in Nat
      /\ t[Len(notes) + 1] = new
  BY <1>5, <1>6, Grows
<1>8. Extends(t)
  <2>1. (results \o notes) \o <<new>> = results \o (notes \o <<new>>)
    BY <1>1, <1>5, <1>6, ConcatAssociative
  <2>2. results' = (results \o notes) \o <<new>> BY <1>2 DEF new
  <2>3. results' = results \o t BY <2>1, <2>2
  <2>4. t \in Seq(Entry) BY <1>7
  <2> HIDE DEF t
  <2> QED BY <2>3, <2>4 DEF Extends
<1> HIDE DEF t
<1>9. PICK l \in 1 .. Len(results') : results'[l] = new
  <2>1. Len(notes) + 1 \in 1 .. Len(t) BY <1>7
  <2> QED BY <1>7, <1>8, <2>1, Added
<1>10. CASE status = "pass"
  <2>1. \A r : r = rung => Has(Rungs[r], "pass")'
    BY <1>9, <1>10 DEF Has, new, Result
  <2> QED BY <1>1, <1>2, <1>8, <1>10, <2>1, IDFacts DEF MoreRungs, checkKVM, Climbed
<1>11. CASE status # "pass"
  <2>1. hasBlockingKVMFailure'
    <3>1. Rungs[rung] \in BlockingIDs BY <1>1, IDFacts
    <3> QED BY <1>3, <1>4, <1>9, <1>11, <3>1 DEF hasBlockingKVMFailure
  <2> QED BY <1>1, <1>2, <1>8, <1>11, <2>1, IDFacts DEF MoreRungs, checkKVM, Climbed
<1> QED
  BY <1>10, <1>11

\* Report.Add records the status it is given.
LEMMA AddRecords ==
    ASSUME TypeOK, NEW id \in CheckID, NEW status \in Status, Add(id, status)
    PROVE  Some(status)'
<1>1. Extends(<<Result(id, status)>>)
  BY AddExtends
<1>2. Len(<<Result(id, status)>>) = 1 /\ <<Result(id, status)>>[1] = Result(id, status)
  OBVIOUS
<1>3. PICK l \in 1 .. Len(results') : results'[l] = Result(id, status)
  BY <1>1, <1>2, Added
<1> QED
  BY <1>3 DEF Some, Result

\* The working directory and the initramfs add one result, whichever way they go.
LEMMA PrepareExtends ==
    ASSUME TypeOK, PrepareBoot
    PROVE  /\ pc = "read" /\ UNCHANGED <<invocation, rung, finishVars, endVars>>
           /\ \E id \in BootIDs, status \in Status : Extends(<<Result(id, status)>>)
           /\ \/ pc' = "vms" /\ UNCHANGED bootVars
              \/ pc' = "finish" /\ Boot!GiveUp /\ Some("fail")'
<1>1. BootIDs \subseteq CheckID
  BY IDFacts
<1>2. CASE pc' = "vms"
  <2>1. Add("boot.initramfs", "pass") /\ UNCHANGED bootVars BY <1>2 DEF PrepareBoot
  <2>2. Extends(<<Result("boot.initramfs", "pass")>>)
    BY <1>1, <2>1, AddExtends DEF BootIDs, Status
  <2> QED BY <1>2, <2>1, <2>2 DEF PrepareBoot, BootIDs, Status
<1>3. CASE pc' = "finish"
  <2>1. PICK id \in {"boot.workdir", "boot.initramfs"} : Add(id, "fail") /\ Boot!GiveUp
    BY <1>3 DEF PrepareBoot
  <2>2. id \in BootIDs /\ id \in CheckID BY <1>1 DEF BootIDs
  <2>3. Extends(<<Result(id, "fail")>>) BY <2>1, <2>2, AddExtends DEF Status
  <2>4. Some("fail")' BY <2>1, <2>2, AddRecords DEF Status
  <2> QED BY <1>3, <2>1, <2>2, <2>3, <2>4 DEF PrepareBoot, Status
<1> QED
  BY <1>2, <1>3 DEF PrepareBoot

\* judgeOutcomes extends the report, and may panic when it has.
LEMMA JudgeExtends ==
    ASSUME TypeOK, Judge
    PROVE  /\ pc = "vms" /\ UNCHANGED <<invocation, rung, finishVars, rendered, json, bootVars>>
           /\ \E t : Extends(t)
           /\ \/ pc' = "finish" /\ exit' = exit
              \/ pc' = "exited" /\ exit' = 2
<1>1. \A id \in BootIDs, status \in Status : Result(id, status) \in Entry
  BY IDFacts DEF Result, Entry
<1>2. ASSUME NEW status \in Status, Add("boot.launch", status) PROVE \E t : Extends(t)
  <2>1. "boot.launch" \in CheckID BY IDFacts DEF BootIDs
  <2>2. Extends(<<Result("boot.launch", status)>>) BY <1>2, <2>1, AddExtends
  <2> QED BY <2>2
<1>3. pc = "vms" /\ UNCHANGED <<invocation, rung, finishVars, rendered, json, bootVars>>
  BY DEF Judge
<1> DEFINE Ends == \/ pc' = "finish" /\ exit' = exit
                   \/ pc' = "exited" /\ exit' = 2
<1>4. ASSUME launched = "fail" PROVE Ends /\ \E t : Extends(t)
  <2>1. Add("boot.launch", "fail") /\ pc' = "finish" /\ exit' = exit BY <1>4 DEF Judge
  <2>2. \E t : Extends(t) BY <1>2, <2>1 DEF Status
  <2> QED BY <2>1, <2>2
<1>5. ASSUME launched = "pass", N = 0 PROVE Ends /\ \E t : Extends(t)
  <2>1. Add("boot.launch", "pass") /\ pc' = "exited" /\ exit' = 2 BY <1>5 DEF Judge
  <2>2. \E t : Extends(t) BY <1>2, <2>1 DEF Status
  <2> QED BY <2>1, <2>2
<1>6. ASSUME launched = "pass", N # 0 PROVE Ends /\ \E t : Extends(t)
  <2>1. PICK virtio \in {"pass", "fail"}, network \in {"pass", "fail"} :
           results' = results \o <<Result("boot.launch", "pass"), Result("boot.virtio", virtio),
                                   Result("boot.network", network)>>
    BY <1>6 DEF Judge
  <2> DEFINE c == Result("boot.launch", "pass")
             v == Result("boot.virtio", virtio)
             w == Result("boot.network", network)
  <2>2. c \in Entry /\ v \in Entry /\ w \in Entry
    BY <1>1 DEF BootIDs, Status
  <2>3. results' = results \o <<c, v, w>> BY <2>1
  <2>4. pc' = "finish" /\ exit' = exit BY <1>6 DEF Judge
  <2> HIDE DEF c, v, w
  <2>5. <<c, v, w>> \in Seq(Entry) BY <2>2
  <2>6. Extends(<<c, v, w>>) BY <2>3, <2>5 DEF Extends
  <2> QED BY <2>4, <2>6
<1>7. Ends /\ \E t : Extends(t)
  BY <1>4, <1>5, <1>6 DEF Judge
<1> QED
  BY <1>3, <1>7

\* The checks of the preflight and the gate behind it that add one result.
LEMMA OneExtends ==
    ASSUME TypeOK
    PROVE  /\ checkPlatform => \E t : Extends(t)
           /\ checkCPUVirtExtensions => \E t : Extends(t)
           /\ UnknownArch => \E t : Extends(t)
           /\ RestOfPreflight => \E t : Extends(t)
           /\ Gate => \/ results' = results
                      \/ Extends(<<Result("boot.skipped", "skip")>>)
<1> USE IDFacts, AddExtends DEF Status
<1>1. checkPlatform => \E t : Extends(t)
  BY DEF checkPlatform
<1>2. checkCPUVirtExtensions => \E t : Extends(t)
  BY DEF checkCPUVirtExtensions
<1>3. UnknownArch => \E t : Extends(t)
  BY DEF UnknownArch
<1>4. RestOfPreflight => \E t : Extends(t)
  BY DEF RestOfPreflight
<1>5. Gate => results' = results \/ Extends(<<Result("boot.skipped", "skip")>>)
  BY DEF Gate, BootIDs
<1> QED
  BY <1>1, <1>2, <1>3, <1>4, <1>5

\* BootPromise's steps keep its own types.
LEMMA TypeBoot ==
    ASSUME Boot!TypeOK, Boot!Next
    PROVE  Boot!TypeOK'
<1>1. CASE Boot!Decide
  BY <1>1 DEF Boot!Decide, Boot!TypeOK
<1>2. CASE Boot!GiveUp
  BY <1>2 DEF Boot!GiveUp, Boot!TypeOK
<1>3. CASE \E i \in VM : Boot!Settle(i)
  BY <1>3 DEF Boot!Settle, Boot!TypeOK
<1> QED
  BY <1>1, <1>2, <1>3 DEF Boot!Next

\* The types hold after every step.
LEMMA TypeStep ==
    ASSUME TypeOK, [Next]_vars
    PROVE  TypeOK'
<1> USE DEF invocation, finishVars, endVars, bootVars, Boot!TypeOK
<1>1. CASE ParseArgs
  BY <1>1 DEF ParseArgs, TypeOK, PC
<1>2. ASSUME \E t : Extends(t), pc' \in PC, rung' \in 1 .. 6, Quiet
      PROVE  TypeOK'
  BY <1>2, GrowingKeepsType DEF Quiet, TypeOK
<1>3. CASE checkPlatform
  BY <1>2, <1>3, OneExtends DEF checkPlatform, TypeOK, PC
<1>4. CASE checkCPUVirtExtensions
  BY <1>2, <1>4, OneExtends DEF checkCPUVirtExtensions, TypeOK, PC
<1>5. CASE UnknownArch
  BY <1>2, <1>5, OneExtends DEF UnknownArch, TypeOK, PC
<1>6. CASE checkKVM
  <2>1. pc' \in PC /\ rung' \in 1 .. 6 BY <1>6, RungExtends DEF TypeOK, PC
  <2>2. Quiet BY <1>6 DEF checkKVM
  <2> QED BY <1>2, <1>6, <2>1, <2>2, RungExtends
<1>7. CASE RestOfPreflight
  <2>1. pc' \in PC /\ rung' \in 1 .. 6 /\ Quiet BY <1>7 DEF RestOfPreflight, TypeOK, PC
  <2> QED BY <1>2, <1>7, <2>1, OneExtends
<1>8. CASE Gate
  <2>1. pc' \in PC /\ rung' \in 1 .. 6 /\ Quiet BY <1>8 DEF Gate, TypeOK, PC
  <2>2. CASE results' = results BY <2>1, <2>2 DEF Quiet, TypeOK
  <2> QED BY <1>2, <1>8, <2>1, <2>2, OneExtends
<1>9. CASE AnyBootGate
  <2>1. pc' \in PC /\ rung' \in 1 .. 6 /\ Quiet
    BY <1>9, GatesExtend DEF TypeOK, PC, BootPC
  <2>2. \E t : Extends(t) BY <1>9, GatesExtend
  <2> QED BY <1>2, <2>1, <2>2
<1>10. CASE PrepareBoot
  <2>1. results' \in Seq(Entry) /\ k \in 0 .. Len(results')
    BY <1>10, PrepareExtends, GrowingKeepsType
  <2>2. Boot!TypeOK' BY <1>10, PrepareExtends, TypeBoot DEF Boot!Next, TypeOK
  <2> QED BY <1>10, <2>1, <2>2, PrepareExtends DEF TypeOK, PC
<1>11. CASE BootVMs
  <2>1. Boot!TypeOK' BY <1>11, TypeBoot DEF BootVMs, Boot!Next, TypeOK
  <2> QED BY <1>11, <2>1 DEF BootVMs, TypeOK
<1>12. CASE Judge
  <2>1. results' \in Seq(Entry) /\ k \in 0 .. Len(results')
    BY <1>12, JudgeExtends, GrowingKeepsType DEF TypeOK
  <2> QED BY <1>12, <2>1, JudgeExtends DEF TypeOK, PC
<1>13. CASE FinishStep
  <2>1. results \in Seq(Entry) /\ Len(results) \in Nat BY DEF TypeOK
  <2>2. k' \in 0 .. Len(results') BY <1>13, <2>1 DEF FinishStep, TypeOK
  <2> QED BY <1>13, <2>1, <2>2 DEF FinishStep, VerdictAfter, TypeOK
<1>14. CASE FinishAndRender
  BY <1>14 DEF FinishAndRender, TypeOK, PC
<1>15. CASE WriteJSON
  BY <1>15 DEF WriteJSON, TypeOK, PC
<1>16. CASE Exit
  <2>1. exit' \in {0, 1, 3} BY <1>16 DEF Exit
  <2> QED BY <1>16, <2>1 DEF Exit, TypeOK, PC
<1>17. CASE UNCHANGED vars
  BY <1>17 DEF vars, TypeOK
<1> QED
  BY <1>1, <1>3, <1>4, <1>5, <1>6, <1>7, <1>8, <1>9, <1>10, <1>11, <1>12,
     <1>13, <1>14, <1>15, <1>16, <1>17 DEF Next, AnyBootGate, Exited

-----------------------------------------------------------------------------
(* The ladder.                                                             *)

\* What is known of the ladder depends on these variables only.
LEMMA LadderFrame ==
    ASSUME LadderInv, UNCHANGED <<results, rung, arch, root, flagStage, pc>>
    PROVE  LadderInv'
  BY DEF LadderInv, Proven, Climbed, Has, hasBlockingKVMFailure

\* The ladder, the gate and the boot stage stay in step.
LEMMA LadderStep ==
    ASSUME TypeOK, LadderInv, [Next]_vars
    PROVE  LadderInv'
<1> USE DEF invocation, BootPC
<1>1. CASE ParseArgs
  <2>1. CASE pc' = "platform" \/ pc' = "exited" BY <1>1, <2>1 DEF ParseArgs, LadderInv
  <2>2. CASE pc' = "boot" /\ flagStage = "boot" BY <1>1, <2>2 DEF ParseArgs, LadderInv
  <2> QED BY <1>1, <2>1, <2>2 DEF ParseArgs
<1>2. CASE checkPlatform
  BY <1>2 DEF checkPlatform, LadderInv
<1>3. CASE checkCPUVirtExtensions
  BY <1>3 DEF checkCPUVirtExtensions, LadderInv
<1>4. CASE UnknownArch
  BY <1>4 DEF UnknownArch, LadderInv, Quiet
<1>5. CASE checkKVM
  <2>1. pc = "kvm" /\ rung \in 1 .. 6 /\ \A r \in 1 .. rung - 1 : Climbed(r)
    BY <1>5 DEF checkKVM, LadderInv, TypeOK
  <2>2. ASSUME NEW r \in 1 .. rung PROVE Climbed(r)'
    <3>1. CASE r = rung BY <1>5, <3>1, RungExtends
    <3>2. CASE r # rung
      <4>1. r \in 1 .. rung - 1 /\ r \in 1 .. 6 BY <2>1, <3>2
      <4> QED BY <1>5, <2>1, <4>1, RungExtends, ClimbedSticks
    <3> QED BY <3>1, <3>2
  <2>3. CASE rung < 6 /\ rung' = rung + 1 /\ pc' = "kvm"
    BY <2>1, <2>2, <2>3 DEF LadderInv
  <2>4. CASE rung' = rung /\ pc' = "rest" /\ rung = 6
    BY <2>2, <2>4 DEF LadderInv, Proven
  <2>5. CASE rung' = rung /\ pc' = "rest" /\ hasBlockingKVMFailure'
    BY <2>5 DEF LadderInv, Proven, Climbed
  <2> QED BY <1>5, <2>3, <2>4, <2>5, RungExtends
<1>6. CASE RestOfPreflight
  <2>1. arch = "other" \/ Proven BY <1>6 DEF RestOfPreflight, LadderInv
  <2>2. arch = "other" \/ Proven' BY <1>6, <2>1, OneExtends, ProvenSticks
  <2> QED BY <1>6, <2>2 DEF RestOfPreflight, LadderInv, Quiet
<1>7. CASE Gate
  <2>1. arch = "other" \/ Proven BY <1>7 DEF Gate, LadderInv
  <2>2. CASE hasBlockingKVMFailure BY <1>7, <2>2 DEF Gate, LadderInv
  <2>3. CASE ~hasBlockingKVMFailure
    <3>1. results' = results /\ pc' = "boot" /\ UNCHANGED invocation BY <1>7, <2>3 DEF Gate, Quiet
    <3>2. arch = "other" \/ (Proven' /\ ~hasBlockingKVMFailure')
      BY <2>1, <2>3, <3>1 DEF Proven, Climbed, Has, hasBlockingKVMFailure
    <3> QED BY <3>1, <3>2 DEF LadderInv
  <2> QED BY <2>2, <2>3
<1>8. CASE AnyBootGate
  <2>1. PICK id \in BootIDs, status \in Status : Extends(<<Result(id, status)>>)
    BY <1>8, GatesExtend
  <2>2. pc \in BootPC /\ UNCHANGED invocation BY <1>8, GatesExtend DEF Quiet
  <2>3. \A j \in 1 .. Len(<<Result(id, status)>>) : <<Result(id, status)>>[j].id \notin BlockingIDs
    BY IDFacts DEF Result
  <2>4. ASSUME flagStage = "all", arch # "other"
        PROVE  Proven' /\ ~hasBlockingKVMFailure'
    <3>1. Proven /\ ~hasBlockingKVMFailure BY <2>2, <2>4 DEF LadderInv
    <3> QED BY <2>1, <2>3, <3>1, ProvenSticks, NotBlockingSticks
  <2>5. pc' = "finish" \/ (pc' \in BootPC \ {"boot"} /\ root /\ arch # "other")
    BY <1>8, <2>2, GatesExtend DEF LadderInv
  <2> QED BY <2>2, <2>4, <2>5 DEF LadderInv
<1>9. CASE PrepareBoot
  <2>1. PICK id \in BootIDs, status \in Status : Extends(<<Result(id, status)>>)
    BY <1>9, PrepareExtends
  <2>2. pc = "read" /\ UNCHANGED invocation BY <1>9, PrepareExtends
  <2>3. \A j \in 1 .. Len(<<Result(id, status)>>) : <<Result(id, status)>>[j].id \notin BlockingIDs
    BY IDFacts DEF Result
  <2>4. ASSUME flagStage = "all"
        PROVE  Proven' /\ ~hasBlockingKVMFailure'
    <3>1. Proven /\ ~hasBlockingKVMFailure BY <2>2, <2>4 DEF LadderInv
    <3> QED BY <2>1, <2>3, <3>1, ProvenSticks, NotBlockingSticks
  <2>5. pc' = "finish" \/ (pc' = "vms" /\ root /\ arch # "other")
    BY <1>9, <2>2, PrepareExtends DEF LadderInv
  <2> QED BY <2>2, <2>4, <2>5 DEF LadderInv
<1>10. CASE BootVMs
  BY <1>10, LadderFrame DEF BootVMs
<1>11. CASE Judge
  BY <1>11, JudgeExtends DEF LadderInv
<1>12. CASE FinishStep
  BY <1>12, LadderFrame DEF FinishStep
<1>13. CASE FinishAndRender
  BY <1>13 DEF FinishAndRender, LadderInv
<1>14. CASE WriteJSON
  BY <1>14 DEF WriteJSON, LadderInv
<1>15. CASE Exit
  BY <1>15 DEF Exit, LadderInv
<1>16. CASE UNCHANGED vars
  BY <1>16, LadderFrame DEF vars
<1> QED
  BY <1>1, <1>2, <1>3, <1>4, <1>5, <1>6, <1>7, <1>8, <1>9, <1>10, <1>11, <1>12,
     <1>13, <1>14, <1>15, <1>16 DEF Next, AnyBootGate, Exited

-----------------------------------------------------------------------------
(* Finish and the exit status.                                             *)

\* Finish's verdict is that of the results it has been through, and the exit status that of all.
LEMMA FinishInvStep ==
    ASSUME TypeOK, FinishInv, ExitTellsResults, [Next]_vars
    PROVE  FinishInv' /\ ExitTellsResults'
<1> USE DEF invocation, finishVars, endVars, RunPC, BootPC, ReportPC
<1>1. ASSUME pc \in RunPC, pc' \in RunPC \cup {"finish"}, UNCHANGED <<finishVars, endVars>>
      PROVE  FinishInv' /\ ExitTellsResults'
  <2>1. k' = 0 /\ ~Among(0, "fail")' /\ ~Among(0, "blocked")' BY <1>1 DEF FinishInv, Among
  <2>2. ~Among(k, "fail")' /\ ~Among(k, "blocked")' BY <2>1 DEF Among
  <2> QED BY <1>1, <2>2 DEF FinishInv, ExitTellsResults
<1>2. ASSUME pc' = "exited", UNCHANGED <<rendered, json>>, pc \in RunPC
      PROVE  FinishInv' /\ ExitTellsResults'
  BY <1>2 DEF FinishInv, ExitTellsResults
<1>3. CASE ParseArgs
  BY <1>1, <1>2, <1>3 DEF ParseArgs
<1>4. CASE checkPlatform
  BY <1>1, <1>4 DEF checkPlatform, Quiet
<1>5. CASE checkCPUVirtExtensions
  BY <1>1, <1>5 DEF checkCPUVirtExtensions, Quiet
<1>6. CASE UnknownArch
  BY <1>1, <1>6 DEF UnknownArch, Quiet
<1>7. CASE checkKVM
  BY <1>1, <1>7 DEF checkKVM, Quiet
<1>8. CASE RestOfPreflight
  BY <1>1, <1>8 DEF RestOfPreflight, Quiet
<1>9. CASE Gate
  BY <1>1, <1>9 DEF Gate, Quiet
<1>10. CASE AnyBootGate
  BY <1>1, <1>10, GatesExtend DEF Quiet
<1>11. CASE PrepareBoot
  BY <1>1, <1>11, PrepareExtends
<1>12. CASE BootVMs
  BY <1>1, <1>12 DEF BootVMs
<1>13. CASE Judge
  BY <1>1, <1>2, <1>13, JudgeExtends
<1>14. CASE FinishStep
  <2>1. k \in Nat /\ k + 1 \in 1 .. Len(results) BY <1>14 DEF FinishStep, TypeOK
  <2>2. ASSUME NEW status
        PROVE  Among(k, status)' <=> Among(k, status) \/ results[k + 1].status = status
    <3>1. k' = k + 1 /\ results' = results BY <1>14 DEF FinishStep
    <3>2. 1 .. k + 1 = (1 .. k) \cup {k + 1} BY <2>1
    <3> QED BY <3>1, <3>2 DEF Among
  <2>3. Verdict' = IF Among(k, "fail")' THEN "fail" ELSE "pass"
    BY <1>14, <2>2 DEF FinishStep, FinishInv, VerdictAfter
  <2>4. blocked' <=> Among(k, "blocked")'
    BY <1>14, <2>2 DEF FinishStep, FinishInv
  <2> QED BY <1>14, <2>3, <2>4 DEF FinishStep, FinishInv, ExitTellsResults
<1>15. CASE FinishAndRender
  <2>1. \A status : Among(k, status) <=> Some(status) BY <1>15 DEF FinishAndRender, Among, Some
  <2>2. \A status : Some(status)' <=> Some(status) BY <1>15 DEF FinishAndRender, Some
  <2> QED BY <1>15, <2>1, <2>2 DEF FinishAndRender, FinishInv, ExitTellsResults
<1>16. CASE WriteJSON
  BY <1>16 DEF WriteJSON, FinishInv, ExitTellsResults, Some
<1>17. CASE Exit
  BY <1>17 DEF Exit, FinishInv, ExitTellsResults, Some
<1>18. CASE UNCHANGED vars
  BY <1>18 DEF vars, FinishInv, ExitTellsResults, Among, Some
<1> QED
  BY <1>3, <1>4, <1>5, <1>6, <1>7, <1>8, <1>9, <1>10, <1>11, <1>12, <1>13,
     <1>14, <1>15, <1>16, <1>17, <1>18 DEF Next, AnyBootGate, Exited

-----------------------------------------------------------------------------
(* What is on record.                                                      *)

\* A status that was recorded stays recorded.
LEMMA SomeSticks ==
    ASSUME TypeOK, NEW t, Extends(t), NEW status, Some(status)
    PROVE  Some(status)'
<1>1. results \in Seq(Entry)
  BY DEF TypeOK
<1>2. PICK j \in 1 .. Len(results) : results[j].status = status
  BY DEF Some
<1>3. /\ Len(results') = Len(results) + Len(t) /\ Len(t) \in Nat /\ Len(results) \in Nat
      /\ results'[j] = results[j]
  BY <1>1, <1>2, Grows DEF Extends
<1> QED
  BY <1>2, <1>3 DEF Some

\* A blocking failure is a Fail or a Blocked.
LEMMA BlockingIsTrouble == hasBlockingKVMFailure => Trouble
  BY DEF hasBlockingKVMFailure, Trouble, Some

\* The gates of the boot stage stop it with a failure or a block, but for the architecture's skip.
LEMMA GatesRecord ==
    ASSUME TypeOK, AnyBootGate, pc' = "finish"
    PROVE  Trouble' \/ (pc = "boot" /\ arch = "other" /\ Add("boot.arch", "skip"))
<1> USE IDFacts, AddRecords DEF BootIDs, Status, BootGate, Trouble
<1>1. CASE BootPrivileges
  <2>1. CASE ~root
    <3>1. Add("boot.privileges", "blocked") BY <1>1, <2>1 DEF BootPrivileges
    <3> QED BY <3>1
  <2>2. CASE root /\ arch = "other"
    <3>1. BootGate("boot", "boot.arch", {}, {"skip"}, "finish") BY <1>1, <2>2 DEF BootPrivileges
    <3> QED BY <2>2, <3>1
  <2>3. CASE root /\ arch # "other"
    <3>1. BootGate("boot", "boot.firecracker", {"info", "pass"}, {"fail"}, "kernel")
      BY <1>1, <2>3 DEF BootPrivileges
    <3>2. Add("boot.firecracker", "fail") BY <3>1
    <3> QED BY <3>2
  <2> QED BY <2>1, <2>2, <2>3
<1>2. CASE BootKernel
  <2>1. Add("boot.kernel", "fail") BY <1>2 DEF BootKernel
  <2> QED BY <2>1
<1>3. CASE LocateSelf
  <2>1. Add("boot.initramfs", "fail") BY <1>3 DEF LocateSelf
  <2> QED BY <2>1
<1>4. CASE CheckLinkage
  <2>1. Add("boot.initramfs.linkage", "fail") BY <1>4 DEF CheckLinkage
  <2> QED BY <2>1
<1>5. CASE ReadSelf
  <2>1. Add("boot.initramfs", "fail") BY <1>5 DEF ReadSelf
  <2> QED BY <2>1
<1> QED
  BY <1>1, <1>2, <1>3, <1>4, <1>5 DEF AnyBootGate

\* judgeOutcomes leaves trouble on record, or the evidence.
LEMMA JudgeRecords ==
    ASSUME TypeOK, RecordInv, Judge, pc' = "finish"
    PROVE  \/ Trouble'
           \/ Booted'
<1>1. \A id \in BootIDs, status \in Status : Result(id, status) \in Entry
  BY IDFacts DEF Result, Entry
<1>2. CASE launched = "fail"
  <2>1. Add("boot.launch", "fail") BY <1>2 DEF Judge
  <2> QED BY <2>1, AddRecords, IDFacts DEF BootIDs, Status, Trouble
<1>3. CASE launched = "pass"
  <2>1. PICK virtio \in {"pass", "fail"}, network \in {"pass", "fail"} :
           results' = results \o <<Result("boot.launch", "pass"), Result("boot.virtio", virtio),
                                   Result("boot.network", network)>>
    BY <1>3 DEF Judge
  <2> DEFINE c == Result("boot.launch", "pass")
             v == Result("boot.virtio", virtio)
             w == Result("boot.network", network)
             t == <<c, v, w>>
  <2>2. c \in Entry /\ v \in Entry /\ w \in Entry
    BY <1>1 DEF BootIDs, Status
  <2>3. v.status = virtio /\ w.status = network BY DEF Result
  <2>4. results' = results \o <<c, v, w>> BY <2>1
  <2> HIDE DEF c, v, w
  <2>5. t \in Seq(Entry) /\ Len(t) = 3 /\ t[2] = v /\ t[3] = w BY <2>2
  <2>6. Extends(t) /\ 2 \in 1 .. Len(t) /\ 3 \in 1 .. Len(t) BY <2>4, <2>5 DEF Extends
  <2> HIDE DEF t
  <2>7. \E l \in 1 .. Len(results') : results'[l] = v BY <2>5, <2>6, Added
  <2>8. \E l \in 1 .. Len(results') : results'[l] = w BY <2>5, <2>6, Added
  <2>9. CASE virtio = "pass" /\ network = "pass"
    <3>1. Has("boot.network", "pass")' /\ Has("boot.virtio", "pass")'
      BY <2>7, <2>8, <2>9 DEF Has, v, w
    <3>2. \A i \in VM : vm'[i] = "ok" BY <1>3 DEF RecordInv, Judge, bootVars
    <3> QED BY <3>1, <3>2 DEF Booted
  <2>10. CASE virtio = "fail" \/ network = "fail"
    BY <2>3, <2>7, <2>8, <2>10 DEF Trouble, Some
  <2> QED BY <2>9, <2>10
<1> QED
  BY <1>2, <1>3 DEF Judge

\* Trouble that was recorded stays recorded.
LEMMA TroubleSticks ==
    ASSUME TypeOK, NEW t, Extends(t), Trouble
    PROVE  Trouble'
  BY SomeSticks DEF Trouble

\* The VMs pass together or not at all.
LEMMA BootRecords ==
    ASSUME launched = "pass" => \A i \in VM : vm[i] = "ok", Boot!Next
    PROVE  launched' = "pass" => \A i \in VM : vm'[i] = "ok"
<1>1. CASE Boot!Decide
  BY <1>1 DEF Boot!Decide
<1>2. CASE Boot!GiveUp
  BY <1>2 DEF Boot!GiveUp
<1>3. CASE \E i \in VM : Boot!Settle(i)
  BY <1>3 DEF Boot!Settle
<1> QED
  BY <1>1, <1>2, <1>3 DEF Boot!Next

\* What is known of the record depends on these variables only.
LEMMA RecordFrame ==
    ASSUME RecordInv, UNCHANGED <<results, arch, flagStage, bootVars>>,
           \/ pc' = pc
           \/ pc \in EndPC /\ pc' \in EndPC \cup {"exited"}
    PROVE  RecordInv'
  BY DEF RecordInv, Booted, NothingToBoot, Trouble, Some, Has, bootVars, EndPC, ReportPC, BootPC

\* At every point there is trouble on record or the evidence so far.
LEMMA RecordStep ==
    ASSUME TypeOK, RecordInv, [Next]_vars
    PROVE  RecordInv'
<1> USE DEF invocation, bootVars, BootPC, EndPC, ReportPC
<1>1. CASE ParseArgs
  BY <1>1 DEF ParseArgs, RecordInv, Trouble, Some, Has
<1>2. CASE checkPlatform
  BY <1>2 DEF checkPlatform, Quiet, RecordInv
<1>3. CASE checkCPUVirtExtensions
  BY <1>3 DEF checkCPUVirtExtensions, Quiet, RecordInv
<1>4. CASE UnknownArch
  <2>1. Some("fail")' BY <1>4, AddRecords, IDFacts DEF UnknownArch, Status
  <2> QED BY <1>4, <2>1 DEF UnknownArch, Quiet, RecordInv, Trouble
<1>5. CASE checkKVM
  <2>1. pc' = "rest" => Trouble' \/ Has("kvm.create_vcpu", "pass")'
    <3>1. CASE hasBlockingKVMFailure' BY <3>1 DEF hasBlockingKVMFailure, Trouble, Some
    <3>2. CASE rung = 6
      <4>1. Has(Rungs[6], "pass")' \/ hasBlockingKVMFailure' BY <1>5, <3>2, RungExtends DEF Climbed
      <4>2. Has(Rungs[6], "pass")' <=> Has("kvm.create_vcpu", "pass")' BY IDFacts DEF Has
      <4> QED BY <3>1, <4>1, <4>2
    <3> QED BY <1>5, <3>1, <3>2, RungExtends
  <2>2. pc' = "kvm" \/ pc' = "rest" BY <1>5, RungExtends
  <2> QED BY <1>5, <2>1, <2>2 DEF checkKVM, Quiet, RecordInv
<1>6. CASE RestOfPreflight
  <2>1. PICK t : Extends(t) BY <1>6, OneExtends
  <2>2. Trouble => Trouble' BY <2>1, TroubleSticks
  <2>3. Has("kvm.create_vcpu", "pass") => Has("kvm.create_vcpu", "pass")' BY <2>1, HasSticks
  <2> QED BY <1>6, <2>2, <2>3 DEF RestOfPreflight, Quiet, RecordInv
<1>7. CASE Gate
  <2>1. CASE hasBlockingKVMFailure
    <3>1. Trouble BY <2>1, BlockingIsTrouble
    <3>2. Add("boot.skipped", "skip") BY <1>7, <2>1 DEF Gate
    <3>3. Extends(<<Result("boot.skipped", "skip")>>)
      BY <3>2, AddExtends, IDFacts DEF BootIDs, Status
    <3>4. Trouble' BY <3>1, <3>3, TroubleSticks
    <3> QED BY <1>7, <2>1, <3>4 DEF Gate, Quiet, RecordInv
  <2>2. CASE ~hasBlockingKVMFailure
    BY <1>7, <2>2 DEF Gate, Quiet, RecordInv, Trouble, Some, Has
  <2> QED BY <2>1, <2>2
<1>8. CASE AnyBootGate
  <2>1. PICK t : Extends(t) BY <1>8, GatesExtend
  <2>2. Trouble => Trouble' BY <2>1, TroubleSticks
  <2>3. Has("kvm.create_vcpu", "pass") => Has("kvm.create_vcpu", "pass")' BY <2>1, HasSticks
  <2>4. pc \in BootPC /\ UNCHANGED <<invocation, bootVars>> BY <1>8, GatesExtend DEF Quiet
  <2>5. CASE pc' = "finish"
    <3>1. ASSUME pc = "boot", arch = "other", Add("boot.arch", "skip"), flagStage = "boot"
          PROVE  NothingToBoot'
      BY <2>4, <3>1 DEF RecordInv, NothingToBoot, Add
    <3>2. ASSUME pc = "boot", arch = "other", flagStage = "all"
          PROVE  Trouble'
      BY <2>2, <3>2 DEF RecordInv
    <3> QED BY <1>8, <2>2, <2>3, <2>4, <2>5, <3>1, <3>2, GatesRecord DEF RecordInv
  <2>6. CASE pc' \in BootPC \ {"boot"}
    BY <2>2, <2>3, <2>4, <2>6 DEF RecordInv
  <2> QED BY <1>8, <2>5, <2>6, GatesExtend
<1>9. CASE PrepareBoot
  <2>1. PICK t : Extends(t) BY <1>9, PrepareExtends
  <2>2. Trouble => Trouble' BY <2>1, TroubleSticks
  <2>3. Has("kvm.create_vcpu", "pass") => Has("kvm.create_vcpu", "pass")' BY <2>1, HasSticks
  <2>4. pc = "read" /\ UNCHANGED invocation BY <1>9, PrepareExtends
  <2>5. CASE pc' = "vms" /\ UNCHANGED bootVars
    BY <2>2, <2>3, <2>4, <2>5 DEF RecordInv
  <2>6. CASE pc' = "finish" /\ Boot!GiveUp /\ Some("fail")'
    <3>1. launched' = "aborted" BY <2>6 DEF Boot!GiveUp
    <3>2. Trouble' BY <2>6 DEF Trouble
    <3> QED BY <2>4, <2>6, <3>1, <3>2 DEF RecordInv
  <2> QED BY <1>9, <2>5, <2>6, PrepareExtends
<1>10. CASE BootVMs
  <2>1. launched' = "pass" => \A i \in VM : vm'[i] = "ok"
    BY <1>10, BootRecords DEF BootVMs, Boot!Next, RecordInv
  <2> QED BY <1>10, <2>1 DEF BootVMs, RecordInv, Trouble, Some, Has
<1>11. CASE Judge
  <2>1. UNCHANGED <<invocation, bootVars>> /\ pc = "vms" BY <1>11, JudgeExtends
  <2>2. CASE pc' = "finish"
    <3>1. PICK t : Extends(t) BY <1>11, <2>2, JudgeExtends
    <3>2. Trouble => Trouble' BY <3>1, TroubleSticks
    <3>3. Has("kvm.create_vcpu", "pass") => Has("kvm.create_vcpu", "pass")' BY <3>1, HasSticks
    <3> QED BY <1>11, <2>1, <2>2, <3>2, <3>3, JudgeRecords DEF RecordInv
  <2>3. CASE pc' = "exited" BY <2>1, <2>3 DEF RecordInv
  <2> QED BY <1>11, <2>2, <2>3, JudgeExtends
<1>12. CASE FinishStep
  BY <1>12, RecordFrame DEF FinishStep
<1>13. CASE FinishAndRender
  BY <1>13, RecordFrame DEF FinishAndRender
<1>14. CASE WriteJSON
  BY <1>14, RecordFrame DEF WriteJSON
<1>15. CASE Exit
  BY <1>15, RecordFrame DEF Exit
<1>16. CASE UNCHANGED vars
  BY <1>16, RecordFrame DEF vars
<1> QED
  BY <1>1, <1>2, <1>3, <1>4, <1>5, <1>6, <1>7, <1>8, <1>9, <1>10, <1>11, <1>12,
     <1>13, <1>14, <1>15, <1>16 DEF Next, AnyBootGate, Exited

\* Status 0 is chosen only with the evidence on record.
LEMMA ExitZeroStep ==
    ASSUME TypeOK, FinishInv, RecordInv, ExitZeroMeansProven, [Next]_vars
    PROVE  ExitZeroMeansProven'
<1> USE DEF invocation, bootVars, endVars
<1>1. CASE Exit
  <2>1. exit' = 0 => Verdict = "pass" BY <1>1 DEF Exit, TypeOK
  <2>2. Verdict = "pass" => ~Trouble BY <1>1 DEF Exit, FinishInv, ReportPC, Trouble
  <2>3. pc \in EndPC /\ UNCHANGED <<invocation, results, bootVars>> BY <1>1 DEF Exit, EndPC, ReportPC
  <2> QED BY <2>1, <2>2, <2>3
          DEF RecordInv, ExitZeroMeansProven, Booted, NothingToBoot, Has
<1>2. CASE pc = "exited"
  <2>1. UNCHANGED vars
    BY <1>2 DEF Next, ParseArgs, checkPlatform, checkCPUVirtExtensions, UnknownArch, checkKVM,
                RestOfPreflight, Gate, BootPrivileges, BootKernel, LocateSelf, CheckLinkage,
                ReadSelf, BootGate, PrepareBoot, BootVMs, Judge, FinishStep, FinishAndRender,
                WriteJSON, Exit, Exited
  <2> QED BY <2>1 DEF vars, ExitZeroMeansProven, Booted, NothingToBoot, Has
<1>3. CASE pc # "exited" /\ ~Exit
  <2>1. exit = -1 BY <1>3 DEF FinishInv
  <2>2. exit' \in {-1, 1, 2}
    BY <1>3, <2>1, GatesExtend
    DEF Next, AnyBootGate, ParseArgs, checkPlatform, checkCPUVirtExtensions, UnknownArch, checkKVM,
        RestOfPreflight, Gate, PrepareBoot, BootVMs, Judge, FinishStep, FinishAndRender,
        WriteJSON, Exited, Quiet, vars
  <2> QED BY <2>2 DEF ExitZeroMeansProven
<1> QED
  BY <1>1, <1>2, <1>3

-----------------------------------------------------------------------------
(* Theorems.                                                               *)

\* The invariant holds of every invocation at its start.
LEMMA InitIInv == Init => IInv
<1> SUFFICES ASSUME Init PROVE IInv
  OBVIOUS
<1>1. TypeOK
  <2>1. results \in Seq(Entry) BY DEF Init
  <2>2. k \in 0 .. Len(results) BY DEF Init
  <2>3. Boot!TypeOK BY DEF Init, Boot!Init, Boot!TypeOK
  <2>4. rung \in 1 .. 6 /\ exit \in {-1, 0, 1, 2, 3} BY DEF Init
  <2> QED BY <2>1, <2>2, <2>3, <2>4 DEF Init, TypeOK, PC
<1>2. LadderInv
  BY DEF Init, LadderInv, BootPC
<1>3. FinishInv /\ ExitTellsResults /\ ExitZeroMeansProven
  BY DEF Init, FinishInv, ExitTellsResults, ExitZeroMeansProven, RunPC, ReportPC
<1>4. RecordInv
  BY DEF Init, RecordInv, BootPC, EndPC, ReportPC, Boot!Init
<1> QED
  BY <1>1, <1>2, <1>3, <1>4 DEF IInv

(***************************************************************************)
(* The inductive invariant: what main knows of the ladder, the VMs and the *)
(* results, from the command line to the exit.                             *)
(***************************************************************************)
THEOREM Invariance == Spec => []IInv
<1>1. IInv /\ [Next]_vars => IInv'
  BY TypeStep, LadderStep, FinishInvStep, RecordStep, ExitZeroStep DEF IInv
<1> QED
  BY InitIInv, <1>1, PTL DEF Spec

\* Every variable keeps to the values main, checkKVM and Finish can give it.
THEOREM TypeCorrect == Spec => []TypeOK
<1>1. IInv => TypeOK
  BY DEF IInv
<1> QED
  BY Invariance, <1>1, PTL

(***************************************************************************)
(* The exit status main chooses is what the results say, for a report of   *)
(* any length, wherever in it the deciding result stands.                  *)
(***************************************************************************)
THEOREM ExitIsTruthful == Spec => []ExitTellsResults
<1>1. IInv => ExitTellsResults
  BY DEF IInv
<1> QED
  BY Invariance, <1>1, PTL

(***************************************************************************)
(* Under -stage all hasBlockingKVMFailure and the gates of runBootStage    *)
(* let no microVM start on a host whose KVM has not been proven.           *)
(***************************************************************************)
THEOREM NoBootOnUnprovenKVM == Spec => []BootOnlyOnProvenKVM
<1>1. IInv => BootOnlyOnProvenKVM
  <2> SUFFICES ASSUME IInv, flagStage = "all", pc = "vms"
               PROVE  /\ root
                      /\ Has("kvm.create_vcpu", "pass") /\ Has("kvm.caps.required", "pass")
                      /\ ~Has("host.cpu_virt", "fail")
    BY DEF BootOnlyOnProvenKVM
  <2>1. root /\ Proven /\ ~hasBlockingKVMFailure
    BY DEF IInv, LadderInv, BootPC
  <2>2. Has(Rungs[4], "pass") /\ Has(Rungs[6], "pass")
    BY <2>1 DEF Proven, Climbed
  <2>3. ~Has("host.cpu_virt", "fail")
    BY <2>1, IDFacts DEF Has, Result, hasBlockingKVMFailure
  <2> QED
    BY <2>1, <2>2, <2>3, IDFacts
<1> QED
  BY Invariance, <1>1, PTL

(***************************************************************************)
(* Of every run that main ends with status 0 the evidence is in the        *)
(* report, but for a boot stage that was skipped for want of artifacts.    *)
(***************************************************************************)
THEOREM ExitZeroIsEvidence == Spec => []ExitZeroMeansProven
<1>1. IInv => ExitZeroMeansProven
  BY DEF IInv
<1> QED
  BY Invariance, <1>1, PTL

=============================================================================
