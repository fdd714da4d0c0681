--------------------------- MODULE BootStageProofs ---------------------------
(***************************************************************************)
(* Proofs about BootStage, for any number of microVMs, any set of guest    *)
(* reports and any set of faults.                                          *)
(***************************************************************************)
EXTENDS BootStage, FiniteSetTheorems, TLAPS

USE NAssumption, ReportsAssumption, NilAssumption, FaultsAssumption

-----------------------------------------------------------------------------
(* Types.                                                                  *)

\* An ip command of setupTap keeps the types, whichever device state it expects and leaves.
LEMMA TypeIpCommand ==
    ASSUME TypeOK, NEW i \in VM, NEW at, NEW pre, NEW post \in TapState, NEW next \in PC,
           IpCommand(i, at, pre, post, next)
    PROVE  TypeOK'
<1>1. pc' \in [VM -> PC]
  BY DEF IpCommand, SetupExit, TypeOK, Goto, Fail, PC
<1>2. tap' \in [VM -> TapState]
  BY DEF IpCommand, TypeOK
<1>3. err' \in [VM -> Reason]
  BY DEF IpCommand, TypeOK, Goto, Fail, Reason
<1> QED
  BY <1>1, <1>2, <1>3
  DEF IpCommand, TypeOK, mainVars, checks, gather, guestVars, devVars, OnlySetup

\* What bootOne returns is an outcome, whether it is sent or stored.
LEMMA TypeReturn ==
    ASSUME TypeOK, NEW i \in VM, Return(i)
    PROVE  TypeOK'
<1>1. Outcome(i) \in OutcomeShape
  BY DEF Outcome, OutcomeShape, TypeOK
<1>2. done' \in Seq(OutcomeShape)
  <2>1. done \in Seq(OutcomeShape) BY DEF TypeOK
  <2>2. done' = done \/ done' = Append(done, Outcome(i)) BY DEF Return
  <2> QED BY <1>1, <2>1, <2>2
<1>3. outcomes' \in [VM -> OutcomeShape \cup {NoOutcome}]
  BY <1>1 DEF Return, TypeOK
<1>4. received' \in 0 .. N
  <2>1. CASE N = 1 BY <2>1 DEF Return
  <2>2. CASE N # 1 BY <2>2 DEF Return, TypeOK
  <2> QED BY <2>1, <2>2
<1>5. pc' \in [VM -> PC]
  BY DEF Return, Goto, TypeOK, PC
<1> QED
  BY <1>2, <1>3, <1>4, <1>5
  DEF Return, TypeOK, mainVars, checks, devVars, guestVars, outVars

\* So does every step of bootOne.
LEMMA TypeBootOne ==
    ASSUME TypeOK, NEW i \in VM, BootOne(i)
    PROVE  TypeOK'
<1> USE DEF mainVars, checks, gather, devVars, guestVars, outVars, OnlySetup, Goto
<1>1. CASE DelStaleTap(i)
  BY <1>1 DEF DelStaleTap, TypeOK, PC, TapState
<1>2. CASE AddTap(i)
  BY <1>2, TypeIpCommand DEF AddTap, PC, TapState
<1>3. CASE AddressTap(i)
  BY <1>3, TypeIpCommand DEF AddressTap, PC, TapState
<1>4. CASE RaiseTap(i)
  BY <1>4, TypeIpCommand DEF RaiseTap, PC, TapState
<1>5. CASE Listen(i)
  <2>1. listener' \in [VM -> BOOLEAN]
    BY <1>5 DEF Listen, TypeOK
  <2>2. pc' \in [VM -> PC] /\ err' \in [VM -> Reason]
    BY <1>5 DEF Listen, Fail, TypeOK, PC, Reason
  <2> QED BY <1>5, <2>1, <2>2 DEF Listen, TypeOK
<1>6. CASE CreateScratch(i)
  <2>1. scratch' \in [VM -> {"none", "created", "sized"}]
    BY <1>6 DEF CreateScratch, TypeOK
  <2>2. pc' \in [VM -> PC] /\ err' \in [VM -> Reason]
    BY <1>6 DEF CreateScratch, Fail, TypeOK, PC, Reason
  <2> QED BY <1>6, <2>1, <2>2 DEF CreateScratch, TypeOK
<1>7. CASE WriteConfig(i)
  BY <1>7 DEF WriteConfig, Fail, TypeOK, PC, Reason
<1>8. CASE Arm(i)
  BY <1>8 DEF Arm, TypeOK, PC
<1>9. CASE Start(i)
  BY <1>9 DEF Start, Fail, TypeOK, PC, Reason
<1>10. CASE Scan(i)
  BY <1>10 DEF Scan, TypeOK, Lines, Reason
<1>11. CASE EndOfOutput(i)
  BY <1>11 DEF EndOfOutput, TypeOK, PC
<1>12. CASE Wait(i)
  BY <1>12 DEF Wait, ExitCode, FinalErr, TypeOK, PC, Reason
<1>13. CASE Unwind(i)
  BY <1>13 DEF Unwind, TypeOK, PC
<1>14. CASE TeardownTap(i)
  BY <1>14 DEF TeardownTap, TypeOK, PC, TapState
<1>15. CASE Return(i)
  BY <1>15, TypeReturn
<1> HIDE DEF OnlySetup, Goto
<1> QED
  BY <1>1, <1>2, <1>3, <1>4, <1>5, <1>6, <1>7, <1>8, <1>9, <1>10, <1>11, <1>12,
     <1>13, <1>14, <1>15 DEF BootOne

\* So does every step of runBootStage's own goroutine.
LEMMA TypeMain ==
    ASSUME TypeOK, Main
    PROVE  TypeOK'
<1> USE DEF checks, gather, devVars, guestVars, outVars, vmVars
<1>1. CASE MakeWorkDir
  BY <1>1 DEF MakeWorkDir, TypeOK
<1>2. CASE WriteInitramfs
  BY <1>2 DEF WriteInitramfs, TypeOK
<1>3. CASE FanOut
  BY <1>3 DEF FanOut, TypeOK, PC
<1>4. CASE Collect
  <2>1. Head(done) \in OutcomeShape /\ done' \in Seq(OutcomeShape)
    BY <1>4 DEF Collect, TypeOK
  <2>2. outcomes' \in [VM -> OutcomeShape \cup {NoOutcome}]
    BY <1>4, <2>1 DEF Collect, TypeOK
  <2> QED BY <1>4, <2>1, <2>2 DEF Collect, TypeOK, mainVars
<1>5. CASE GatherEnds
  BY <1>5 DEF GatherEnds, TypeOK
<1>6. CASE Judge
  BY <1>6 DEF Judge, TypeOK, Verdict
<1>7. CASE RemoveWorkDir
  BY <1>7 DEF RemoveWorkDir, TypeOK
<1> QED BY <1>1, <1>2, <1>3, <1>4, <1>5, <1>6, <1>7 DEF Main

\* So do the timers, the watcher, the guest, Firecracker and the listener.
LEMMA TypeAround ==
    ASSUME TypeOK, NEW i \in VM,
           Expire(i) \/ Kill(i) \/ CloseListener(i) \/ GuestPrint(i) \/ FcExit(i)
    PROVE  TypeOK'
<1> USE DEF mainVars, checks, gather, devVars, guestVars, outVars
<1>1. CASE Expire(i)
  BY <1>1 DEF Expire, TypeOK
<1>2. CASE Kill(i)
  BY <1>2 DEF Kill, TypeOK, Dead
<1>3. CASE CloseListener(i)
  BY <1>3 DEF CloseListener, TypeOK
<1>4. CASE GuestPrint(i)
  BY <1>4 DEF GuestPrint, TypeOK, Lines
<1>5. CASE FcExit(i)
  BY <1>5 DEF FcExit, TypeOK
<1> QED BY <1>1, <1>2, <1>3, <1>4, <1>5

\* So does the signal.
LEMMA TypeCancel ==
    ASSUME TypeOK, Cancel
    PROVE  TypeOK'
BY DEF Cancel, TypeOK, mainVars, checks, gather, devVars, guestVars, outVars

\* So does a step that changes nothing.
LEMMA TypeStutter ==
    ASSUME TypeOK, UNCHANGED vars
    PROVE  TypeOK'
BY DEF TypeOK, vars, mainVars, checks, vmVars, devVars, guestVars, outVars, gather

\* The types hold at first, with stale taps in any state.
LEMMA InitType == Init => TypeOK
<1>1. Init => done \in Seq(OutcomeShape) /\ received \in 0 .. N
  BY DEF Init
<1>2. Init => tap \in [VM -> TapState] /\ listener \in [VM -> BOOLEAN]
  BY DEF Init
<1>3. Init => /\ pc \in [VM -> PC] /\ err \in [VM -> Reason] /\ code \in [VM -> {0, 1, -1}]
              /\ said \in [VM -> Lines] /\ pipe \in [VM -> Lines]
              /\ guest \in [VM -> Reports \cup {NoReport}]
  BY DEF Init, PC, Reason, Lines
<1> QED BY <1>1, <1>2, <1>3 DEF Init, TypeOK

\* The types hold after every step.
LEMMA TypeStep == TypeOK /\ [Next]_vars => TypeOK'
BY TypeBootOne, TypeMain, TypeAround, TypeCancel, TypeStutter DEF Next, Terminated

(***************************************************************************)
(* The stage's variables keep their types in every run, whatever N, the    *)
(* guests' reports and the faults are.                                     *)
(***************************************************************************)
THEOREM TypeCorrect == Spec => []TypeOK
BY InitType, TypeStep, PTL DEF Spec, Safe

-----------------------------------------------------------------------------
(* Devices.                                                                *)

\* What goroutine i does to its own VM leaves what another VM owns alone.
LEMMA OwnedFrame ==
    ASSUME NEW j \in VM, Owned(j), cancelled' = cancelled,
           pc'[j] = pc[j], tap'[j] = tap[j], listener'[j] = listener[j],
           scratch'[j] = scratch[j], fc'[j] = fc[j], err'[j] = err[j]
    PROVE  Owned(j)'
BY DEF Owned

\* A step of one bootOne changes nothing of another VM's.
LEMMA BootOneFrame ==
    ASSUME TypeOK, NEW i \in VM, BootOne(i), NEW j \in VM, j # i
    PROVE  /\ cancelled' = cancelled
           /\ pc'[j] = pc[j] /\ tap'[j] = tap[j] /\ listener'[j] = listener[j]
           /\ scratch'[j] = scratch[j] /\ fc'[j] = fc[j]
           /\ err'[j] = err[j] /\ guest'[j] = guest[j] /\ code'[j] = code[j]
<1> USE DEF gather, devVars, guestVars, outVars, OnlySetup, Goto, Fail, TypeOK
<1>1. CASE DelStaleTap(i) BY <1>1 DEF DelStaleTap
<1>2. CASE AddTap(i) BY <1>2 DEF AddTap, IpCommand
<1>3. CASE AddressTap(i) BY <1>3 DEF AddressTap, IpCommand
<1>4. CASE RaiseTap(i) BY <1>4 DEF RaiseTap, IpCommand
<1>5. CASE Listen(i) BY <1>5 DEF Listen
<1>6. CASE CreateScratch(i) BY <1>6 DEF CreateScratch
<1>7. CASE WriteConfig(i) BY <1>7 DEF WriteConfig
<1>8. CASE Arm(i) BY <1>8 DEF Arm
<1>9. CASE Start(i) BY <1>9 DEF Start
<1>10. CASE Scan(i) BY <1>10 DEF Scan
<1>11. CASE EndOfOutput(i) BY <1>11 DEF EndOfOutput
<1>12. CASE Wait(i) BY <1>12 DEF Wait
<1>13. CASE Unwind(i) BY <1>13 DEF Unwind
<1>14. CASE TeardownTap(i) BY <1>14 DEF TeardownTap
<1>15. CASE Return(i) BY <1>15 DEF Return
<1> HIDE DEF OnlySetup, Goto, Fail, TypeOK
<1> QED
  BY <1>1, <1>2, <1>3, <1>4, <1>5, <1>6, <1>7, <1>8, <1>9, <1>10, <1>11, <1>12,
     <1>13, <1>14, <1>15 DEF BootOne

\* A step of bootOne moves to where its VM owns what it should.
LEMMA BootOneOwned ==
    ASSUME TypeOK, NEW i \in VM, Owned(i), BootOne(i)
    PROVE  Owned(i)'
<1> USE DEF gather, devVars, guestVars, outVars, OnlySetup, Goto, Fail, TypeOK, Owned,
            HasTap, HasEcho, HasScratch
<1>1. CASE DelStaleTap(i) BY <1>1 DEF DelStaleTap
<1>2. CASE AddTap(i) BY <1>2 DEF AddTap, IpCommand, SetupExit
<1>3. CASE AddressTap(i) BY <1>3 DEF AddressTap, IpCommand, SetupExit
<1>4. CASE RaiseTap(i) BY <1>4 DEF RaiseTap, IpCommand, SetupExit
<1>5. CASE Listen(i) BY <1>5 DEF Listen
<1>6. CASE CreateScratch(i) BY <1>6 DEF CreateScratch
<1>7. CASE WriteConfig(i) BY <1>7 DEF WriteConfig
<1>8. CASE Arm(i) BY <1>8 DEF Arm
<1>9. CASE Start(i) BY <1>9 DEF Start
<1>10. CASE Scan(i) BY <1>10 DEF Scan
<1>11. CASE EndOfOutput(i) BY <1>11 DEF EndOfOutput, Drained, Dead
<1>12. CASE Wait(i) BY <1>12 DEF Wait, Dead
<1>13. CASE Unwind(i) BY <1>13 DEF Unwind
<1>14. CASE TeardownTap(i) BY <1>14 DEF TeardownTap, TeardownFails
<1>15. CASE Return(i) BY <1>15 DEF Return
<1> HIDE DEF OnlySetup, Goto, Fail, TypeOK, Owned
<1> QED
  BY <1>1, <1>2, <1>3, <1>4, <1>5, <1>6, <1>7, <1>8, <1>9, <1>10, <1>11, <1>12,
     <1>13, <1>14, <1>15 DEF BootOne

\* Devices and program counters stay in step, whoever moves.
LEMMA DeviceStep ==
    ASSUME TypeOK, StageInv, DeviceInv, [Next]_vars
    PROVE  DeviceInv'
<1> SUFFICES ASSUME NEW j \in VM PROVE Owned(j)'
  BY DEF DeviceInv
<1> USE DEF vars, vmVars, mainVars, checks, gather, devVars, guestVars, outVars
<1>0. Owned(j) BY DEF DeviceInv
<1>1. ASSUME NEW i \in VM, BootOne(i) PROVE Owned(j)'
  <2>1. CASE i = j BY <1>0, <1>1, <2>1, BootOneOwned
  <2>2. CASE i # j BY <1>0, <1>1, <2>2, BootOneFrame, OwnedFrame
  <2> QED BY <2>1, <2>2
<1>2. ASSUME NEW i \in VM, Expire(i) PROVE Owned(j)'
  BY <1>0, <1>2, OwnedFrame DEF Expire
<1>3. ASSUME NEW i \in VM, Kill(i) \/ FcExit(i) PROVE Owned(j)'
  BY <1>0, <1>3 DEF Kill, FcExit, Owned, TypeOK, Dead
<1>4. ASSUME NEW i \in VM, CloseListener(i) PROVE Owned(j)'
  BY <1>0, <1>4 DEF CloseListener, Owned, TypeOK, HasTap, HasEcho
<1>5. ASSUME NEW i \in VM, GuestPrint(i) PROVE Owned(j)'
  BY <1>0, <1>5, OwnedFrame DEF GuestPrint
<1>6. CASE Cancel
  BY <1>0, <1>6 DEF Cancel, Owned
<1>7. CASE MakeWorkDir \/ WriteInitramfs \/ Collect \/ GatherEnds \/ Judge
  BY <1>0, <1>7, OwnedFrame DEF MakeWorkDir, WriteInitramfs, Collect, GatherEnds, Judge
<1>8. CASE FanOut
  BY <1>0, <1>8 DEF FanOut, Owned, StageInv, HasTap, HasEcho, HasScratch
<1>9. CASE RemoveWorkDir
  BY <1>0, <1>9 DEF RemoveWorkDir, Owned, StageInv, HasTap, HasEcho, HasScratch
<1>10. CASE UNCHANGED vars
  BY <1>0, <1>10, OwnedFrame
<1> HIDE DEF vars, vmVars, mainVars, checks, gather, devVars, guestVars, outVars
<1> QED
  BY <1>1, <1>2, <1>3, <1>4, <1>5, <1>6, <1>7, <1>8, <1>9, <1>10 DEF Next, Main, Terminated

-----------------------------------------------------------------------------
(* Scatter and gather.                                                     *)

\* bootOne is entered and left once, and only Return touches the channel.
LEMMA BootOneRuns ==
    ASSUME TypeOK, NEW i \in VM, BootOne(i)
    PROVE  /\ pc[i] \notin {"idle", "gone"}
           /\ pc'[i] # "idle"
           /\ UNCHANGED mainVars
           /\ Return(i) \/ (UNCHANGED gather /\ pc'[i] # "gone")
<1> USE DEF OnlySetup, Goto, Fail, TypeOK
<1>1. CASE DelStaleTap(i) BY <1>1 DEF DelStaleTap
<1>2. CASE AddTap(i) BY <1>2 DEF AddTap, IpCommand, SetupExit
<1>3. CASE AddressTap(i) BY <1>3 DEF AddressTap, IpCommand, SetupExit
<1>4. CASE RaiseTap(i) BY <1>4 DEF RaiseTap, IpCommand, SetupExit
<1>5. CASE Listen(i) BY <1>5 DEF Listen
<1>6. CASE CreateScratch(i) BY <1>6 DEF CreateScratch
<1>7. CASE WriteConfig(i) BY <1>7 DEF WriteConfig
<1>8. CASE Arm(i) BY <1>8 DEF Arm
<1>9. CASE Start(i) BY <1>9 DEF Start
<1>10. CASE Scan(i) BY <1>10 DEF Scan
<1>11. CASE EndOfOutput(i) BY <1>11 DEF EndOfOutput
<1>12. CASE Wait(i) BY <1>12 DEF Wait
<1>13. CASE Unwind(i) BY <1>13 DEF Unwind
<1>14. CASE TeardownTap(i) BY <1>14 DEF TeardownTap
<1>15. CASE Return(i) BY <1>15 DEF Return
<1> HIDE DEF OnlySetup, Goto, Fail, TypeOK
<1> QED
  BY <1>1, <1>2, <1>3, <1>4, <1>5, <1>6, <1>7, <1>8, <1>9, <1>10, <1>11, <1>12,
     <1>13, <1>14, <1>15 DEF BootOne

\* The actors around a VM move neither its goroutine nor the stage.
LEMMA AroundFrame ==
    ASSUME NEW i \in VM,
           Expire(i) \/ Kill(i) \/ CloseListener(i) \/ GuestPrint(i) \/ FcExit(i) \/ Cancel
    PROVE  UNCHANGED <<mainVars, gather, pc, outVars>>
BY DEF Expire, Kill, CloseListener, GuestPrint, FcExit, Cancel

\* N outcomes taken out of the channel are the outcomes of all N VMs.
LEMMA AllGathered ==
    ASSUME TypeOK, GatherInv, received = N
    PROVE  Gathered = VM
<1>1. IsFiniteSet(VM) /\ Cardinality(VM) = N
  BY FS_Interval DEF VM
<1>2. Gathered \subseteq VM
  BY DEF Gathered
<1> QED BY <1>1, <1>2, FS_Subset DEF GatherInv

\* Where the stage is and where the goroutines are stay in step.
LEMMA StageStep ==
    ASSUME TypeOK, StageInv, GatherInv, [Next]_vars
    PROVE  StageInv'
<1> USE DEF vars, vmVars, mainVars, checks, gather
<1>1. ASSUME NEW i \in VM, BootOne(i) PROVE StageInv'
  <2>1. stage = "collect"
    BY <1>1, BootOneRuns DEF StageInv, TypeOK
  <2>2. \A j \in VM : pc'[j] # "idle"
    BY <1>1, <2>1, BootOneRuns, BootOneFrame DEF StageInv
  <2> QED BY <1>1, <2>1, <2>2, BootOneRuns DEF StageInv
<1>2. ASSUME NEW i \in VM, Expire(i) \/ Kill(i) \/ CloseListener(i) \/ GuestPrint(i) \/ FcExit(i)
      PROVE  StageInv'
  BY <1>2, AroundFrame DEF StageInv
<1>3. CASE Cancel
  BY <1>3 DEF Cancel, StageInv
<1>4. CASE MakeWorkDir BY <1>4 DEF MakeWorkDir, StageInv
<1>5. CASE WriteInitramfs BY <1>5 DEF WriteInitramfs, StageInv
<1>6. CASE FanOut BY <1>6 DEF FanOut, StageInv
<1>7. CASE Collect BY <1>7 DEF Collect, StageInv
<1>8. CASE GatherEnds
  <2>1. \A i \in VM : pc[i] = "gone" /\ outcomes[i] # NoOutcome
    BY <1>8, AllGathered DEF GatherEnds, GatherInv, Gathered
  <2> QED BY <1>8, <2>1 DEF GatherEnds, StageInv
<1>9. CASE Judge BY <1>9 DEF Judge, StageInv
<1>10. CASE RemoveWorkDir BY <1>10 DEF RemoveWorkDir, StageInv
<1>11. CASE UNCHANGED vars BY <1>11 DEF StageInv
<1> HIDE DEF vars, vmVars, mainVars, checks, gather
<1> QED
  BY <1>1, <1>2, <1>3, <1>4, <1>5, <1>6, <1>7, <1>8, <1>9, <1>10, <1>11 DEF Next, Main, Terminated

\* A finished goroutine's outcome is final.
LEMMA OutcomeFinal ==
    ASSUME TypeOK, NEW i \in VM, BootOne(i), NEW j \in VM, pc[j] = "gone"
    PROVE  Outcome(j)' = Outcome(j) /\ pc'[j] = "gone"
BY BootOneFrame, BootOneRuns DEF Outcome

\* What lies in the channel is an outcome.
LEMMA InChannel ==
    ASSUME TypeOK, NEW k \in 1 .. Len(done)
    PROVE  done[k] \in OutcomeShape /\ done[k].index \in VM
<1>1. done \in Seq(OutcomeShape)
  BY DEF TypeOK
<1>2. done[k] \in OutcomeShape
  BY <1>1
<1> QED BY <1>2 DEF OutcomeShape

\* A step that leaves the channel and the final outcomes alone keeps the gather sound.
LEMMA GatherFrame ==
    ASSUME TypeOK, GatherInv, UNCHANGED gather,
           \A j \in VM : pc[j] = "gone" => pc'[j] = "gone" /\ Outcome(j)' = Outcome(j),
           \A j \in VM : pc'[j] = "gone" => pc[j] = "gone"
    PROVE  GatherInv'
<1>1. Gathered' = Gathered
  BY DEF Gathered, gather
<1>2. \A k \in 1 .. Len(done) : done[k].index \in VM
  BY InChannel
<1>3. ASSUME NEW k \in 1 .. Len(done) PROVE InFlight(done[k])'
  BY <1>1, <1>2, <1>3 DEF GatherInv, InFlight, Outcome, gather
<1>4. \A j \in Gathered : pc'[j] = "gone" /\ outcomes'[j] = Outcome(j)'
  BY DEF GatherInv, Gathered, gather
<1>5. \A j \in VM : pc'[j] = "gone" =>
          j \in Gathered' \/ \E k \in 1 .. Len(done') : done'[k].index = j
  BY <1>1 DEF GatherInv, gather
<1> QED BY <1>1, <1>3, <1>4, <1>5 DEF GatherInv, gather

\* A goroutine that sends its outcome adds one that was in nobody's hands.
LEMMA GatherReturn ==
    ASSUME TypeOK, GatherInv, NEW i \in VM, Return(i)
    PROVE  GatherInv'
<1>1. /\ pc[i] = "return" /\ pc'[i] = "gone" /\ Outcome(i)' = Outcome(i)
      /\ \A j \in VM : pc[j] = "gone" => pc'[j] = "gone" /\ Outcome(j)' = Outcome(j)
  BY DEF Return, Goto, TypeOK, Outcome, outVars
<1>2. i \notin Gathered /\ \A k \in 1 .. Len(done) : done[k].index # i
  BY <1>1 DEF GatherInv, InFlight
<1>3. \A k \in 1 .. Len(done) : done[k].index \in VM
  BY InChannel
<1>4. CASE N = 1
  <2>1. VM = {i}
    BY <1>4 DEF VM
  <2>2. Outcome(i) # NoOutcome
    BY DEF Outcome, OutcomeShape, TypeOK
  <2>3. Gathered' = {i} /\ outcomes'[i] = Outcome(i)
    BY <1>4, <2>1, <2>2 DEF Return, Gathered, TypeOK
  <2>4. Cardinality({i}) = 1
    BY FS_Singleton
  <2>5. done = <<>>
    <3>1. ASSUME done # <<>> PROVE FALSE
      <4>1. 1 \in 1 .. Len(done) BY <3>1 DEF TypeOK
      <4> QED BY <4>1, <1>2, <1>3, <2>1
    <3> QED BY <3>1
  <2>6. \A j \in VM : j \in Gathered'
    BY <2>1, <2>3
  <2> QED BY <1>1, <1>4, <2>3, <2>4, <2>5, <2>6 DEF Return, GatherInv
<1>5. CASE N # 1
  <2>1. done' = Append(done, Outcome(i)) /\ UNCHANGED <<outcomes, received>>
    BY <1>5 DEF Return
  <2>2. Gathered' = Gathered
    BY <2>1 DEF Gathered
  <2>3. /\ Len(done') = Len(done) + 1
        /\ \A k \in 1 .. Len(done) : done'[k] = done[k]
        /\ done'[Len(done) + 1] = Outcome(i)
    BY <2>1 DEF TypeOK
  <2>4. Outcome(i).index = i
    BY DEF Outcome
  <2>5. ASSUME NEW k \in 1 .. Len(done')
        PROVE  InFlight(done[k])'
    <3>1. CASE k \in 1 .. Len(done)
      <4>1. InFlight(done[k]) /\ done[k].index \in VM /\ done'[k] = done[k]
        BY <3>1, <1>3, <2>3 DEF GatherInv
      <4> QED BY <4>1, <1>1, <2>2 DEF InFlight, Outcome
    <3>2. CASE k = Len(done) + 1
      BY <3>2, <1>1, <1>2, <2>2, <2>3, <2>4 DEF InFlight, Outcome
    <3> QED BY <3>1, <3>2, <2>3 DEF TypeOK
  <2>6. \A k, l \in 1 .. Len(done') : done'[k].index = done'[l].index => k = l
    BY <1>2, <2>3, <2>4 DEF GatherInv, TypeOK
  <2>7. \A j \in Gathered' : pc'[j] = "gone" /\ outcomes'[j] = Outcome(j)'
    BY <1>1, <2>1, <2>2 DEF GatherInv, Gathered
  <2>8. ASSUME NEW j \in VM, pc'[j] = "gone"
        PROVE  j \in Gathered' \/ \E k \in 1 .. Len(done') : done'[k].index = j
    <3>1. Len(done) \in Nat
      BY DEF TypeOK
    <3>2. CASE j = i
      <4>1. Len(done') \in 1 .. Len(done') /\ done'[Len(done')].index = j
        BY <3>1, <3>2, <2>3, <2>4
      <4> QED BY <4>1
    <3>3. CASE j # i
      <4>1. pc[j] = "gone"
        BY <2>8, <3>3 DEF Return, Goto, TypeOK
      <4>2. CASE j \in Gathered
        BY <4>2, <2>2
      <4>3. CASE \E k \in 1 .. Len(done) : done[k].index = j
        BY <4>3, <3>1, <2>3
      <4> QED BY <4>1, <4>2, <4>3 DEF GatherInv
    <3> QED BY <3>2, <3>3
  <2> QED BY <2>1, <2>2, <2>5, <2>6, <2>7, <2>8 DEF GatherInv
<1> QED BY <1>4, <1>5

\* Taking the head of the channel moves one VM from in flight to gathered.
LEMMA GatherCollect ==
    ASSUME TypeOK, GatherInv, Collect
    PROVE  GatherInv'
<1> DEFINE h == Head(done)
           i == h.index
<1>1. done \in Seq(OutcomeShape) /\ done # <<>>
  BY DEF Collect, TypeOK
<1>2. 1 \in 1 .. Len(done) /\ h = done[1] /\ h \in OutcomeShape
  BY <1>1
<1>3. i \in VM /\ i \notin Gathered /\ pc[i] = "gone" /\ h = Outcome(i) /\ h # NoOutcome
  <2>1. InFlight(h)
    BY <1>2 DEF GatherInv
  <2>2. i \in VM /\ h # NoOutcome
    BY <1>2 DEF OutcomeShape
  <2> QED BY <2>1, <2>2 DEF InFlight
<1>4. outcomes' = [outcomes EXCEPT ![i] = h] /\ received' = received + 1 /\ done' = Tail(done)
  BY DEF Collect, Slot
<1>5. /\ Len(done') = Len(done) - 1
      /\ \A k \in 1 .. Len(done') : k + 1 \in 1 .. Len(done) /\ done'[k] = done[k + 1]
  BY <1>1, <1>4
<1>6. Gathered' = Gathered \cup {i}
  BY <1>3, <1>4 DEF Gathered, TypeOK
<1>7. \A j \in VM : Outcome(j)' = Outcome(j) /\ pc'[j] = pc[j]
  BY DEF Collect, vmVars, outVars, Outcome
<1>8. ASSUME NEW k \in 1 .. Len(done')
      PROVE  InFlight(done[k])'
  <2>1. k + 1 \in 1 .. Len(done) /\ done'[k] = done[k + 1] /\ k + 1 # 1
    BY <1>5
  <2>2. done[k + 1].index # i
    BY <1>2, <2>1 DEF GatherInv
  <2>3. done[k + 1].index \in VM
    BY <2>1, InChannel
  <2>4. InFlight(done[k + 1])
    BY <2>1 DEF GatherInv
  <2> QED BY <1>6, <1>7, <2>1, <2>2, <2>3, <2>4 DEF InFlight, Outcome
<1>9. \A k, l \in 1 .. Len(done') : done'[k].index = done'[l].index => k = l
  BY <1>1, <1>5 DEF GatherInv
<1>10. \A j \in Gathered' : pc'[j] = "gone" /\ outcomes'[j] = Outcome(j)'
  BY <1>3, <1>4, <1>6, <1>7 DEF GatherInv, Gathered, TypeOK
<1>11. received' = Cardinality(Gathered')
  <2>1. IsFiniteSet(VM) /\ Gathered \in SUBSET VM
    BY FS_Interval DEF VM, Gathered
  <2>2. IsFiniteSet(Gathered)
    BY <2>1, FS_Subset
  <2> QED BY <1>3, <1>4, <1>6, <2>2, FS_AddElement DEF GatherInv
<1>12. ASSUME NEW j \in VM, pc'[j] = "gone"
       PROVE  j \in Gathered' \/ \E k \in 1 .. Len(done') : done'[k].index = j
  <2>1. pc[j] = "gone"
    BY <1>7, <1>12
  <2>2. CASE j \in Gathered
    BY <2>2, <1>6
  <2>3. ASSUME NEW k \in 1 .. Len(done), done[k].index = j
        PROVE  j \in Gathered' \/ \E l \in 1 .. Len(done') : done'[l].index = j
    <3>1. CASE k = 1
      BY <3>1, <2>3, <1>2, <1>6
    <3>2. CASE k # 1
      <4>1. k - 1 \in 1 .. Len(done') /\ (k - 1) + 1 = k
        BY <3>2, <1>1, <1>5
      <4>2. done'[k - 1] = done[k]
        BY <4>1, <1>5
      <4> QED BY <4>1, <4>2, <2>3
    <3> QED BY <3>1, <3>2
  <2> QED BY <2>1, <2>2, <2>3 DEF GatherInv
<1> QED BY <1>8, <1>9, <1>10, <1>11, <1>12 DEF GatherInv

\* The gather stays sound, whoever moves.
LEMMA GatherStep ==
    ASSUME TypeOK, StageInv, GatherInv, [Next]_vars
    PROVE  GatherInv'
<1> USE DEF vars, vmVars, mainVars, checks, outVars
<1>1. ASSUME NEW i \in VM, BootOne(i) PROVE GatherInv'
  <2>1. CASE Return(i) BY <2>1, GatherReturn
  <2>2. CASE UNCHANGED gather /\ pc'[i] # "gone"
    <3>1. \A j \in VM : pc'[j] = "gone" => pc[j] = "gone"
      BY <1>1, <2>2, BootOneFrame
    <3> QED BY <1>1, <2>2, <3>1, OutcomeFinal, GatherFrame
  <2> QED BY <1>1, <2>1, <2>2, BootOneRuns
<1>2. ASSUME NEW i \in VM, Expire(i) \/ Kill(i) \/ CloseListener(i) \/ GuestPrint(i) \/ FcExit(i)
      PROVE  GatherInv'
  BY <1>2, AroundFrame, GatherFrame DEF Outcome
<1>3. CASE Collect
  BY <1>3, GatherCollect
<1>4. CASE FanOut
  <2>1. \A i \in VM : pc[i] # "gone"
    BY <1>4 DEF FanOut, StageInv
  <2>2. \A i \in VM : pc'[i] # "gone"
    BY <1>4 DEF FanOut
  <2> QED BY <1>4, <2>1, <2>2, GatherFrame DEF FanOut
<1>5. CASE Cancel \/ MakeWorkDir \/ WriteInitramfs \/ GatherEnds \/ Judge \/ RemoveWorkDir
  BY <1>5, GatherFrame
  DEF Cancel, MakeWorkDir, WriteInitramfs, GatherEnds, Judge, RemoveWorkDir, Outcome
<1>6. CASE UNCHANGED vars
  BY <1>6, GatherFrame DEF Outcome
<1> HIDE DEF vars, vmVars, mainVars, checks, outVars
<1> QED BY <1>1, <1>2, <1>3, <1>4, <1>5, <1>6 DEF Next, Main, Terminated

-----------------------------------------------------------------------------
(* Reports.                                                                *)

\* What is known of a VM's report depends on these variables only.
LEMMA ToldFrame ==
    ASSUME NEW j \in VM, Told(j), cancelled => cancelled',
           pc'[j] = pc[j], fc'[j] = fc[j], said'[j] = said[j], pipe'[j] = pipe[j],
           vmErr'[j] = vmErr[j], err'[j] = err[j], guest'[j] = guest[j]
    PROVE  Told(j)'
BY DEF Told, Heard, ReasonIsTrue

\* A step of one bootOne reads and writes nothing of another VM's console.
LEMMA BootOneReportFrame ==
    ASSUME TypeOK, NEW i \in VM, BootOne(i), NEW j \in VM, j # i
    PROVE  said'[j] = said[j] /\ pipe'[j] = pipe[j] /\ vmErr'[j] = vmErr[j]
<1> USE DEF guestVars, OnlySetup, TypeOK
<1> QED BY DEF BootOne, DelStaleTap, AddTap, AddressTap, RaiseTap, IpCommand, Listen,
               CreateScratch, WriteConfig, Arm, Start, Scan, EndOfOutput, Wait, Unwind,
               TeardownTap, Return

\* A step of bootOne makes the right thing of what the guest said.
LEMMA BootOneTold ==
    ASSUME TypeOK, NEW i \in VM, Told(i), Owned(i), BootOne(i)
    PROVE  Told(i)'
<1> USE DEF guestVars, outVars, OnlySetup, Goto, Fail, TypeOK, Told, BeforeScan, AfterScan
<1>1. CASE DelStaleTap(i) BY <1>1 DEF DelStaleTap
<1>2. ASSUME NEW at \in BeforeScan \ {"start"}, NEW pre, NEW post, NEW next \in BeforeScan,
             IpCommand(i, at, pre, post, next), tap[i] = pre \/ "ip" \in Faults \/ cancelled
      PROVE  Told(i)'
  BY <1>2 DEF IpCommand, SetupExit, ReasonIsTrue
<1>5. CASE Listen(i) BY <1>5 DEF Listen, ReasonIsTrue
<1>6. CASE CreateScratch(i) BY <1>6 DEF CreateScratch, ReasonIsTrue
<1>7. CASE WriteConfig(i) BY <1>7 DEF WriteConfig, ReasonIsTrue
<1>8. CASE Arm(i) BY <1>8 DEF Arm
<1>9. CASE Start(i) BY <1>9 DEF Start, ReasonIsTrue, Heard
<1>10. CASE Scan(i) BY <1>10 DEF Scan, Heard, Lines
<1>11. CASE EndOfOutput(i) BY <1>11 DEF EndOfOutput, Drained, Heard
<1>12. CASE Wait(i) BY <1>12 DEF Wait, FinalErr, Heard, ReasonIsTrue, Dead
<1>13. CASE Unwind(i) BY <1>13 DEF Unwind, ReasonIsTrue
<1>14. CASE TeardownTap(i)
  <2>1. pc[i] = "deltap" /\ pc'[i] = "return" /\ UNCHANGED <<fc, said, pipe, vmErr, err, guest, cancelled>>
    BY <1>14 DEF TeardownTap
  <2>2. ReasonIsTrue(i) /\ (err[i] = "none" => guest[i] # NoReport)
    BY <2>1
  <2>3. ReasonIsTrue(i)'
    BY <2>1, <2>2 DEF ReasonIsTrue, Reason
  <2> QED BY <2>1, <2>3 DEF Heard
<1>15. CASE Return(i) BY <1>15 DEF Return, ReasonIsTrue
<1> HIDE DEF OnlySetup, Goto, Fail, TypeOK, Told
<1>16. CASE AddTap(i) \/ AddressTap(i) \/ RaiseTap(i)
  <2>1. CASE AddTap(i)
    <3>1. tap[i] = "absent" \/ "ip" \in Faults \/ cancelled
      BY <2>1 DEF AddTap, IpCommand, Owned
    <3> QED BY <1>2, <2>1, <3>1 DEF AddTap
  <2>2. CASE AddressTap(i)
    <3>1. tap[i] = "bare"
      BY <2>2 DEF AddressTap, IpCommand, Owned
    <3> QED BY <1>2, <2>2, <3>1 DEF AddressTap
  <2>3. CASE RaiseTap(i)
    <3>1. tap[i] = "addressed"
      BY <2>3 DEF RaiseTap, IpCommand, Owned
    <3> QED BY <1>2, <2>3, <3>1, "listen" \in BeforeScan DEF RaiseTap
  <2> QED BY <1>16, <2>1, <2>2, <2>3
<1> QED
  BY <1>1, <1>5, <1>6, <1>7, <1>8, <1>9, <1>10, <1>11, <1>12,
     <1>13, <1>14, <1>15, <1>16 DEF BootOne

\* Reports and reasons stay true, whoever moves.
LEMMA ReportStep ==
    ASSUME TypeOK, StageInv, DeviceInv, ReportInv, [Next]_vars
    PROVE  ReportInv'
<1> SUFFICES ASSUME NEW j \in VM PROVE Told(j)'
  BY DEF ReportInv
<1> USE DEF vars, vmVars, mainVars, checks, gather, devVars, guestVars, outVars
<1>0. Told(j) /\ Owned(j)
  BY DEF ReportInv, DeviceInv
<1>1. ASSUME NEW i \in VM, BootOne(i) PROVE Told(j)'
  <2>1. CASE i = j BY <1>0, <1>1, <2>1, BootOneTold
  <2>2. CASE i # j BY <1>0, <1>1, <2>2, BootOneFrame, BootOneReportFrame, ToldFrame
  <2> QED BY <2>1, <2>2
<1>2. ASSUME NEW i \in VM, Expire(i) PROVE Told(j)'
  <2>1. CASE i = j
    BY <1>0, <1>2, <2>1 DEF Expire, Armed, Told, Heard, BeforeScan, AfterScan, TypeOK
  <2>2. CASE i # j BY <1>0, <1>2, <2>2, ToldFrame DEF Expire, TypeOK
  <2> QED BY <2>1, <2>2
<1>3. ASSUME NEW i \in VM, Kill(i) \/ FcExit(i) PROVE Told(j)'
  <2>1. CASE i = j
    BY <1>0, <1>3, <2>1 DEF Kill, FcExit, Told, Owned, Heard, BeforeScan, AfterScan, TypeOK, Dead
  <2>2. CASE i # j BY <1>0, <1>3, <2>2, ToldFrame DEF Kill, FcExit, TypeOK
  <2> QED BY <2>1, <2>2
<1>4. ASSUME NEW i \in VM, CloseListener(i) PROVE Told(j)'
  BY <1>0, <1>4, ToldFrame DEF CloseListener
<1>5. ASSUME NEW i \in VM, GuestPrint(i) PROVE Told(j)'
  <2>1. CASE i = j
    BY <1>0, <1>5, <2>1 DEF GuestPrint, Told, Owned, Heard, BeforeScan, AfterScan, TypeOK
  <2>2. CASE i # j BY <1>0, <1>5, <2>2, ToldFrame DEF GuestPrint, TypeOK
  <2> QED BY <2>1, <2>2
<1>6. CASE Cancel
  <2>1. CASE Armed(j)
    BY <1>0, <1>6, <2>1 DEF Cancel, Armed, Told, Heard, BeforeScan, AfterScan
  <2>2. CASE ~Armed(j) BY <1>0, <1>6, <2>2, ToldFrame DEF Cancel, TypeOK
  <2> QED BY <2>1, <2>2
<1>7. CASE MakeWorkDir \/ WriteInitramfs \/ Collect \/ GatherEnds \/ Judge \/ RemoveWorkDir
  BY <1>0, <1>7, ToldFrame
  DEF MakeWorkDir, WriteInitramfs, Collect, GatherEnds, Judge, RemoveWorkDir
<1>8. CASE FanOut
  BY <1>0, <1>8 DEF FanOut, Told, StageInv, BeforeScan, AfterScan
<1>9. CASE UNCHANGED vars
  BY <1>0, <1>9, ToldFrame
<1> HIDE DEF vars, vmVars, mainVars, checks, gather, devVars, guestVars, outVars
<1> QED
  BY <1>1, <1>2, <1>3, <1>4, <1>5, <1>6, <1>7, <1>8, <1>9 DEF Next, Main, Terminated

\* What judgeOutcomes can tell from an outcome is what the guest printed.
LEMMA JudgedAsTold ==
    ASSUME TypeOK, StageInv, GatherInv, ReportInv, stage = "judge", NEW i \in VM
    PROVE  /\ Failed(outcomes[i]) <=> said[i] \notin Reports
           /\ said[i] \in Reports => outcomes[i].guest = said[i]
<1>1. pc[i] = "gone" /\ outcomes[i] = Outcome(i)
  BY DEF StageInv, GatherInv, Gathered
<1>2. /\ said[i] \in Reports <=> err[i] = "none"
      /\ guest[i] = IF said[i] \in Reports THEN said[i] ELSE NoReport
  BY <1>1 DEF ReportInv, Told, AfterScan
<1> QED BY <1>1, <1>2 DEF Outcome, Failed

\* Once the checks are made no guest is left to say anything.
LEMMA ChecksStep ==
    ASSUME TypeOK, StageInv, DeviceInv, GatherInv, ReportInv, ChecksInv, [Next]_vars
    PROVE  ChecksInv'
<1> USE DEF vars, vmVars, mainVars, checks, gather, guestVars
<1>1. CASE launch # "none"
  <2>1. stage \in {"remove", "done"} /\ \A i \in VM : pc[i] = "gone"
    BY <1>1 DEF StageInv, TypeOK
  <2>2. \A i \in VM : fc[i] # "running"
    BY <2>1 DEF DeviceInv, Owned
  <2>3. UNCHANGED <<launch, network, said>>
    <3>1. ASSUME NEW i \in VM, BootOne(i) PROVE FALSE
      BY <2>1, <3>1, BootOneRuns
    <3>2. ASSUME NEW i \in VM, Expire(i) \/ Kill(i) \/ CloseListener(i) \/ GuestPrint(i) \/ FcExit(i)
          PROVE UNCHANGED <<launch, network, said>>
      BY <2>2, <3>2 DEF Expire, Kill, CloseListener, GuestPrint, FcExit
    <3>3. CASE Cancel \/ Main
      BY <2>1, <3>3 DEF Cancel, Main, MakeWorkDir, WriteInitramfs, FanOut, Collect, GatherEnds,
                        Judge, RemoveWorkDir
    <3> QED BY <3>1, <3>2, <3>3 DEF Next, Terminated
  <2> QED BY <2>3 DEF ChecksInv, ChecksMatchGuests
<1>2. CASE launch = "none" /\ Judge
  <2>1. \A i \in VM : Failed(outcomes[i]) <=> said[i] \notin Reports
    BY <1>2, JudgedAsTold DEF Judge
  <2>2. said' = said
    BY <1>2 DEF Judge
  <2>3. CASE \E i \in VM : Failed(outcomes[i])
    BY <1>2, <2>1, <2>2, <2>3 DEF Judge, ChecksInv, ChecksMatchGuests
  <2>4. CASE ~\E i \in VM : Failed(outcomes[i])
    <3>1. \A i \in VM : said[i] \in Reports /\ outcomes[i].guest = said[i]
      BY <1>2, <2>1, <2>4, JudgedAsTold DEF Judge
    <3>2. launch' = "pass" /\ (network' = "none" \/ network' = Verdict(NetworkOK))
      BY <1>2, <2>4 DEF Judge, ChecksInv, ChecksMatchGuests
    <3> QED BY <2>2, <3>1, <3>2 DEF Verdict, NetworkOK, ChecksInv, ChecksMatchGuests
  <2> QED BY <2>3, <2>4
<1>3. CASE launch = "none" /\ ~Judge
  <2>1. launch' = "none" /\ network' = network
    <3>1. ASSUME NEW i \in VM, BootOne(i) PROVE launch' = launch /\ network' = network
      BY <3>1, BootOneRuns
    <3>2. ASSUME NEW i \in VM, Expire(i) \/ Kill(i) \/ CloseListener(i) \/ GuestPrint(i) \/ FcExit(i) \/ Cancel
          PROVE launch' = launch /\ network' = network
      BY <3>2, AroundFrame
    <3>3. CASE Main
      BY <1>3, <3>3 DEF Main, MakeWorkDir, WriteInitramfs, FanOut, Collect, GatherEnds, RemoveWorkDir
    <3>4. ASSUME Cancel PROVE launch' = launch /\ network' = network
      BY <3>4 DEF Cancel
    <3> QED BY <1>3, <3>1, <3>2, <3>3, <3>4 DEF Next, Terminated
  <2> QED BY <1>3, <2>1 DEF ChecksInv, ChecksMatchGuests
<1> QED BY <1>1, <1>2, <1>3

-----------------------------------------------------------------------------
(* The invariant and what follows from it.                                 *)

IInv == TypeOK /\ StageInv /\ DeviceInv /\ GatherInv /\ ReportInv /\ ChecksInv

(***************************************************************************)
(* Through every step of runBootStage, bootOne and the environment: where  *)
(* the code stands says what each VM owns, what is in the channel and what *)
(* has become of the guests' reports.                                      *)
(***************************************************************************)
THEOREM Invariance == Spec => []IInv
<1>1. Init => TypeOK /\ StageInv /\ DeviceInv
  BY InitType DEF Init, StageInv, DeviceInv, Owned, HasTap, HasEcho, HasScratch
<1>2. Init => GatherInv
  <2>1. Init => Gathered = {} /\ done = <<>> /\ received = 0
    BY DEF Init, Gathered
  <2>2. 1 .. Len(<<>>) = {}
    OBVIOUS
  <2>3. Init => \A i \in VM : pc[i] # "gone"
    BY DEF Init
  <2> QED BY <2>1, <2>2, <2>3, FS_EmptySet DEF GatherInv
<1>3. Init => ReportInv /\ ChecksInv
  BY DEF Init, ReportInv, Told, BeforeScan, AfterScan, ChecksInv, ChecksMatchGuests
<1>4. IInv /\ [Next]_vars => IInv'
  BY TypeStep, StageStep, DeviceStep, GatherStep, ReportStep, ChecksStep DEF IInv
<1> QED BY <1>1, <1>2, <1>3, <1>4, PTL DEF IInv, Spec, Safe

(***************************************************************************)
(* Firecracker never runs without its tap, its drive, its directory and    *)
(* its echo server, and so none is running when the stage has returned.    *)
(***************************************************************************)
THEOREM DevicesOutliveVMs == Spec => []RunningVMHasItsDevices
<1>1. IInv => RunningVMHasItsDevices
  BY DEF IInv, TypeOK, StageInv, DeviceInv, Owned, RunningVMHasItsDevices,
         HasTap, HasEcho, HasScratch
<1> QED BY <1>1, Invariance, PTL

(***************************************************************************)
(* A tap left behind is one whose setupTap failed, or `ip` failed on it.   *)
(***************************************************************************)
THEOREM TapsAreRemoved == Spec => []TapLeftOnlyByFailedSetup
<1>1. IInv => TapLeftOnlyByFailedSetup
  BY DEF IInv, DeviceInv, Owned, TapLeftOnlyByFailedSetup
<1> QED BY <1>1, Invariance, PTL

(***************************************************************************)
(* judgeOutcomes reads every VM's outcome, each at its own index.          *)
(***************************************************************************)
THEOREM GatherIsFaithful == Spec => []OutcomesFaithful
<1>1. IInv => OutcomesFaithful
  BY DEF IInv, StageInv, GatherInv, Gathered, OutcomesFaithful
<1> QED BY <1>1, Invariance, PTL

(***************************************************************************)
(* Every reason bootOne gives for a failure is a true one.                 *)
(***************************************************************************)
THEOREM ReasonsAreTrue == Spec => []FailureHasCause
<1>1. IInv => FailureHasCause
  <2> SUFFICES ASSUME IInv, NEW i \in VM PROVE ReasonIsTrue(i)
    BY DEF FailureHasCause
  <2>1. Told(i)
    BY DEF IInv, ReportInv
  <2>2. CASE pc[i] \in AfterScan
    BY <2>1, <2>2 DEF Told
  <2>3. CASE pc[i] \notin AfterScan
    <3>1. pc[i] \in BeforeScan \cup {"scan", "wait"}
      BY <2>3 DEF IInv, TypeOK, PC, BeforeScan, AfterScan
    <3>2. err[i] = "none" \/ (err[i] = "parse" /\ said[i] = Garbled)
      BY <2>1, <3>1 DEF Told, Heard
    <3> QED BY <2>3, <3>2 DEF ReasonIsTrue, AfterScan
  <2> QED BY <2>2, <2>3
<1> QED BY <1>1, Invariance, PTL

(***************************************************************************)
(* No report a guest got out is lost between the pipe and the outcome.     *)
(***************************************************************************)
THEOREM ReportsAreKept == Spec => []ReportNotLost
<1>1. IInv => ReportNotLost
  BY DEF IInv, ReportInv, Told, AfterScan, ReportNotLost
<1> QED BY <1>1, Invariance, PTL

(***************************************************************************)
(* The launch and network checks say exactly what the guests said.         *)
(***************************************************************************)
THEOREM ChecksAreRight == Spec => []ChecksMatchGuests
<1>1. IInv => ChecksMatchGuests
  BY DEF IInv, ChecksInv, ChecksMatchGuests
<1> QED BY <1>1, Invariance, PTL

-----------------------------------------------------------------------------
(* The stage never waits in vain.                                          *)

\* While one bootOne has not returned, the channel holds fewer outcomes than it has room for.
LEMMA RoomInChannel ==
    ASSUME TypeOK, GatherInv, NEW i \in VM, pc[i] # "gone"
    PROVE  Len(done) < N
<1> DEFINE sender == [k \in 1 .. Len(done) |-> done[k].index]
           Others == VM \ {i}
<1>1. Len(done) \in Nat
  BY DEF TypeOK
<1>2. \A k \in 1 .. Len(done) : done[k].index \in Others
  <2> SUFFICES ASSUME NEW k \in 1 .. Len(done) PROVE done[k].index \in Others
    OBVIOUS
  <2>1. done[k].index \in VM
    BY InChannel
  <2>2. pc[done[k].index] = "gone"
    BY DEF GatherInv, InFlight
  <2> QED BY <2>1, <2>2
<1>3. sender \in Injection(1 .. Len(done), Others)
  <2>1. sender \in [1 .. Len(done) -> Others]
    BY <1>2
  <2>2. \A k, l \in 1 .. Len(done) : sender[k] = sender[l] => k = l
    BY DEF GatherInv
  <2> QED BY <2>1, <2>2 DEF Injection, IsInjective
<1>4. IsFiniteSet(VM) /\ Cardinality(VM) = N
  BY FS_Interval DEF VM
<1>5. IsFiniteSet(Others) /\ Cardinality(Others) = N - 1
  BY <1>4, FS_RemoveElement
<1>6. Cardinality(1 .. Len(done)) = Len(done)
  BY <1>1, FS_Interval
<1> HIDE DEF sender, Others
<1>7. Len(done) <= N - 1
  BY <1>3, <1>5, <1>6, FS_Injection
<1> QED BY <1>1, <1>7

\* With every bootOne gone and the channel empty, the gather loop has had them all.
LEMMA NobodyLeftToWaitFor ==
    ASSUME TypeOK, GatherInv, done = <<>>, \A i \in VM : pc[i] = "gone"
    PROVE  received = N
<1>1. \A i \in VM : i \in Gathered
  BY DEF GatherInv
<1>2. Gathered = VM
  BY <1>1 DEF Gathered
<1> QED BY <1>2, FS_Interval DEF GatherInv, VM

(***************************************************************************)
(* Whatever the guests, the faults and the signal do, each bootOne that    *)
(* has not returned can go on or is freed by its own timer, its outcome    *)
(* finds room in the channel, and runBootStage waits only for an outcome   *)
(* that somebody still owes it.                                            *)
(***************************************************************************)
THEOREM StageNeverWaitsInVain == Spec => []StageNeverStuck
<1>1. ASSUME IInv, NEW i \in VM, pc[i] \notin {"idle", "gone"}
      PROVE  BootOneCanMove(i) \/ FreedByTheClock(i)
  <2>1. Told(i) /\ fc[i] \in {"none", "running"} \cup Dead
    BY <1>1 DEF IInv, ReportInv, TypeOK
  <2>2. CASE pc[i] = "scan"
    BY <2>1, <2>2 DEF Told, BootOneCanMove, FreedByTheClock, Armed
  <2>3. CASE pc[i] = "wait"
    BY <2>1, <2>3 DEF Told, BootOneCanMove
  <2>4. CASE pc[i] = "return"
    BY <1>1, <2>4, RoomInChannel DEF IInv, BootOneCanMove
  <2> QED BY <2>2, <2>3, <2>4 DEF BootOneCanMove
<1>2. IInv => (stage = "collect" => received = N \/ done # <<>> \/ \E i \in VM : pc[i] # "gone")
  BY NobodyLeftToWaitFor DEF IInv
<1>3. IInv => StageNeverStuck
  BY <1>1, <1>2 DEF StageNeverStuck
<1> QED BY <1>3, Invariance, PTL

(***************************************************************************)
(* A report that was read is never taken back: not by the deadline, the    *)
(* signal or Firecracker's exit status.                                    *)
(***************************************************************************)
THEOREM ReadReportsStick == Spec => ReportSticks
<1> DEFINE Kept(i) == guest[i] # NoReport => guest'[i] = guest[i] /\ err'[i] = err[i]
<1>1. ASSUME IInv, [Next]_vars, NEW j \in VM PROVE Kept(j)
  <2> USE DEF vars, vmVars, outVars
  <2>1. ASSUME NEW i \in VM, BootOne(i) PROVE Kept(j)
    <3>1. CASE i # j
      BY <1>1, <2>1, <3>1, BootOneFrame DEF IInv
    <3>2. CASE i = j /\ guest[j] # NoReport
      <4>1. pc[j] \notin BeforeScan /\ pipe[j] = NoReport
        BY <1>1, <3>2 DEF IInv, ReportInv, Told
      <4>2. EndOfOutput(j) \/ Wait(j) \/ Unwind(j) \/ TeardownTap(j) \/ Return(j)
        BY <2>1, <3>2, <4>1
        DEF BootOne, BeforeScan, DelStaleTap, AddTap, AddressTap, RaiseTap, IpCommand, Listen,
            CreateScratch, WriteConfig, Arm, Start, Scan
      <4> QED
        BY <1>1, <3>2, <4>2
        DEF EndOfOutput, Wait, FinalErr, Unwind, TeardownTap, Return, OnlySetup, IInv, TypeOK
    <3> QED BY <3>1, <3>2
  <2>2. ASSUME NEW i \in VM, Expire(i) \/ Kill(i) \/ CloseListener(i) \/ GuestPrint(i) \/ FcExit(i) \/ Cancel
        PROVE Kept(j)
    BY <2>2, AroundFrame
  <2>3. CASE Main
    BY <2>3 DEF Main, MakeWorkDir, WriteInitramfs, FanOut, Collect, GatherEnds, Judge, RemoveWorkDir
  <2>4. CASE Cancel
    BY <2>4 DEF Cancel
  <2> HIDE DEF vars, vmVars, outVars
  <2>5. CASE UNCHANGED vars
    BY <2>5 DEF vars, vmVars, outVars
  <2> QED BY <1>1, <2>1, <2>2, <2>3, <2>4, <2>5 DEF Next, Terminated
<1>2. IInv /\ [Next]_vars => [\A i \in VM : Kept(i)]_vars
  BY <1>1
<1> QED BY <1>2, Invariance, PTL DEF Spec, Safe, ReportSticks

-----------------------------------------------------------------------------
(* The stage goes forward only.                                            *)

\* The orders, as numbers.
LEMMA OrderValues ==
    /\ /\ StageOrder["workdir"] = 0 /\ StageOrder["initramfs"] = 1 /\ StageOrder["fanout"] = 2
       /\ StageOrder["collect"] = 3 /\ StageOrder["judge"] = 4 /\ StageOrder["remove"] = 5
       /\ StageOrder["done"] = 6
    /\ /\ PCOrder["idle"] = 0 /\ PCOrder["del"] = 1 /\ PCOrder["add"] = 2 /\ PCOrder["addr"] = 3
       /\ PCOrder["up"] = 4 /\ PCOrder["listen"] = 5 /\ PCOrder["scratch"] = 6
       /\ PCOrder["config"] = 7 /\ PCOrder["arm"] = 8 /\ PCOrder["start"] = 9
       /\ PCOrder["scan"] = 10 /\ PCOrder["wait"] = 11 /\ PCOrder["unwind"] = 12
       /\ PCOrder["deltap"] = 13 /\ PCOrder["return"] = 14 /\ PCOrder["gone"] = 15
BY DEF StageOrder, PCOrder

LEMMA OrdersAreNumbers ==
    ASSUME TypeOK
    PROVE  StageOrder[stage] \in Nat /\ \A i \in VM : PCOrder[pc[i]] \in Nat
<1>1. StageOrder[stage] \in Nat
  BY OrderValues DEF TypeOK
<1>2. \A p \in PC : PCOrder[p] \in Nat
  BY OrderValues DEF PC
<1> QED BY <1>1, <1>2 DEF TypeOK

\* A VM nothing happens to does not go back.
LEMMA NotBackFrame ==
    ASSUME TypeOK, NEW j \in VM, pc'[j] = pc[j], fc'[j] = fc[j], vmErr'[j] = vmErr[j],
           said'[j] = said[j], pipe'[j] = pipe[j], listener'[j] => listener[j]
    PROVE  NotBack(j)
<1>1. PCOrder[pc[j]] <= PCOrder[pc'[j]]
  BY OrdersAreNumbers
<1> QED BY <1>1 DEF NotBack

\* bootOne's own step leads its VM on.
LEMMA BootOneOnward ==
    ASSUME TypeOK, NEW i \in VM, Told(i), BootOne(i)
    PROVE  NotBack(i) /\ (pc'[i] # pc[i] \/ pipe'[i] # pipe[i])
<1> USE DEF guestVars, devVars, OnlySetup, Goto, Fail, TypeOK
<1> DEFINE Leads(from, to) ==
             /\ pc[i] = from /\ pc'[i] \in to
             /\ UNCHANGED <<fc, said, pipe, vmErr>>
             /\ listener'[i] => listener[i] \/ from = "listen"
<1>1. CASE DelStaleTap(i)
  <2>1. Leads("del", {"add"}) BY <1>1 DEF DelStaleTap
  <2> QED BY <2>1, OrderValues DEF NotBack
<1>2. CASE AddTap(i)
  <2>1. Leads("add", {"addr", "return"}) BY <1>2 DEF AddTap, IpCommand, SetupExit
  <2> QED BY <2>1, OrderValues DEF NotBack
<1>3. CASE AddressTap(i)
  <2>1. Leads("addr", {"up", "return"}) BY <1>3 DEF AddressTap, IpCommand, SetupExit
  <2> QED BY <2>1, OrderValues DEF NotBack
<1>4. CASE RaiseTap(i)
  <2>1. Leads("up", {"listen", "return"}) BY <1>4 DEF RaiseTap, IpCommand, SetupExit
  <2> QED BY <2>1, OrderValues DEF NotBack
<1>5. CASE Listen(i)
  <2>1. Leads("listen", {"scratch", "unwind"}) BY <1>5 DEF Listen
  <2> QED BY <2>1, OrderValues DEF NotBack
<1>6. CASE CreateScratch(i)
  <2>1. Leads("scratch", {"config", "unwind"}) BY <1>6 DEF CreateScratch
  <2> QED BY <2>1, OrderValues DEF NotBack
<1>7. CASE WriteConfig(i)
  <2>1. Leads("config", {"arm", "unwind"}) BY <1>7 DEF WriteConfig
  <2> QED BY <2>1, OrderValues DEF NotBack
<1>8. CASE Arm(i)
  <2>1. /\ pc[i] = "arm" /\ pc'[i] = "start" /\ vmErr[i] = "none"
        /\ UNCHANGED <<fc, said, pipe, listener>>
    BY <1>8 DEF Arm, Told, BeforeScan
  <2> QED BY <2>1, OrderValues DEF NotBack
<1>9. CASE Start(i)
  <2>1. /\ pc[i] = "start" /\ pc'[i] \in {"scan", "unwind"} /\ fc[i] = "none"
        /\ UNCHANGED <<said, pipe, vmErr, listener>>
        /\ fc'[i] \in {"none", "running"}
    BY <1>9 DEF Start, Told, BeforeScan
  <2> QED BY <2>1, OrderValues DEF NotBack, Dead
<1>10. CASE Scan(i)
  <2>1. /\ pc[i] = "scan" /\ pc'[i] = "scan" /\ pipe[i] # NoReport /\ pipe'[i] = NoReport
        /\ UNCHANGED <<fc, said, vmErr, listener>>
    BY <1>10 DEF Scan
  <2> QED BY <2>1, OrderValues DEF NotBack
<1>11. CASE EndOfOutput(i)
  <2>1. Leads("scan", {"wait"}) BY <1>11 DEF EndOfOutput
  <2> QED BY <2>1, OrderValues DEF NotBack
<1>12. CASE Wait(i)
  <2>1. Leads("wait", {"unwind"}) BY <1>12 DEF Wait
  <2> QED BY <2>1, OrderValues DEF NotBack
<1>13. CASE Unwind(i)
  <2>1. Leads("unwind", {"deltap"}) BY <1>13 DEF Unwind
  <2> QED BY <2>1, OrderValues DEF NotBack
<1>14. CASE TeardownTap(i)
  <2>1. Leads("deltap", {"return"}) BY <1>14 DEF TeardownTap
  <2> QED BY <2>1, OrderValues DEF NotBack
<1>15. CASE Return(i)
  <2>1. Leads("return", {"gone"}) BY <1>15 DEF Return
  <2> QED BY <2>1, OrderValues DEF NotBack
<1> HIDE DEF OnlySetup, Goto, Fail, TypeOK
<1> QED
  BY <1>1, <1>2, <1>3, <1>4, <1>5, <1>6, <1>7, <1>8, <1>9, <1>10, <1>11, <1>12,
     <1>13, <1>14, <1>15 DEF BootOne

\* So does what the timer, the watcher, the guest and Firecracker do to it.
LEMMA AroundOnward ==
    ASSUME TypeOK, NEW i \in VM, Told(i), Owned(i),
           Expire(i) \/ Kill(i) \/ CloseListener(i) \/ GuestPrint(i) \/ FcExit(i)
    PROVE  /\ \A j \in VM : NotBack(j)
           /\ \/ fc'[i] # fc[i] \/ vmErr'[i] # vmErr[i]
              \/ said'[i] # said[i] \/ listener'[i] # listener[i]
           /\ UNCHANGED <<stage, received, cancelled>>
<1> USE DEF devVars, guestVars, TypeOK
<1>1. UNCHANGED <<pc, stage, received, cancelled>>
  BY DEF Expire, Kill, CloseListener, GuestPrint, FcExit, mainVars, gather
<1>2. \A j \in VM : PCOrder[pc[j]] <= PCOrder[pc'[j]]
  BY <1>1, OrdersAreNumbers
<1>3. CASE Expire(i)
  BY <1>1, <1>2, <1>3 DEF Expire, NotBack
<1>4. CASE Kill(i) \/ FcExit(i)
  BY <1>1, <1>2, <1>4 DEF Kill, FcExit, NotBack, Dead
<1>5. CASE CloseListener(i)
  BY <1>1, <1>2, <1>5 DEF CloseListener, NotBack
<1>6. CASE GuestPrint(i)
  BY <1>1, <1>2, <1>6 DEF GuestPrint, NotBack
<1> QED BY <1>1, <1>3, <1>4, <1>5, <1>6

\* So do runBootStage's own steps.
LEMMA MainOnward ==
    ASSUME TypeOK, StageInv, Main
    PROVE  /\ StageOrder[stage] <= StageOrder[stage'] /\ received <= received'
           /\ UNCHANGED cancelled
           /\ \A j \in VM : NotBack(j)
           /\ stage' # stage \/ received' # received
<1> USE DEF vmVars, devVars, guestVars, gather, mainVars
<1>1. /\ stage' # stage \/ received' # received
      /\ UNCHANGED <<cancelled, fc, vmErr, said, pipe, listener>>
  BY DEF TypeOK, Main, MakeWorkDir, WriteInitramfs, FanOut, Collect, GatherEnds, Judge, RemoveWorkDir
<1>2. received <= received'
  BY DEF TypeOK, Main, MakeWorkDir, WriteInitramfs, FanOut, Collect, GatherEnds, Judge, RemoveWorkDir
<1>3. StageOrder[stage] <= StageOrder[stage']
  <2>1. \/ stage = "workdir" /\ stage' \in {"initramfs", "done"}
        \/ stage = "initramfs" /\ stage' \in {"fanout", "remove"}
        \/ stage = "fanout" /\ stage' = "collect"
        \/ stage = "collect" /\ stage' \in {"collect", "judge"}
        \/ stage = "judge" /\ stage' = "remove"
        \/ stage = "remove" /\ stage' = "done"
    BY DEF Main, MakeWorkDir, WriteInitramfs, FanOut, Collect, GatherEnds, Judge, RemoveWorkDir
  <2> QED BY <2>1, OrderValues
<1>4. CASE FanOut
  <2>1. \A j \in VM : pc[j] = "idle" /\ pc'[j] = "del"
    BY <1>4 DEF FanOut, StageInv
  <2>2. \A j \in VM : PCOrder[pc[j]] <= PCOrder[pc'[j]]
    BY <2>1, OrderValues
  <2> QED BY <1>1, <1>2, <1>3, <2>2 DEF NotBack
<1>5. CASE MakeWorkDir \/ WriteInitramfs \/ Collect \/ GatherEnds \/ Judge \/ RemoveWorkDir
  <2>1. UNCHANGED pc
    BY <1>5 DEF MakeWorkDir, WriteInitramfs, Collect, GatherEnds, Judge, RemoveWorkDir
  <2>2. \A j \in VM : NotBack(j)
    BY <1>1, <2>1, NotBackFrame
  <2> QED BY <1>1, <1>2, <1>3, <2>2
<1> QED BY <1>4, <1>5 DEF Main

(***************************************************************************)
(* No step of the stage takes anything back, and each takes something on:  *)
(* however many VMs there are, whatever fails in them and whenever the     *)
(* signal comes, no part of it is ever gone back to.                       *)
(***************************************************************************)
THEOREM StageMovesOnward == Spec => Onward
<1> DEFINE Ahead == /\ StageOrder[stage] <= StageOrder[stage'] /\ received <= received'
                    /\ cancelled => cancelled'
                    /\ \A i \in VM : NotBack(i)
                    /\ Places' # Places
<1>1. ASSUME IInv, Next, ~UNCHANGED vars PROVE Ahead
  <2> USE DEF IInv, ReportInv, DeviceInv
  <2>1. ASSUME NEW i \in VM, BootOne(i) PROVE Ahead
    <3>1. NotBack(i) /\ (pc'[i] # pc[i] \/ pipe'[i] # pipe[i])
      BY <1>1, <2>1, BootOneOnward
    <3>2. \A j \in VM : j # i => NotBack(j)
      BY <1>1, <2>1, BootOneFrame, BootOneReportFrame, NotBackFrame
    <3>3. UNCHANGED <<stage, cancelled>> /\ received <= received'
      <4>1. UNCHANGED <<stage, cancelled>>
        BY <2>1 DEF BootOne, DelStaleTap, AddTap, AddressTap, RaiseTap, IpCommand, Listen,
                    CreateScratch, WriteConfig, Arm, Start, Scan, EndOfOutput, Wait, Unwind,
                    TeardownTap, Return, OnlySetup, mainVars
      <4>2. CASE UNCHANGED gather
        BY <1>1, <4>1, <4>2 DEF gather, TypeOK
      <4>3. CASE Return(i)
        BY <1>1, <4>1, <4>3 DEF Return, TypeOK
      <4> QED BY <1>1, <2>1, <4>1, <4>2, <4>3, BootOneRuns
    <3>4. StageOrder[stage] <= StageOrder[stage']
      BY <1>1, <3>3, OrdersAreNumbers
    <3>5. Places' # Places
      BY <3>1 DEF Places
    <3> QED BY <3>1, <3>2, <3>3, <3>4, <3>5
  <2>2. ASSUME NEW i \in VM, Expire(i) \/ Kill(i) \/ CloseListener(i) \/ GuestPrint(i) \/ FcExit(i)
        PROVE  Ahead
    <3>1. /\ \A j \in VM : NotBack(j)
          /\ UNCHANGED <<stage, received, cancelled>>
      BY <1>1, <2>2, AroundOnward
    <3>2. \/ fc'[i] # fc[i] \/ vmErr'[i] # vmErr[i]
          \/ said'[i] # said[i] \/ listener'[i] # listener[i]
      BY <1>1, <2>2, AroundOnward
    <3>3. Places' # Places
      BY <3>2 DEF Places
    <3>4. StageOrder[stage] <= StageOrder[stage'] /\ received <= received'
      BY <1>1, <3>1, OrdersAreNumbers DEF TypeOK
    <3> QED BY <3>1, <3>3, <3>4
  <2>3. CASE Main
    <3>1. Places' # Places
      BY <1>1, <2>3, MainOnward DEF Places
    <3> QED BY <1>1, <2>3, <3>1, MainOnward
  <2>4. CASE Cancel
    <3>1. /\ UNCHANGED <<stage, received, pc, fc, said, pipe, listener>>
          /\ cancelled' # cancelled /\ cancelled'
      BY <1>1, <2>4 DEF Cancel, TypeOK, mainVars, gather, devVars, guestVars
    <3>2. \A j \in VM : vmErr[j] # "none" => vmErr'[j] = vmErr[j]
      BY <1>1, <2>4 DEF Cancel, TypeOK
    <3>3. \A j \in VM : NotBack(j)
      BY <1>1, <3>1, <3>2, OrdersAreNumbers DEF NotBack
    <3>4. StageOrder[stage] <= StageOrder[stage'] /\ received <= received'
      BY <1>1, <3>1, OrdersAreNumbers DEF TypeOK
    <3>5. Places' # Places
      BY <3>1 DEF Places
    <3> QED BY <3>1, <3>3, <3>4, <3>5
  <2> QED BY <1>1, <2>1, <2>2, <2>3, <2>4 DEF Next, Terminated
<1>2. IInv /\ [Next]_vars => [Ahead]_vars
  BY <1>1
<1> QED BY <1>2, Invariance, PTL DEF Spec, Safe, Onward

-----------------------------------------------------------------------------
(* The stage implements BootPromise.                                       *)

\* VMs whose goroutines and results stand still are settled as they were.
LEMMA SettledFrame ==
    ASSUME NEW j \in VM, pc'[j] = pc[j], err'[j] = err[j], guest'[j] = guest[j]
    PROVE  Settled(j)' = Settled(j)
BY DEF Settled

\* Every step of the stage is a step of BootPromise or leaves its view alone.
LEMMA PromiseStep ==
    ASSUME IInv, [Next]_vars
    PROVE  [Promise!Next]_(Promise!vars)
<1> USE DEF vars, vmVars, mainVars, checks, outVars
<1> DEFINE V == IF setup = "fail" THEN "aborted" ELSE launch
           Still == (\A j \in VM : Settled(j)' = Settled(j)) /\ V' = V
<1>0. Still => UNCHANGED Promise!vars
  BY DEF Promise!vars
<1>1. ASSUME NEW i \in VM, BootOne(i) PROVE [Promise!Next]_(Promise!vars)
  <2>1. \A j \in VM : j # i => Settled(j)' = Settled(j)
    BY <1>1, BootOneFrame, SettledFrame DEF IInv
  <2>2. Settled(i) = "pending" /\ V' = V
    BY <1>1, BootOneRuns DEF IInv, Settled
  <2>3. CASE UNCHANGED gather /\ pc'[i] # "gone"
    BY <1>0, <2>1, <2>2, <2>3 DEF Settled
  <2>4. CASE Return(i)
    <3>1. Settled(i)' \in {"ok", "failed"}
      BY <2>4 DEF Return, Goto, Settled, IInv, TypeOK
    <3>2. V = "none"
      <4>1. stage = "collect"
        BY <1>1, BootOneRuns DEF IInv, StageInv, TypeOK
      <4> QED BY <4>1 DEF IInv, StageInv
    <3>3. [j \in VM |-> Settled(j)]' = [[j \in VM |-> Settled(j)] EXCEPT ![i] = Settled(i)']
      BY <2>1
    <3>4. Promise!Settle(i)
      BY <2>2, <3>1, <3>2, <3>3 DEF Promise!Settle
    <3> QED BY <3>4 DEF Promise!Next
  <2> QED BY <1>1, <2>3, <2>4, BootOneRuns DEF IInv
<1>2. ASSUME NEW i \in VM, Expire(i) \/ Kill(i) \/ CloseListener(i) \/ GuestPrint(i) \/ FcExit(i)
      PROVE  Still
  BY <1>2, AroundFrame, SettledFrame
<1>3. CASE Cancel
  BY <1>0, <1>3, SettledFrame DEF Cancel
<1>4. CASE setup' = "fail" /\ (MakeWorkDir \/ WriteInitramfs)
  <2>1. /\ setup = "none" /\ launch = "none" /\ \A j \in VM : Settled(j) = "pending"
        /\ \A j \in VM : Settled(j)' = Settled(j)
    BY <1>4, SettledFrame DEF MakeWorkDir, WriteInitramfs, IInv, StageInv, Settled
  <2>2. Promise!GiveUp
    BY <1>4, <2>1 DEF Promise!GiveUp
  <2> QED BY <2>2 DEF Promise!Next
<1>5. CASE setup' # "fail" /\ (MakeWorkDir \/ WriteInitramfs)
  BY <1>0, <1>5, SettledFrame DEF MakeWorkDir, WriteInitramfs, IInv, StageInv
<1>6. CASE FanOut
  <2>1. \A j \in VM : Settled(j) = "pending" /\ Settled(j)' = "pending"
    BY <1>6 DEF FanOut, Settled, IInv, StageInv
  <2> QED BY <1>0, <1>6, <2>1 DEF FanOut
<1>7. CASE Collect \/ GatherEnds \/ RemoveWorkDir
  BY <1>0, <1>7, SettledFrame DEF Collect, GatherEnds, RemoveWorkDir
<1>8. CASE Judge
  <2>1. ASSUME NEW j \in VM PROVE Settled(j) = IF Failed(outcomes[j]) THEN "failed" ELSE "ok"
    <3>1. pc[j] = "gone" /\ outcomes[j] = Outcome(j)
      BY <1>8 DEF Judge, IInv, StageInv, GatherInv, Gathered
    <3>2. Failed(outcomes[j]) <=> err[j] # "none" \/ guest[j] = NoReport
      BY <3>1 DEF Outcome, Failed
    <3> QED BY <3>1, <3>2 DEF Settled
  <2>2. V = "none" /\ V' = IF \A j \in VM : Settled(j) = "ok" THEN "pass" ELSE "fail"
    BY <1>8, <2>1 DEF Judge, IInv, StageInv
  <2>3. \A j \in VM : Settled(j)' = Settled(j)
    BY <1>8, SettledFrame DEF Judge
  <2>4. Promise!Decide
    BY <2>1, <2>2, <2>3 DEF Promise!Decide
  <2> QED BY <2>4 DEF Promise!Next
<1>9. CASE UNCHANGED vars
  BY <1>0, <1>9, SettledFrame
<1> QED
  BY <1>0, <1>1, <1>2, <1>3, <1>4, <1>5, <1>6, <1>7, <1>8, <1>9 DEF Next, Main, Terminated

(***************************************************************************)
(* The safety half of PromiseKept: every step of the stage is a step of    *)
(* BootPromise or leaves what it speaks of alone.                          *)
(***************************************************************************)
THEOREM StageKeepsPromise == Spec => Promise!Safe
<1>1. Init => Promise!Init
  BY DEF Init, Promise!Init, Settled
<1> QED BY <1>1, PromiseStep, Invariance, PTL DEF Spec, Safe, Promise!Safe

\* What a settled stage says of its VMs.
Settlement(verdict) ==
    /\ verdict = "pass" => \A i \in VM : Settled(i) = "ok"
    /\ verdict = "fail" => (\A i \in VM : Settled(i) # "pending") /\ \E i \in VM : Settled(i) = "failed"
    /\ verdict = "aborted" => \A i \in VM : Settled(i) = "pending"

\* Whoever keeps BootPromise settles soundly.
LEMMA PromiseSettles ==
    Promise!Safe => [](IF setup = "fail" THEN Settlement("aborted") ELSE Settlement(launch))
<1> DEFINE V == IF setup = "fail" THEN "aborted" ELSE launch
           view == [i \in VM |-> Settled(i)]
           Sound == /\ V = "pass" => \A i \in VM : view[i] = "ok"
                    /\ V = "fail" => (\A i \in VM : view[i] # "pending") /\ \E i \in VM : view[i] # "ok"
                    /\ V = "aborted" => \A i \in VM : view[i] = "pending"
<1>1. Promise!Init => Sound
  BY DEF Promise!Init
<1>2. ASSUME Sound, [Promise!Next]_(Promise!vars) PROVE Sound'
  <2>1. CASE Promise!Decide
    BY <1>2, <2>1 DEF Promise!Decide
  <2>2. CASE Promise!GiveUp
    BY <1>2, <2>2 DEF Promise!GiveUp
  <2>3. CASE \E i \in VM : Promise!Settle(i)
    BY <1>2, <2>3 DEF Promise!Settle
  <2>4. CASE UNCHANGED Promise!vars
    BY <1>2, <2>4 DEF Promise!vars
  <2> QED BY <1>2, <2>1, <2>2, <2>3, <2>4 DEF Promise!Next
<1>3. Sound => IF setup = "fail" THEN Settlement("aborted") ELSE Settlement(launch)
  BY DEF Settlement, Settled
<1> QED BY <1>1, <1>2, <1>3, PTL DEF Promise!Safe

(***************************************************************************)
(* What runBootStage's caller can rely on, from BootPromise alone: a       *)
(* launch check that passes means that every bootOne returned a report and *)
(* no error, one that fails that all have returned and one of them failed, *)
(* and a stage that could not prepare has started none.                    *)
(***************************************************************************)
THEOREM VerdictIsTheVMs ==
    Spec => [](IF setup = "fail" THEN Settlement("aborted") ELSE Settlement(launch))
BY PromiseSettles, StageKeepsPromise

=============================================================================
