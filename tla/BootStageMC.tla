----------------------------- MODULE BootStageMC -----------------------------
(***************************************************************************)
(* Small instances of BootStage for TLC.                                   *)
(***************************************************************************)
EXTENDS BootStage

\* A good guest, one cut off from the host, one that bound no block driver.
Good     == [blk |-> TRUE,  net |-> TRUE, netOK |-> TRUE]
CutOff   == [blk |-> TRUE,  net |-> TRUE, netOK |-> FALSE]
Diskless == [blk |-> FALSE, net |-> TRUE, netOK |-> TRUE]

GoodOnly  == {Good}
GoodOrBad == {Good, CutOff, Diskless}

NoFaults   == {}
SomeFaults == FaultKinds \ {"ip"}
AllFaults  == FaultKinds

=============================================================================
