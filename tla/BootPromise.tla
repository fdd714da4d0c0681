----------------------------- MODULE BootPromise -----------------------------
(***************************************************************************)
(* What the boot stage promises its caller, with nothing about how: every  *)
(* microVM it starts settles once, for good, as booted or failed; the      *)
(* launch check is made once, only when all have settled, and passes only  *)
(* if all booted.  A stage that cannot prepare gives up before it has      *)
(* started any.                                                            *)
(***************************************************************************)
CONSTANT VM

VARIABLES vm,      \* how each microVM ended, if it has
          verdict  \* the launch check

vars == <<vm, verdict>>

TypeOK ==
    /\ vm \in [VM -> {"pending", "ok", "failed"}]
    /\ verdict \in {"none", "pass", "fail", "aborted"}

Init ==
    /\ vm = [i \in VM |-> "pending"]
    /\ verdict = "none"

Settle(i) ==
    /\ verdict = "none" /\ vm[i] = "pending"
    /\ \E how \in {"ok", "failed"} : vm' = [vm EXCEPT ![i] = how]
    /\ UNCHANGED verdict

Decide ==
    /\ verdict = "none"
    /\ \A i \in VM : vm[i] # "pending"
    /\ verdict' = IF \A i \in VM : vm[i] = "ok" THEN "pass" ELSE "fail"
    /\ UNCHANGED vm

GiveUp ==
    /\ verdict = "none"
    /\ \A i \in VM : vm[i] = "pending"
    /\ verdict' = "aborted"
    /\ UNCHANGED vm

Next == Decide \/ GiveUp \/ \E i \in VM : Settle(i)

Safe == Init /\ [][Next]_vars
Spec == Safe /\ WF_vars(Next)

=============================================================================
