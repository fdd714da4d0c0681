----------------------------- MODULE GuestPromise -----------------------------
(***************************************************************************)
(* What the host may expect of a guest: it says one thing, once, and then  *)
(* leaves; only if it is killed, or its console lags, may it go without    *)
(* having been heard.  BootStage expects less: there a guest may also hang.*)
(***************************************************************************)
CONSTANTS Reports,  \* what a guest may say
          NoReport

VARIABLES
    life,   \* "on", "left" of its own accord, or "dead"
    heard,  \* what has arrived on the console
    prompt  \* the console keeps up with the guest

vars == <<life, heard, prompt>>

Init == life = "on" /\ heard = NoReport /\ prompt = TRUE

Lag ==
    /\ life = "on" /\ heard = NoReport
    /\ prompt' = FALSE
    /\ UNCHANGED <<life, heard>>

Speak ==
    /\ life = "on" /\ heard = NoReport
    /\ heard' \in Reports
    /\ UNCHANGED <<life, prompt>>

Leave ==
    /\ life = "on" /\ (heard # NoReport \/ ~prompt)
    /\ life' = "left"
    /\ UNCHANGED <<heard, prompt>>

Die ==
    /\ life = "on"
    /\ life' = "dead"
    /\ UNCHANGED <<heard, prompt>>

Next == Lag \/ Speak \/ Leave \/ Die

Safe == Init /\ [][Next]_vars

Spec == Safe /\ WF_vars(Speak \/ Leave)

=============================================================================
