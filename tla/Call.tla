-------------------------------- MODULE Call --------------------------------
(***************************************************************************)
(* What a call of the CMS or discovery client promises its caller, however *)
(* many attempts, lost answers and pauses there are inside: it returns     *)
(* once; "ok" means that the service acted, unless the call's answer       *)
(* carries no result (a drop), which is taken for ok without a look at its *)
(* status; after an error the service may have acted or not.               *)
(*                                                                         *)
(* These are the outcomes of a call in Rolling and in Maintenance.         *)
(***************************************************************************)
VARIABLES
    phase,    \* "idle", "called" or "over" (the invocation has ended)
    resultless, \* the current call's answer carries no result
    acted,    \* the service has acted on the current call
    result    \* what the last call returned

callVars == <<phase, resultless, acted, result>>

Init ==
    /\ phase = "idle" /\ resultless = FALSE
    /\ acted = FALSE /\ result = "none"

Begin ==
    /\ phase = "idle"
    /\ phase' = "called"
    /\ resultless' \in BOOLEAN
    /\ acted' = FALSE
    /\ result' = "none"

(* The service acts, again if the request reaches it again. *)
Act ==
    /\ phase = "called"
    /\ acted' = TRUE
    /\ UNCHANGED <<phase, resultless, result>>

Return ==
    /\ phase = "called"
    /\ phase' = "idle"
    /\ \/ result' = "ok" /\ (acted \/ resultless)
       \/ result' \in {"error", "exceeded"}
    /\ UNCHANGED <<resultless, acted>>

(* Without usable credentials the process ends before anything is sent.    *)
Fatal ==
    /\ phase = "called" /\ ~acted
    /\ phase' = "over"
    /\ UNCHANGED <<resultless, acted, result>>

End ==
    /\ phase = "idle"
    /\ phase' = "over"
    /\ UNCHANGED <<resultless, acted, result>>

Next == Begin \/ Act \/ Return \/ Fatal \/ End

Spec == Init /\ [][Next]_callVars
=============================================================================
