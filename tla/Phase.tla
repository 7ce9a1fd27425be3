------------------------------- MODULE Phase -------------------------------
(***************************************************************************)
(* What one call of Execute, a phase of the command, promises whoever      *)
(* called it, whatever tasks, batches, retries and failing calls it takes: *)
(* it restarts nodes of its target only, none it is done with and none     *)
(* after a signal; it returns when nothing is being restarted, and without *)
(* an error only when it is done with the whole target.  Rolling           *)
(* implements this contract and Command is built on it.                    *)
(***************************************************************************)
EXTENDS Integers

CONSTANT Nodes

VARIABLES
    pc,         \* "prepare", "rolling", or how the phase has ended
    target,     \* nodesToRestart
    inflight,   \* nodes whose restart has begun: until it has worked, or
                \* until its failure is counted
    done,       \* nodes restarted well or given up
    cancelled   \* the context is done

phaseVars == <<pc, target, inflight, done, cancelled>>

Under == {"prepare", "rolling"}

(* The filter has chosen from the nodes that are listed.                   *)
Prepare(chosen) ==
    /\ pc = "prepare"
    /\ pc' = "rolling"
    /\ target' = chosen
    /\ UNCHANGED <<inflight, done, cancelled>>

Start(n) ==
    /\ pc = "rolling" /\ ~cancelled
    /\ n \in target \ (inflight \cup done)
    /\ inflight' = inflight \cup {n}
    /\ UNCHANGED <<pc, target, done, cancelled>>

Works(n) ==
    /\ n \in inflight
    /\ inflight' = inflight \ {n}
    /\ done' = done \cup {n}
    /\ UNCHANGED <<pc, target, cancelled>>

(* The node will be tried again, or is given up. *)
Breaks(n) ==
    /\ n \in inflight
    /\ inflight' = inflight \ {n}
    /\ done' \in {done, done \cup {n}}
    /\ UNCHANGED <<pc, target, cancelled>>

(* After a signal nobody counts the failures that are left.                *)
Uncounted ==
    /\ cancelled
    /\ inflight' = {}
    /\ UNCHANGED <<pc, target, done, cancelled>>

(* The task is completed: the context is not looked at any more. *)
Finish(to) ==
    /\ pc = "rolling"
    /\ inflight = {} /\ target \subseteq done
    /\ pc' = to
    /\ UNCHANGED <<target, inflight, done, cancelled>>

(* The context is looked at where the phase waits for the CMS; whether the *)
(* cleanup on exit works or not, the same error is returned.               *)
Interrupted ==
    /\ pc = "rolling"
    /\ inflight = {} /\ target # {} /\ cancelled
    /\ pc' = "interrupted"
    /\ UNCHANGED <<target, inflight, done, cancelled>>

(* Any other error.                                                        *)
Fails ==
    /\ pc \in Under
    /\ inflight = {}
    /\ pc' = "failed"
    /\ UNCHANGED <<target, inflight, done, cancelled>>

Signal ==
    /\ pc \in Under
    /\ cancelled' = TRUE
    /\ UNCHANGED <<pc, target, inflight, done>>

Kill ==
    /\ pc' = "killed"
    /\ inflight' = {}
    /\ UNCHANGED <<target, done, cancelled>>

(* A new process knows nothing of the old one.                             *)
Forget ==
    /\ target' = {} /\ inflight' = {} /\ done' = {}
    /\ cancelled' = FALSE

-----------------------------------------------------------------------------
(* Phases on their own, each of them a process. *)
Init ==
    /\ pc = "prepare"
    /\ target = {} /\ inflight = {} /\ done = {}
    /\ cancelled = FALSE

Next ==
    \/ \E chosen \in SUBSET Nodes : Prepare(chosen)
    \/ \E n \in Nodes : Start(n) \/ Works(n) \/ Breaks(n)
    \/ Uncounted
    \/ Finish("success") \/ Interrupted \/ Fails
    \/ Signal
    \/ pc \in Under /\ Kill
    \/ pc \notin Under /\ pc' = "prepare" /\ Forget

Spec == Init /\ [][Next]_phaseVars
=============================================================================
