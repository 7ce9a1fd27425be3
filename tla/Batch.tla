------------------------------- MODULE Batch -------------------------------
(***************************************************************************)
(* What one call of processActionGroupStates promises to the loop that     *)
(* calls it, whatever goroutines it uses: which nodes it restarts, how     *)
(* many at a time, which actions it will report to the CMS as completed,   *)
(* and when it hands control back.  RestartBatch implements this contract  *)
(* and Rolling is built on it.  An action is named by the id of its node:  *)
(* a task holds one action group per node, with one lock action in it.     *)
(***************************************************************************)
EXTENDS Integers, FiniteSets

CONSTANTS
    Nodes,           \* ids of the nodes whose actions may be in a batch
    Tenants,         \* names of the tenants
    None,            \* absence: no tenant (a storage node), no node
    Tenant,          \* tenant of each node
    NodesInflight,   \* --nodes-inflight
    TenantsInflight, \* --tenants-inflight
    RetryNumber      \* --restart-retry-number

VARIABLES
    filtered,    \* the actions dispatched by this batch
    todo,        \* those whose restart has not begun
    inflight,    \* those inside RestartNode
    awaiting,    \* those restarted whose status the receiver has not taken
    outcome,     \* what the last RestartNode of each node answered
    completed,   \* completedActions: what CompleteAction will report
    unreported,  \* unreportedButFinishedActionIds
    retries,     \* retriesMadeForNode
    cancelled,   \* the context is done
    open         \* the batch has not handed control back

batchVars == <<filtered, todo, inflight, awaiting, outcome, completed,
               unreported, retries, cancelled, open>>

(* --tenants-inflight counts only in batches without a storage node. *)
DispatchedByTenant(batch) ==
    TenantsInflight > 0 /\ \A n \in batch : Tenant[n] # None

(* Nodes that may be inside RestartNode at the same time. *)
WithinLimits(batch, S) ==
    IF DispatchedByTenant(batch)
    THEN /\ Cardinality({Tenant[n] : n \in S}) <= TenantsInflight
         /\ \A t \in Tenants :
                Cardinality({n \in S : Tenant[n] = t}) <= NodesInflight
    ELSE Cardinality(S) <= NodesInflight

(* A batch made of the actions in performed: those already restarted are   *)
(* only reported again, the others are restarted.                          *)
Open(performed) ==
    /\ filtered' = performed \ unreported
    /\ todo' = performed \ unreported
    /\ completed' = performed \cap unreported
    /\ outcome' = [n \in Nodes |-> "none"]
    /\ inflight' = {}
    /\ awaiting' = {}
    /\ open' = TRUE
    /\ UNCHANGED <<unreported, retries, cancelled>>

(* Mutant: the context is not looked at between two nodes. *)
StartUncancelled(n) ==
    /\ open
    /\ n \in todo
    /\ WithinLimits(filtered, inflight \cup {n})
    /\ todo' = todo \ {n}
    /\ inflight' = inflight \cup {n}
    /\ UNCHANGED <<filtered, awaiting, outcome, completed, unreported,
                   retries, cancelled, open>>

Start(n) ==
    /\ open /\ ~cancelled
    /\ n \in todo
    /\ WithinLimits(filtered, inflight \cup {n})
    /\ todo' = todo \ {n}
    /\ inflight' = inflight \cup {n}
    /\ UNCHANGED <<filtered, awaiting, outcome, completed, unreported,
                   retries, cancelled, open>>

Finish(n) ==
    /\ n \in inflight
    /\ \E o \in {"ok", "err"} : outcome' = [outcome EXCEPT ![n] = o]
    /\ inflight' = inflight \ {n}
    /\ awaiting' = awaiting \cup {n}
    /\ UNCHANGED <<filtered, todo, completed, unreported, retries,
                   cancelled, open>>

(* A status makes its action complete when the restart worked or when it   *)
(* was the last attempt the node is given.                                 *)
Finished(n) == outcome[n] = "ok" \/ retries[n] + 1 = RetryNumber

Record(n) ==
    /\ open
    /\ n \in awaiting
    /\ awaiting' = awaiting \ {n}
    /\ retries' = IF outcome[n] = "ok" THEN retries
                  ELSE [retries EXCEPT ![n] = @ + 1]
    /\ completed' = IF Finished(n) THEN completed \cup {n} ELSE completed
    /\ unreported' = IF Finished(n) THEN unreported \cup {n} ELSE unreported
    /\ UNCHANGED <<filtered, todo, inflight, outcome, cancelled, open>>

Cancel ==
    /\ ~cancelled
    /\ cancelled' = TRUE
    /\ UNCHANGED <<filtered, todo, inflight, awaiting, outcome, completed,
                   unreported, retries, open>>

(* Mutants: a restart may still be running; a cancelled batch is finished  *)
(* first, though it may start no restart any more.                         *)
ReturnEarly ==
    /\ open
    /\ cancelled \/ (todo = {} /\ awaiting = {})
    /\ open' = FALSE
    /\ UNCHANGED <<filtered, todo, inflight, awaiting, outcome, completed,
                   unreported, retries, cancelled>>

ReturnWhenAllDone ==
    /\ open
    /\ inflight = {} /\ todo = {} /\ awaiting = {}
    /\ open' = FALSE
    /\ UNCHANGED <<filtered, todo, inflight, awaiting, outcome, completed,
                   unreported, retries, cancelled>>

(* Control comes back when nothing is being restarted and, unless the      *)
(* context is done, every status has been taken.                           *)
Return ==
    /\ open
    /\ inflight = {}
    /\ cancelled \/ (todo = {} /\ awaiting = {})
    /\ open' = FALSE
    /\ UNCHANGED <<filtered, todo, inflight, awaiting, outcome, completed,
                   unreported, retries, cancelled>>

-----------------------------------------------------------------------------
(* One batch on its own, from any state the loop can call it in. *)
Init ==
    /\ unreported \in SUBSET Nodes
    /\ \E performed \in SUBSET Nodes :
        /\ performed # {}
        /\ filtered = performed \ unreported
        /\ completed = performed \cap unreported
    /\ todo = filtered
    /\ inflight = {}
    /\ awaiting = {}
    /\ outcome = [n \in Nodes |-> "none"]
    /\ retries \in [Nodes -> Nat]
    /\ cancelled \in BOOLEAN
    /\ open = TRUE

Next ==
    \/ \E n \in Nodes : Start(n) \/ Finish(n) \/ Record(n)
    \/ Cancel
    \/ Return

Spec == Init /\ [][Next]_batchVars
=============================================================================
