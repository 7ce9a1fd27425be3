---------------------------- MODULE RestartBatch ----------------------------
(***************************************************************************)
(* The goroutines of one processActionGroupStates call: the dispatcher     *)
(* (dispatchAll, or dispatchByTenant with its semaphore), one              *)
(* restartHandler per group with its pusher and its NodesInflight workers, *)
(* the channel of restart statuses and the goroutine that receives them,   *)
(* and a signal that cancels the context at any moment.                    *)
(*                                                                         *)
(* A goroutine in a select either finds a case ready or parks; a send on   *)
(* the unbuffered queue happens when one side parks and the other comes.   *)
(* cancel() closes the Done channel, which wakes every parked goroutine in *)
(* the same step, so a parked worker or pusher never outlives it.          *)
(***************************************************************************)
EXTENDS Integers, FiniteSets

CONSTANTS
    Nodes, Tenants, None, Tenant, NodesInflight, TenantsInflight, RetryNumber,
    InitialRetries,        \* attempts a node may have behind it: a bound
    DelayOutlastsReceiver  \* --delay-between-restarts is longer than the time
                           \* the receiver needs to take a status just sent

ASSUME RestartBatchAssumption ==
    /\ IsFiniteSet(Nodes) /\ IsFiniteSet(Tenants)
    /\ None \notin Nodes \cup Tenants
    /\ Tenant \in [Nodes -> Tenants \cup {None}]
    /\ NodesInflight \in Nat
    /\ TenantsInflight \in Nat
    /\ RetryNumber \in Nat
    /\ InitialRetries \subseteq Nat
    /\ DelayOutlastsReceiver \in BOOLEAN

(* dispatchAll's only handler is named None, a tenant's handler by its name. *)
Handlers == Tenants \cup {None}

Slots == 1..NodesInflight
Workers == Handlers \X Slots

VARIABLES
    filtered,   \* filteredActions, named by node
    cancelled,  \* ctx is done
    main,       \* where processActionGroupStates stands
    handler,    \* where the pusher of each restartHandler stands
    toPush,     \* actions not yet handed to a worker
    sem,        \* tokens in dispatchByTenant's semaphore
    worker,     \* where each worker goroutine stands
    job,        \* the node of the action each worker took last
    outcome,    \* what RestartNode answered for each node
    statusCh,   \* nodes whose status is in the channel
    receiver,   \* whether handleRestartStatus is running
    taken,      \* statuses it has received
    completed, unreported, retries

dispatchVars == <<main, handler, toPush, sem>>
workerVars == <<worker, job, outcome>>
receiverVars == <<statusCh, receiver, taken, completed, unreported, retries>>
vars == <<filtered, cancelled, dispatchVars, workerVars, receiverVars>>

ByTenant == TenantsInflight > 0 /\ \A n \in filtered : Tenant[n] # None
Groups == IF ByTenant THEN {Tenant[n] : n \in filtered} ELSE {None}
HandlerOf(n) == IF ByTenant THEN Tenant[n] ELSE None
Pending(h) == {n \in toPush : HandlerOf(n) = h}
WorkersOf(h) == {w \in Workers : w[1] = h}

(* Mutant: the buffer is sized for one handler, whatever runs. *)
CapacityOfOneHandler == NodesInflight

Capacity == IF TenantsInflight > 0 THEN NodesInflight * TenantsInflight
                                   ELSE NodesInflight

(* processActionGroupStates up to the dispatch. *)
Init ==
    /\ unreported \in SUBSET Nodes
    /\ \E performed \in SUBSET Nodes :
        /\ performed # {}
        /\ filtered = performed \ unreported
        /\ completed = performed \cap unreported
    /\ retries \in [Nodes -> InitialRetries]
    /\ cancelled \in BOOLEAN
    /\ main = "dispatch"
    /\ handler = [h \in Handlers |-> "new"]
    /\ toPush = filtered
    /\ sem = 0
    /\ worker = [w \in Workers |-> "off"]
    /\ job = [w \in Workers |-> None]
    /\ outcome = [n \in Nodes |-> "none"]
    /\ statusCh = {}
    /\ receiver = "on"
    /\ taken = 0

-----------------------------------------------------------------------------
(* The dispatcher. *)

RunHandler(h) ==
    /\ handler' = [handler EXCEPT ![h] = "pushing"]
    /\ worker' = [w \in Workers |-> IF w[1] = h THEN "idle" ELSE worker[w]]

DispatchAll ==
    /\ main = "dispatch"
    /\ ~ByTenant
    /\ RunHandler(None)
    /\ main' = "wait"
    /\ UNCHANGED <<filtered, cancelled, toPush, sem, job, outcome,
                   receiverVars>>

(* Mutant: the semaphore has room for every tenant. *)
AcquireAlways == sem' = sem + 1

Acquire == sem < TenantsInflight /\ sem' = sem + 1

SpawnTenant(h) ==
    /\ main = "dispatch"
    /\ ByTenant
    /\ h \in Groups
    /\ handler[h] = "new"
    /\ Acquire
    /\ RunHandler(h)
    /\ UNCHANGED <<filtered, cancelled, main, toPush, job, outcome,
                   receiverVars>>

(* The range over the groups ends, or the select finds ctx done. *)
SpawnsOver ==
    /\ main = "dispatch"
    /\ ByTenant
    /\ cancelled \/ \A h \in Groups : handler[h] # "new"
    /\ main' = "wait"
    /\ UNCHANGED <<filtered, cancelled, handler, toPush, sem, workerVars,
                   receiverVars>>

(* handler.stop(true) of dispatchAll, wg.Wait() of dispatchByTenant. *)
DispatchOver ==
    /\ main = "wait"
    /\ \A h \in Handlers : handler[h] \in {"new", "stopped"}
    /\ main' = "join"
    /\ UNCHANGED <<filtered, cancelled, handler, toPush, sem, workerVars,
                   receiverVars>>

(* Mutant: nobody waits for the receiver. *)
JoinAtOnce ==
    /\ main = "join"
    /\ main' = "return"
    /\ UNCHANGED <<filtered, cancelled, handler, toPush, sem, workerVars,
                   receiverVars>>

(* <-done *)
Join ==
    /\ main = "join"
    /\ receiver = "off"
    /\ main' = "return"
    /\ UNCHANGED <<filtered, cancelled, handler, toPush, sem, workerVars,
                   receiverVars>>

-----------------------------------------------------------------------------
(* The pusher of a handler. *)

(* Mutant: push is a bare send, without the ctx.Done case. *)
OfferUncancellable(h) ==
    /\ handler[h] = "pushing"
    /\ Pending(h) # {}
    /\ \A w \in WorkersOf(h) : worker[w] # "parked"
    /\ handler' = [handler EXCEPT ![h] = "offering"]
    /\ UNCHANGED <<filtered, cancelled, main, toPush, sem, workerVars,
                   receiverVars>>

Offer(h) ==
    /\ handler[h] = "pushing"
    /\ Pending(h) # {}
    /\ ~cancelled
    /\ \A w \in WorkersOf(h) : worker[w] # "parked"
    /\ handler' = [handler EXCEPT ![h] = "offering"]
    /\ UNCHANGED <<filtered, cancelled, main, toPush, sem, workerVars,
                   receiverVars>>

Skip(h) ==
    /\ handler[h] = "pushing"
    /\ cancelled
    /\ \E n \in Pending(h) : toPush' = toPush \ {n}
    /\ UNCHANGED <<filtered, cancelled, main, handler, sem, workerVars,
                   receiverVars>>

(* close(queue) wakes the workers parked on it. *)
CloseQueue(h) ==
    /\ handler[h] = "pushing"
    /\ Pending(h) = {}
    /\ handler' = [handler EXCEPT ![h] = "closed"]
    /\ worker' = [w \in Workers |->
                    IF w[1] = h /\ worker[w] = "parked" THEN "exit"
                    ELSE worker[w]]
    /\ UNCHANGED <<filtered, cancelled, main, toPush, sem, job, outcome,
                   receiverVars>>

(* Mutant: stop(false), the handler does not wait for its workers. *)
WorkersIgnored(h) == h \in Handlers

WorkersGone(h) == \A w \in WorkersOf(h) : worker[w] = "exit"

(* Mutant: a tenant's goroutine never frees its token. *)
StopKeepsToken(h) ==
    /\ handler[h] = "closed"
    /\ WorkersGone(h)
    /\ handler' = [handler EXCEPT ![h] = "stopped"]
    /\ UNCHANGED <<filtered, cancelled, main, toPush, sem, workerVars,
                   receiverVars>>

(* wg.Wait() of the handler returns; a tenant's goroutine frees its token. *)
StopHandler(h) ==
    /\ handler[h] = "closed"
    /\ WorkersGone(h)
    /\ handler' = [handler EXCEPT ![h] = "stopped"]
    /\ sem' = IF ByTenant THEN sem - 1 ELSE sem
    /\ UNCHANGED <<filtered, cancelled, main, toPush, workerVars,
                   receiverVars>>

-----------------------------------------------------------------------------
(* The workers. *)

Park(w) ==
    /\ worker[w] = "idle"
    /\ handler[w[1]] = "pushing"
    /\ ~cancelled
    /\ worker' = [worker EXCEPT ![w] = "parked"]
    /\ UNCHANGED <<filtered, cancelled, dispatchVars, job, outcome,
                   receiverVars>>

(* An action goes from the pusher to a worker: one of the two was parked. *)
Dequeue(w) ==
    /\ \/ worker[w] = "idle" /\ handler[w[1]] = "offering"
       \/ worker[w] = "parked" /\ handler[w[1]] = "pushing"
    /\ handler' = [handler EXCEPT ![w[1]] = "pushing"]
    /\ \E n \in Pending(w[1]) :
        /\ toPush' = toPush \ {n}
        /\ job' = [job EXCEPT ![w] = n]
    /\ worker' = [worker EXCEPT ![w] = "restart"]
    /\ UNCHANGED <<filtered, cancelled, main, sem, outcome, receiverVars>>

RestartNode(w) ==
    /\ worker[w] = "restart"
    /\ \E o \in {"ok", "err"} : outcome' = [outcome EXCEPT ![job[w]] = o]
    /\ worker' = [worker EXCEPT ![w] = "send"]
    /\ UNCHANGED <<filtered, cancelled, dispatchVars, job, receiverVars>>

(* rh.statusCh <- restartStatus: blocks while the buffer is full. *)
Send(w) ==
    /\ worker[w] = "send"
    /\ Cardinality(statusCh) < Capacity
    /\ statusCh' = statusCh \cup {job[w]}
    /\ worker' = [worker EXCEPT ![w] = "delay"]
    /\ UNCHANGED <<filtered, cancelled, dispatchVars, job, outcome, receiver,
                   taken, completed, unreported, retries>>

DelayElapses(w) ==
    /\ worker[w] = "delay"
    /\ DelayOutlastsReceiver /\ ~cancelled => job[w] \notin statusCh
    /\ worker' = [worker EXCEPT ![w] = "idle"]
    /\ UNCHANGED <<filtered, cancelled, dispatchVars, job, outcome,
                   receiverVars>>

(* Mutant: a worker that finds the queue closed does not return. *)
MayExitOnCancel(w) == worker[w] \in {"idle", "delay"} /\ cancelled

MayExit(w) ==
    \/ worker[w] = "idle" /\ (cancelled \/ handler[w[1]] = "closed")
    \/ worker[w] = "delay" /\ cancelled

Exit(w) ==
    /\ MayExit(w)
    /\ worker' = [worker EXCEPT ![w] = "exit"]
    /\ UNCHANGED <<filtered, cancelled, dispatchVars, job, outcome,
                   receiverVars>>

-----------------------------------------------------------------------------
(* handleRestartStatus and the signal. *)

(* Mutant: the attempt that just failed is not counted. *)
FinishedLate(n) == outcome[n] = "ok" \/ retries[n] = RetryNumber

Finished(n) == outcome[n] = "ok" \/ retries[n] + 1 = RetryNumber

Receive(n) ==
    /\ receiver = "on"
    /\ taken < Cardinality(filtered)
    /\ n \in statusCh
    /\ statusCh' = statusCh \ {n}
    /\ taken' = taken + 1
    /\ retries' = IF outcome[n] = "ok" THEN retries
                  ELSE [retries EXCEPT ![n] = @ + 1]
    /\ completed' = IF Finished(n) THEN completed \cup {n} ELSE completed
    /\ unreported' = IF Finished(n) THEN unreported \cup {n} ELSE unreported
    /\ UNCHANGED <<filtered, cancelled, dispatchVars, workerVars, receiver>>

ReceiverExits ==
    /\ receiver = "on"
    /\ cancelled \/ taken = Cardinality(filtered)
    /\ receiver' = "off"
    /\ UNCHANGED <<filtered, cancelled, dispatchVars, workerVars, statusCh,
                   taken, completed, unreported, retries>>

(* The parked workers take their Done case; a parked pusher gives up its   *)
(* action, which Skip then drops.                                          *)
Cancel ==
    /\ ~cancelled
    /\ main # "return"
    /\ cancelled' = TRUE
    /\ worker' = [w \in Workers |->
                    IF worker[w] = "parked" THEN "exit" ELSE worker[w]]
    /\ handler' = [h \in Handlers |->
                    IF handler[h] = "offering" THEN "pushing" ELSE handler[h]]
    /\ UNCHANGED <<filtered, main, toPush, sem, job, outcome, receiverVars>>

Returned == main = "return" /\ UNCHANGED vars

HandlerStep(h) ==
    SpawnTenant(h) \/ Offer(h) \/ Skip(h) \/ CloseQueue(h) \/ StopHandler(h)

WorkerStep(w) ==
    \/ Park(w) \/ Dequeue(w) \/ RestartNode(w) \/ Send(w) \/ DelayElapses(w)
    \/ Exit(w)

MainStep == DispatchAll \/ SpawnsOver \/ DispatchOver \/ Join

ReceiverStep == (\E n \in Nodes : Receive(n)) \/ ReceiverExits

Next ==
    \/ MainStep
    \/ \E h \in Handlers : HandlerStep(h)
    \/ \E w \in Workers : WorkerStep(w)
    \/ ReceiverStep
    \/ Cancel
    \/ Returned

Spec == Init /\ [][Next]_vars

(* Every goroutine keeps running and RestartNode comes back. *)
Fairness ==
    /\ WF_vars(MainStep)
    /\ \A h \in Handlers : WF_vars(HandlerStep(h))
    /\ \A w \in Workers : WF_vars(WorkerStep(w))
    /\ WF_vars(ReceiverStep)

FairSpec == Spec /\ Fairness

-----------------------------------------------------------------------------
(* Properties. *)

(* The variables keep their types; the semaphore and the channel never     *)
(* hold more than they were made for.                                      *)
TypeOK ==
    /\ filtered \subseteq Nodes
    /\ cancelled \in BOOLEAN
    /\ main \in {"dispatch", "wait", "join", "return"}
    /\ handler \in [Handlers -> {"new", "pushing", "offering", "closed",
                                 "stopped"}]
    /\ toPush \subseteq filtered
    /\ sem \in 0..TenantsInflight
    /\ worker \in [Workers -> {"off", "idle", "parked", "restart", "send",
                               "delay", "exit"}]
    /\ job \in [Workers -> filtered \cup {None}]
    /\ outcome \in [Nodes -> {"none", "ok", "err"}]
    /\ statusCh \subseteq filtered
    /\ Cardinality(statusCh) <= Capacity
    /\ receiver \in {"on", "off"}
    /\ taken \in Nat
    /\ completed \subseteq Nodes
    /\ unreported \subseteq Nodes
    /\ retries \in [Nodes -> Nat]

Restarting == {job[w] : w \in {v \in Workers : worker[v] = "restart"}}

(* --nodes-inflight and --tenants-inflight hold at every moment, also      *)
(* between the end of one tenant's handler and the start of the next, and  *)
(* whatever --tenants-inflight says in a batch with a storage node.        *)
InflightLimits ==
    IF ByTenant
    THEN /\ Cardinality({Tenant[n] : n \in Restarting}) <= TenantsInflight
         /\ \A t \in Tenants :
                Cardinality({n \in Restarting : Tenant[n] = t})
                    <= NodesInflight
    ELSE Cardinality(Restarting) <= NodesInflight

(* When processActionGroupStates goes on to CompleteAction, no goroutine   *)
(* of the batch is left that could still restart a node or change          *)
(* completedActions, which is read there without the mutex.                *)
NoStragglers ==
    main = "return" =>
        /\ \A w \in Workers : worker[w] \in {"off", "exit"}
        /\ receiver = "off"

(* An action reported complete was restarted well or was tried             *)
(* RetryNumber times, and unless the context was cancelled every dispatched *)
(* node was tried once and every action that may be reported is.           *)
CompletedJustified ==
    main = "return" =>
        /\ \A n \in completed \cap filtered :
                \/ outcome[n] = "ok"
                \/ outcome[n] = "err" /\ retries[n] = RetryNumber
        /\ ~cancelled =>
            \A n \in filtered :
                /\ outcome[n] # "none"
                /\ outcome[n] = "ok" \/ retries[n] = RetryNumber => n \in completed
        /\ completed \subseteq unreported

(* After the signal no further node is restarted, whatever the selects     *)
(* choose.                                                                 *)
NoStartAfterCancel == [][cancelled => Restarting' \subseteq Restarting]_vars

(* A worker never waits for room in the status channel: nobody may be left *)
(* to receive from it.                                                     *)
SendNeverBlocks ==
    \A w \in Workers : worker[w] = "send" => Cardinality(statusCh) < Capacity

(* Where each goroutine waits for another one: the caller for a token, for *)
(* the handlers or for the receiver; a pusher in its select or for its     *)
(* workers; a worker in its select, for room in the channel, or for the    *)
(* receiver when the delay is the longer one; the receiver for a status.   *)
MainWaits ==
    \/ /\ main = "dispatch" /\ ByTenant /\ ~cancelled
       /\ sem = TenantsInflight /\ \E h \in Groups : handler[h] = "new"
    \/ main = "wait" /\ \E h \in Handlers : handler[h] \notin {"new", "stopped"}
    \/ main = "join" /\ receiver = "on"

HandlerWaits(h) ==
    \/ handler[h] \in {"new", "offering", "stopped"}
    \/ handler[h] = "closed" /\ ~WorkersGone(h)

WorkerWaits(w) ==
    \/ worker[w] \in {"off", "parked", "exit"}
    \/ worker[w] = "send" /\ Cardinality(statusCh) = Capacity
    \/ worker[w] = "delay" /\ ~cancelled /\ job[w] \in statusCh

ReceiverWaits ==
    receiver = "on" =>
        ~cancelled /\ statusCh = {} /\ taken # Cardinality(filtered)

(* Before the call has returned, its goroutines never all wait for each    *)
(* other: not the dispatcher for a token that nobody frees, not a pusher   *)
(* for workers that are gone, not the receiver for a status that nobody    *)
(* will send.                                                              *)
SomebodyGoesOn ==
    main # "return" =>
        \/ ~MainWaits \/ ~ReceiverWaits
        \/ \E h \in Handlers : ~HandlerWaits(h)
        \/ \E w \in Workers : ~WorkerWaits(w)

(* The call comes back, with or without a signal. *)
Returns == <>(main = "return")

(* Once the context is done and the receiver has returned, every           *)
(* restartHandler of the batch exits as well, as the comment in            *)
(* handleRestartStatus says.                                               *)
HandlersExitOnCancel ==
    cancelled /\ receiver = "off"
        ~> \A h \in Handlers : handler[h] \in {"new", "stopped"}

(* The contract of Batch, with which Rolling replaces this module.         *)
Contract == INSTANCE Batch WITH
    todo <- {n \in filtered : outcome[n] = "none" /\ n \notin Restarting},
    inflight <- Restarting,
    awaiting <- {job[w] : w \in {v \in Workers : worker[v] = "send"}}
                    \cup statusCh,
    open <- main # "return"

ImplementsBatch == Contract!Spec
=============================================================================
