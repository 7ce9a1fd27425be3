------------------------------ MODULE Rolling ------------------------------
(***************************************************************************)
(* Execute and DoRestart of pkg/rolling, run after run, against the CMS:   *)
(* the cleanup of the user's tasks, the maintenance task, the waiting loop *)
(* with its batches, retries and unreported completions, the signal and    *)
(* the cleanup on exit.  A batch is what Batch promises (RestartBatch      *)
(* shows that the goroutines keep the promise).                            *)
(*                                                                         *)
(* The CMS is not part of the repository: it is modelled from the calls    *)
(* the client makes.  A call can fail before the CMS acts ("error"), have  *)
(* its answer lost after the CMS acted ("lost"), or be answered with an    *)
(* unsuccessful operation status ("refused").                              *)
(***************************************************************************)
EXTENDS Integers, FiniteSets

CONSTANTS
    Nodes, Tenants, None, Tenant, NodesInflight, TenantsInflight, RetryNumber,
    CleanupOnExit,      \* --cleanup-on-exit
    SuppressCompatibilityCheck,
    CMSQueryInterval,   \* --cms-query-interval, seconds
    Foreign,            \* tasks of the same user made by other tools
    Faults,             \* kinds of faulty answers that may be met
    MaxFaults,          \* bound: faulty answers of each kind in a behaviour
    MaxRuns             \* bound: invocations, one after the other

ASSUME RollingAssumption ==
    /\ CleanupOnExit \in BOOLEAN /\ SuppressCompatibilityCheck \in BOOLEAN
    /\ CMSQueryInterval \in Nat /\ RetryNumber \in Nat
    /\ IsFiniteSet(Nodes)
    /\ Faults \subseteq {"error", "lost", "refused", "incompatible"}
    /\ MaxFaults \in Nat /\ MaxRuns \in Nat \ {0}
    /\ Foreign \cap (1..MaxRuns) = {}

TaskIds == Foreign \cup (1..MaxRuns)   \* the uid of run r's task is r

VARIABLES
    pc,         \* where the run stands
    run,        \* number of the run
    target,     \* nodesToRestart
    toDrop,     \* previousTasks not dropped yet
    listed,     \* nodes of the actions in the task last received
    permitted,  \* those of them whose status is PERFORMED
    restarted,  \* history: nodes restarted well in this run
    faults,     \* history: faulty answers of each kind met
    tasks,      \* CMS: uids of the user's tasks
    action,     \* CMS: status of each node's action in each task
    filtered, todo, inflight, awaiting, outcome, completed, unreported,
    retries, cancelled, open

B == INSTANCE Batch

loopVars == <<run, target, toDrop, listed, permitted>>
cmsVars == <<tasks, action>>
batchVars == <<filtered, todo, inflight, awaiting, outcome, completed,
               unreported, retries, cancelled, open>>
vars == <<pc, loopVars, restarted, faults, cmsVars, batchVars>>

Ended == {"success", "failed", "interrupted", "uncleaned", "killed"}

(* The waiting loop of the run's own task. *)
InLoop == pc \in {"process", "batch", "complete", "wait", "refresh", "check"}

Fault(kind) ==
    /\ kind \in Faults
    /\ faults[kind] < MaxFaults
    /\ faults' = [faults EXCEPT ![kind] = @ + 1]

Failed(from, to) ==
    /\ pc = from
    /\ Fault("error")
    /\ pc' = to
    /\ UNCHANGED <<loopVars, restarted, cmsVars, batchVars>>

NoActions == [n \in Nodes |-> "absent"]
Held(t) == {n \in Nodes : action[t][n] = "performed"}
Present(t) == {n \in Nodes : action[t][n] # "absent"}

Init ==
    /\ pc = "prepare" /\ run = 1
    /\ target = {} /\ toDrop = {} /\ listed = {} /\ permitted = {}
    /\ restarted = {} /\ faults = [kind \in Faults |-> 0]
    /\ tasks \in SUBSET Foreign
    /\ action = [t \in TaskIds |-> IF t \in tasks
                                   THEN [n \in Nodes |-> "performed"]
                                   ELSE NoActions]
    /\ filtered = {} /\ todo = {} /\ inflight = {} /\ awaiting = {}
    /\ outcome = [n \in Nodes |-> "none"]
    /\ completed = {} /\ unreported = {}
    /\ retries = [n \in Nodes |-> 0]
    /\ cancelled = FALSE /\ open = FALSE

-----------------------------------------------------------------------------
(* prepareState and the filter: some of the nodes, maybe none. *)
Prepare ==
    /\ pc = "prepare"
    /\ pc' = "list"
    /\ target' \in SUBSET Nodes
    /\ UNCHANGED <<run, toDrop, listed, permitted, restarted, faults, cmsVars,
                   batchVars>>

(* cleanupRollingRestart: list the user's tasks and drop each of them. It  *)
(* runs before the task is created and again after an interruption.        *)
ListTasks(from, to) ==
    /\ pc = from
    /\ pc' = to
    /\ toDrop' = tasks
    /\ UNCHANGED <<run, target, listed, permitted, restarted, faults, cmsVars,
                   batchVars>>

Remove(t) ==
    /\ tasks' = tasks \ {t}
    /\ action' = [action EXCEPT ![t] = NoActions]

DropTask(at) ==
    /\ pc = at
    /\ \E t \in toDrop :
        /\ toDrop' = toDrop \ {t}
        /\ Remove(t)
    /\ UNCHANGED <<pc, run, target, listed, permitted, restarted, faults,
                   batchVars>>

(* DropMaintenanceTask passes no result to unmarshal, so                   *)
(* executeMaintenanceOperation returns before it looks at op.Status.       *)
DropRefused(at) ==
    /\ pc = at
    /\ Fault("refused")
    /\ \E t \in toDrop : toDrop' = toDrop \ {t}
    /\ UNCHANGED <<pc, run, target, listed, permitted, restarted, cmsVars,
                   batchVars>>

DropLost(at, to) ==
    /\ pc = at
    /\ Fault("lost")
    /\ \E t \in toDrop : Remove(t)
    /\ pc' = to
    /\ UNCHANGED <<loopVars, restarted, batchVars>>

(* Mutant: the cleanup stops after the first task. *)
DroppedSome(at, to) ==
    /\ pc = at
    /\ pc' = to
    /\ UNCHANGED <<loopVars, restarted, faults, cmsVars, batchVars>>

Dropped(at, to) ==
    /\ pc = at
    /\ toDrop = {}
    /\ pc' = to
    /\ UNCHANGED <<loopVars, restarted, faults, cmsVars, batchVars>>

(* Mutant: when the tasks cannot be listed there is nothing to drop. *)
ListFailureIgnored(list, drop, failed) == Failed(list, drop)

ListFails(list, drop, failed) == Failed(list, failed)

Cleanup(list, drop, done, failed) ==
    \/ ListTasks(list, drop)
    \/ DropTask(drop) \/ DropRefused(drop) \/ DropLost(drop, failed)
    \/ Dropped(drop, done)
    \/ ListFails(list, drop, failed)
    \/ toDrop # {} /\ Failed(drop, failed)

-----------------------------------------------------------------------------
(* No node passes the filters. *)
NothingToRestart ==
    /\ pc = "create"
    /\ target = {}
    /\ pc' = "success"
    /\ UNCHANGED <<loopVars, restarted, faults, cmsVars, batchVars>>

(* The nodes that no task holds. *)
Free == {n \in Nodes : \A u \in tasks : n \notin Held(u)}

(* The CMS may permit some of the new task's actions at once. *)
AddTask(now) ==
    /\ tasks' = tasks \cup {run}
    /\ action' = [action EXCEPT ![run] =
                    [n \in Nodes |-> IF n \in now THEN "performed"
                                     ELSE IF n \in target THEN "pending"
                                     ELSE "absent"]]

(* The answer to the creation is processed like that of a refresh, without *)
(* a wait or a compatibility check before it.                              *)
CreateTask ==
    /\ pc = "create"
    /\ target # {}
    /\ \E now \in SUBSET (target \cap Free) :
        /\ AddTask(now)
        /\ permitted' = now
    /\ listed' = target
    /\ pc' = "process"
    /\ UNCHANGED <<run, target, toDrop, restarted, faults, batchVars>>

CreateLost ==
    /\ pc = "create"
    /\ target # {}
    /\ Fault("lost")
    /\ \E now \in SUBSET (target \cap Free) : AddTask(now)
    /\ pc' = "failed"
    /\ UNCHANGED <<loopVars, restarted, batchVars>>

(* processActionGroupStates: nothing is PERFORMED, or a batch opens. *)
NothingPermitted ==
    /\ pc = "process"
    /\ permitted = {}
    /\ pc' = "wait"
    /\ UNCHANGED <<loopVars, restarted, faults, cmsVars, batchVars>>

OpenBatch ==
    /\ pc = "process"
    /\ permitted # {}
    /\ B!Open(permitted)
    /\ pc' = "batch"
    /\ UNCHANGED <<loopVars, restarted, faults, cmsVars>>

BatchStep(n) ==
    /\ pc = "batch"
    /\ B!Start(n) \/ B!Finish(n) \/ B!Record(n)
    /\ restarted' = {m \in Nodes : m \in restarted \/ outcome'[m] = "ok"}
    /\ UNCHANGED <<pc, loopVars, faults, cmsVars>>

CloseBatch ==
    /\ pc = "batch"
    /\ B!Return
    /\ pc' = "complete"
    /\ UNCHANGED <<loopVars, restarted, faults, cmsVars>>

-----------------------------------------------------------------------------
(* CompleteAction: the CMS releases the nodes, and forgets a task that has *)
(* no action left.                                                         *)
(* Mutants of the test for the end: against the actions of this batch, and *)
(* against all the nodes of the run.                                       *)
BatchCompleted == Cardinality(permitted) = Cardinality(completed)
TargetCompleted == Cardinality(target) = Cardinality(completed)

AllCompleted == Cardinality(listed) = Cardinality(completed)

Release(S) ==
    LET left == Present(run) \ S IN
    /\ action' = [action EXCEPT ![run] =
                    [n \in Nodes |-> IF n \in left THEN action[run][n]
                                     ELSE "absent"]]
    /\ tasks' = IF left = {} THEN tasks \ {run} ELSE tasks

CompleteActions ==
    /\ pc = "complete"
    /\ Release(completed)
    /\ unreported' = {}
    /\ pc' = IF AllCompleted THEN "success" ELSE "wait"
    /\ UNCHANGED <<loopVars, restarted, faults, filtered, todo, inflight,
                   awaiting, outcome, completed, retries, cancelled, open>>

CompleteLost ==
    /\ pc = "complete"
    /\ Fault("lost")
    /\ Release(completed)
    /\ pc' = "wait"
    /\ UNCHANGED <<loopVars, restarted, batchVars>>

(* Mutant: the unreported actions are forgotten although the call failed. *)
CompleteForgets ==
    /\ pc = "complete"
    /\ Fault("error")
    /\ unreported' = {}
    /\ pc' = "wait"
    /\ UNCHANGED <<loopVars, restarted, cmsVars, filtered, todo, inflight,
                   awaiting, outcome, completed, retries, cancelled, open>>

CompleteFails == Failed("complete", "wait")

(* waitOrCancel. With a zero interval both cases of its select can be ready. *)
Elapse ==
    /\ pc = "wait"
    /\ cancelled => CMSQueryInterval = 0
    /\ pc' = "refresh"
    /\ UNCHANGED <<loopVars, restarted, faults, cmsVars, batchVars>>

Interrupt ==
    /\ pc = "wait"
    /\ cancelled
    /\ pc' = "exitlist"
    /\ UNCHANGED <<loopVars, restarted, faults, cmsVars, batchVars>>

(* Mutant: every node of the run counts as permitted. *)
EveryNode(t) == IF t \in tasks THEN target ELSE {}

(* getPerformedActions *)
PerformedActions(t) == {n \in Present(t) : action[t][n] = "performed"}

RefreshTask ==
    /\ pc = "refresh"
    /\ run \in tasks
    /\ listed' = Present(run)
    /\ permitted' = PerformedActions(run)
    /\ pc' = IF SuppressCompatibilityCheck THEN "process" ELSE "check"
    /\ UNCHANGED <<run, target, toDrop, restarted, faults, cmsVars,
                   batchVars>>

(* Mutant: after a failed refresh the last answer is processed again. *)
RefreshKeepsTask == Failed("refresh", "process")

(* A refresh that fails leaves no task to process in the next iteration;   *)
(* the CMS always fails it once it has forgotten the task.                 *)
RefreshFails == Failed("refresh", "wait")

RefreshUnknown ==
    /\ pc = "refresh"
    /\ run \notin tasks
    /\ pc' = "wait"
    /\ UNCHANGED <<loopVars, restarted, faults, cmsVars, batchVars>>

Compatible ==
    /\ pc = "check"
    /\ pc' = "process"
    /\ UNCHANGED <<loopVars, restarted, faults, cmsVars, batchVars>>

(* Incompatible versions end the run; only a cancellation is cleaned up. *)
Incompatible ==
    /\ pc = "check"
    /\ Fault("incompatible")
    /\ pc' = "failed"
    /\ UNCHANGED <<loopVars, restarted, cmsVars, batchVars>>

-----------------------------------------------------------------------------
(* SIGINT or SIGTERM, intercepted with --cleanup-on-exit only. *)
Signal ==
    /\ CleanupOnExit
    /\ pc \notin Ended
    /\ B!Cancel
    /\ UNCHANGED <<pc, loopVars, restarted, faults, cmsVars>>

(* Any other death of the process. *)
Kill ==
    /\ pc \notin Ended
    /\ pc' = "killed"
    /\ UNCHANGED <<loopVars, restarted, faults, cmsVars, batchVars>>

(* The operator starts ydbops again: all client state is new. *)
RunAgain ==
    /\ pc \in Ended
    /\ run < MaxRuns
    /\ run' = run + 1
    /\ pc' = "prepare"
    /\ target' = {} /\ toDrop' = {} /\ listed' = {} /\ permitted' = {}
    /\ restarted' = {}
    /\ filtered' = {} /\ todo' = {} /\ inflight' = {} /\ awaiting' = {}
    /\ outcome' = [n \in Nodes |-> "none"]
    /\ completed' = {} /\ unreported' = {}
    /\ retries' = [n \in Nodes |-> 0]
    /\ cancelled' = FALSE /\ open' = FALSE
    /\ UNCHANGED <<faults, cmsVars>>

(* The CMS permits a pending action when no task holds the node. *)
Permit(n) ==
    \E t \in tasks :
        /\ action[t][n] = "pending"
        /\ n \in Free
        /\ action' = [action EXCEPT ![t][n] = "performed"]
        /\ UNCHANGED <<pc, loopVars, restarted, faults, tasks, batchVars>>

Over == pc \in Ended /\ UNCHANGED vars

Client ==
    \/ Prepare \/ Failed("prepare", "failed")
    \/ Cleanup("list", "drop", "create", "failed")
    \/ NothingToRestart \/ CreateTask \/ CreateLost
    \/ target # {} /\ Failed("create", "failed")
    \/ NothingPermitted \/ OpenBatch
    \/ (\E n \in Nodes : BatchStep(n)) \/ CloseBatch
    \/ CompleteActions \/ CompleteLost \/ CompleteFails
    \/ Elapse \/ Interrupt
    \/ RefreshTask \/ RefreshUnknown \/ RefreshFails
    \/ Compatible \/ Incompatible \/ Failed("check", "failed")
    \/ Cleanup("exitlist", "exitdrop", "interrupted", "uncleaned")

Next ==
    \/ Client
    \/ Signal \/ Kill \/ RunAgain
    \/ \E n \in Nodes : Permit(n)
    \/ Over

Spec == Init /\ [][Next]_vars

(* ydbops keeps running, and the CMS permits what it can. *)
FairSpec ==
    Spec /\ WF_vars(Client) /\ \A n \in Nodes : WF_vars(Permit(n))

-----------------------------------------------------------------------------
(* Properties. *)

TypeOK ==
    /\ pc \in Ended \cup {"prepare", "list", "drop", "create", "process",
          "batch", "complete", "wait", "refresh", "check", "exitlist",
          "exitdrop"}
    /\ run \in 1..MaxRuns
    /\ target \subseteq Nodes
    /\ toDrop \subseteq TaskIds
    /\ permitted \subseteq listed /\ listed \subseteq target
    /\ restarted \subseteq target
    /\ faults \in [Faults -> 0..MaxFaults]
    /\ tasks \subseteq TaskIds
    /\ action \in [TaskIds -> [Nodes -> {"absent", "pending", "performed"}]]
    /\ filtered \subseteq target /\ todo \subseteq filtered
    /\ inflight \subseteq filtered /\ awaiting \subseteq filtered
    /\ outcome \in [Nodes -> {"none", "ok", "err"}]
    /\ completed \subseteq target /\ unreported \subseteq target
    /\ retries \in [Nodes -> Nat]
    /\ cancelled \in BOOLEAN /\ open \in BOOLEAN

(* A node is restarted only while the CMS holds it for this run's task,    *)
(* whatever was lost, refused, killed or interrupted before.               *)
LockHeld ==
    pc = "batch" => run \in tasks /\ inflight \subseteq Held(run)

(* The run is done with a node. *)
Spent == {n \in Nodes : \/ n \in restarted
                        \/ RetryNumber > 0 /\ retries[n] = RetryNumber}

(* A node that the run is done with is not restarted again, although       *)
(* reporting it to the CMS may fail any number of times; so no node is     *)
(* tried more often than --restart-retry-number says.                      *)
NoRepeat == inflight \cap Spent = {}

(* A run that reports success restarted every node that passed the filters *)
(* or used up its attempts, and leaves no task behind.                     *)
SuccessMeansDone ==
    pc = "success" =>
        /\ \A n \in target : n \in restarted \/ retries[n] = RetryNumber
        /\ run \notin tasks

(* The node's lock is given back only by a cleanup or when the run is done *)
(* with the node, and never while the node is being restarted.             *)
ReleasedWhenDone ==
    [][\A n \in Held(run) :
          action'[run][n] = "absent" =>
              /\ n \notin inflight
              /\ \/ n \in restarted
                 \/ retries[n] = RetryNumber
                 \/ pc = "exitdrop"]_vars

(* The run works with the CMS only after the tasks of the user that were   *)
(* there before, those of a killed run included, are gone.                 *)
NoOlderTask == InLoop => tasks \subseteq {run}

(* "Successfully cleaned up maintenance tasks" is true when it is logged.  *)
CleanedUp == pc = "interrupted" => tasks = {}

(* Where the run stands in its phase, and the restarts that have not      *)
(* worked and whose failure the receiver has not counted.                  *)
phasePc ==
    IF pc \in {"prepare", "success", "failed", "interrupted", "killed"} THEN pc
    ELSE IF pc = "uncleaned" THEN "interrupted"
    ELSE "rolling"

Unsettled ==
    IF pc = "batch" THEN inflight \cup {n \in awaiting : outcome[n] # "ok"}
    ELSE {}

(* Every run keeps the promise of Phase. *)
P == INSTANCE Phase WITH
    pc <- phasePc, target <- target, inflight <- Unsettled, done <- Spent,
    cancelled <- cancelled

ImplementsPhase == P!Spec

(* A run comes to an end if the CMS permits what it can, no answer is lost *)
(* after the CMS acted and no drop is refused; calls that just fail, at    *)
(* any moment, only delay it.                                              *)
Harmless == \A kind \in Faults \cap {"lost", "refused"} : faults[kind] = 0
Terminates == []Harmless => []<>(pc \in Ended)

(* A signal ends the run, whatever the CMS answers. *)
SignalEndsRun == cancelled ~> pc \in Ended
=============================================================================
