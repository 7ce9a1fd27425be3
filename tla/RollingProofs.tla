---------------------------- MODULE RollingProofs ----------------------------
(***************************************************************************)
(* Proofs about Rolling: run after run, with calls that fail, answers that *)
(* are lost, signals and kills, a node is restarted only under the run's   *)
(* own lock, never again once its restart worked and not more often than   *)
(* it may be, and what the run reports is true.                            *)
(***************************************************************************)
EXTENDS Rolling, FiniteSetTheorems, TLAPS

-----------------------------------------------------------------------------
(* The inductive invariant. *)

Before == {"prepare", "list", "drop", "create"}
Processing == {"check", "process", "batch", "complete"}

(* Until the task is created nothing has happened to a node. *)
Clean ==
    pc \in Before =>
        /\ run \notin tasks
        /\ listed = {} /\ permitted = {} /\ restarted = {}
        /\ filtered = {} /\ completed = {} /\ unreported = {}
        /\ outcome = [n \in Nodes |-> "none"]
        /\ retries = [n \in Nodes |-> 0]

(* The tasks in the CMS. *)
TasksOK ==
    /\ \A t \in TaskIds : \A n \in Nodes :
          action[t][n] # "absent" => t \in tasks
    /\ \A t \in (run + 1)..MaxRuns : t \notin tasks
    /\ Present(run) \subseteq target

(* The sets of a batch. *)
BatchOK ==
    /\ todo \cap inflight = {} /\ todo \cap awaiting = {}
    /\ inflight \cap awaiting = {}
    /\ pc \in Processing => permitted \subseteq Held(run)
    /\ pc \in {"batch", "complete"} =>
          run \in tasks /\ filtered \cup completed \subseteq permitted
    /\ pc \notin {"batch", "killed"} =>
          /\ inflight = {}
          /\ ~cancelled => awaiting = {}

(* What is known of the nodes, by the restarts so far.                     *)
NodesOK ==
    /\ inflight \cap restarted = {}
    /\ \A n \in Nodes : outcome[n] = "ok" => n \in restarted
    /\ \A n \in awaiting \cap restarted : outcome[n] = "ok"
    /\ RetryNumber > 0 =>
          /\ \A n \in Nodes : retries[n] <= RetryNumber
          /\ \A n \in inflight \cup awaiting : retries[n] < RetryNumber
    /\ pc = "batch" /\ ~cancelled => todo \cap Spent = {}
    /\ unreported \cup completed \subseteq Spent

(* A node that the run is done with and whose action is still there is one *)
(* whose completion has not been reported, or soon will be such a one; and *)
(* it is permitted, so that the next report names it.                      *)
ReportsOK ==
    /\ unreported \cap Present(run) \subseteq Held(run)
    /\ pc \in Processing => unreported \cap Present(run) \subseteq permitted
    /\ pc \in {"batch", "complete"} =>
          unreported \cap Present(run) \subseteq completed
    /\ ~cancelled => Spent \cap Present(run) \subseteq unreported \cup awaiting

(* The nodes that are left to be done are in the task. *)
TargetOK ==
    /\ InLoop => /\ Present(run) \subseteq listed
                 /\ target \ Present(run) \subseteq Spent
    /\ pc = "success" => target \subseteq Spent /\ run \notin tasks

IInv == /\ TypeOK /\ Clean /\ TasksOK /\ BatchOK
        /\ NodesOK /\ ReportsOK /\ TargetOK

-----------------------------------------------------------------------------
LEMMA RunIsTask ==
    ASSUME TypeOK PROVE run \in TaskIds /\ run \in Nat
  BY RollingAssumption DEF TypeOK, TaskIds

LEMMA FaultCounted ==
    ASSUME TypeOK, NEW kind, Fault(kind)
    PROVE  faults' \in [Faults -> 0..MaxFaults]
  BY RollingAssumption DEF TypeOK, Fault

(* Steps that change nothing but where the run stands. *)
Labels == Ended \cup {"prepare", "list", "drop", "create", "process",
          "batch", "complete", "wait", "refresh", "check", "exitlist",
          "exitdrop"}

Moves ==
    /\ faults' \in [Faults -> 0..MaxFaults]
    /\ pc' \in Labels
    /\ pc' \in Before => pc \in Before
    /\ pc' \in Processing => pc \in Processing
    /\ pc' \in {"batch", "complete"} => pc \in {"batch", "complete"}
    /\ pc' = "batch" => pc = "batch"
    /\ pc \in {"batch", "killed"} => pc' \in {"batch", "killed"}
    /\ InLoop' => InLoop
    /\ pc' = "success" => target \subseteq Spent /\ run \notin tasks
    /\ UNCHANGED <<loopVars, restarted, cmsVars, batchVars>>

LEMMA MoveStep ==
    ASSUME IInv, Moves PROVE IInv'
  <1>1. TypeOK'
    BY DEF IInv, TypeOK, Moves, Labels, loopVars, cmsVars, batchVars
  <1>2. /\ Held(run)' = Held(run) /\ Present(run)' = Present(run)
        /\ Spent' = Spent
    BY DEF Moves, loopVars, cmsVars, batchVars, Held, Present, Spent
  <1>3. Clean'
    BY DEF IInv, Clean, Moves, loopVars, cmsVars, batchVars
  <1>4. TasksOK'
    BY <1>2 DEF IInv, TasksOK, Moves, loopVars, cmsVars, batchVars
  <1>5. BatchOK'
    BY <1>2 DEF IInv, BatchOK, Moves, loopVars, cmsVars, batchVars
  <1>6. NodesOK'
    BY <1>2 DEF IInv, NodesOK, Moves, loopVars, cmsVars, batchVars
  <1>7. ReportsOK'
    BY <1>2 DEF IInv, ReportsOK, Moves, loopVars, cmsVars, batchVars
  <1>8. TargetOK'
    BY <1>2 DEF IInv, TargetOK, Moves, loopVars, cmsVars, batchVars
  <1> QED
    BY <1>1, <1>3, <1>4, <1>5, <1>6, <1>7, <1>8 DEF IInv

LEMMA InitIInv == ASSUME Init PROVE IInv
  <1>1. TypeOK
    <2>1. /\ faults \in [Faults -> 0..MaxFaults]
          /\ run \in 1..MaxRuns
      BY RollingAssumption DEF Init
    <2>2. action \in [TaskIds -> [Nodes -> {"absent", "pending", "performed"}]]
      BY DEF Init, NoActions
    <2> QED
      BY <2>1, <2>2 DEF Init, TypeOK, TaskIds
  <1>2. Spent = {}
    BY DEF Init, Spent
  <1>3. run \notin tasks /\ \A t \in (run + 1)..MaxRuns : t \notin tasks
    BY RollingAssumption DEF Init
  <1>4. Clean /\ TasksOK
    <2>1. Present(run) = {}
      BY <1>3, RunIsTask, <1>1 DEF Init, Present, NoActions
    <2> QED
      BY <1>3, <2>1 DEF Init, Clean, TasksOK, NoActions
  <1>5. BatchOK
    BY DEF Init, BatchOK, Processing
  <1>6. NodesOK
    BY <1>2, RollingAssumption DEF Init, NodesOK
  <1>7. ReportsOK /\ TargetOK
    BY <1>2 DEF Init, ReportsOK, TargetOK, Processing, InLoop
  <1> QED
    BY <1>1, <1>4, <1>5, <1>6, <1>7 DEF IInv

LEMMA PrepareStep == ASSUME IInv, Prepare PROVE IInv'
  <1> USE DEF IInv, Prepare, cmsVars, batchVars
  <1>1. TypeOK'
    BY DEF TypeOK, Clean, Before
  <1>2. /\ Held(run)' = Held(run) /\ Present(run)' = Present(run)
        /\ Spent' = Spent
    BY DEF Held, Present, Spent
  <1>3. Clean' /\ TasksOK'
    <2>1. Present(run) = {}
      BY RunIsTask DEF Clean, Before, TasksOK, Present
    <2> QED
      BY <1>2, <2>1 DEF Clean, TasksOK, Before
  <1>4. BatchOK' /\ NodesOK' /\ ReportsOK' /\ TargetOK'
    BY <1>2 DEF BatchOK, NodesOK, ReportsOK, TargetOK, Processing, InLoop
  <1> QED
    BY <1>1, <1>3, <1>4

(* Steps of a cleanup that change toDrop only. *)
Lists ==
    /\ pc \in {"list", "drop", "exitlist", "exitdrop"}
    /\ pc' \in {"list", "drop", "exitlist", "exitdrop"}
    /\ pc' \in Before => pc \in Before
    /\ toDrop' \subseteq TaskIds
    /\ faults' \in [Faults -> 0..MaxFaults]
    /\ UNCHANGED <<run, target, listed, permitted, restarted, cmsVars,
                   batchVars>>

LEMMA ListsStep == ASSUME IInv, Lists PROVE IInv'
  <1> USE DEF IInv, Lists, cmsVars, batchVars
  <1>1. TypeOK'
    BY DEF TypeOK
  <1>2. /\ Held(run)' = Held(run) /\ Present(run)' = Present(run)
        /\ Spent' = Spent
    BY DEF Held, Present, Spent
  <1>3. Clean' /\ TasksOK'
    BY <1>2 DEF Clean, TasksOK, Before
  <1>4. BatchOK' /\ NodesOK' /\ ReportsOK' /\ TargetOK'
    BY <1>2 DEF BatchOK, NodesOK, ReportsOK, TargetOK, Processing, InLoop
  <1> QED
    BY <1>1, <1>3, <1>4

(* Steps of a cleanup that drop a task. *)
Drops ==
    /\ pc \in {"drop", "exitdrop"}
    /\ pc' \in {"drop", "exitdrop", "failed", "uncleaned"}
    /\ pc' \in Before => pc \in Before
    /\ \E t \in TaskIds : Remove(t)
    /\ toDrop' \subseteq TaskIds
    /\ faults' \in [Faults -> 0..MaxFaults]
    /\ UNCHANGED <<run, target, listed, permitted, restarted, batchVars>>

LEMMA DropsStep == ASSUME IInv, Drops PROVE IInv'
  <1> USE DEF IInv, Drops, batchVars
  <1>1. PICK t \in TaskIds : Remove(t)
    OBVIOUS
  <1>2. TypeOK'
    BY <1>1 DEF TypeOK, Ended, Remove, NoActions
  <1>3. /\ t = run => Present(run)' = {}
        /\ t # run => Present(run)' = Present(run) /\ Held(run)' = Held(run)
        /\ Spent' = Spent
    BY <1>1, RunIsTask DEF TypeOK, Held, Present, Spent, Remove, NoActions
  <1>4. Clean'
    BY <1>1 DEF Clean, Before, Remove
  <1>5. TasksOK'
    <2>1. \A u \in TaskIds : \A n \in Nodes :
              action'[u][n] # "absent" => u # t /\ action[u][n] # "absent"
      BY <1>1 DEF TypeOK, Remove, NoActions
    <2> QED
      BY <1>1, <1>3, <2>1 DEF TasksOK, Remove
  <1>6. BatchOK' /\ NodesOK'
    BY <1>3 DEF BatchOK, NodesOK, Processing
  <1>7. ReportsOK'
    BY <1>3 DEF ReportsOK, Processing
  <1>8. TargetOK'
    BY DEF TargetOK, InLoop
  <1> QED
    BY <1>2, <1>4, <1>5, <1>6, <1>7, <1>8

-----------------------------------------------------------------------------
(* The CMS permits an action. *)
LEMMA PermitStep == ASSUME IInv, NEW m \in Nodes, Permit(m) PROVE IInv'
  <1> USE DEF IInv, loopVars, batchVars
  <1>1. PICK t \in tasks :
            /\ action[t][m] = "pending"
            /\ action' = [action EXCEPT ![t][m] = "performed"]
            /\ UNCHANGED <<pc, loopVars, restarted, faults, tasks, batchVars>>
    BY DEF Permit
  <1>2. t \in TaskIds
    BY DEF TypeOK
  <1>3. \A u \in TaskIds, n \in Nodes :
            /\ action'[u][n] # "absent" <=> action[u][n] # "absent"
            /\ action[u][n] = "performed" => action'[u][n] = "performed"
    BY <1>1, <1>2 DEF TypeOK
  <1>4. TypeOK'
    BY <1>1, <1>2 DEF TypeOK
  <1>5. /\ Present(run)' = Present(run) /\ Held(run) \subseteq Held(run)'
        /\ Spent' = Spent
    BY <1>1, <1>3, RunIsTask DEF Present, Held, Spent
  <1>6. Clean' /\ TasksOK'
    BY <1>1, <1>3, <1>5 DEF Clean, TasksOK
  <1>7. BatchOK' /\ NodesOK' /\ ReportsOK' /\ TargetOK'
    BY <1>1, <1>5 DEF BatchOK, NodesOK, ReportsOK, TargetOK, InLoop
  <1> QED
    BY <1>4, <1>6, <1>7

LEMMA SignalStep == ASSUME IInv, Signal PROVE IInv'
  <1> USE DEF IInv, Signal, B!Cancel, loopVars, cmsVars
  <1>1. TypeOK'
    BY DEF TypeOK
  <1>2. /\ Held(run)' = Held(run) /\ Present(run)' = Present(run)
        /\ Spent' = Spent
    BY DEF Held, Present, Spent
  <1>3. Clean' /\ TasksOK'
    BY <1>2 DEF Clean, TasksOK
  <1>4. BatchOK' /\ NodesOK' /\ ReportsOK' /\ TargetOK'
    BY <1>2 DEF BatchOK, NodesOK, ReportsOK, TargetOK, InLoop
  <1> QED
    BY <1>1, <1>3, <1>4

(* Everything of the next run is new, and no task has its uid. *)
LEMMA RunAgainStep == ASSUME IInv, RunAgain PROVE IInv'
  <1> USE DEF IInv, RunAgain, cmsVars
  <1>1. TypeOK'
    <2>1. run' \in 1..MaxRuns
      BY RollingAssumption DEF TypeOK
    <2> QED
      BY <2>1 DEF TypeOK
  <1>2. run' \notin tasks /\ run' \in TaskIds
    BY RunIsTask, RollingAssumption DEF TypeOK, TasksOK, TaskIds
  <1>3. Present(run)' = {} /\ Spent' = {}
    BY <1>2 DEF TasksOK, Present, Spent
  <1>4. Clean' /\ TasksOK'
    BY <1>2, <1>3, RunIsTask, RollingAssumption DEF Clean, TasksOK
  <1>5. BatchOK'
    BY DEF BatchOK, Processing
  <1>6. NodesOK'
    BY <1>3, RollingAssumption DEF NodesOK
  <1>7. ReportsOK' /\ TargetOK'
    BY <1>3 DEF ReportsOK, TargetOK, Processing, InLoop
  <1> QED
    BY <1>1, <1>4, <1>5, <1>6, <1>7

-----------------------------------------------------------------------------
(* The task is created, and the answer received or lost. *)
Creates(now) ==
    /\ pc = "create"
    /\ now \subseteq target \cap Free
    /\ AddTask(now)
    /\ pc' \in {"process", "failed"}
    /\ pc' = "process" => listed' = target /\ permitted' = now
    /\ pc' = "failed" => UNCHANGED <<listed, permitted>>
    /\ faults' \in [Faults -> 0..MaxFaults]
    /\ UNCHANGED <<run, target, toDrop, restarted, batchVars>>

LEMMA CreatesStep == ASSUME IInv, NEW now, Creates(now) PROVE IInv'
  <1> USE DEF IInv, Creates, AddTask, batchVars
  <1>1. action' \in [TaskIds -> [Nodes -> {"absent", "pending", "performed"}]]
    BY DEF TypeOK
  <1>2. TypeOK'
    BY <1>1, RunIsTask DEF TypeOK, Ended, Clean, Before
  <1>3. /\ Present(run)' = target /\ Held(run)' = now /\ Spent' = {}
        /\ now \subseteq target
    BY RunIsTask, RollingAssumption
       DEF TypeOK, Clean, Before, Present, Held, Spent
  <1>4. Clean'
    BY DEF Before, Clean
  <1>5. TasksOK'
    BY <1>3, RunIsTask DEF TypeOK, TasksOK
  <1>6. BatchOK'
    BY <1>3 DEF BatchOK, Processing, Clean, Before
  <1>7. NodesOK'
    BY RollingAssumption DEF NodesOK, Clean, Before
  <1>8. ReportsOK' /\ TargetOK'
    BY <1>3 DEF ReportsOK, TargetOK, Clean, Before, Processing, InLoop
  <1> QED
    BY <1>2, <1>4, <1>5, <1>6, <1>7, <1>8

(* The loop receives the task. *)
LEMMA RefreshStep == ASSUME IInv, RefreshTask PROVE IInv'
  <1> USE DEF IInv, RefreshTask, cmsVars, batchVars
  <1>1. PerformedActions(run) = Held(run) /\ Held(run) \subseteq Present(run)
    BY DEF PerformedActions, Held, Present
  <1>2. TypeOK'
    BY <1>1 DEF TypeOK, TasksOK
  <1>3. /\ Held(run)' = Held(run) /\ Present(run)' = Present(run)
        /\ Spent' = Spent
    BY DEF Held, Present, Spent
  <1>4. Clean' /\ TasksOK'
    BY <1>3 DEF Clean, TasksOK, Before
  <1>5. BatchOK' /\ NodesOK'
    BY <1>1, <1>3 DEF BatchOK, NodesOK, Processing
  <1>6. ReportsOK' /\ TargetOK'
    BY <1>1, <1>3 DEF ReportsOK, TargetOK, Processing, InLoop
  <1> QED
    BY <1>2, <1>4, <1>5, <1>6

-----------------------------------------------------------------------------
(* The batch. *)
LEMMA OpenStep == ASSUME IInv, OpenBatch PROVE IInv'
  <1> USE DEF IInv, OpenBatch, B!Open, loopVars, cmsVars
  <1>1. TypeOK'
    BY DEF TypeOK
  <1>2. /\ Held(run)' = Held(run) /\ Present(run)' = Present(run)
        /\ Spent' = Spent /\ Held(run) \subseteq Present(run)
    BY DEF Held, Present, Spent
  <1>3. Clean' /\ TasksOK'
    BY <1>2 DEF Clean, TasksOK, Before
  <1>4. BatchOK'
    <2>1. permitted \subseteq Held(run)
      BY DEF BatchOK, Processing
    <2>2. run \in tasks
      BY <2>1, RunIsTask DEF TasksOK, Held
    <2> QED
      BY <1>2, <2>1, <2>2 DEF BatchOK
  <1>5. NodesOK'
    <2>1. ~cancelled => todo' \cap Spent = {}
      BY <1>2 DEF BatchOK, ReportsOK, Processing
    <2> QED
      BY <1>2, <2>1, RollingAssumption DEF NodesOK
  <1>6. ReportsOK' /\ TargetOK'
    BY <1>2 DEF ReportsOK, TargetOK, BatchOK, Processing, InLoop
  <1> QED
    BY <1>1, <1>3, <1>4, <1>5, <1>6

LEMMA StartStep ==
    ASSUME IInv, NEW n \in Nodes, BatchStep(n), B!Start(n) PROVE IInv'
  <1> USE DEF IInv, BatchStep, B!Start, loopVars, cmsVars
  <1>0. restarted' = restarted
    BY DEF TypeOK, NodesOK
  <1>1. TypeOK'
    BY <1>0 DEF TypeOK
  <1>2. /\ Held(run)' = Held(run) /\ Present(run)' = Present(run)
        /\ Spent' = Spent
    BY <1>0 DEF Held, Present, Spent
  <1>3. Clean' /\ TasksOK'
    BY <1>2 DEF Clean, TasksOK, Before
  <1>4. BatchOK'
    BY <1>2 DEF BatchOK
  <1>5. NodesOK'
    <2>1. n \notin Spent
      BY DEF NodesOK
    <2>2. n \notin restarted /\ (RetryNumber > 0 => retries[n] < RetryNumber)
      BY <2>1, RollingAssumption DEF NodesOK, Spent, TypeOK
    <2> QED
      BY <1>0, <1>2, <2>2 DEF NodesOK
  <1>6. ReportsOK' /\ TargetOK'
    BY <1>2 DEF ReportsOK, TargetOK, InLoop
  <1> QED
    BY <1>1, <1>3, <1>4, <1>5, <1>6

LEMMA FinishStep ==
    ASSUME IInv, NEW n \in Nodes, BatchStep(n), B!Finish(n) PROVE IInv'
  <1> USE DEF IInv, BatchStep, B!Finish, loopVars, cmsVars
  <1>1. PICK o \in {"ok", "err"} : outcome' = [outcome EXCEPT ![n] = o]
    OBVIOUS
  <1>2. /\ outcome' \in [Nodes -> {"none", "ok", "err"}]
        /\ outcome'[n] = o
        /\ \A m \in Nodes \ {n} : outcome'[m] = outcome[m]
    BY <1>1 DEF TypeOK
  <1>3. restarted' = IF o = "ok" THEN restarted \cup {n} ELSE restarted
    BY <1>2 DEF TypeOK, NodesOK
  <1>4. TypeOK'
    BY <1>2, <1>3 DEF TypeOK
  <1>5. /\ Held(run)' = Held(run) /\ Present(run)' = Present(run)
        /\ Spent \subseteq Spent' /\ Spent' \subseteq Spent \cup {n}
    BY <1>3 DEF Held, Present, Spent
  <1>6. Clean' /\ TasksOK'
    BY <1>5 DEF Clean, TasksOK, Before
  <1>7. BatchOK'
    BY <1>5 DEF BatchOK
  <1>8. NodesOK'
    BY <1>2, <1>3, <1>5 DEF NodesOK, BatchOK
  <1>9. ReportsOK' /\ TargetOK'
    BY <1>5 DEF ReportsOK, TargetOK, InLoop
  <1> QED
    BY <1>4, <1>6, <1>7, <1>8, <1>9

LEMMA RecordStep ==
    ASSUME IInv, NEW n \in Nodes, BatchStep(n), B!Record(n) PROVE IInv'
  <1> USE DEF IInv, BatchStep, B!Record, loopVars, cmsVars
  <1>0. restarted' = restarted
    BY DEF TypeOK, NodesOK
  <1>1. /\ retries' \in [Nodes -> Nat]
        /\ \A m \in Nodes \ {n} : retries'[m] = retries[m]
        /\ outcome[n] = "ok" => retries'[n] = retries[n]
        /\ outcome[n] # "ok" => retries'[n] = retries[n] + 1
    BY DEF TypeOK
  <1>2. RetryNumber > 0 => retries[n] < RetryNumber
    BY DEF NodesOK
  <1>3. B!Finished(n) <=> n \in Spent'
    BY <1>0, <1>1, <1>2, RollingAssumption
       DEF B!Finished, Spent, NodesOK, TypeOK
  <1>4. Spent \subseteq Spent' /\ Spent' \subseteq Spent \cup {n}
    BY <1>0, <1>1, <1>2, RollingAssumption DEF Spent, TypeOK
  <1>5. n \in filtered /\ n \in target
    BY DEF TypeOK
  <1>6. TypeOK'
    BY <1>0, <1>1, <1>5 DEF TypeOK
  <1>7. Held(run)' = Held(run) /\ Present(run)' = Present(run)
    BY DEF Held, Present
  <1>8. Clean' /\ TasksOK'
    BY <1>7 DEF Clean, TasksOK, Before
  <1>9. BatchOK'
    BY <1>5, <1>7 DEF BatchOK
  <1>10. NodesOK'
    <2>1. RetryNumber > 0 =>
              /\ \A m \in Nodes : retries'[m] <= RetryNumber
              /\ \A m \in inflight' \cup awaiting' : retries'[m] < RetryNumber
      BY <1>1, <1>2, RollingAssumption DEF NodesOK, BatchOK, TypeOK
    <2>2. unreported' \cup completed' \subseteq Spent'
      BY <1>3, <1>4 DEF NodesOK
    <2>3. ~cancelled => todo' \cap Spent' = {}
      BY <1>4 DEF NodesOK, BatchOK
    <2> QED
      BY <1>0, <2>1, <2>2, <2>3 DEF NodesOK
  <1>11. ReportsOK'
    <2>1. n \in permitted /\ n \in Held(run)
      BY <1>5 DEF BatchOK, Processing
    <2> QED
      BY <1>3, <1>4, <1>7, <2>1 DEF ReportsOK, Processing
  <1>12. TargetOK'
    BY <1>4, <1>7 DEF TargetOK, InLoop
  <1> QED
    BY <1>6, <1>8, <1>9, <1>10, <1>11, <1>12

LEMMA CloseStep == ASSUME IInv, CloseBatch PROVE IInv'
  <1> USE DEF IInv, CloseBatch, B!Return, loopVars, cmsVars
  <1>1. TypeOK'
    BY DEF TypeOK
  <1>2. /\ Held(run)' = Held(run) /\ Present(run)' = Present(run)
        /\ Spent' = Spent
    BY DEF Held, Present, Spent
  <1>3. Clean' /\ TasksOK'
    BY <1>2 DEF Clean, TasksOK, Before
  <1>4. BatchOK' /\ NodesOK'
    BY <1>2 DEF BatchOK, NodesOK, Processing
  <1>5. ReportsOK' /\ TargetOK'
    BY <1>2 DEF ReportsOK, TargetOK, Processing, InLoop
  <1> QED
    BY <1>1, <1>3, <1>4, <1>5

-----------------------------------------------------------------------------
(* The actions that are reported as complete are released. *)
Completes ==
    /\ pc = "complete"
    /\ Release(completed)
    /\ unreported' \in {unreported, {}}
    /\ pc' \in {"success", "wait"}
    /\ pc' = "success" => AllCompleted
    /\ faults' \in [Faults -> 0..MaxFaults]
    /\ UNCHANGED <<loopVars, restarted, filtered, todo, inflight, awaiting,
                   outcome, completed, retries, cancelled, open>>

(* As many actions are completed as were listed: the same ones. *)
LEMMA AllAreCompleted ==
    ASSUME IInv, pc = "complete", AllCompleted
    PROVE  completed = listed
  <1>1. completed \subseteq listed /\ listed \subseteq Nodes
    <2>1. target \subseteq Nodes
      BY DEF IInv, TypeOK
    <2> QED
      BY <2>1 DEF IInv, TypeOK, BatchOK
  <1>2. IsFiniteSet(listed)
    BY <1>1, RollingAssumption, FS_Subset
  <1> QED
    BY <1>1, <1>2, FS_Subset DEF AllCompleted

LEMMA CompletesStep == ASSUME IInv, Completes PROVE IInv'
  <1> USE DEF IInv, Completes, loopVars
  <1>1. /\ \A t \in TaskIds \ {run} : action'[t] = action[t]
        /\ \A n \in Nodes : action'[run][n] =
              IF n \in completed THEN "absent" ELSE action[run][n]
        /\ action' \in [TaskIds ->
                          [Nodes -> {"absent", "pending", "performed"}]]
    BY RunIsTask DEF Release, Present, TypeOK
  <1>2. /\ Present(run)' = Present(run) \ completed
        /\ Held(run)' = Held(run) \ completed
        /\ Spent' = Spent
    BY <1>1 DEF Present, Held, Spent
  <1>3. /\ tasks' \subseteq tasks /\ tasks \ {run} \subseteq tasks'
        /\ run \notin tasks' => Present(run)' = {}
        /\ Present(run)' = {} => run \notin tasks'
    BY <1>2 DEF Release, BatchOK
  <1>4. TypeOK'
    BY <1>1, <1>3 DEF TypeOK, Ended
  <1>5. Clean'
    BY DEF Clean, Before
  <1>6. TasksOK'
    <2>1. \A t \in TaskIds : \A n \in Nodes :
              action'[t][n] # "absent" => t \in tasks'
      <3> SUFFICES ASSUME NEW t \in TaskIds, NEW n \in Nodes,
                          action'[t][n] # "absent"
                   PROVE  t \in tasks'
        OBVIOUS
      <3>1. CASE t = run
        BY <1>3, <3>1 DEF Present
      <3>2. CASE t # run
        BY <1>1, <1>3, <3>2 DEF TasksOK
      <3> QED
        BY <3>1, <3>2
    <2> QED
      BY <1>2, <1>3, <2>1 DEF TasksOK
  <1>7. BatchOK' /\ NodesOK'
    BY <1>2 DEF BatchOK, NodesOK, Processing
  <1>8. ReportsOK'
    BY <1>2 DEF ReportsOK, BatchOK, Processing
  <1>9. TargetOK'
    <2>1. completed \subseteq Spent
      BY DEF NodesOK
    <2>2. /\ Present(run) \subseteq listed
          /\ target \ Present(run) \subseteq Spent
      BY DEF TargetOK, InLoop
    <2>3. CASE pc' = "wait"
      BY <1>2, <2>1, <2>2, <2>3 DEF TargetOK, InLoop
    <2>4. CASE pc' = "success"
      <3>1. completed = listed
        BY <2>4, AllAreCompleted
      <3>2. target \subseteq Spent /\ Present(run)' = {}
        BY <1>2, <2>1, <2>2, <3>1
      <3> QED
        BY <1>2, <1>3, <2>4, <3>2 DEF TargetOK, InLoop
    <2> QED
      BY <2>3, <2>4
  <1> QED
    BY <1>4, <1>5, <1>6, <1>7, <1>8, <1>9

-----------------------------------------------------------------------------
(* Every step is one of these. *)
LEMMA FailedMoves ==
    ASSUME IInv, NEW from, NEW to, Failed(from, to),
           <<from, to>> \in {"prepare", "list", "drop", "create", "exitlist",
                             "exitdrop", "complete", "refresh", "check"}
                            \X {"failed", "uncleaned", "wait"},
           to = "wait" => from \in {"complete", "refresh"}
    PROVE  Moves
  BY FaultCounted DEF IInv, Failed, Moves, Labels, Ended, Before, Processing,
                      InLoop

LEMMA CleanupStep ==
    ASSUME IInv, NEW list, NEW drop, NEW over, NEW failed,
           Cleanup(list, drop, over, failed),
           \/ <<list, drop, over, failed>> = <<"list", "drop", "create", "failed">>
           \/ <<list, drop, over, failed>> =
                 <<"exitlist", "exitdrop", "interrupted", "uncleaned">>
    PROVE  IInv'
  <1>0. toDrop \subseteq TaskIds /\ tasks \subseteq TaskIds
        /\ faults \in [Faults -> 0..MaxFaults] /\ TypeOK
    BY DEF IInv, TypeOK
  <1>1. CASE ListTasks(list, drop)
    BY <1>0, <1>1, ListsStep DEF ListTasks, Lists, Before
  <1>2. CASE DropTask(drop)
    BY <1>0, <1>2, DropsStep DEF DropTask, Drops, Before
  <1>3. CASE DropRefused(drop)
    BY <1>0, <1>3, ListsStep, FaultCounted DEF DropRefused, Lists, Before
  <1>4. CASE DropLost(drop, failed)
    BY <1>0, <1>4, DropsStep, FaultCounted
       DEF DropLost, Drops, Before, loopVars
  <1>5. CASE Dropped(drop, over)
    BY <1>0, <1>5, MoveStep
       DEF Dropped, Moves, Labels, Ended, Before, Processing, InLoop
  <1>6. CASE ListFails(list, drop, failed)
    BY <1>6, FailedMoves, MoveStep DEF ListFails
  <1>7. CASE Failed(drop, failed)
    BY <1>7, FailedMoves, MoveStep
  <1> QED
    BY <1>1, <1>2, <1>3, <1>4, <1>5, <1>6, <1>7 DEF Cleanup

LEMMA ClientStep == ASSUME IInv, Client PROVE IInv'
  <1>0. TypeOK /\ faults \in [Faults -> 0..MaxFaults]
    BY DEF IInv, TypeOK
  <1>1. CASE Prepare
    BY <1>1, PrepareStep
  <1>2. CASE Failed("prepare", "failed")
    BY <1>2, FailedMoves, MoveStep
  <1>3. CASE Cleanup("list", "drop", "create", "failed")
    BY <1>3, CleanupStep
  <1>4. CASE NothingToRestart
    BY <1>0, <1>4, MoveStep
       DEF NothingToRestart, Moves, Labels, Ended, Before, Processing, InLoop,
           IInv, Clean
  <1>5. CASE CreateTask
    <2>1. PICK now \in SUBSET (target \cap Free) : Creates(now)
      BY <1>0, <1>5 DEF CreateTask, Creates, IInv, TypeOK
    <2> QED
      BY <2>1, CreatesStep
  <1>6. CASE CreateLost
    <2>1. PICK now \in SUBSET (target \cap Free) : Creates(now)
      BY <1>0, <1>6, FaultCounted DEF CreateLost, Creates, loopVars, IInv, TypeOK
    <2> QED
      BY <2>1, CreatesStep
  <1>7. CASE Failed("create", "failed")
    BY <1>7, FailedMoves, MoveStep
  <1>8. CASE NothingPermitted
    BY <1>0, <1>8, MoveStep
       DEF NothingPermitted, Moves, Labels, Before, Processing, InLoop
  <1>9. CASE OpenBatch
    BY <1>9, OpenStep
  <1>10. CASE \E n \in Nodes : BatchStep(n)
    BY <1>10, StartStep, FinishStep, RecordStep DEF BatchStep
  <1>11. CASE CloseBatch
    BY <1>11, CloseStep
  <1>12. CASE CompleteActions
    BY <1>0, <1>12, CompletesStep DEF CompleteActions, Completes
  <1>13. CASE CompleteLost
    BY <1>0, <1>13, CompletesStep, FaultCounted
       DEF CompleteLost, Completes, batchVars
  <1>14. CASE CompleteFails
    BY <1>14, FailedMoves, MoveStep DEF CompleteFails
  <1>15. CASE Elapse
    BY <1>0, <1>15, MoveStep
       DEF Elapse, Moves, Labels, Before, Processing, InLoop
  <1>16. CASE Interrupt
    BY <1>0, <1>16, MoveStep
       DEF Interrupt, Moves, Labels, Before, Processing, InLoop
  <1>17. CASE RefreshTask
    BY <1>17, RefreshStep
  <1>18. CASE RefreshUnknown
    BY <1>0, <1>18, MoveStep
       DEF RefreshUnknown, Moves, Labels, Before, Processing, InLoop
  <1>19. CASE RefreshFails
    BY <1>19, FailedMoves, MoveStep DEF RefreshFails
  <1>20. CASE Compatible
    BY <1>0, <1>20, MoveStep
       DEF Compatible, Moves, Labels, Before, Processing, InLoop
  <1>21. CASE Incompatible
    BY <1>0, <1>21, MoveStep, FaultCounted
       DEF Incompatible, Moves, Labels, Ended, Before, Processing, InLoop
  <1>22. CASE Failed("check", "failed")
    BY <1>22, FailedMoves, MoveStep
  <1>23. CASE Cleanup("exitlist", "exitdrop", "interrupted", "uncleaned")
    BY <1>23, CleanupStep
  <1> QED
    BY <1>1, <1>2, <1>3, <1>4, <1>5, <1>6, <1>7, <1>8, <1>9, <1>10, <1>11,
       <1>12, <1>13, <1>14, <1>15, <1>16, <1>17, <1>18, <1>19, <1>20, <1>21,
       <1>22, <1>23 DEF Client

LEMMA NextStep == ASSUME IInv, [Next]_vars PROVE IInv'
  <1>0. faults \in [Faults -> 0..MaxFaults] /\ pc \in Labels
    BY DEF IInv, TypeOK, Labels
  <1>1. CASE Client
    BY <1>1, ClientStep
  <1>2. CASE Signal
    BY <1>2, SignalStep
  <1>3. CASE Kill
    BY <1>0, <1>3, MoveStep
       DEF Kill, Moves, Labels, Ended, Before, Processing, InLoop
  <1>4. CASE RunAgain
    BY <1>4, RunAgainStep
  <1>5. CASE \E n \in Nodes : Permit(n)
    BY <1>5, PermitStep
  <1>6. CASE UNCHANGED vars
    <2>1. Moves
      BY <1>0, <1>6 DEF vars, Moves, InLoop, IInv, TargetOK
    <2> QED
      BY <2>1, MoveStep
  <1> QED
    BY <1>1, <1>2, <1>3, <1>4, <1>5, <1>6 DEF Next, Over

LEMMA Inductive == Spec => []IInv
  BY InitIInv, NextStep, PTL DEF Spec

-----------------------------------------------------------------------------
(* The properties. *)

THEOREM TypeCorrect == Spec => []TypeOK
  BY Inductive, PTL DEF IInv

(* Whatever was lost, refused, killed or interrupted before, a node inside *)
(* RestartNode is held by the CMS for this run's own task.                 *)
THEOREM LockHeldSafe == Spec => []LockHeld
  <1>1. IInv => LockHeld
    BY DEF IInv, TypeOK, BatchOK, LockHeld, Processing
  <1> QED
    BY <1>1, Inductive, PTL

(* A node whose restart worked, or whose attempts are used up, is not      *)
(* restarted again in the run.                                             *)
THEOREM NoRepeatSafe == Spec => []NoRepeat
  <1>1. IInv => NoRepeat
    BY DEF IInv, TypeOK, NodesOK, NoRepeat, Spent
  <1> QED
    BY <1>1, Inductive, PTL

(* No node is tried more often than --restart-retry-number says.           *)
AttemptsBounded ==
    RetryNumber > 0 => \A n \in Nodes : retries[n] <= RetryNumber

(* Counted over all batches of a run, the attempts stay within the limit.  *)
THEOREM AttemptsBoundedSafe == Spec => []AttemptsBounded
  <1>1. IInv => AttemptsBounded
    BY DEF IInv, NodesOK, AttemptsBounded
  <1> QED
    BY <1>1, Inductive, PTL

(* Success is reported only when the run is done with every node.          *)
THEOREM SuccessMeansDoneSafe == Spec => []SuccessMeansDone
  <1>1. IInv => SuccessMeansDone
    BY DEF IInv, TargetOK, SuccessMeansDone, Spent
  <1> QED
    BY <1>1, Inductive, PTL

(* A lock is given back when the run is done with its node, or by the      *)
(* cleanup on exit; never while the node is being restarted.               *)
ReleasedWell ==
    \A n \in Held(run) :
        action'[run][n] = "absent" =>
            /\ n \notin inflight
            /\ \/ n \in restarted
               \/ retries[n] = RetryNumber
               \/ pc = "exitdrop"

LEMMA ReleaseStep == ASSUME IInv, [Next]_vars PROVE ReleasedWell
  <1> SUFFICES ASSUME action' # action
               PROVE  ReleasedWell
    BY DEF ReleasedWell, Held
  <1>1. CASE pc = "exitdrop"
    BY <1>1 DEF IInv, BatchOK, ReleasedWell
  <1>2. CASE pc \in Before
    BY <1>2, RunIsTask DEF IInv, Clean, TasksOK, ReleasedWell, Held
  <1>3. CASE Completes
    <2>1. \A n \in Nodes : action'[run][n] = "absent" =>
              n \in completed \/ action[run][n] = "absent"
      BY <1>3, RunIsTask DEF Completes, Release, Present, IInv, TypeOK
    <2>2. completed \subseteq Spent /\ inflight = {}
      BY <1>3 DEF IInv, NodesOK, BatchOK, Completes
    <2> QED
      BY <2>1, <2>2 DEF ReleasedWell, Held, Spent
  <1>4. CASE \E n \in Nodes : Permit(n)
    <2>1. PICK n \in Nodes, t \in tasks :
              action' = [action EXCEPT ![t][n] = "performed"]
      BY <1>4 DEF Permit
    <2> QED
      BY <2>1, RunIsTask DEF IInv, TypeOK, ReleasedWell, Held
  <1>5. pc \in Before \/ pc = "exitdrop" \/ Completes
            \/ \E n \in Nodes : Permit(n)
    <2>0. faults \in [Faults -> 0..MaxFaults] /\ TypeOK
      BY DEF IInv, TypeOK
    <2>1. CASE CompleteActions
      BY <2>0, <2>1 DEF CompleteActions, Completes
    <2>2. CASE CompleteLost
      BY <2>0, <2>2, FaultCounted DEF CompleteLost, Completes, batchVars
    <2>3. CASE Cleanup("exitlist", "exitdrop", "interrupted", "uncleaned")
      BY <2>3 DEF Cleanup, ListTasks, DropTask, DropRefused, DropLost,
                  Dropped, ListFails, Failed, cmsVars
    <2>4. CASE Cleanup("list", "drop", "create", "failed")
      BY <2>4 DEF Cleanup, ListTasks, DropTask, DropRefused, DropLost,
                  Dropped, ListFails, Failed, cmsVars, Before
    <2>5. CASE CreateTask \/ CreateLost
      BY <2>5 DEF CreateTask, CreateLost, Before
    <2>6. ASSUME NEW n \in Nodes, BatchStep(n)
          PROVE  action' = action
      BY <2>6 DEF BatchStep, cmsVars
    <2> QED
      BY <2>1, <2>2, <2>3, <2>4, <2>5, <2>6
         DEF Next, Client, Over, vars, Prepare, Failed, NothingToRestart,
             NothingPermitted, OpenBatch, CloseBatch, CompleteFails, Elapse,
             Interrupt, RefreshTask, RefreshUnknown, RefreshFails, Compatible,
             Incompatible, Signal, Kill, RunAgain, cmsVars
  <1> QED
    BY <1>1, <1>2, <1>3, <1>4, <1>5

THEOREM ReleasedWhenDoneSafe == Spec => ReleasedWhenDone
  <1>1. IInv /\ [Next]_vars => [ReleasedWell]_vars
    BY ReleaseStep
  <1>2. Spec => [][ReleasedWell]_vars
    BY <1>1, Inductive, PTL DEF Spec
  <1> QED
    BY <1>2 DEF ReleasedWhenDone, ReleasedWell

-----------------------------------------------------------------------------
(* Rolling implements Phase. *)

(* A run has something to wait for, and cleans up after a signal only.     *)
ExitOK ==
    /\ InLoop => target # {}
    /\ pc \in {"exitlist", "exitdrop"} => cancelled /\ target # {}

LEMMA ExitStep == ASSUME ExitOK, [Next]_vars PROVE ExitOK'
  <1> USE DEF ExitOK, InLoop, loopVars, batchVars
  <1>1. ASSUME NEW list, NEW drop, NEW over, NEW failed,
               Cleanup(list, drop, over, failed),
               \/ <<list, drop, over, failed>> =
                     <<"list", "drop", "create", "failed">>
               \/ <<list, drop, over, failed>> =
                     <<"exitlist", "exitdrop", "interrupted", "uncleaned">>
        PROVE  ExitOK'
    BY <1>1 DEF Cleanup, ListTasks, DropTask, DropRefused, DropLost, Dropped,
                ListFails, Failed
  <1>2. CASE \E n \in Nodes : BatchStep(n)
    BY <1>2 DEF BatchStep
  <1>3. CASE CreateTask \/ CreateLost \/ CompleteActions \/ CompleteLost
    BY <1>3 DEF CreateTask, CreateLost, CompleteActions, CompleteLost
  <1>4. CASE \/ Prepare \/ NothingToRestart \/ NothingPermitted \/ OpenBatch
             \/ CloseBatch \/ CompleteFails \/ Elapse \/ Interrupt
             \/ RefreshTask \/ RefreshUnknown \/ RefreshFails
             \/ Compatible \/ Incompatible
             \/ Failed("prepare", "failed") \/ Failed("create", "failed")
             \/ Failed("check", "failed")
    BY <1>4
       DEF Prepare, Failed, NothingToRestart, NothingPermitted, OpenBatch,
           CloseBatch, CompleteFails, Elapse, Interrupt, RefreshTask,
           RefreshUnknown, RefreshFails, Compatible, Incompatible
  <1>5. CASE Signal \/ Kill \/ RunAgain \/ UNCHANGED vars
    BY <1>5 DEF Signal, B!Cancel, Kill, Ended, RunAgain, vars
  <1>6. CASE \E n \in Nodes : Permit(n)
    BY <1>6 DEF Permit
  <1> QED
    BY <1>1, <1>2, <1>3, <1>4, <1>5, <1>6 DEF Next, Client, Over

LEMMA ExitAlways == Spec => []ExitOK
  <1>1. Init => ExitOK
    BY DEF Init, ExitOK, InLoop
  <1> QED
    BY <1>1, ExitStep, PTL DEF Spec

(* The steps of a batch: the start of a restart, its end, and the counting *)
(* of its failure.                                                         *)
LEMMA BatchImplements ==
    ASSUME IInv, NEW n \in Nodes, BatchStep(n)
    PROVE  \/ P!Start(n) \/ P!Works(n) \/ P!Breaks(n)
           \/ UNCHANGED P!phaseVars
  <1> USE DEF IInv, BatchStep, loopVars
  <1>0. /\ pc = "batch" /\ pc' = "batch" /\ phasePc = "rolling"
        /\ phasePc' = "rolling" /\ target' = target
        /\ Unsettled = inflight \cup {m \in awaiting : outcome[m] # "ok"}
        /\ Unsettled' = inflight' \cup {m \in awaiting' : outcome'[m] # "ok"}
    BY DEF phasePc, Unsettled
  <1>1. CASE B!Start(n)
    <2> USE <1>1 DEF B!Start
    <2>1. n \in target \ (Unsettled \cup Spent)
      BY <1>0 DEF TypeOK, BatchOK, NodesOK
    <2>2. Spent' = Spent
      BY DEF TypeOK, NodesOK, Spent
    <2>3. Unsettled' = Unsettled \cup {n}
      BY <1>0
    <2> QED
      BY <1>0, <2>1, <2>2, <2>3 DEF P!Start
  <1>2. CASE B!Finish(n)
    <2> USE <1>2 DEF B!Finish
    <2>1. PICK o \in {"ok", "err"} : outcome' = [outcome EXCEPT ![n] = o]
      OBVIOUS
    <2>2. /\ outcome'[n] = o
          /\ \A m \in Nodes \ {n} : outcome'[m] = outcome[m]
      BY <2>1 DEF TypeOK
    <2>3. restarted' = IF o = "ok" THEN restarted \cup {n} ELSE restarted
      BY <2>2 DEF TypeOK, NodesOK
    <2>4. awaiting \subseteq Nodes /\ n \notin awaiting
      BY DEF TypeOK, BatchOK
    <2>5. CASE o = "ok"
      <3>1. Unsettled' = Unsettled \ {n} /\ n \in Unsettled
        BY <1>0, <2>2, <2>4, <2>5
      <3>2. Spent' = Spent \cup {n}
        BY <2>3, <2>5 DEF Spent
      <3> QED
        BY <1>0, <3>1, <3>2 DEF P!Works
    <2>6. CASE o = "err"
      <3>1. Unsettled' = Unsettled
        BY <1>0, <2>2, <2>4, <2>6
      <3>2. Spent' = Spent
        BY <2>3, <2>6 DEF Spent
      <3> QED
        BY <1>0, <3>1, <3>2 DEF P!phaseVars
    <2> QED
      BY <2>5, <2>6
  <1>3. CASE B!Record(n)
    <2> USE <1>3 DEF B!Record
    <2>1. restarted' = restarted
      BY DEF TypeOK, NodesOK
    <2>2. /\ retries' \in [Nodes -> Nat]
          /\ \A m \in Nodes \ {n} : retries'[m] = retries[m]
          /\ outcome[n] = "ok" => retries' = retries
          /\ outcome[n] # "ok" => retries'[n] = retries[n] + 1
      BY DEF TypeOK
    <2>3. CASE outcome[n] = "ok"
      BY <1>0, <2>1, <2>2, <2>3 DEF Spent, P!phaseVars
    <2>4. CASE outcome[n] # "ok"
      <3>1. Unsettled' = Unsettled \ {n} /\ n \in Unsettled
        BY <1>0, <2>4 DEF BatchOK
      <3>2. RetryNumber > 0 => retries[n] < RetryNumber
        BY DEF NodesOK
      <3>3. Spent' \in {Spent, Spent \cup {n}}
        <4>1. CASE n \in Spent'
          BY <2>1, <2>2, <3>2, <4>1 DEF Spent, TypeOK
        <4>2. CASE n \notin Spent'
          BY <2>1, <2>2, <3>2, <4>2, RollingAssumption DEF Spent, TypeOK
        <4> QED
          BY <4>1, <4>2
      <3> QED
        BY <1>0, <3>1, <3>3 DEF P!Breaks
    <2> QED
      BY <2>3, <2>4
  <1> QED
    BY <1>1, <1>2, <1>3

(* Outside a batch and within the run nothing of the contract changes but  *)
(* where the phase stands.                                                 *)
Outside ==
    /\ pc # "batch" /\ pc' # "batch"
    /\ UNCHANGED <<target, restarted, retries, cancelled>>

LEMMA OutsideKeeps ==
    ASSUME Outside
    PROVE  /\ Unsettled = {} /\ Unsettled' = {} /\ Spent' = Spent
           /\ target' = target /\ cancelled' = cancelled
  BY DEF Outside, Unsettled, Spent

LEMMA EndImplements ==
    ASSUME IInv, ExitOK, Outside, phasePc \in P!Under,
           \/ phasePc' = phasePc
           \/ phasePc' = "failed"
           \/ phasePc' = "success" /\ phasePc = "rolling" /\ target \subseteq Spent
           \/ /\ phasePc' = "interrupted"
              /\ pc \in {"exitlist", "exitdrop"}
    PROVE  [P!Next]_(P!phaseVars)
  <1>1. CASE phasePc' = phasePc
    BY <1>1, OutsideKeeps DEF P!phaseVars
  <1>2. CASE phasePc' = "failed"
    BY <1>2, OutsideKeeps DEF P!Next, P!Fails
  <1>3. CASE phasePc' = "success" /\ phasePc = "rolling" /\ target \subseteq Spent
    BY <1>3, OutsideKeeps DEF P!Next, P!Finish
  <1>4. CASE phasePc' = "interrupted" /\ pc \in {"exitlist", "exitdrop"}
    BY <1>4, OutsideKeeps DEF P!Next, P!Interrupted, ExitOK, phasePc
  <1> QED
    BY <1>1, <1>2, <1>3, <1>4

LEMMA CleanupImplements ==
    ASSUME IInv, ExitOK, NEW list, NEW drop, NEW over, NEW failed,
           Cleanup(list, drop, over, failed),
           \/ <<list, drop, over, failed>> =
                 <<"list", "drop", "create", "failed">>
           \/ <<list, drop, over, failed>> =
                 <<"exitlist", "exitdrop", "interrupted", "uncleaned">>
    PROVE  [P!Next]_(P!phaseVars)
  <1>1. Outside /\ phasePc = "rolling"
    BY DEF Cleanup, ListTasks, DropTask, DropRefused, DropLost, Dropped,
           ListFails, Failed, Outside, phasePc, loopVars, batchVars
  <1>2. \/ phasePc' = phasePc
        \/ phasePc' = "failed"
        \/ phasePc' = "interrupted" /\ pc \in {"exitlist", "exitdrop"}
    BY DEF Cleanup, ListTasks, DropTask, DropRefused, DropLost, Dropped,
           ListFails, Failed, phasePc
  <1> QED
    BY <1>1, <1>2, EndImplements DEF P!Under

LEMMA ClientImplements ==
    ASSUME IInv, ExitOK, IInv', Client PROVE [P!Next]_(P!phaseVars)
  <1> USE DEF loopVars, batchVars
  <1>1. CASE Prepare
    <2>1. target' \in SUBSET Nodes /\ UNCHANGED <<Spent, Unsettled, cancelled>>
          /\ phasePc = "prepare" /\ phasePc' = "rolling"
      BY <1>1 DEF Prepare, Spent, Unsettled, phasePc
    <2> QED
      BY <2>1 DEF P!Next, P!Prepare
  <1>2. CASE Failed("prepare", "failed") \/ Failed("create", "failed")
                \/ Failed("check", "failed") \/ CreateLost \/ Incompatible
    <2>1. Outside /\ phasePc \in P!Under /\ phasePc' = "failed"
      BY <1>2 DEF Failed, CreateLost, Incompatible, Outside, phasePc, P!Under
    <2> QED
      BY <2>1, EndImplements
  <1>3. CASE \/ Cleanup("list", "drop", "create", "failed")
             \/ Cleanup("exitlist", "exitdrop", "interrupted", "uncleaned")
    BY <1>3, CleanupImplements
  <1>4. CASE NothingToRestart \/ CompleteActions \/ CompleteLost
    <2>1. Outside /\ phasePc = "rolling" /\ phasePc' \in {"rolling", "success"}
      BY <1>4 DEF NothingToRestart, CompleteActions, CompleteLost, Outside,
                  phasePc
    <2>2. phasePc' = "success" => target \subseteq Spent
      <3>1. phasePc' = "success" => pc' = "success"
        BY DEF phasePc
      <3>2. pc' = "success" => target' \subseteq Spent'
        BY DEF IInv, TargetOK
      <3> QED
        BY <2>1, <3>1, <3>2, OutsideKeeps
    <2> QED
      BY <2>1, <2>2, EndImplements DEF P!Under
  <1>5. CASE \/ CreateTask \/ NothingPermitted \/ CompleteFails \/ Elapse
             \/ Interrupt \/ RefreshTask \/ RefreshUnknown \/ RefreshFails
             \/ Compatible
    <2>1. Outside /\ phasePc = "rolling" /\ phasePc' = phasePc
      BY <1>5 DEF CreateTask, NothingPermitted, CompleteFails, Elapse,
                  Interrupt, RefreshTask, RefreshUnknown, RefreshFails,
                  Compatible, Failed, Outside, phasePc
    <2> QED
      BY <2>1, EndImplements DEF P!Under
  <1>6. CASE OpenBatch
    BY <1>6 DEF OpenBatch, B!Open, phasePc, Unsettled, Spent, P!phaseVars
  <1>7. CASE \E n \in Nodes : BatchStep(n)
    BY <1>7, BatchImplements DEF P!Next
  <1>8. CASE CloseBatch
    <2> USE <1>8 DEF CloseBatch, B!Return
    <2>1. /\ phasePc = "rolling" /\ phasePc' = "rolling" /\ Spent' = Spent
          /\ Unsettled' = {} /\ target' = target /\ cancelled' = cancelled
      BY DEF phasePc, Spent, Unsettled
    <2>2. CASE cancelled
      BY <2>1, <2>2 DEF P!Next, P!Uncounted
    <2>3. CASE ~cancelled
      <3>1. Unsettled = {}
        BY <2>3 DEF Unsettled
      <3> QED
        BY <2>1, <3>1 DEF P!phaseVars
    <2> QED
      BY <2>2, <2>3
  <1> QED
    BY <1>1, <1>2, <1>3, <1>4, <1>5, <1>6, <1>7, <1>8 DEF Client

(* Every step of a run, of its batches and of the CMS is a step or a       *)
(* stutter of the phase that Command takes for Execute.                    *)
THEOREM ImplementsPhaseSafe == Spec => ImplementsPhase
  <1> USE DEF loopVars, batchVars
  <1>1. ASSUME Init PROVE P!Init
    BY <1>1, RollingAssumption DEF Init, P!Init, phasePc, Unsettled, Spent
  <1>2. ASSUME IInv, ExitOK, IInv', [Next]_vars
        PROVE  [P!Next]_(P!phaseVars)
    <2>1. CASE Client
      BY <1>2, <2>1, ClientImplements
    <2>2. CASE Signal
      <3>1. phasePc \in P!Under /\ phasePc' = phasePc /\ cancelled' = TRUE
            /\ UNCHANGED <<target, Unsettled, Spent>>
        BY <1>2, <2>2 DEF Signal, B!Cancel, phasePc, P!Under, Ended,
                          Unsettled, Spent
      <3> QED
        BY <3>1 DEF P!Next, P!Signal
    <2>3. CASE Kill
      <3>1. phasePc \in P!Under /\ phasePc' = "killed" /\ Unsettled' = {}
            /\ UNCHANGED <<target, cancelled, Spent>>
        BY <1>2, <2>3 DEF Kill, phasePc, P!Under, Ended, Unsettled, Spent
      <3> QED
        BY <3>1 DEF P!Next, P!Kill
    <2>4. CASE RunAgain
      <3>1. phasePc \notin P!Under /\ phasePc' = "prepare"
            /\ target' = {} /\ Unsettled' = {} /\ cancelled' = FALSE
        BY <2>4 DEF RunAgain, phasePc, P!Under, Ended, Unsettled
      <3>2. Spent' = {}
        BY <2>4, RollingAssumption DEF RunAgain, Spent
      <3> QED
        BY <3>1, <3>2 DEF P!Next, P!Forget
    <2>5. CASE \E n \in Nodes : Permit(n)
      BY <2>5 DEF Permit, phasePc, Unsettled, Spent, P!phaseVars
    <2>6. CASE UNCHANGED vars
      BY <2>6 DEF vars, phasePc, Unsettled, Spent, P!phaseVars
    <2> QED
      BY <1>2, <2>1, <2>2, <2>3, <2>4, <2>5, <2>6 DEF Next, Over
  <1> QED
    BY <1>1, <1>2, Inductive, ExitAlways, PTL DEF Spec, ImplementsPhase, P!Spec

-----------------------------------------------------------------------------
(* The older tasks of the user, if the CMS refuses no drop.                *)
Cleaned ==
    /\ pc \in {"drop", "exitdrop"} => tasks \subseteq toDrop
    /\ pc \in {"create", "interrupted"} => tasks = {}
    /\ InLoop => tasks \subseteq {run}

LEMMA CleanedStep ==
    ASSUME "refused" \notin Faults, IInv, Cleaned, [Next]_vars PROVE Cleaned'
  <1> USE DEF Cleaned, InLoop
  <1>1. CASE CompleteActions \/ CompleteLost
    BY <1>1 DEF CompleteActions, CompleteLost, Release, loopVars
  <1>2. ASSUME NEW list, NEW drop, NEW over, NEW failed,
               Cleanup(list, drop, over, failed),
               \/ <<list, drop, over, failed>> =
                     <<"list", "drop", "create", "failed">>
               \/ <<list, drop, over, failed>> =
                     <<"exitlist", "exitdrop", "interrupted", "uncleaned">>
        PROVE  Cleaned'
    <2>1. CASE ListTasks(list, drop)
      BY <1>2, <2>1 DEF ListTasks, cmsVars
    <2>2. CASE DropTask(drop)
      BY <1>2, <2>2 DEF DropTask, Remove
    <2>3. CASE Dropped(drop, over)
      BY <1>2, <2>3 DEF Dropped, cmsVars, loopVars
    <2>4. CASE DropLost(drop, failed) \/ ListFails(list, drop, failed)
                  \/ Failed(drop, failed)
      BY <1>2, <2>4 DEF DropLost, ListFails, Failed
    <2>5. ~DropRefused(drop)
      BY DEF DropRefused, Fault
    <2> QED
      BY <1>2, <2>1, <2>2, <2>3, <2>4, <2>5 DEF Cleanup
  <1>3. CASE CreateTask \/ CreateLost
    BY <1>3 DEF CreateTask, CreateLost, AddTask, loopVars
  <1>4. CASE \E n \in Nodes : BatchStep(n)
    BY <1>4 DEF BatchStep, cmsVars, loopVars
  <1>5. CASE \E n \in Nodes : Permit(n)
    BY <1>5 DEF Permit, loopVars
  <1>6. CASE RefreshTask \/ RefreshUnknown \/ RefreshFails
    BY <1>6 DEF RefreshTask, RefreshUnknown, RefreshFails, Failed, cmsVars,
                loopVars
  <1>7. CASE \/ Prepare \/ NothingToRestart \/ NothingPermitted \/ OpenBatch
             \/ CloseBatch \/ CompleteFails \/ Elapse \/ Interrupt
             \/ Compatible \/ Incompatible \/ Signal \/ Kill \/ RunAgain
             \/ Failed("prepare", "failed") \/ Failed("create", "failed")
             \/ Failed("check", "failed") \/ UNCHANGED vars
    BY <1>7
       DEF Prepare, Failed, NothingToRestart, NothingPermitted, OpenBatch,
           CloseBatch, CompleteFails, Elapse, Interrupt, Compatible,
           Incompatible, Signal, Kill, Ended, RunAgain, cmsVars, loopVars,
           vars
  <1> QED
    BY <1>1, <1>2, <1>3, <1>4, <1>5, <1>6, <1>7 DEF Next, Client, Over

LEMMA CleanedAlways ==
    ASSUME "refused" \notin Faults PROVE Spec => []Cleaned
  <1>1. Init => Cleaned
    BY DEF Init, Cleaned, InLoop
  <1>2. IInv /\ Cleaned /\ [Next]_vars => Cleaned'
    BY CleanedStep
  <1> QED
    BY <1>1, <1>2, Inductive, PTL DEF Spec

(* If the CMS refuses no drop, a run works with the CMS only after all the *)
(* user's older tasks, those of a killed run included, are gone.           *)
THEOREM NoOlderTaskSafe ==
    ASSUME "refused" \notin Faults PROVE Spec => []NoOlderTask
  <1>1. Cleaned => NoOlderTask
    BY DEF Cleaned, NoOlderTask
  <1> QED
    BY <1>1, CleanedAlways, PTL

(* If the CMS refuses no drop, a cleanup that is logged as successful has  *)
(* left no task of the user behind.                                        *)
THEOREM CleanedUpSafe ==
    ASSUME "refused" \notin Faults PROVE Spec => []CleanedUp
  <1>1. Cleaned => CleanedUp
    BY DEF Cleaned, CleanedUp
  <1> QED
    BY <1>1, CleanedAlways, PTL

-----------------------------------------------------------------------------
(* The way to the end after a signal. *)
Place ==
    [prepare |-> 0, list |-> 1, drop |-> 2, create |-> 3, refresh |-> 4,
     check |-> 5, process |-> 6, batch |-> 7, complete |-> 8, wait |-> 9,
     exitlist |-> 10, exitdrop |-> 11, success |-> 12, failed |-> 12,
     interrupted |-> 12, uncleaned |-> 12, killed |-> 12]

LEMMA Places ==
    /\ Place["prepare"] = 0 /\ Place["list"] = 1 /\ Place["drop"] = 2
    /\ Place["create"] = 3 /\ Place["refresh"] = 4 /\ Place["check"] = 5
    /\ Place["process"] = 6 /\ Place["batch"] = 7 /\ Place["complete"] = 8
    /\ Place["wait"] = 9 /\ Place["exitlist"] = 10 /\ Place["exitdrop"] = 11
    /\ Place["success"] = 12 /\ Place["failed"] = 12
    /\ Place["interrupted"] = 12 /\ Place["uncleaned"] = 12
  BY DEF Place

(* The run has gone on to a later statement, or it has one task less to    *)
(* drop, one restart less to wait for, or one status less to count.        *)
Shrinks(S, T) == T \subseteq S /\ T # S

Nearer ==
    \/ Place[pc] < Place[pc']
    \/ pc' = pc /\ Shrinks(toDrop, toDrop')
    \/ pc' = pc /\ toDrop' = toDrop /\ Shrinks(inflight, inflight')
    \/ /\ pc' = pc /\ UNCHANGED <<toDrop, inflight>>
       /\ Shrinks(awaiting, awaiting')

(* After a signal every step of the run brings it nearer to its end, if it *)
(* waits between two looks at the CMS (waitOrCancel): it goes once more at *)
(* most through the statements of DoRestart, restarts nothing, whatever    *)
(* the CMS answers and whichever calls fail, and never turns back.         *)
SignalLeadsToEnd ==
    [][cancelled /\ Client /\ CMSQueryInterval > 0 => Nearer]_vars

LEMMA CleanupNearer ==
    ASSUME NEW list, NEW drop, NEW over, NEW failed,
           Cleanup(list, drop, over, failed),
           \/ <<list, drop, over, failed>> =
                 <<"list", "drop", "create", "failed">>
           \/ <<list, drop, over, failed>> =
                 <<"exitlist", "exitdrop", "interrupted", "uncleaned">>
    PROVE  Nearer
  <1>1. CASE ListTasks(list, drop) \/ Dropped(drop, over)
    BY <1>1, Places DEF ListTasks, Dropped, Nearer
  <1>2. CASE DropTask(drop) \/ DropRefused(drop)
    BY <1>2 DEF DropTask, DropRefused, Nearer, Shrinks
  <1>3. CASE \/ DropLost(drop, failed) \/ ListFails(list, drop, failed)
             \/ Failed(drop, failed)
    BY <1>3, Places DEF DropLost, ListFails, Failed, Nearer
  <1> QED
    BY <1>1, <1>2, <1>3 DEF Cleanup

THEOREM SignalLeadsToEndSafe == Spec => SignalLeadsToEnd
  <1>1. ASSUME cancelled, Client, CMSQueryInterval > 0 PROVE Nearer
    <2>1. CASE \/ Cleanup("list", "drop", "create", "failed")
               \/ Cleanup("exitlist", "exitdrop", "interrupted", "uncleaned")
      BY <2>1, CleanupNearer
    <2>2. ASSUME NEW n \in Nodes, BatchStep(n) PROVE Nearer
      BY <1>1, <2>2
         DEF BatchStep, B!Start, B!Finish, B!Record, loopVars, Nearer, Shrinks
    <2>3. CASE ~Elapse
      <3>1. CASE \/ Prepare \/ NothingToRestart \/ CreateTask \/ CreateLost
                 \/ Failed("prepare", "failed") \/ Failed("create", "failed")
        BY <3>1, Places
           DEF Prepare, Failed, NothingToRestart, CreateTask, CreateLost, Nearer
      <3>2. CASE \/ NothingPermitted \/ OpenBatch \/ CloseBatch
                 \/ CompleteActions \/ CompleteLost \/ CompleteFails \/ Interrupt
        BY <3>2, Places
           DEF NothingPermitted, OpenBatch, CloseBatch, CompleteActions,
               CompleteLost, CompleteFails, Failed, Interrupt, Nearer
      <3>3. CASE \/ RefreshTask \/ RefreshUnknown \/ RefreshFails
                 \/ Compatible \/ Incompatible \/ Failed("check", "failed")
        BY <3>3, Places
           DEF RefreshTask, RefreshUnknown, RefreshFails, Failed, Compatible,
               Incompatible, Nearer
      <3> QED
        BY <1>1, <2>1, <2>2, <2>3, <3>1, <3>2, <3>3 DEF Client
    <2>4. ~Elapse
      BY <1>1, RollingAssumption DEF Elapse
    <2> QED
      BY <2>3, <2>4
  <1>2. [Next]_vars => [cancelled /\ Client /\ CMSQueryInterval > 0 => Nearer]_vars
    BY <1>1
  <1> QED
    BY <1>2, PTL DEF SignalLeadsToEnd, Spec
=============================================================================
