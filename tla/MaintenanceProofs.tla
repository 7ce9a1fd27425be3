-------------------------- MODULE MaintenanceProofs --------------------------
(***************************************************************************)
(* Proofs about Maintenance: beside the operator's commands and other      *)
(* restarts, and killed at any moment, a restart takes down only what its  *)
(* own task has locked, works beside no older task, and the commands give  *)
(* back only what they name.                                               *)
(***************************************************************************)
EXTENDS Maintenance, Sequences, NatLemmas, FiltersProofs

-----------------------------------------------------------------------------
(* The inductive invariant. *)

(* The operator's commands. *)
CommandOK ==
    /\ \A uid \in Uids : asked[uid] = None => uid \notin tasks /\ busy[uid] = {}
    /\ command # None =>
          /\ command.finished = command.hosts
          /\ command.task \in tasks \cap Uids =>
                /\ command.hosts \subseteq Present(command.task)
                /\ command.hosts \cap busy[command.task] = {}

(* A restart before its task, in its loop, in a batch.                     *)
RestartOK ==
    \A r \in Restarts :
        /\ pc[r] \in {"list", "get", "drop", "failed"} => r \notin tasks
        /\ pc[r] \in {"get", "drop"} => older[r] \subseteq previous[r]
        /\ pc[r] \in {"loop", "batch"} => older[r] = {}
        /\ pc[r] \notin {"batch", "killed"} => busy[r] = {}
        /\ pc[r] = "batch" =>
              /\ busy[r] \subseteq permitted[r] \ done[r]
              /\ r \notin robbed => permitted[r] \subseteq Held(r)

(* What is worked on is held, unless somebody else has taken the task away. *)
HeldOK == \A t \in Tasks \ robbed : busy[t] \subseteq Held(t)

MInv == TypeOK /\ CommandOK /\ RestartOK /\ HeldOK

-----------------------------------------------------------------------------
LEMMA RestartsAreTasks ==
    /\ \A r \in Restarts : r \in Tasks /\ r \notin Uids
    /\ \A uid \in Uids : uid \in Tasks /\ uid \notin Restarts
  BY MaintenanceAssumption DEF Tasks

LEMMA MaintenanceInit == ASSUME Init PROVE MInv
  <1>1. TypeOK
    BY RestartsAreTasks DEF Init, TypeOK, Present, NoActions
  <1>2. CommandOK /\ RestartOK /\ HeldOK
    BY RestartsAreTasks DEF Init, CommandOK, RestartOK, HeldOK
  <1> QED
    BY <1>1, <1>2 DEF MInv

(* What the CMS does to the actions of one task leaves the others alone.   *)
LEMMA RemoveOne ==
    ASSUME TypeOK, NEW t \in Tasks, Remove(t)
    PROVE  /\ tasks' = tasks \ {t}
           /\ older' = [r \in Restarts |-> older[r] \ {t}]
           /\ action' \in [Tasks -> [Scopes ->
                             {"absent", "pending", "performed"}]]
           /\ Held(t)' = {} /\ Present(t)' = {}
           /\ \A u \in Tasks \ {t} :
                  Held(u)' = Held(u) /\ Present(u)' = Present(u)
  BY DEF TypeOK, Remove, Forget, NoActions, Held, Present

LEMMA ReleaseSome ==
    ASSUME TypeOK, NEW t \in tasks, NEW scopes, Release(t, scopes)
    PROVE  /\ tasks \ {t} \subseteq tasks' /\ tasks' \subseteq tasks
           /\ \A r \in Restarts : older'[r] \subseteq older[r] \cap tasks'
           /\ older' \in [Restarts -> SUBSET tasks']
           /\ action' \in [Tasks -> [Scopes ->
                             {"absent", "pending", "performed"}]]
           /\ Held(t)' = Held(t) \ scopes
           /\ Present(t)' = Present(t) \ scopes
           /\ t \notin tasks' => Present(t)' = {}
           /\ \A u \in Tasks \ {t} :
                  Held(u)' = Held(u) /\ Present(u)' = Present(u)
  <1>1. t \in Tasks
    BY DEF TypeOK
  <1>2. action' \in [Tasks -> [Scopes -> {"absent", "pending", "performed"}]]
    BY <1>1 DEF TypeOK, Release
  <1>3. /\ \A s \in Scopes : action'[t][s] =
              IF s \in scopes THEN "absent" ELSE action[t][s]
        /\ \A u \in Tasks \ {t} : action'[u] = action[u]
    BY <1>1 DEF TypeOK, Release
  <1>4. /\ Held(t)' = Held(t) \ scopes
        /\ Present(t)' = Present(t) \ scopes
        /\ \A u \in Tasks \ {t} :
              Held(u)' = Held(u) /\ Present(u)' = Present(u)
    BY <1>3 DEF Held, Present
  <1>5. /\ tasks \ {t} \subseteq tasks' /\ tasks' \subseteq tasks
        /\ t \notin tasks' => Present(t)' = {}
        /\ older' \in [Restarts -> SUBSET tasks']
        /\ \A r \in Restarts : older'[r] \subseteq older[r] \cap tasks'
    BY <1>4 DEF Release, Forget, TypeOK
  <1> QED
    BY <1>2, <1>4, <1>5

-----------------------------------------------------------------------------
(* The operator's steps. *)
LEMMA CreateStep == ASSUME MInv, Create PROVE MInv'
  <1> USE RestartsAreTasks, MaintenanceAssumption DEF MInv, restart
  <1>1. PICK uid \in Uids, opts \in CreateOptions :
            /\ asked[uid] = None
            /\ AddTask(uid, CreateScopes(opts), {})
            /\ asked' = [asked EXCEPT ![uid] = opts]
            /\ command = None /\ UNCHANGED <<restart, command, busy, robbed>>
    BY DEF Create
  <1>2. /\ action' \in [Tasks -> [Scopes -> {"absent", "pending", "performed"}]]
        /\ \A t \in Tasks \ {uid} : action'[t] = action[t]
        /\ tasks' = tasks \cup {uid} /\ older' = older
    BY <1>1 DEF TypeOK, AddTask
  <1>3. \A t \in Tasks \ {uid} :
            Held(t)' = Held(t) /\ Present(t)' = Present(t)
    BY <1>2 DEF Held, Present
  <1>4. TypeOK'
    BY <1>1, <1>2, <1>3 DEF TypeOK
  <1>5. CommandOK'
    BY <1>1, <1>2 DEF CommandOK, TypeOK
  <1>6. RestartOK'
    BY <1>1, <1>2, <1>3 DEF RestartOK
  <1>7. HeldOK'
    BY <1>1, <1>3 DEF HeldOK, CommandOK
  <1> QED
    BY <1>4, <1>5, <1>6, <1>7

LEMMA RefreshStep == ASSUME MInv, Refresh PROVE MInv'
  <1> USE RestartsAreTasks DEF MInv, Refresh, cms, restart
  <1>1. \A t \in Tasks : Held(t)' = Held(t) /\ Present(t)' = Present(t)
    BY DEF Held, Present
  <1>2. TypeOK'
    BY <1>1 DEF TypeOK, Held
  <1>3. CommandOK' /\ RestartOK'
    BY <1>1 DEF CommandOK, RestartOK, TypeOK
  <1>4. HeldOK'
    BY <1>1 DEF HeldOK, TypeOK
  <1> QED
    BY <1>2, <1>3, <1>4

LEMMA DropStep == ASSUME MInv, Drop PROVE MInv'
  <1> USE RestartsAreTasks DEF restart
  <1>1. PICK t \in tasks :
            /\ Remove(t)
            /\ busy' = IF t \in Uids THEN [busy EXCEPT ![t] = {}] ELSE busy
            /\ robbed' = IF t \in Uids THEN robbed ELSE robbed \cup {t}
            /\ command = None /\ UNCHANGED <<restart, command, asked>>
    BY DEF Drop
  <1>2. t \in Tasks /\ TypeOK /\ CommandOK /\ RestartOK /\ HeldOK
    BY DEF MInv, TypeOK
  <1>3. /\ tasks' = tasks \ {t}
        /\ older' = [r \in Restarts |-> older[r] \ {t}]
        /\ action' \in [Tasks -> [Scopes ->
                          {"absent", "pending", "performed"}]]
        /\ Held(t)' = {} /\ Present(t)' = {}
        /\ \A u \in Tasks \ {t} :
               Held(u)' = Held(u) /\ Present(u)' = Present(u)
    BY <1>1, <1>2, RemoveOne
  <1>4. TypeOK'
    <2>1. busy' \in [Tasks -> SUBSET Scopes] /\ robbed' \subseteq Tasks
      BY <1>1, <1>2 DEF TypeOK
    <2>2. \A u \in Tasks \ tasks' : Present(u)' = {}
      BY <1>2, <1>3 DEF TypeOK
    <2>3. older' \in [Restarts -> SUBSET tasks']
      BY <1>2, <1>3 DEF TypeOK
    <2>4. tasks' \subseteq Tasks
      BY <1>2, <1>3 DEF TypeOK
    <2> QED
      BY <1>1, <1>2, <1>3, <2>1, <2>2, <2>3, <2>4 DEF TypeOK
  <1>5. CommandOK'
    BY <1>1, <1>2, <1>3 DEF CommandOK, TypeOK
  <1>6. RestartOK'
    BY <1>1, <1>2, <1>3 DEF RestartOK, TypeOK
  <1>7. HeldOK'
    BY <1>1, <1>2, <1>3 DEF HeldOK, TypeOK
  <1> QED
    BY <1>4, <1>5, <1>6, <1>7 DEF MInv

LEMMA CompleteStep == ASSUME MInv, Complete PROVE MInv'
  <1> USE RestartsAreTasks DEF MInv, cms, restart
  <1>1. PICK t \in tasks, hosts \in CompleteHosts :
            LET finished == getFinishedActions(Named(hosts),
                                               Kind(hosts, Present(t))) IN
            /\ busy' = IF t \in Uids THEN [busy EXCEPT ![t] = @ \ Named(hosts)]
                       ELSE busy
            /\ command' = IF finished = {} THEN None
                          ELSE [task |-> t, hosts |-> Named(hosts),
                                finished |-> finished]
    BY DEF Complete
  <1>2. command = None /\ UNCHANGED <<cms, restart, asked, robbed>>
    BY DEF Complete
  <1>3. \A u \in Tasks : Held(u)' = Held(u) /\ Present(u)' = Present(u)
    BY <1>2 DEF Held, Present
  <1>4. t \in Tasks
    BY DEF TypeOK
  <1>5. /\ busy' \in [Tasks -> SUBSET Scopes]
        /\ \A u \in Tasks : busy'[u] \subseteq busy[u]
        /\ \A r \in Restarts : busy'[r] = busy[r]
    BY <1>1, <1>4 DEF TypeOK
  <1>6. command' # None =>
            /\ command'.task = t
            /\ command'.finished = Named(hosts) /\ command'.hosts = Named(hosts)
            /\ Named(hosts) \subseteq Present(t)
    BY <1>1 DEF getFinishedActions, Kind
  <1>7. TypeOK'
    BY <1>2, <1>3, <1>5, <1>6 DEF TypeOK
  <1>8. CommandOK'
    <2>1. t \in Uids => Named(hosts) \cap busy'[t] = {}
      BY <1>1, <1>4 DEF TypeOK
    <2> QED
      BY <1>2, <1>3, <1>4, <1>5, <1>6, <2>1 DEF CommandOK
  <1>9. RestartOK'
    BY <1>2, <1>3, <1>5 DEF RestartOK
  <1>10. HeldOK'
    BY <1>2, <1>3, <1>5 DEF HeldOK
  <1> QED
    BY <1>7, <1>8, <1>9, <1>10

LEMMA CompleteActionStep == ASSUME MInv, CompleteAction PROVE MInv'
  <1> USE RestartsAreTasks DEF MInv, CompleteAction, restart
  <1>1. CASE command.task \notin tasks
    <2> USE <1>1 DEF cms
    <2>1. \A u \in Tasks : Held(u)' = Held(u) /\ Present(u)' = Present(u)
      BY DEF Held, Present
    <2>2. robbed' = robbed
      OBVIOUS
    <2>3. TypeOK'
      BY <2>1, <2>2 DEF TypeOK
    <2>4. CommandOK' /\ RestartOK' /\ HeldOK'
      BY <2>1, <2>2 DEF CommandOK, RestartOK, HeldOK
    <2> QED
      BY <2>3, <2>4
  <1>2. CASE command.task \in tasks
    <2> DEFINE t == command.task
    <2>1. Release(t, command.finished) /\ t \in Tasks
      BY <1>2 DEF TypeOK
    <2>2. robbed \subseteq robbed' /\ robbed' \subseteq Tasks
          /\ (t \in Restarts => t \in robbed')
      BY <1>2, <2>1 DEF TypeOK
    <2>3. /\ command' = None
          /\ UNCHANGED <<pc, previous, listed, permitted, done, busy, asked>>
      OBVIOUS
    <2> HIDE DEF CompleteAction
    <2>4. TypeOK'
      BY <1>2, <2>1, <2>2, <2>3, ReleaseSome DEF TypeOK
    <2>5. CommandOK'
      BY <1>2, <2>1, <2>3, ReleaseSome DEF CommandOK
    <2>6. RestartOK'
      BY <1>2, <2>1, <2>2, <2>3, ReleaseSome DEF RestartOK
    <2>7. HeldOK'
      <3>1. t \in Uids => busy[t] \cap command.finished = {}
        BY <1>2 DEF CommandOK, CompleteAction
      <3> QED
        BY <1>2, <2>1, <2>2, <2>3, <3>1, ReleaseSome DEF HeldOK, Tasks
    <2> QED
      BY <2>4, <2>5, <2>6, <2>7
  <1> QED
    BY <1>1, <1>2

LEMMA PermitStep ==
    ASSUME MInv, NEW t \in Tasks, NEW s \in Scopes, Permit(t, s) PROVE MInv'
  <1> USE RestartsAreTasks DEF MInv, Permit, restart
  <1>1. action' \in [Tasks -> [Scopes -> {"absent", "pending", "performed"}]]
    BY DEF TypeOK
  <1>2. \A u \in Tasks : Held(u) \subseteq Held(u)' /\ Present(u)' = Present(u)
    BY DEF TypeOK, Held, Present
  <1>3. TypeOK'
    BY <1>1, <1>2 DEF TypeOK
  <1>4. CommandOK' /\ RestartOK'
    BY <1>2 DEF CommandOK, RestartOK, TypeOK
  <1>5. HeldOK'
    BY <1>2 DEF HeldOK
  <1> QED
    BY <1>3, <1>4, <1>5

-----------------------------------------------------------------------------
(* The steps of a restart. *)
LEMMA ListTasksStep ==
    ASSUME MInv, NEW r \in Restarts, ListTasks(r) PROVE MInv'
  <1> USE RestartsAreTasks DEF MInv, ListTasks, Goto
  <1>1. \A t \in Tasks : Held(t)' = Held(t) /\ Present(t)' = Present(t)
    BY DEF Held, Present
  <1>2. TypeOK'
    BY <1>1 DEF TypeOK, Ended, Held, Present
  <1>3. CommandOK'
    BY <1>1 DEF CommandOK, TypeOK
  <1>4. RestartOK'
    BY <1>1 DEF RestartOK, TypeOK
  <1>5. HeldOK'
    BY <1>1 DEF HeldOK, RestartOK, TypeOK
  <1> QED
    BY <1>2, <1>3, <1>4, <1>5

LEMMA GetTasksStep ==
    ASSUME MInv, NEW r \in Restarts, GetTasks(r) PROVE MInv'
  <1> USE RestartsAreTasks DEF MInv, GetTasks, Goto, Droppable, cms
  <1>1. \A t \in Tasks : Held(t)' = Held(t) /\ Present(t)' = Present(t)
    BY DEF Held, Present
  <1>2. TypeOK'
    BY <1>1 DEF TypeOK, Ended, Held, Present
  <1>3. CommandOK'
    BY <1>1 DEF CommandOK, TypeOK
  <1>4. RestartOK'
    BY <1>1 DEF RestartOK, TypeOK
  <1>5. HeldOK'
    BY <1>1 DEF HeldOK, RestartOK, TypeOK
  <1> QED
    BY <1>2, <1>3, <1>4, <1>5

LEMMA DropUnknownStep ==
    ASSUME MInv, NEW r \in Restarts, DropUnknown(r) PROVE MInv'
  <1> USE RestartsAreTasks DEF MInv, DropUnknown, cms
  <1>1. \A t \in Tasks : Held(t)' = Held(t) /\ Present(t)' = Present(t)
    BY DEF Held, Present
  <1>2. TypeOK'
    BY <1>1 DEF TypeOK, Ended, Held, Present
  <1>3. CommandOK'
    BY <1>1 DEF CommandOK, TypeOK
  <1>4. RestartOK'
    BY <1>1 DEF RestartOK, TypeOK
  <1>5. HeldOK'
    BY <1>1 DEF HeldOK, RestartOK, TypeOK
  <1> QED
    BY <1>2, <1>3, <1>4, <1>5

LEMMA FailsStep ==
    ASSUME MInv, NEW r \in Restarts, Fails(r) PROVE MInv'
  <1> USE RestartsAreTasks DEF MInv, Fails, End, Goto
  <1>1. \A t \in Tasks : Held(t)' = Held(t) /\ Present(t)' = Present(t)
    BY DEF Held, Present
  <1>2. TypeOK'
    BY <1>1 DEF TypeOK, Ended, Held, Present
  <1>3. CommandOK'
    BY <1>1 DEF CommandOK, TypeOK
  <1>4. RestartOK'
    BY <1>1 DEF RestartOK, TypeOK
  <1>5. HeldOK'
    BY <1>1 DEF HeldOK, RestartOK, TypeOK
  <1> QED
    BY <1>2, <1>3, <1>4, <1>5

LEMMA RefreshTaskStep ==
    ASSUME MInv, NEW r \in Restarts, RefreshTask(r) PROVE MInv'
  <1> USE RestartsAreTasks DEF MInv, RefreshTask, Goto, cms, Shown
  <1>1. \A t \in Tasks : Held(t)' = Held(t) /\ Present(t)' = Present(t)
    BY DEF Held, Present
  <1>2. TypeOK'
    BY <1>1 DEF TypeOK, Ended, Held, Present
  <1>3. CommandOK'
    BY <1>1 DEF CommandOK, TypeOK
  <1>4. RestartOK'
    BY <1>1 DEF RestartOK, TypeOK
  <1>5. HeldOK'
    BY <1>1 DEF HeldOK, RestartOK, TypeOK
  <1> QED
    BY <1>2, <1>3, <1>4, <1>5

LEMMA RestartNodeStep ==
    ASSUME MInv, NEW r \in Restarts, RestartNode(r) PROVE MInv'
  <1> USE RestartsAreTasks DEF MInv, RestartNode, cms, restart
  <1>1. \A t \in Tasks : Held(t)' = Held(t) /\ Present(t)' = Present(t)
    BY DEF Held, Present
  <1>2. TypeOK'
    BY <1>1 DEF TypeOK, Ended, Held, Present
  <1>3. CommandOK'
    BY <1>1 DEF CommandOK, TypeOK
  <1>4. RestartOK'
    BY <1>1 DEF RestartOK, TypeOK
  <1>5. HeldOK'
    BY <1>1 DEF HeldOK, RestartOK, TypeOK
  <1> QED
    BY <1>2, <1>3, <1>4, <1>5

LEMMA RestartedStep ==
    ASSUME MInv, NEW r \in Restarts, Restarted(r) PROVE MInv'
  <1> USE RestartsAreTasks DEF MInv, Restarted, cms
  <1>1. \A t \in Tasks : Held(t)' = Held(t) /\ Present(t)' = Present(t)
    BY DEF Held, Present
  <1>2. TypeOK'
    BY <1>1 DEF TypeOK, Ended, Held, Present
  <1>3. CommandOK'
    BY <1>1 DEF CommandOK, TypeOK
  <1>4. RestartOK'
    BY <1>1 DEF RestartOK, TypeOK
  <1>5. HeldOK'
    BY <1>1 DEF HeldOK, RestartOK, TypeOK
  <1> QED
    BY <1>2, <1>3, <1>4, <1>5

LEMMA ReportFailsStep ==
    ASSUME MInv, NEW r \in Restarts, ReportFails(r) PROVE MInv'
  <1> USE RestartsAreTasks DEF MInv, ReportFails, Goto, cms
  <1>1. \A t \in Tasks : Held(t)' = Held(t) /\ Present(t)' = Present(t)
    BY DEF Held, Present
  <1>2. TypeOK'
    BY <1>1 DEF TypeOK, Ended, Held, Present
  <1>3. CommandOK'
    BY <1>1 DEF CommandOK, TypeOK
  <1>4. RestartOK'
    BY <1>1 DEF RestartOK, TypeOK
  <1>5. HeldOK'
    BY <1>1 DEF HeldOK, RestartOK, TypeOK
  <1> QED
    BY <1>2, <1>3, <1>4, <1>5

LEMMA KillStep ==
    ASSUME MInv, NEW r \in Restarts, Kill(r) PROVE MInv'
  <1> USE RestartsAreTasks DEF MInv, Kill, End, Goto, cms
  <1>1. \A t \in Tasks : Held(t)' = Held(t) /\ Present(t)' = Present(t)
    BY DEF Held, Present
  <1>2. TypeOK'
    BY <1>1 DEF TypeOK, Ended, Held, Present
  <1>3. CommandOK'
    BY <1>1 DEF CommandOK, TypeOK
  <1>4. RestartOK'
    BY <1>1 DEF RestartOK, TypeOK
  <1>5. HeldOK'
    BY <1>1 DEF HeldOK, RestartOK, TypeOK
  <1> QED
    BY <1>2, <1>3, <1>4, <1>5

LEMMA DropTaskStep ==
    ASSUME MInv, NEW r \in Restarts, DropTask(r) PROVE MInv'
  <1> USE RestartsAreTasks DEF MInv
  <1>1. PICK t \in previous[r] \cap tasks :
            /\ previous' = [previous EXCEPT ![r] = @ \ {t}]
            /\ Remove(t)
            /\ robbed' = robbed \cup {t}
    BY DEF DropTask
  <1>2. /\ pc[r] = "drop" /\ t \in Tasks
        /\ UNCHANGED <<pc, listed, permitted, done, command, busy, asked>>
    BY DEF DropTask, TypeOK
  <1>3. /\ previous' \in [Restarts -> SUBSET Tasks]
        /\ previous'[r] = previous[r] \ {t}
        /\ \A q \in Restarts \ {r} : previous'[q] = previous[q]
    BY <1>1 DEF TypeOK
  <1>4. /\ tasks' = tasks \ {t}
        /\ older' = [q \in Restarts |-> older[q] \ {t}]
        /\ action' \in [Tasks -> [Scopes ->
                          {"absent", "pending", "performed"}]]
        /\ Held(t)' = {} /\ Present(t)' = {}
        /\ \A u \in Tasks \ {t} :
               Held(u)' = Held(u) /\ Present(u)' = Present(u)
    BY <1>1, <1>2, RemoveOne
  <1>5. TypeOK'
    <2>1. \A u \in Tasks \ tasks' : Present(u)' = {}
      BY <1>2, <1>4 DEF TypeOK
    <2>2. older' \in [Restarts -> SUBSET tasks']
      BY <1>4 DEF TypeOK
    <2>3. tasks' \subseteq Tasks
      BY <1>4 DEF TypeOK
    <2> QED
      BY <1>1, <1>2, <1>3, <1>4, <2>1, <2>2, <2>3 DEF TypeOK
  <1>6. CommandOK'
    BY <1>2, <1>4 DEF CommandOK, TypeOK
  <1>7. RestartOK'
    BY <1>1, <1>2, <1>3, <1>4 DEF RestartOK, TypeOK
  <1>8. HeldOK'
    BY <1>1, <1>2, <1>4 DEF HeldOK, TypeOK
  <1> QED
    BY <1>5, <1>6, <1>7, <1>8

LEMMA CreateTaskStep ==
    ASSUME MInv, NEW r \in Restarts, CreateTask(r) PROVE MInv'
  <1> USE RestartsAreTasks, MaintenanceAssumption DEF MInv
  <1>0. PICK target \in Targets :
            \E now \in SUBSET {s \in {NodeScope(n) : n \in target} :
                                   ~Conflicts(r, s)} :
                /\ AddTask(r, {NodeScope(n) : n \in target}, now)
                /\ listed' = [listed EXCEPT ![r] = {NodeScope(n) : n \in target}]
                /\ permitted' = [permitted EXCEPT ![r] = now]
                /\ Goto(r, IF now = {} THEN "loop" ELSE "batch")
    BY DEF CreateTask
  <1>1. PICK now \in SUBSET {NodeScope(n) : n \in target} :
            /\ AddTask(r, {NodeScope(n) : n \in target}, now)
            /\ listed' = [listed EXCEPT ![r] = {NodeScope(n) : n \in target}]
            /\ permitted' = [permitted EXCEPT ![r] = now]
            /\ pc' = [pc EXCEPT ![r] = IF now = {} THEN "loop" ELSE "batch"]
    BY <1>0 DEF Goto
  <1>2. /\ pc[r] = "drop" /\ previous[r] = {}
        /\ UNCHANGED <<previous, done, command, busy, asked, robbed>>
    BY DEF CreateTask
  <1>3. /\ action' \in [Tasks -> [Scopes -> {"absent", "pending", "performed"}]]
        /\ \A t \in Tasks \ {r} : action'[t] = action[t]
        /\ tasks' = tasks \cup {r} /\ older' = older
    BY <1>1 DEF TypeOK, AddTask
  <1>4. \A t \in Tasks \ {r} :
            Held(t)' = Held(t) /\ Present(t)' = Present(t)
    BY <1>3 DEF Held, Present
  <1>5. now \subseteq Scopes /\ {NodeScope(n) : n \in target} \subseteq Scopes
    BY <1>1, <1>0 DEF Scopes
  <1>6. /\ listed' \in [Restarts -> SUBSET Scopes]
        /\ permitted' \in [Restarts -> SUBSET Scopes]
        /\ pc' \in [Restarts -> Ended \cup {"list", "get", "drop", "loop", "batch"}]
    BY <1>1, <1>2, <1>5 DEF TypeOK
  <1>7. TypeOK'
    BY <1>2, <1>3, <1>4, <1>6 DEF TypeOK
  <1>8. CommandOK'
    BY <1>2, <1>3, <1>4 DEF CommandOK, TypeOK
  <1>11. now \subseteq Held(r)' /\ permitted'[r] = now /\ busy[r] = {}
    BY <1>1, <1>2, <1>5 DEF AddTask, Held, TypeOK, RestartOK
  <1>12. \A q \in Restarts \ {r} :
            pc'[q] = pc[q] /\ permitted'[q] = permitted[q]
    BY <1>1 DEF TypeOK
  <1>9. RestartOK'
    <2>1. /\ pc'[r] \in {"loop", "batch"} /\ busy'[r] = {}
          /\ older'[r] = {}
      BY <1>1, <1>2, <1>3, <1>11 DEF RestartOK, TypeOK
    <2> QED
      BY <1>2, <1>3, <1>4, <1>6, <1>11, <1>12, <2>1 DEF RestartOK, TypeOK
  <1>10. HeldOK'
    BY <1>2, <1>4, <1>11 DEF HeldOK, RestartOK
  <1> QED
    BY <1>7, <1>8, <1>9, <1>10

LEMMA ReportStep ==
    ASSUME MInv, NEW r \in Restarts, Report(r) PROVE MInv'
  <1> USE RestartsAreTasks DEF MInv
  <1>1. /\ pc[r] = "batch" /\ permitted[r] \subseteq done[r] /\ r \in tasks
        /\ Release(r, done[r])
        /\ UNCHANGED <<command, busy, asked, robbed>>
    BY DEF Report
  <1>2. /\ pc'[r] \in {"success", "loop"}
        /\ pc' \in [Restarts -> Ended \cup {"list", "get", "drop", "loop", "batch"}]
        /\ previous' \in [Restarts -> SUBSET Tasks]
        /\ listed' \in [Restarts -> SUBSET Scopes]
        /\ permitted' \in [Restarts -> SUBSET Scopes]
        /\ done' \in [Restarts -> SUBSET Scopes]
    BY DEF Report, End, Goto, TypeOK, Ended
  <1>3. \A q \in Restarts \ {r} :
            /\ pc'[q] = pc[q] /\ previous'[q] = previous[q]
            /\ permitted'[q] = permitted[q] /\ done'[q] = done[q]
    BY DEF Report, End, Goto, TypeOK
  <1>4. busy[r] = {}
    BY <1>1 DEF RestartOK
  <1>5. /\ tasks \ {r} \subseteq tasks' /\ tasks' \subseteq tasks
        /\ \A q \in Restarts : older'[q] \subseteq older[q] \cap tasks'
        /\ older' \in [Restarts -> SUBSET tasks']
        /\ action' \in [Tasks -> [Scopes -> {"absent", "pending", "performed"}]]
        /\ r \notin tasks' => Present(r)' = {}
        /\ \A u \in Tasks \ {r} :
              Held(u)' = Held(u) /\ Present(u)' = Present(u)
    BY <1>1, ReleaseSome
  <1>6. TypeOK'
    <2>1. \A u \in Tasks \ tasks' : Present(u)' = {}
      BY <1>5 DEF TypeOK
    <2> QED
      BY <1>1, <1>2, <1>5, <2>1 DEF TypeOK
  <1>7. CommandOK'
    <2>1. \A uid \in Uids : /\ uid \in tasks' => uid \in tasks
                            /\ Present(uid)' = Present(uid)
      BY <1>5
    <2>2. busy' = busy /\ asked' = asked /\ command' = command
      BY <1>1
    <2> QED
      BY <2>1, <2>2 DEF CommandOK
  <1>8. RestartOK'
    <2>1. UNCHANGED <<busy, robbed>>
      BY <1>1
    <2> DEFINE OneOK(q) ==
                  /\ pc[q] \in {"list", "get", "drop", "failed"} => q \notin tasks
                  /\ pc[q] \in {"get", "drop"} => older[q] \subseteq previous[q]
                  /\ pc[q] \in {"loop", "batch"} => older[q] = {}
                  /\ pc[q] \notin {"batch", "killed"} => busy[q] = {}
                  /\ pc[q] = "batch" =>
                        /\ busy[q] \subseteq permitted[q] \ done[q]
                        /\ q \notin robbed => permitted[q] \subseteq Held(q)
    <2>2. OneOK(r)'
      <3>1. older[r] = {} /\ older'[r] \subseteq older[r]
        BY <1>1, <1>5 DEF RestartOK
      <3> QED
        BY <1>2, <1>4, <2>1, <3>1
    <2>3. ASSUME NEW q \in Restarts \ {r} PROVE OneOK(q)'
      <3>1. OneOK(q)
        BY DEF RestartOK
      <3>2. /\ q \in tasks' => q \in tasks
            /\ older'[q] \subseteq older[q] /\ Held(q)' = Held(q)
        BY <1>5
      <3> QED
        BY <1>3, <2>1, <3>1, <3>2
    <2> QED
      BY <2>2, <2>3 DEF RestartOK
  <1>9. HeldOK'
    <2>1. busy' = busy /\ robbed' = robbed
      BY <1>1
    <2>2. ASSUME NEW t \in Tasks \ robbed PROVE busy[t] \subseteq Held(t)'
      <3>1. CASE t = r
        BY <1>4, <3>1
      <3>2. CASE t # r
        BY <1>5, <3>2 DEF HeldOK
      <3> QED
        BY <3>1, <3>2
    <2> QED
      BY <2>1, <2>2 DEF HeldOK
  <1> QED
    BY <1>6, <1>7, <1>8, <1>9

-----------------------------------------------------------------------------
LEMMA StutterStep == ASSUME MInv, UNCHANGED vars PROVE MInv'
  <1> USE DEF MInv, vars, cms, restart
  <1>1. \A t \in Tasks : Held(t)' = Held(t) /\ Present(t)' = Present(t)
    BY DEF Held, Present
  <1>2. TypeOK'
    BY <1>1, RestartsAreTasks DEF TypeOK
  <1>3. CommandOK' /\ RestartOK' /\ HeldOK'
    BY <1>1, RestartsAreTasks DEF CommandOK, RestartOK, HeldOK, TypeOK
  <1> QED
    BY <1>2, <1>3

LEMMA MaintenanceStep == ASSUME MInv, [Next]_vars PROVE MInv'
  <1>1. CASE Operator
    BY <1>1, CreateStep, RefreshStep, DropStep, CompleteStep,
       CompleteActionStep DEF Operator
  <1>2. CASE \E r \in Restarts : Restart(r) \/ Kill(r)
    <2> PICK r \in Restarts : Restart(r) \/ Kill(r)
      BY <1>2
    <2> QED
      BY ListTasksStep, GetTasksStep, FailsStep, DropTaskStep, DropUnknownStep,
         CreateTaskStep, RefreshTaskStep, StutterStep, RestartNodeStep,
         RestartedStep, ReportStep, ReportFailsStep, KillStep
         DEF Restart, NothingPermitted
  <1>3. CASE \E t \in Tasks, s \in Scopes : Permit(t, s)
    BY <1>3, PermitStep
  <1>4. CASE Over \/ UNCHANGED vars
    BY <1>4, StutterStep DEF Over
  <1> QED
    BY <1>1, <1>2, <1>3, <1>4 DEF Next

LEMMA MaintenanceInductive == Spec => []MInv
  BY MaintenanceInit, MaintenanceStep, PTL DEF Spec

-----------------------------------------------------------------------------
(* The theorems. *)

(* Every variable keeps its type; a task that is gone has no action and no *)
(* restart waits for it to go (tasks, actions, the state of each restart). *)
THEOREM TypeCorrect == Spec => []TypeOK
  <1>1. MInv => TypeOK
    BY DEF MInv
  <1> QED
    BY <1>1, MaintenanceInductive, PTL

(* A restart works beside no task that it had listed, with any number of   *)
(* restarts that list, get and drop each other's tasks and those of the    *)
(* operator (cleanupRollingRestart).                                       *)
THEOREM OlderTasksGoneSafe == Spec => []OlderTasksGone
  <1>1. MInv => OlderTasksGone
    BY DEF MInv, RestartOK, OlderTasksGone
  <1> QED
    BY <1>1, MaintenanceInductive, PTL

-----------------------------------------------------------------------------
(* The pods. *)

(* The pods have names of their own and run one node each, and a node      *)
(* whose host is among the names runs in one of them.                      *)
Fit(pods, cluster) ==
    /\ DOMAIN pods = 1..Len(pods) /\ Len(pods) \in Nat
    /\ \A i, j \in DOMAIN pods : pods[i].name = pods[j].name => i = j
    /\ \A i \in DOMAIN pods : \A m, n \in cluster :
          R!Runs(pods[i], m) /\ R!Runs(pods[i], n) => m = n
    /\ \A n \in cluster :
          (\E i \in DOMAIN pods : n.host \in R!Names(pods[i]))
              => \E i \in DOMAIN pods : R!Runs(pods[i], n)
    /\ \A n \in cluster : n.port # None

(* A pod that runs the node is entered under the node's host and port, and *)
(* only such pods are.                                                     *)
LEMMA KeyOfNode ==
    ASSUME NEW pod, NEW node, node.port # None
    PROVE  <<node.host, node.port>> \in R!Keys(pod) <=> R!Runs(pod, node)
  <1>1. \A name, host, port : <<name>> # <<host, port>>
    <2> SUFFICES ASSUME NEW name, NEW host, NEW port,
                        <<name>> = <<host, port>>
                 PROVE  FALSE
      OBVIOUS
    <2>1. Len(<<name>>) = 1 /\ Len(<<host, port>>) = 2
      OBVIOUS
    <2> QED
      BY <2>1
  <1>2. R!Keys(pod) = {<<name>> : name \in R!Names(pod)}
                      \cup IF pod.icPort = None THEN {}
                           ELSE {<<name, pod.icPort>> : name \in R!Names(pod)}
    BY DEF R!Keys
  <1>3. \A name : <<node.host, node.port>> = <<name, pod.icPort>>
                      <=> node.host = name /\ node.port = pod.icPort
    OBVIOUS
  <1>4. CASE pod.icPort = None
    BY <1>1, <1>2, <1>4 DEF R!Runs
  <1>5. CASE pod.icPort # None
    BY <1>1, <1>2, <1>3, <1>5 DEF R!Runs
  <1> QED
    BY <1>4, <1>5

(* What is restarted in a node's stead is the node itself.                 *)
THEOREM DeletesOwnPod ==
    ASSUME NEW pods, NEW cluster, Fit(pods, cluster),
           NEW node \in cluster, NEW other \in cluster,
           NEW i \in DOMAIN pods,
           pods[i].name \in R!Deleted(pods, node), R!Runs(pods[i], other)
    PROVE  other = node
  <1> DEFINE key == <<node.host, node.port>>
             entered == {j \in DOMAIN pods : key \in R!Keys(pods[j])}
  <1>1. i \in R!Lookup(pods, node.host, node.port)
    <2>1. PICK j \in R!Lookup(pods, node.host, node.port) :
              pods[j].name = pods[i].name
      BY DEF R!Deleted
    <2>2. j \in DOMAIN pods
      BY <2>1 DEF R!Lookup, R!EnteredLast
    <2> QED
      BY <2>1, <2>2 DEF Fit
  <1>2. \A j \in DOMAIN pods : key \in R!Keys(pods[j]) <=> R!Runs(pods[j], node)
    BY KeyOfNode DEF Fit
  <1>3. CASE entered = {}
    <2>1. \A j \in DOMAIN pods : node.host \notin R!Names(pods[j])
      BY <1>2, <1>3 DEF Fit
    <2>2. R!EnteredLast(pods, key) = {}
      BY <1>3 DEF R!EnteredLast
    <2>3. <<node.host>> \in R!Keys(pods[i])
      BY <1>1, <2>2 DEF R!Lookup, R!EnteredLast
    <2>4. FALSE
      BY <2>1, <2>3 DEF R!Keys
    <2> QED
      BY <2>4
  <1>4. CASE entered # {}
    <2>1. entered \in SUBSET (0..Len(pods))
      BY DEF Fit
    <2>2. PICK last \in entered : \A j \in entered : j <= last
      BY <1>4, <2>1, LeastAndGreatest DEF Fit
    <2>3. last \in R!EnteredLast(pods, key)
      BY <2>2 DEF R!EnteredLast
    <2>4. key \in R!Keys(pods[i])
      BY <1>1, <2>3 DEF R!Lookup, R!EnteredLast
    <2>5. R!Runs(pods[i], node)
      BY <1>2, <2>4
    <2> QED
      BY <2>5 DEF Fit
  <1> QED
    BY <1>3, <1>4

(* A node's scope covers at least its own node, and by DeletesOwnPod the   *)
(* pods that are deleted for it run no other.                              *)
LEMMA DownUnderScope ==
    ASSUME Fit(Pods, Cluster), MInv, NEW t \in Tasks, NEW s \in busy[t]
    PROVE  Down(t, s) \subseteq Cover[s]
  <1>1. s \in Scopes
    BY DEF MInv, TypeOK
  <1>2. Deleted[s] \subseteq Cover[s]
    <2> SUFFICES ASSUME NEW m \in Deleted[s] PROVE m \in Cover[s]
      OBVIOUS
    <2>1. PICK n \in Cover[s], i \in DOMAIN Pods :
              /\ Pods[i].name \in R!Deleted(Pods, n)
              /\ R!Runs(Pods[i], m) /\ m \in Cluster
      BY <1>1 DEF Deleted
    <2>2. n \in Cluster
      BY <1>1 DEF Cover
    <2>3. m = n
      BY <2>1, <2>2, DeletesOwnPod
    <2> QED
      BY <2>3
  <1> QED
    BY <1>2 DEF Down

(* Whatever a restart or the operator takes down is locked by the task it  *)
(* works for, while nobody else has dropped or completed that task: the    *)
(* locks of different tasks are disjoint, so no two work on one node       *)
(* (cmsWaitingLoop, RestartNode of the pods; the pods' list names each     *)
(* node's pod once).                                                       *)
THEOREM WorksUnderLockSafe ==
    ASSUME Fit(Pods, Cluster) PROVE Spec => []WorksUnderLock
  <1>1. MInv => WorksUnderLock
    <2> SUFFICES ASSUME MInv, NEW t \in Tasks \ robbed, NEW s \in busy[t]
                 PROVE  Down(t, s) \subseteq Covered(Held(t))
      BY DEF WorksUnderLock
    <2>1. s \in Held(t)
      BY DEF MInv, HeldOK
    <2>2. Cover[s] \subseteq Covered(Held(t))
      BY <2>1 DEF Covered
    <2> QED
      BY <2>2, DownUnderScope
  <1> QED
    BY <1>1, MaintenanceInductive, PTL

(* maintenance complete gives back the locks it names and no other, or     *)
(* none (CompleteActions, getFinishedActions).                             *)
THEOREM CompletesNamedSafe == Spec => CompletesNamed
  <1> DEFINE Named1 ==
        command # None /\ command' = None /\ command.task \in Uids
            /\ action' # action =>
          LET t == command.task IN
          /\ command.hosts \subseteq Present(t)
          /\ action' = [action EXCEPT ![t] =
                [s \in Scopes |-> IF s \in command.hosts THEN "absent"
                                  ELSE action[t][s]]]
  <1>1. ASSUME MInv, [Next]_vars PROVE [Named1]_vars
    <2> SUFFICES ASSUME command # None, command' = None, command.task \in Uids,
                        action' # action
                 PROVE  Named1
      OBVIOUS
    <2>1. CompleteAction
      BY <1>1 DEF Next, Operator, Over, Restart, ListTasks, GetTasks, Fails,
         DropTask, DropUnknown, CreateTask, RefreshTask, NothingPermitted,
         RestartNode, Restarted, Report, ReportFails, Kill, Permit, Create,
         Refresh, Drop, Complete, vars, cms, restart
    <2>2. command.task \in tasks /\ Release(command.task, command.finished)
      BY <2>1 DEF CompleteAction, cms
    <2>3. /\ command.finished = command.hosts
          /\ command.hosts \subseteq Present(command.task)
      BY <1>1, <2>2 DEF MInv, CommandOK
    <2> QED
      BY <1>1, <2>2, <2>3 DEF Release, MInv, TypeOK
  <1> QED
    BY <1>1, MaintenanceInductive, PTL DEF Spec, CompletesNamed
-----------------------------------------------------------------------------
(* The nodes of maintenance create. *)

(* Ids are unique and hosts are names; no range of ids is empty, which     *)
(* nodeIdsToNodes would take for no --hosts at all.                        *)
Addressed ==
    /\ \A m, n \in Cluster : m.id = n.id => m = n
    /\ \A n \in Cluster : n.id \in Nat /\ n.host[1] = "name"
    /\ \A o \in CreateOptions :
          /\ ValidStarted(o.started) /\ o.maxStaticNodeID \in Nat
          /\ Numeric(o.hosts) =>
                ~o.k8s /\ (GetNodeIds(o.hosts) = {} => o.hosts = {})

(* Without the hosts, which are ids, the filters select the same nodes.    *)
LEMMA HostsAreIds ==
    ASSUME Addressed, NEW o \in CreateOptions, Numeric(o.hosts),
           NEW nodes \in SUBSET Cluster
    PROVE  Preselect(nodes, [FilterNodeParams(o) EXCEPT !.selectedHosts = {}],
                     FALSE, <<>>)
               = Preselect(nodes, FilterNodeParams(o), o.k8s, <<>>)
  <1> DEFINE spec == FilterNodeParams(o)
             bare == [spec EXCEPT !.selectedHosts = {}]
  <1>1. /\ spec.selectedHosts = o.hosts /\ bare.selectedHosts = {}
        /\ spec.selectedDatacenters = o.datacenters
        /\ bare.selectedDatacenters = o.datacenters
        /\ spec.selectedNodeIds = GetNodeIds(o.hosts)
        /\ bare.selectedNodeIds = GetNodeIds(o.hosts)
    BY DEF FilterNodeParams
  <1>2. \A n \in nodes : n.host \notin o.hosts
    BY DEF Addressed, Numeric
  <1>3. o.hosts = {} => GetNodeIds(o.hosts) = {}
    BY DEF GetNodeIds
  <1>4. IsInclusiveFilteringUnspecified(bare)
            <=> IsInclusiveFilteringUnspecified(spec)
    BY <1>1, <1>3 DEF IsInclusiveFilteringUnspecified, Addressed
  <1>5. IncludeByFilterNodeParams(nodes, bare)
            = IncludeByFilterNodeParams(nodes, spec)
    BY <1>1, <1>2 DEF IncludeByFilterNodeParams
  <1>6. ~o.k8s
    BY DEF Addressed
  <1> HIDE DEF spec, bare
  <1>7. PopulateByCommonFields(nodes, bare) = PopulateByCommonFields(nodes, spec)
    BY <1>4, <1>5 DEF PopulateByCommonFields
  <1>8. Preselect(nodes, bare, FALSE, <<>>) = Preselect(nodes, spec, o.k8s, <<>>)
    BY <1>6, <1>7 DEF Preselect
  <1> QED
    BY <1>8 DEF spec, bare

LEMMA CreateSelects ==
    ASSUME Addressed, NEW o \in CreateOptions, Numeric(o.hosts)
    PROVE  /\ nodeIdsToNodes(o) \subseteq Cluster
           /\ \A m \in Cluster :
                 ~Disputed(m, o, <<>>) =>
                     (m \in nodeIdsToNodes(o)
                         <=> AskedStorage(m, o, <<>>) \/ AskedTenant(m, o, <<>>))
  <1> DEFINE spec == FilterNodeParams(o)
             bare == [spec EXCEPT !.selectedHosts = {}]
             storage == FilterStorageNodes(Cluster, spec.maxStaticNodeID)
             dynamic == FilterTenantNodes(Cluster)
  <1>1. /\ bare.maxStaticNodeID = spec.maxStaticNodeID
        /\ bare.excludeHosts = spec.excludeHosts
        /\ bare.startedTime = spec.startedTime
        /\ bare.version = spec.version
        /\ bare.selectedTenants = spec.selectedTenants
    BY DEF FilterNodeParams
  <1>2. storage \in SUBSET Cluster /\ dynamic \in SUBSET Cluster
    BY DEF FilterStorageNodes, FilterTenantNodes
  <1>3. Preselect(storage, bare, FALSE, <<>>) = Preselect(storage, spec, o.k8s, <<>>)
    BY <1>2, HostsAreIds
  <1>4. Preselect(dynamic, bare, FALSE, <<>>) = Preselect(dynamic, spec, o.k8s, <<>>)
    BY <1>2, HostsAreIds
  <1>5. nodeIdsToNodes(o) = FilterStorage(Cluster, bare, FALSE, <<>>)
                                \cup FilterTenant(Cluster, bare, FALSE, <<>>)
    BY DEF nodeIdsToNodes
  <1>6. \A n \in Cluster :
            ~Disputed(n, o, <<>>) =>
                (n \in FilterStorage(Cluster, spec, o.k8s, <<>>)
                    <=> AskedStorage(n, o, <<>>))
    BY FilterStorageSelects DEF Addressed
  <1>7. \A n \in Cluster :
            ~Disputed(n, o, <<>>) =>
                (n \in FilterTenant(Cluster, spec, o.k8s, <<>>)
                    <=> AskedTenant(n, o, <<>>))
    BY FilterTenantSelects DEF Addressed
  <1>12. /\ FilterStorage(Cluster, spec, o.k8s, <<>>) \subseteq Cluster
         /\ FilterTenant(Cluster, spec, o.k8s, <<>>) \subseteq Cluster
    BY SelectedNode
  <1> HIDE DEF spec, bare
  <1>8. \A nodes : ExcludeByCommonFields(nodes, bare)
                     = ExcludeByCommonFields(nodes, spec)
    BY <1>1 DEF ExcludeByCommonFields
  <1>9. \A nodes : ExcludeByTenantNames(nodes, bare, Cluster)
                     = ExcludeByTenantNames(nodes, spec, Cluster)
    BY <1>1 DEF ExcludeByTenantNames
  <1>10. FilterStorage(Cluster, bare, FALSE, <<>>)
             = FilterStorage(Cluster, spec, o.k8s, <<>>)
    BY <1>1, <1>3, <1>8 DEF FilterStorage
  <1>11. FilterTenant(Cluster, bare, FALSE, <<>>)
             = FilterTenant(Cluster, spec, o.k8s, <<>>)
    BY <1>4, <1>8, <1>9 DEF FilterTenant
  <1> QED
    BY <1>5, <1>6, <1>7, <1>10, <1>11, <1>12

(* maintenance create with ids, or without --hosts, locks exactly the      *)
(* nodes that the help of its options asks for (nodeIdsToNodes with both   *)
(* filters), but for those on which help and code differ.                  *)
THEOREM CreateLocksAskedSafe == ASSUME Addressed PROVE Spec => CreateLocksAsked
  <1> DEFINE Locked(uid) == {s \in Scopes : action'[uid][s] # "absent"}
             Asks(uid) ==
        asked'[uid] # asked[uid] /\ Numeric(asked'[uid].hosts) =>
            /\ Locked(uid) \subseteq {NodeScope(n) : n \in Cluster}
            /\ \A n \in Cluster :
                  ~Disputed(n, asked'[uid], <<>>) =>
                      (NodeScope(n) \in Locked(uid)
                          <=> \/ AskedStorage(n, asked'[uid], <<>>)
                              \/ AskedTenant(n, asked'[uid], <<>>))
  <1>1. ASSUME MInv, [Next]_vars PROVE [\A uid \in Uids : Asks(uid)]_vars
    <2> SUFFICES ASSUME NEW uid \in Uids, asked'[uid] # asked[uid],
                        Numeric(asked'[uid].hosts)
                 PROVE  Asks(uid)
      OBVIOUS
    <2>1. Create
      BY <1>1 DEF Next, Operator, Over, Restart, ListTasks, GetTasks, Fails,
         DropTask, DropUnknown, CreateTask, RefreshTask, NothingPermitted,
         RestartNode, Restarted, Report, ReportFails, Kill, Permit,
         CompleteAction, Refresh, Drop, Complete, vars, cms, restart
    <2>2. PICK other \in Uids, o \in CreateOptions :
              /\ AddTask(other, CreateScopes(o), {})
              /\ asked' = [asked EXCEPT ![other] = o]
      BY <2>1 DEF Create
    <2>3. other = uid /\ asked'[uid] = o
      BY <1>1, <2>2 DEF MInv, TypeOK
    <2>4. CreateScopes(o) = {NodeScope(n) : n \in nodeIdsToNodes(o)}
      BY <2>3 DEF CreateScopes
    <2>5. nodeIdsToNodes(o) \subseteq Cluster
      BY <2>3, CreateSelects
    <2>6. CreateScopes(o) \subseteq Scopes
      BY <2>4, <2>5 DEF Scopes
    <2>7. \A s \in Scopes :
              action'[uid][s] # "absent" <=> s \in CreateScopes(o)
      BY <1>1, <2>2, <2>3 DEF AddTask, MInv, TypeOK, Tasks
    <2>8. Locked(uid) = CreateScopes(o)
      BY <2>6, <2>7
    <2>9. Locked(uid) \subseteq {NodeScope(n) : n \in Cluster}
      BY <2>4, <2>5, <2>8
    <2>10. \A n \in Cluster :
              NodeScope(n) \in CreateScopes(o) <=> n \in nodeIdsToNodes(o)
      BY <2>4, <2>5 DEF NodeScope, Itoa, Addressed
    <2>11. ASSUME NEW n \in Cluster, ~Disputed(n, o, <<>>)
           PROVE  NodeScope(n) \in Locked(uid)
                      <=> AskedStorage(n, o, <<>>) \/ AskedTenant(n, o, <<>>)
      BY <2>3, <2>8, <2>10, <2>11, CreateSelects
    <2> QED
      BY <2>3, <2>9, <2>11
  <1> QED
    BY <1>1, MaintenanceInductive, PTL DEF Spec, CreateLocksAsked
=============================================================================
