----------------------------- MODULE Maintenance -----------------------------
(***************************************************************************)
(* The invocations of one user side by side: the maintenance commands of   *)
(* an operator (create, list, refresh, complete, drop) and rolling         *)
(* restarts, each of which first drops every task of the user.             *)
(*                                                                         *)
(* A task locks scopes: nodes, <<"id", n>>, or whole hosts, <<"name", h>>. *)
(* The CMS is not part of the repository: it performs a lock when no other *)
(* task holds a node of it.  A call is answered or fails; lost answers and *)
(* refused drops are in Rolling, attempts and pauses in Session, the       *)
(* goroutines and the retries of a batch in RestartBatch and Batch.        *)
(***************************************************************************)
EXTENDS Filters, FiniteSets

R == INSTANCE Restarters

CONSTANTS
    Cluster,        \* the nodes, records as in Filters with the field port
    Pods,           \* the list of pods that a restarter has read
    CreateOptions,  \* what maintenance create may be given
    CompleteHosts,  \* what maintenance complete may be given as --hosts
    Targets,        \* sets of nodes that a restart may select
    Restarts,       \* rolling restarts, each once; the uid of its task is its name
    Uids            \* bound: uids of the tasks of maintenance create

ASSUME MaintenanceAssumption ==
    /\ Restarts \cap Uids = {} /\ None \notin CreateOptions
    /\ \A target \in Targets : target # {} /\ target \subseteq Cluster
    /\ \A hosts \in CompleteHosts : hosts # {}

Tasks == Restarts \cup Uids
NodeScope(n) == Itoa(n.id)
Scopes == {NodeScope(n) : n \in Cluster} \cup {n.host : n \in Cluster}

(* The nodes that a lock on a scope covers. *)
Cover == [s \in Scopes |-> {n \in Cluster : s \in {NodeScope(n), n.host}}]

VARIABLES
    tasks,      \* CMS: the tasks of the user
    action,     \* CMS: status of each scope's action in each task
    pc,         \* each restart: the call it makes next
    previous,   \* previousTasks: listed and not dropped yet
    listed, permitted,  \* the actions of the last answer
    done,       \* restarted nodes that it has not yet reported
    command,    \* the operator's command under way, None between commands
    busy,       \* the scopes worked on under each task
    asked,      \* history: what maintenance create was given for each uid
    robbed,     \* history: tasks dropped or completed by somebody else
    older       \* history: tasks, still there, that a restart has listed

cms == <<tasks, action, older>>
restart == <<pc, previous, listed, permitted, done>>
vars == <<cms, restart, command, busy, asked, robbed>>

Ended == {"success", "failed", "killed"}

NoActions == [s \in Scopes |-> "absent"]
Present(t) == {s \in Scopes : action[t][s] # "absent"}
Held(t) == {s \in Scopes : action[t][s] = "performed"}
Covered(S) == UNION {Cover[s] : s \in S}

Init ==
    /\ tasks = {} /\ action = [t \in Tasks |-> NoActions]
    /\ older = [r \in Restarts |-> {}]
    /\ pc = [r \in Restarts |-> "list"]
    /\ previous = [r \in Restarts |-> {}]
    /\ listed = [r \in Restarts |-> {}]
    /\ permitted = [r \in Restarts |-> {}]
    /\ done = [r \in Restarts |-> {}]
    /\ command = None
    /\ busy = [t \in Tasks |-> {}]
    /\ asked = [uid \in Uids |-> None] /\ robbed = {}

-----------------------------------------------------------------------------
(* The CMS. *)
Conflicts(t, s) == \E u \in tasks \ {t} : Covered(Held(u)) \cap Cover[s] # {}

(* A new task; the locks in now are performed at once. *)
AddTask(t, scopes, now) ==
    /\ tasks' = tasks \cup {t}
    /\ action' = [action EXCEPT ![t] =
                    [s \in Scopes |-> IF s \in now THEN "performed"
                                      ELSE IF s \in scopes THEN "pending"
                                      ELSE "absent"]]
    /\ UNCHANGED older

Forget(t) ==
    /\ tasks' = tasks \ {t}
    /\ older' = [r \in Restarts |-> older[r] \ {t}]

Remove(t) == Forget(t) /\ action' = [action EXCEPT ![t] = NoActions]

(* The CMS forgets a task that has no action left. *)
Release(t, scopes) ==
    /\ action' = [action EXCEPT ![t] =
                    [s \in Scopes |-> IF s \in scopes THEN "absent" ELSE @[s]]]
    /\ IF Present(t) \subseteq scopes THEN Forget(t)
       ELSE UNCHANGED <<tasks, older>>

(* A lock is performed when no other task holds a node of it. *)
Permit(t, s) ==
    /\ t \in tasks
    /\ action[t][s] = "pending"
    /\ ~Conflicts(t, s)
    /\ action' = [action EXCEPT ![t][s] = "performed"]
    /\ UNCHANGED <<tasks, older, restart, command, busy, asked, robbed>>

-----------------------------------------------------------------------------
(* maintenance create *)

(* Mutant: only the restarter of the storage nodes is asked. *)
StorageNodesOnly(opts) ==
    FilterStorage(Cluster,
                  [FilterNodeParams(opts) EXCEPT !.selectedHosts = {}],
                  FALSE, <<>>)

(* Both restarters filter; the ids are in SelectedNodeIds only.            *)
nodeIdsToNodes(opts) ==
    LET spec == [FilterNodeParams(opts) EXCEPT !.selectedHosts = {}] IN
    FilterStorage(Cluster, spec, FALSE, <<>>)
        \cup FilterTenant(Cluster, spec, FALSE, <<>>)

(* One action per node, or, when an argument is a name, one per argument   *)
(* and no other option is looked at.                                       *)
CreateScopes(opts) ==
    IF Numeric(opts.hosts) THEN {NodeScope(n) : n \in nodeIdsToNodes(opts)}
    ELSE opts.hosts \cap Scopes

(* The command does not look at the statuses in the answer. *)
Create ==
    /\ command = None
    /\ \E uid \in Uids, opts \in CreateOptions :
        /\ asked[uid] = None
        /\ AddTask(uid, CreateScopes(opts), {})
        /\ asked' = [asked EXCEPT ![uid] = opts]
    /\ UNCHANGED <<restart, command, busy, robbed>>

(* maintenance refresh.  The operator works on what it shows as performed. *)
Refresh ==
    /\ command = None
    /\ \E uid \in Uids \cap tasks :
        busy' = [busy EXCEPT ![uid] = Held(uid)]
    /\ UNCHANGED <<cms, restart, command, asked, robbed>>

(* maintenance drop, of any task of the user. *)
Drop ==
    /\ command = None
    /\ \E t \in tasks :
        /\ Remove(t)
        /\ busy' = IF t \in Uids THEN [busy EXCEPT ![t] = {}] ELSE busy
        /\ robbed' = IF t \in Uids THEN robbed ELSE robbed \cup {t}
    /\ UNCHANGED <<restart, command, asked>>

(* maintenance complete: CompleteActions gets the task and looks for an    *)
(* action for each host.                                                   *)
Named(hosts) ==
    IF Numeric(hosts) THEN {Itoa(id) : id \in GetNodeIds(hosts)} ELSE hosts

(* Mutant: hosts without an action are skipped. *)
SkipMissing(named, present) == named \cap present

(* Mutant: every action of the task is completed. *)
WholeTask(named, present) == IF named \subseteq present THEN present ELSE {}

(* A host without an action fails the whole command. *)
getFinishedActions(named, present) ==
    IF named \subseteq present THEN named ELSE {}

(* A numeric host is not looked up among the names.                        *)
Kind(hosts, scopes) ==
    IF Numeric(hosts) THEN {s \in scopes : s[1] = "id"}
    ELSE {s \in scopes : s[1] = "name"}

(* The operator has stopped to work on the hosts.                          *)
Complete ==
    /\ command = None
    /\ \E t \in tasks, hosts \in CompleteHosts :
        LET finished == getFinishedActions(Named(hosts),
                                           Kind(hosts, Present(t))) IN
        /\ busy' = IF t \in Uids THEN [busy EXCEPT ![t] = @ \ Named(hosts)]
                   ELSE busy
        /\ command' = IF finished = {} THEN None
                      ELSE [task |-> t, hosts |-> Named(hosts),
                            finished |-> finished]
    /\ UNCHANGED <<cms, restart, asked, robbed>>

(* The actions may be gone by now. *)
CompleteAction ==
    /\ command # None
    /\ command' = None
    /\ IF command.task \in tasks THEN Release(command.task, command.finished)
       ELSE UNCHANGED cms
    /\ robbed' = IF command.task \in tasks \cap Restarts
                 THEN robbed \cup {command.task} ELSE robbed
    /\ UNCHANGED <<restart, busy, asked>>

Operator == Create \/ Refresh \/ Drop \/ Complete \/ CompleteAction

-----------------------------------------------------------------------------
(* A rolling restart *)
Goto(r, label) == pc' = [pc EXCEPT ![r] = label]

(* The process ends and its state is gone. *)
End(r, label) ==
    /\ Goto(r, label)
    /\ previous' = [previous EXCEPT ![r] = {}]
    /\ listed' = [listed EXCEPT ![r] = {}]
    /\ permitted' = [permitted EXCEPT ![r] = {}]
    /\ done' = [done EXCEPT ![r] = {}]

(* cleanupRollingRestart *)
ListTasks(r) ==
    /\ pc[r] = "list"
    /\ Goto(r, "get")
    /\ previous' = [previous EXCEPT ![r] = tasks]
    /\ older' = [older EXCEPT ![r] = tasks]
    /\ UNCHANGED <<tasks, action, listed, permitted, done, command, busy,
                   asked, robbed>>

(* Mutant: only the tasks of rolling restarts are dropped. *)
RestartsOnly(ts) == ts \cap Restarts

Droppable(ts) == ts

(* MaintenanceTasks gets each listed task before the first is dropped; one *)
(* that is gone since the listing fails the restart (Fails).  The Gets     *)
(* change nothing: those that work might as well all come at the end.      *)
GetTasks(r) ==
    /\ pc[r] = "get"
    /\ previous[r] \subseteq tasks
    /\ Goto(r, "drop")
    /\ previous' = [previous EXCEPT ![r] = Droppable(@)]
    /\ UNCHANGED <<cms, listed, permitted, done, command, busy, asked,
                   robbed>>

DropTask(r) ==
    /\ pc[r] = "drop"
    /\ \E t \in previous[r] \cap tasks :
        /\ previous' = [previous EXCEPT ![r] = @ \ {t}]
        /\ Remove(t)
        /\ robbed' = robbed \cup {t}
    /\ UNCHANGED <<pc, listed, permitted, done, command, busy, asked>>

(* An unsuccessful status is not looked at. *)
DropUnknown(r) ==
    /\ pc[r] = "drop"
    /\ \E t \in previous[r] \ tasks :
        previous' = [previous EXCEPT ![r] = @ \ {t}]
    /\ UNCHANGED <<cms, pc, listed, permitted, done, command, busy, asked,
                   robbed>>

(* Any call before the task is created may fail.  A process that is killed *)
(* here leaves the same behind.                                            *)
Fails(r) ==
    /\ pc[r] \in {"list", "get", "drop"}
    /\ End(r, "failed")
    /\ older' = [older EXCEPT ![r] = {}]
    /\ UNCHANGED <<tasks, action, command, busy, asked, robbed>>

(* The answer is processed at once: with a lock in it a batch begins.      *)
CreateTask(r) ==
    /\ pc[r] = "drop"
    /\ previous[r] = {}
    /\ \E target \in Targets :
        LET scopes == {NodeScope(n) : n \in target} IN
        \E now \in SUBSET {s \in scopes : ~Conflicts(r, s)} :
            /\ AddTask(r, scopes, now)
            /\ listed' = [listed EXCEPT ![r] = scopes]
            /\ permitted' = [permitted EXCEPT ![r] = now]
            /\ Goto(r, IF now = {} THEN "loop" ELSE "batch")
    /\ UNCHANGED <<previous, done, command, busy, asked, robbed>>

(* The waiting loop. With nothing permitted it waits and refreshes again;  *)
(* without its task it does so for ever.                                   *)
NothingPermitted(r) ==
    /\ pc[r] = "loop"
    /\ r \in tasks => Held(r) = {}
    /\ UNCHANGED vars

(* Mutant: the actions of the first answer are kept. *)
ShownAtFirst(r) == listed[r]

Shown(r) == Present(r)

RefreshTask(r) ==
    /\ pc[r] = "loop"
    /\ r \in tasks
    /\ Held(r) # {}
    /\ Goto(r, "batch")
    /\ listed' = [listed EXCEPT ![r] = Shown(r)]
    /\ permitted' = [permitted EXCEPT ![r] = Held(r)]
    /\ UNCHANGED <<cms, previous, done, command, busy, asked, robbed>>

(* RestartNode: a node's attempts are over with its restart or the last    *)
(* failure.                                                                *)
RestartNode(r) ==
    /\ pc[r] = "batch"
    /\ \E s \in permitted[r] \ (done[r] \cup busy[r]) :
        busy' = [busy EXCEPT ![r] = @ \cup {s}]
    /\ UNCHANGED <<cms, restart, command, asked, robbed>>

Restarted(r) ==
    /\ pc[r] = "batch"
    /\ \E s \in busy[r] :
        /\ busy' = [busy EXCEPT ![r] = @ \ {s}]
        /\ done' = [done EXCEPT ![r] = @ \cup {s}]
    /\ UNCHANGED <<cms, pc, previous, listed, permitted, command, asked,
                   robbed>>

AllCompleted(r) == Cardinality(listed[r]) = Cardinality(done[r])

Report(r) ==
    /\ pc[r] = "batch"
    /\ permitted[r] \subseteq done[r]
    /\ r \in tasks
    /\ Release(r, done[r])
    /\ IF AllCompleted(r) THEN End(r, "success")
       ELSE /\ Goto(r, "loop")
            /\ done' = [done EXCEPT ![r] = {}]
            /\ permitted' = [permitted EXCEPT ![r] = {}]
            /\ UNCHANGED <<previous, listed>>
    /\ UNCHANGED <<command, busy, asked, robbed>>

ReportFails(r) ==
    /\ pc[r] = "batch"
    /\ permitted[r] \subseteq done[r]
    /\ r \notin tasks
    /\ Goto(r, "loop")
    /\ UNCHANGED <<cms, previous, listed, permitted, done, command, busy,
                   asked, robbed>>

Kill(r) ==
    /\ pc[r] \in {"loop", "batch"}
    /\ End(r, "killed")
    /\ UNCHANGED <<cms, command, busy, asked, robbed>>

Restart(r) ==
    \/ ListTasks(r) \/ GetTasks(r) \/ Fails(r)
    \/ DropTask(r) \/ DropUnknown(r) \/ CreateTask(r)
    \/ RefreshTask(r) \/ NothingPermitted(r) \/ RestartNode(r) \/ Restarted(r)
    \/ Report(r) \/ ReportFails(r)

Over == (\A r \in Restarts : pc[r] \in Ended) /\ UNCHANGED vars

Next ==
    \/ Operator \/ Over
    \/ \E r \in Restarts : Restart(r) \/ Kill(r)
    \/ \E t \in Tasks, s \in Scopes : Permit(t, s)

Spec == Init /\ [][Next]_vars

(* A restart keeps running, and the CMS performs the locks it can. *)
FairSpec ==
    /\ Spec
    /\ \A r \in Restarts : WF_vars(Restart(r))
    /\ \A t \in Tasks, s \in Scopes : WF_vars(Permit(t, s))

-----------------------------------------------------------------------------
(* Properties. *)

TypeOK ==
    /\ tasks \subseteq Tasks
    /\ action \in [Tasks -> [Scopes -> {"absent", "pending", "performed"}]]
    /\ \A t \in Tasks \ tasks : Present(t) = {}
    /\ pc \in [Restarts -> Ended \cup {"list", "get", "drop", "loop", "batch"}]
    /\ previous \in [Restarts -> SUBSET Tasks]
    /\ listed \in [Restarts -> SUBSET Scopes]
    /\ permitted \in [Restarts -> SUBSET Scopes]
    /\ done \in [Restarts -> SUBSET Scopes]
    /\ command # None => command.finished \subseteq command.hosts
    /\ busy \in [Tasks -> SUBSET Scopes]
    /\ asked \in [Uids -> CreateOptions \cup {None}]
    /\ robbed \subseteq Tasks
    /\ older \in [Restarts -> SUBSET tasks]

(* The nodes that run in the pods which restarting a scope deletes. *)
Deleted ==
    [s \in Scopes |->
        {m \in Cluster :
            \E n \in Cover[s], i \in DOMAIN Pods :
                /\ Pods[i].name \in R!Deleted(Pods, n)
                /\ R!Runs(Pods[i], m)}]

(* What goes down while a scope is worked on for a task. *)
Down(t, s) == IF t \in Restarts THEN Deleted[s] ELSE Cover[s]

(* Whatever goes down is under a lock of the task it goes down for, and so *)
(* under no other's, as long as nobody else has dropped or completed that  *)
(* task.                                                                   *)
WorksUnderLock ==
    \A t \in Tasks \ robbed :
        \A s \in busy[t] : Down(t, s) \subseteq Covered(Held(t))

(* A restart works beside tasks only that were made after it had listed    *)
(* the user's tasks, whoever made them.                                    *)
OlderTasksGone ==
    \A r \in Restarts :
        pc[r] \in {"loop", "batch"} => older[r] = {}

(* maintenance create with ids or without hosts locks nodes, each on its   *)
(* own, and exactly those that the help of the options asks for, but for   *)
(* the nodes on which help and code differ.                                *)
CreateLocksAsked ==
    [][\A uid \in Uids :
        asked'[uid] # asked[uid] /\ Numeric(asked'[uid].hosts) =>
            LET opts == asked'[uid]
                locked == {s \in Scopes : action'[uid][s] # "absent"}
            IN  /\ locked \subseteq {NodeScope(n) : n \in Cluster}
                /\ \A n \in Cluster :
                      ~Disputed(n, opts, <<>>) =>
                          (NodeScope(n) \in locked
                              <=> \/ AskedStorage(n, opts, <<>>)
                                  \/ AskedTenant(n, opts, <<>>))]_vars

(* maintenance complete of the operator's own task gives back the locks of *)
(* the hosts it names, or none when it names one that the task does not    *)
(* hold, although the task may vanish in between.                          *)
CompletesNamed ==
    [][command # None /\ command' = None /\ command.task \in Uids
       /\ action' # action =>
          LET t == command.task IN
          /\ command.hosts \subseteq Present(t)
          /\ action' = [action EXCEPT ![t] =
                [s \in Scopes |-> IF s \in command.hosts THEN "absent"
                                  ELSE action[t][s]]]]_vars

(* Several restarts do not wait for each other for ever: each comes to an  *)
(* end unless its task is taken away, once the operator has no task and no *)
(* killed restart has left one.                                            *)
Obstructed ==
    \/ Uids \cap tasks # {}
    \/ \E r \in Restarts \cap tasks : pc[r] = "killed"

RestartEnds ==
    <>[]~Obstructed =>
        \A r \in Restarts : <>(pc[r] \in Ended \/ r \in robbed)
=============================================================================
