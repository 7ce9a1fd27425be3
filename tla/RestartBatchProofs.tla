------------------------- MODULE RestartBatchProofs -------------------------
(***************************************************************************)
(* Proofs about RestartBatch for every set of nodes and tenants, every     *)
(* limit and every number of retries.  The inductive invariant is built in *)
(* layers, each proved from the ones before it.                            *)
(***************************************************************************)
EXTENDS RestartBatch, FiniteSetTheorems, TLAPS

(* Layer 1: the types, without the numeric bounds of TypeOK. *)
Types ==
    /\ filtered \subseteq Nodes
    /\ cancelled \in BOOLEAN
    /\ main \in {"dispatch", "wait", "join", "return"}
    /\ handler \in [Handlers -> {"new", "pushing", "offering", "closed",
                                 "stopped"}]
    /\ toPush \subseteq filtered
    /\ sem \in Int
    /\ worker \in [Workers -> {"off", "idle", "parked", "restart", "send",
                               "delay", "exit"}]
    /\ job \in [Workers -> filtered \cup {None}]
    /\ \A w \in Workers :
          worker[w] \in {"restart", "send", "delay"} => job[w] \in filtered
    /\ outcome \in [Nodes -> {"none", "ok", "err"}]
    /\ statusCh \subseteq filtered
    /\ receiver \in {"on", "off"}
    /\ taken \in Nat
    /\ completed \subseteq Nodes
    /\ unreported \subseteq Nodes
    /\ retries \in [Nodes -> Nat]

(* The types hold initially and every step keeps them. *)
LEMMA TypesInductive == Spec => []Types
<1>1. Init => Types
  <2> SUFFICES ASSUME Init PROVE Types
    OBVIOUS
  <2>1. retries \in [Nodes -> Nat]
    BY RestartBatchAssumption DEF Init
  <2>2. /\ filtered \subseteq Nodes
        /\ completed \subseteq Nodes
        /\ toPush \subseteq filtered
    BY DEF Init
  <2>3. QED
    BY <2>1, <2>2 DEF Init, Types
<1>2. Types /\ [Next]_vars => Types'
  <2> SUFFICES ASSUME Types, [Next]_vars PROVE Types'
    OBVIOUS
  <2> USE RestartBatchAssumption DEF Types
  <2>1. CASE DispatchAll
    BY <2>1 DEF DispatchAll, RunHandler, Handlers, receiverVars
  <2>2. ASSUME NEW h \in Handlers, SpawnTenant(h) PROVE Types'
    BY <2>2 DEF SpawnTenant, RunHandler, Acquire, receiverVars
  <2>3. CASE SpawnsOver
    BY <2>3 DEF SpawnsOver, receiverVars, workerVars
  <2>4. CASE DispatchOver
    BY <2>4 DEF DispatchOver, receiverVars, workerVars
  <2>5. CASE Join
    BY <2>5 DEF Join, receiverVars, workerVars
  <2>6. ASSUME NEW h \in Handlers, Offer(h) PROVE Types'
    BY <2>6 DEF Offer, receiverVars, workerVars
  <2>7. ASSUME NEW h \in Handlers, Skip(h) PROVE Types'
    BY <2>7 DEF Skip, Pending, receiverVars, workerVars
  <2>8. ASSUME NEW h \in Handlers, CloseQueue(h) PROVE Types'
    BY <2>8 DEF CloseQueue, receiverVars
  <2>9. ASSUME NEW h \in Handlers, StopHandler(h) PROVE Types'
    BY <2>9 DEF StopHandler, receiverVars, workerVars
  <2>10. ASSUME NEW w \in Workers, Park(w) PROVE Types'
    BY <2>10 DEF Park, receiverVars, dispatchVars
  <2>11. ASSUME NEW w \in Workers, Dequeue(w) PROVE Types'
    <3>1. w[1] \in Handlers
      BY DEF Workers
    <3>2. QED
      BY <2>11, <3>1 DEF Dequeue, Pending, receiverVars
  <2>12. ASSUME NEW w \in Workers, RestartNode(w) PROVE Types'
    BY <2>12 DEF RestartNode, receiverVars, dispatchVars
  <2>13. ASSUME NEW w \in Workers, Send(w) PROVE Types'
    BY <2>13 DEF Send, dispatchVars
  <2>14. ASSUME NEW w \in Workers, DelayElapses(w) PROVE Types'
    BY <2>14 DEF DelayElapses, receiverVars, dispatchVars
  <2>15. ASSUME NEW w \in Workers, Exit(w) PROVE Types'
    BY <2>15 DEF Exit, receiverVars, dispatchVars
  <2>16. ASSUME NEW n \in Nodes, Receive(n) PROVE Types'
    BY <2>16 DEF Receive, workerVars, dispatchVars
  <2>17. CASE ReceiverExits
    BY <2>17 DEF ReceiverExits, workerVars, dispatchVars
  <2>18. CASE Cancel
    BY <2>18 DEF Cancel, receiverVars
  <2>19. CASE UNCHANGED vars
    BY <2>19 DEF vars, receiverVars, workerVars, dispatchVars
  <2>20. QED
    BY <2>1, <2>2, <2>3, <2>4, <2>5, <2>6, <2>7, <2>8, <2>9, <2>10, <2>11,
       <2>12, <2>13, <2>14, <2>15, <2>16, <2>17, <2>18, <2>19
       DEF Next, MainStep, HandlerStep, WorkerStep, ReceiverStep, Returned
<1>3. QED
  BY <1>1, <1>2, PTL DEF Spec

-----------------------------------------------------------------------------
(* Layer 2: where the handlers of the batch, their workers and the caller  *)
(* can stand with respect to each other.                                   *)
Gates ==
    /\ \A w \in Workers : worker[w] = "off" <=> handler[w[1]] = "new"
    /\ \A w \in Workers : handler[w[1]] = "stopped" => worker[w] = "exit"
    /\ \A w \in Workers :
          worker[w] = "parked" => ~cancelled /\ handler[w[1]] = "pushing"
    /\ \A h \in Handlers : handler[h] = "offering" => ~cancelled
    /\ ByTenant => handler[None] = "new"
    /\ ~ByTenant => \A t \in Tenants : handler[t] = "new"
    /\ ~ByTenant /\ main = "dispatch" => handler[None] = "new"
    /\ main \in {"join", "return"} =>
          \A h \in Handlers : handler[h] \in {"new", "stopped"}
    /\ main = "return" => receiver = "off"

(* A group of dispatchByTenant is a tenant: the batch has no storage node. *)
LEMMA GroupsAreTenants ==
    ASSUME Types, ByTenant, NEW h \in Groups PROVE h \in Tenants
BY RestartBatchAssumption DEF Types, ByTenant, Groups

(* The relations of Gates hold initially and every step keeps them. *)
LEMMA GatesInductive == Spec => []Gates
<1>1. Init => Gates
  BY DEF Init, Gates, Handlers, Workers
<1>2. Types /\ Gates /\ [Next]_vars => Gates'
  <2> SUFFICES ASSUME Types, Gates, [Next]_vars PROVE Gates'
    OBVIOUS
  <2>a. \A w \in Workers : w[1] \in Handlers
    BY DEF Workers
  <2>b. None \in Handlers /\ Tenants \subseteq Handlers /\ None \notin Tenants
    BY RestartBatchAssumption DEF Handlers
  <2>c. filtered' = filtered => (ByTenant' <=> ByTenant)
    BY DEF ByTenant
  <2> USE DEF Types, Gates
  <2>1. CASE DispatchAll
    BY <2>1, <2>a, <2>b, <2>c DEF DispatchAll, RunHandler, Handlers, receiverVars
  <2>2. ASSUME NEW h \in Handlers, SpawnTenant(h) PROVE Gates'
    <3>1. h \in Tenants /\ h # None
      BY <2>2, <2>b, GroupsAreTenants DEF SpawnTenant
    <3>2. QED
      BY <2>2, <2>a, <2>b, <2>c, <3>1 DEF SpawnTenant, RunHandler, receiverVars
  <2>3. CASE SpawnsOver
    BY <2>3, <2>a, <2>b, <2>c DEF SpawnsOver, receiverVars, workerVars, dispatchVars
  <2>4. CASE DispatchOver
    BY <2>4, <2>a, <2>b, <2>c DEF DispatchOver, receiverVars, workerVars, dispatchVars
  <2>5. CASE Join
    BY <2>5, <2>a, <2>b, <2>c DEF Join, receiverVars, workerVars, dispatchVars
  <2>6. ASSUME NEW h \in Handlers, Offer(h) PROVE Gates'
    BY <2>6, <2>a, <2>b, <2>c DEF Offer, WorkersOf, receiverVars, workerVars, dispatchVars
  <2>7. ASSUME NEW h \in Handlers, Skip(h) PROVE Gates'
    BY <2>7, <2>a, <2>b, <2>c DEF Skip, receiverVars, workerVars, dispatchVars
  <2>8. ASSUME NEW h \in Handlers, CloseQueue(h) PROVE Gates'
    BY <2>8, <2>a, <2>b, <2>c DEF CloseQueue, receiverVars, workerVars, dispatchVars
  <2>9. ASSUME NEW h \in Handlers, StopHandler(h) PROVE Gates'
    BY <2>9, <2>a, <2>b, <2>c DEF StopHandler, WorkersGone, WorkersOf, receiverVars, workerVars, dispatchVars
  <2>10. ASSUME NEW w \in Workers, Park(w) PROVE Gates'
    BY <2>10, <2>a, <2>b, <2>c DEF Park, receiverVars, workerVars, dispatchVars
  <2>11. ASSUME NEW w \in Workers, Dequeue(w) PROVE Gates'
    BY <2>11, <2>a, <2>b, <2>c DEF Dequeue, receiverVars, workerVars, dispatchVars
  <2>12. ASSUME NEW w \in Workers, RestartNode(w) PROVE Gates'
    BY <2>12, <2>a, <2>b, <2>c DEF RestartNode, receiverVars, workerVars, dispatchVars
  <2>13. ASSUME NEW w \in Workers, Send(w) PROVE Gates'
    BY <2>13, <2>a, <2>b, <2>c DEF Send, receiverVars, workerVars, dispatchVars
  <2>14. ASSUME NEW w \in Workers, DelayElapses(w) PROVE Gates'
    BY <2>14, <2>a, <2>b, <2>c DEF DelayElapses, receiverVars, workerVars, dispatchVars
  <2>15. ASSUME NEW w \in Workers, Exit(w) PROVE Gates'
    BY <2>15, <2>a, <2>b, <2>c DEF Exit, MayExit, receiverVars, workerVars, dispatchVars
  <2>16. ASSUME NEW n \in Nodes, Receive(n) PROVE Gates'
    BY <2>16, <2>a, <2>b, <2>c DEF Receive, receiverVars, workerVars, dispatchVars
  <2>17. CASE ReceiverExits
    BY <2>17, <2>a, <2>b, <2>c DEF ReceiverExits, receiverVars, workerVars, dispatchVars
  <2>18. CASE Cancel
    BY <2>18, <2>a, <2>b, <2>c DEF Cancel, receiverVars, workerVars, dispatchVars
  <2>19. CASE UNCHANGED vars
    BY <2>19, <2>a, <2>b, <2>c DEF vars, receiverVars, workerVars, dispatchVars
  <2>20. QED
    BY <2>1, <2>2, <2>3, <2>4, <2>5, <2>6, <2>7, <2>8, <2>9,
       <2>10, <2>11, <2>12, <2>13, <2>14, <2>15, <2>16, <2>17, <2>18, <2>19
       DEF Next, MainStep, HandlerStep, WorkerStep, ReceiverStep, Returned
<1>3. QED
  BY <1>1, <1>2, TypesInductive, PTL DEF Spec
-----------------------------------------------------------------------------
(* Layer 3: the semaphore counts the handlers that hold a token, and the   *)
(* status channel keeps to its capacity.                                   *)
Holders == {h \in Handlers : handler[h] \notin {"new", "stopped"}}

Counts ==
    /\ ByTenant => sem = Cardinality(Holders)
    /\ ~ByTenant => sem = 0
    /\ sem <= TenantsInflight
    /\ Cardinality(statusCh) <= Capacity

(* The sets the counters speak of are finite. *)
LEMMA FiniteSets ==
    /\ IsFiniteSet(Handlers)
    /\ IsFiniteSet(Holders)
    /\ Capacity \in Nat
    /\ Types => IsFiniteSet(statusCh) /\ IsFiniteSet(filtered)
<1>1. IsFiniteSet(Handlers)
  BY FS_Union, FS_Singleton, RestartBatchAssumption DEF Handlers
<1>2. Holders \in SUBSET Handlers
  BY DEF Holders
<1>3. IsFiniteSet(Holders)
  BY <1>1, <1>2, FS_Subset
<1>4. Capacity \in Nat
  BY RestartBatchAssumption DEF Capacity
<1>5. ASSUME Types PROVE IsFiniteSet(statusCh) /\ IsFiniteSet(filtered)
  <2>1. filtered \in SUBSET Nodes /\ statusCh \in SUBSET Nodes
    BY <1>5 DEF Types
  <2>2. QED
    BY <2>1, FS_Subset, RestartBatchAssumption
<1>6. QED
  BY <1>1, <1>3, <1>4, <1>5

(* Every step keeps the semaphore equal to the number of holders. *)
LEMMA CountsInductive == Spec => []Counts
<1>1. Init => Counts
  <2> SUFFICES ASSUME Init PROVE Counts
    OBVIOUS
  <2>1. Holders = {} /\ statusCh = {} /\ sem = 0
    BY DEF Init, Holders
  <2>2. QED
    BY <2>1, FS_EmptySet, FiniteSets, RestartBatchAssumption DEF Counts
<1>2. Types /\ Types' /\ Gates /\ Counts /\ [Next]_vars => Counts'
  <2> SUFFICES ASSUME Types, Types', Gates, Counts, [Next]_vars
               PROVE  Counts'
    OBVIOUS
  <2>a. Cardinality(statusCh') <= Capacity
    <3>1. CASE statusCh' \subseteq statusCh
      <4>1. Cardinality(statusCh') <= Cardinality(statusCh)
        BY <3>1, FiniteSets, FS_Subset
      <4>2. /\ Cardinality(statusCh') \in Nat
            /\ Cardinality(statusCh) \in Nat
            /\ Capacity \in Nat
        BY <3>1, FiniteSets, FS_Subset, FS_CardinalityType
      <4>3. QED
        BY <4>1, <4>2 DEF Counts
    <3>2. ASSUME NEW w \in Workers, Send(w)
          PROVE  Cardinality(statusCh') <= Capacity
      <4>1. /\ statusCh' = statusCh \cup {job[w]}
            /\ Cardinality(statusCh) < Capacity
        BY <3>2 DEF Send
      <4>2. Cardinality(statusCh') \in {Cardinality(statusCh),
                                        Cardinality(statusCh) + 1}
        BY <4>1, FiniteSets, FS_AddElement
      <4>3. Cardinality(statusCh) \in Nat /\ Capacity \in Nat
        BY FiniteSets, FS_CardinalityType
      <4>4. QED
        BY <4>1, <4>2, <4>3
    <3>3. (\E w \in Workers : Send(w)) \/ statusCh' \subseteq statusCh
      BY DEF Next, MainStep, HandlerStep, WorkerStep, ReceiverStep, vars,
             DispatchAll, SpawnTenant, SpawnsOver, DispatchOver, Join, Offer,
             Skip, CloseQueue, StopHandler, Park, Dequeue, RestartNode,
             DelayElapses, Exit, Receive, ReceiverExits, Cancel, Returned,
             receiverVars
    <3>4. QED
      BY <3>1, <3>2, <3>3
  <2>b. filtered' = filtered => (ByTenant' <=> ByTenant)
    BY DEF ByTenant
  <2>c. CASE UNCHANGED <<filtered, sem, Holders>>
    BY <2>a, <2>b, <2>c DEF Counts
  <2>1. CASE DispatchAll
    BY <2>1, <2>a, <2>b DEF DispatchAll, Counts
  <2>2. ASSUME NEW h \in Handlers, SpawnTenant(h) PROVE Counts'
    <3>1. h \notin Holders /\ Holders' = Holders \cup {h}
      BY <2>2 DEF SpawnTenant, RunHandler, Holders, Types
    <3>2. Cardinality(Holders') = Cardinality(Holders) + 1
      BY <3>1, FiniteSets, FS_AddElement
    <3>3. /\ sem < TenantsInflight /\ sem' = sem + 1
          /\ ByTenant /\ filtered' = filtered
      BY <2>2 DEF SpawnTenant, Acquire
    <3>4. sem' <= TenantsInflight
      BY <3>3, RestartBatchAssumption DEF Types
    <3>5. QED
      BY <2>a, <2>b, <3>2, <3>3, <3>4 DEF Counts
  <2>3. ASSUME NEW h \in Handlers, StopHandler(h) PROVE Counts'
    <3>1. h \in Holders /\ Holders' = Holders \ {h}
      BY <2>3 DEF StopHandler, Holders, Types
    <3>2. Cardinality(Holders') = Cardinality(Holders) - 1
      BY <3>1, FiniteSets, FS_RemoveElement
    <3>3. filtered' = filtered /\ sem' = IF ByTenant THEN sem - 1 ELSE sem
      BY <2>3 DEF StopHandler
    <3>4. sem' <= TenantsInflight
      BY <3>3, RestartBatchAssumption DEF Types, Counts
    <3>5. QED
      BY <2>a, <2>b, <3>2, <3>3, <3>4 DEF Counts
  <2>4. ASSUME NEW h \in Handlers, Offer(h) \/ Skip(h) \/ CloseQueue(h)
        PROVE  UNCHANGED <<filtered, sem, Holders>>
    BY <2>4 DEF Offer, Skip, CloseQueue, Holders, Types
  <2>5. ASSUME NEW w \in Workers, WorkerStep(w)
        PROVE  UNCHANGED <<filtered, sem, Holders>>
    <3>1. w[1] \in Handlers
      BY DEF Workers
    <3>2. CASE Dequeue(w)
      <4>1. handler[w[1]] \notin {"new", "stopped"}
        BY <3>2, <3>1 DEF Dequeue, Gates
      <4>2. /\ handler' = [handler EXCEPT ![w[1]] = "pushing"]
            /\ UNCHANGED <<filtered, sem>>
        BY <3>2 DEF Dequeue
      <4>3. QED
        BY <4>1, <4>2, <3>1 DEF Holders, Types
    <3>3. QED
      BY <2>5, <3>2 DEF WorkerStep, Park, RestartNode, Send, DelayElapses,
                        Exit, dispatchVars, Holders
  <2>6. CASE SpawnsOver \/ DispatchOver \/ Join
    BY <2>6, <2>c DEF SpawnsOver, DispatchOver, Join, Holders
  <2>7. CASE ReceiverStep
    BY <2>7, <2>c DEF ReceiverStep, Receive, ReceiverExits, dispatchVars,
                      Holders
  <2>8. CASE Cancel
    BY <2>8, <2>c DEF Cancel, Holders, Types
  <2>9. CASE UNCHANGED vars
    BY <2>9, <2>c DEF vars, dispatchVars, Holders
  <2>10. QED
    BY <2>c, <2>1, <2>2, <2>3, <2>4, <2>5, <2>6, <2>7, <2>8, <2>9
       DEF Next, MainStep, HandlerStep, Returned
<1>3. QED
  BY <1>1, <1>2, TypesInductive, GatesInductive, PTL DEF Spec

(* TypeOK for every value of the constants: the semaphore never admits     *)
(* more handlers than --tenants-inflight and is never released twice, and  *)
(* the status channel never holds more than it was made for.               *)
THEOREM TypeCorrect == Spec => []TypeOK
<1>1. Types /\ Counts => TypeOK
  <2> SUFFICES ASSUME Types, Counts PROVE TypeOK
    OBVIOUS
  <2>1. Cardinality(Holders) \in Nat
    BY FiniteSets, FS_CardinalityType
  <2>2. sem \in 0..TenantsInflight
    BY <2>1, RestartBatchAssumption DEF Counts, Types
  <2>3. QED
    BY <2>2 DEF Types, Counts, TypeOK
<1>2. QED
  BY <1>1, TypesInductive, CountsInductive, PTL

-----------------------------------------------------------------------------
(* When the caller goes on to CompleteAction, which reads completedActions  *)
(* without the mutex, no goroutine of the batch is left that could restart  *)
(* a node or change that map.                                               *)
THEOREM NoStragglersSafe == Spec => []NoStragglers
<1>1. Types /\ Gates => NoStragglers
  <2> SUFFICES ASSUME Types, Gates, main = "return"
               PROVE  /\ \A w \in Workers : worker[w] \in {"off", "exit"}
                      /\ receiver = "off"
    BY DEF NoStragglers
  <2>1. ASSUME NEW w \in Workers PROVE worker[w] \in {"off", "exit"}
    <3>1. w[1] \in Handlers
      BY DEF Workers
    <3>2. handler[w[1]] \in {"new", "stopped"}
      BY <3>1 DEF Gates
    <3>3. QED
      BY <3>2 DEF Gates
  <2>2. QED
    BY <2>1 DEF Gates
<1>2. QED
  BY <1>1, TypesInductive, GatesInductive, PTL

(* Once the context is done no worker takes an action any more: a worker   *)
(* that was parked and a pusher that was offering gave up with it.         *)
THEOREM NoStartAfterCancelSafe == Spec => NoStartAfterCancel
<1>1. Types /\ Gates /\ [Next]_vars
        => [cancelled => Restarting' \subseteq Restarting]_vars
  <2> SUFFICES ASSUME Types, Gates, Next, cancelled
               PROVE  Restarting' \subseteq Restarting
    BY DEF vars, Restarting, workerVars
  <2>a. ASSUME NEW v \in Workers, worker'[v] = "restart"
        PROVE  worker[v] = "restart" /\ job'[v] = job[v]
    <3>1. v[1] \in Handlers
      BY DEF Workers
    <3>2. ASSUME NEW w \in Workers, Dequeue(w) PROVE FALSE
      BY <3>2 DEF Dequeue, Gates, Workers
    <3>3. ASSUME NEW w \in Workers, WorkerStep(w)
          PROVE  worker[v] = "restart" /\ job'[v] = job[v]
      BY <2>a, <3>2, <3>3 DEF WorkerStep, Park, RestartNode, Send,
                              DelayElapses, Exit, Types
    <3>4. ASSUME NEW h \in Handlers, HandlerStep(h)
          PROVE  worker[v] = "restart" /\ job'[v] = job[v]
      BY <2>a, <3>4 DEF HandlerStep, SpawnTenant, RunHandler, Offer, Skip,
                        CloseQueue, StopHandler, workerVars
    <3>5. CASE MainStep
      BY <2>a, <3>5 DEF MainStep, DispatchAll, RunHandler, SpawnsOver,
                        DispatchOver, Join, workerVars
    <3>6. CASE ReceiverStep
      BY <2>a, <3>6 DEF ReceiverStep, Receive, ReceiverExits, workerVars
    <3>7. CASE Returned
      BY <2>a, <3>7 DEF Returned, vars, workerVars
    <3>8. CASE Cancel
      BY <3>8 DEF Cancel
    <3>9. QED
      BY <3>3, <3>4, <3>5, <3>6, <3>7, <3>8 DEF Next
  <2>1. QED
    BY <2>a DEF Restarting
<1>2. QED
  BY <1>1, TypesInductive, GatesInductive, PTL DEF Spec, NoStartAfterCancel
-----------------------------------------------------------------------------
(* Layer 4: a worker's job is of its own handler and was handed to nobody  *)
(* else.                                                                   *)
Jobs ==
    /\ \A w \in Workers : job[w] # None =>
          job[w] \notin toPush /\ HandlerOf(job[w]) = w[1]
    /\ \A v, w \in Workers : job[v] = job[w] /\ job[v] # None => v = w

(* An action goes to one worker of its own handler, once. *)
LEMMA JobsInductive == Spec => []Jobs
<1>1. Init => Jobs
  BY DEF Init, Jobs
<1>2. Types /\ Jobs /\ [Next]_vars => Jobs'
  <2> SUFFICES ASSUME Types, Jobs, [Next]_vars PROVE Jobs'
    OBVIOUS
  <2>a. filtered' = filtered => \A n : HandlerOf(n)' = HandlerOf(n)
    BY DEF HandlerOf, ByTenant
  <2>b. CASE filtered' = filtered /\ job' = job /\ toPush' \subseteq toPush
    BY <2>a, <2>b DEF Jobs
  <2>1. ASSUME NEW w \in Workers, Dequeue(w) PROVE Jobs'
    <3>1. PICK n \in Pending(w[1]) : /\ toPush' = toPush \ {n}
                                     /\ job' = [job EXCEPT ![w] = n]
      BY <2>1 DEF Dequeue
    <3>2. /\ n \in toPush /\ n # None
          /\ HandlerOf(n) = w[1]
      BY <3>1, RestartBatchAssumption DEF Pending, Types
    <3>3. filtered' = filtered
      BY <2>1 DEF Dequeue
    <3>4. \A v \in Workers : job'[v] = IF v = w THEN n ELSE job[v]
      BY <3>1 DEF Types
    <3>5. QED
      BY <2>a, <3>1, <3>2, <3>3, <3>4 DEF Jobs
  <2>2. ASSUME NEW w \in Workers, WorkerStep(w), ~Dequeue(w) PROVE Jobs'
    BY <2>2, <2>b DEF WorkerStep, Park, RestartNode, Send, DelayElapses, Exit,
                      dispatchVars
  <2>3. ASSUME NEW h \in Handlers, HandlerStep(h) PROVE Jobs'
    BY <2>3, <2>b DEF HandlerStep, SpawnTenant, Offer, Skip, CloseQueue,
                      StopHandler, workerVars
  <2>4. CASE MainStep \/ ReceiverStep \/ Cancel \/ UNCHANGED vars
    BY <2>4, <2>b DEF MainStep, DispatchAll, SpawnsOver, DispatchOver, Join,
                      ReceiverStep, Receive, ReceiverExits, Cancel, vars,
                      workerVars, dispatchVars
  <2>5. QED
    BY <2>1, <2>2, <2>3, <2>4 DEF Next, Returned
<1>3. QED
  BY <1>1, <1>2, TypesInductive, PTL DEF Spec

(* A handler's workers hold no more nodes than --nodes-inflight. *)
LEMMA JobsOfOneHandler ==
    ASSUME NEW h, NEW S, \A n \in S : \E i \in Slots : job[<<h, i>>] = n
    PROVE  IsFiniteSet(S) /\ Cardinality(S) <= NodesInflight
<1> DEFINE f == [n \in S |-> CHOOSE i \in Slots : job[<<h, i>>] = n]
<1>1. f \in Injection(S, Slots)
  <2>1. \A n \in S : f[n] \in Slots /\ job[<<h, f[n]>>] = n
    OBVIOUS
  <2>2. \A m, n \in S : f[m] = f[n] => m = n
    BY <2>1
  <2>3. QED
    BY <2>1, <2>2 DEF Injection, IsInjective
<1>2. IsFiniteSet(Slots) /\ Cardinality(Slots) = NodesInflight
  BY FS_Interval, RestartBatchAssumption DEF Slots
<1>3. QED
  BY <1>1, <1>2, FS_Injection

(* --nodes-inflight and --tenants-inflight bound the nodes being restarted *)
(* at every moment, whatever the limits and however the goroutines of the  *)
(* handlers interleave: the token of a tenant outlives its last worker.    *)
THEOREM InflightLimitsSafe == Spec => []InflightLimits
<1>1. Types /\ Gates /\ Counts /\ Jobs => InflightLimits
  <2> SUFFICES ASSUME Types, Gates, Counts, Jobs PROVE InflightLimits
    OBVIOUS
  <2>1. ASSUME NEW n \in Restarting
        PROVE  \E h \in Handlers, i \in Slots :
                  /\ job[<<h, i>>] = n
                  /\ HandlerOf(n) = h
                  /\ h \in Holders
    <3>1. PICK w \in Workers : worker[w] = "restart" /\ job[w] = n
      BY <2>1 DEF Restarting
    <3>2. PICK h \in Handlers, i \in Slots : w = <<h, i>>
      BY DEF Workers
    <3>3. n \in filtered /\ n # None
      BY <3>1, RestartBatchAssumption DEF Types
    <3>4. HandlerOf(n) = h
      BY <3>1, <3>2, <3>3 DEF Jobs
    <3>5. h \in Holders
      BY <3>1, <3>2 DEF Gates, Holders
    <3>6. QED
      BY <3>1, <3>2, <3>4, <3>5
  <2>2. CASE ByTenant
    <3>1. {Tenant[n] : n \in Restarting} \in SUBSET Holders
      BY <2>1, <2>2 DEF HandlerOf
    <3>2. Cardinality({Tenant[n] : n \in Restarting}) <= TenantsInflight
      <4>1. Cardinality({Tenant[n] : n \in Restarting})
              <= Cardinality(Holders)
        BY <3>1, FiniteSets, FS_Subset
      <4>2. /\ Cardinality({Tenant[n] : n \in Restarting}) \in Nat
            /\ Cardinality(Holders) \in Nat
        BY <3>1, FiniteSets, FS_Subset, FS_CardinalityType
      <4>3. Cardinality(Holders) <= TenantsInflight
        BY <2>2 DEF Counts
      <4>4. QED
        BY <4>1, <4>2, <4>3, RestartBatchAssumption
    <3>3. ASSUME NEW t \in Tenants
          PROVE  Cardinality({n \in Restarting : Tenant[n] = t})
                    <= NodesInflight
      <4>1. \A n \in {m \in Restarting : Tenant[m] = t} :
               \E i \in Slots : job[<<t, i>>] = n
        BY <2>1, <2>2 DEF HandlerOf
      <4>2. QED
        BY <4>1, JobsOfOneHandler
    <3>4. QED
      BY <2>2, <3>2, <3>3 DEF InflightLimits
  <2>3. CASE ~ByTenant
    <3>1. \A n \in Restarting : \E i \in Slots : job[<<None, i>>] = n
      BY <2>1, <2>3 DEF HandlerOf
    <3>2. Cardinality(Restarting) <= NodesInflight
      BY <3>1, JobsOfOneHandler
    <3>3. QED
      BY <2>3, <3>2 DEF InflightLimits
  <2>4. QED
    BY <2>2, <2>3
<1>2. QED
  BY <1>1, TypesInductive, GatesInductive, CountsInductive, JobsInductive, PTL

-----------------------------------------------------------------------------
(* Layer 5, for a delay that outlasts the receiver: a status in the        *)
(* channel belongs to a worker that still waits out its delay, or that     *)
(* stopped with the context; the handlers with such a worker, or with one  *)
(* that will send a status, are never more than the tokens there were.     *)
ActiveWorkers ==
    {w \in Workers : \/ worker[w] \in {"restart", "send", "delay"}
                     \/ job[w] \in statusCh}

ActiveHandlers == {h \in Handlers : \E w \in ActiveWorkers : w[1] = h}

Rests(w) ==
    worker[w] = "delay" \/ (cancelled /\ worker[w] \in {"idle", "exit"})

Owned == \A n \in statusCh : \E w \in Workers : job[w] = n /\ Rests(w)

ActivesHold == ~cancelled => ActiveHandlers \subseteq Holders

FewActives == ByTenant => Cardinality(ActiveHandlers) <= TenantsInflight

(* Every step keeps the owners of the statuses in the channel. *)
LEMMA OwnedInductive == ASSUME DelayOutlastsReceiver PROVE Spec => []Owned
<1>1. Init => Owned
  BY DEF Init, Owned
<1>2. Types /\ Gates /\ Jobs /\ Owned /\ Types' /\ [Next]_vars => Owned'
  <2> SUFFICES ASSUME Types, Gates, Jobs, Owned, Types', [Next]_vars,
                      NEW n \in statusCh'
               PROVE  \E w \in Workers : job'[w] = n /\ Rests(w)'
    BY DEF Owned
  <2>a. \A w \in Workers : w[1] \in Handlers
    BY DEF Workers
  <2>1. ASSUME NEW v \in Workers, Send(v)
        PROVE  \E w \in Workers : job'[w] = n /\ Rests(w)'
    <3>1. CASE n = job[v]
      <4>1. job'[v] = n /\ worker'[v] = "delay"
        BY <2>1, <3>1 DEF Send, Types
      <4>2. QED
        BY <4>1 DEF Rests
    <3>2. CASE n # job[v]
      <4>1. n \in statusCh
        BY <2>1, <3>2 DEF Send
      <4>2. PICK w \in Workers : job[w] = n /\ Rests(w)
        BY <4>1 DEF Owned
      <4>3. w # v
        BY <3>2, <4>2
      <4>4. job'[w] = n /\ Rests(w)'
        BY <2>1, <4>2, <4>3 DEF Send, Rests, Types
      <4>5. QED
        BY <4>4
    <3>3. QED
      BY <3>1, <3>2
  <2>2. CASE \A v \in Workers : ~Send(v)
    <3>1. n \in statusCh
      BY <2>2 DEF Next, MainStep, HandlerStep, WorkerStep, ReceiverStep,
             vars, DispatchAll, SpawnTenant, SpawnsOver, DispatchOver, Join,
             Offer, Skip, CloseQueue, StopHandler, Park, Dequeue,
             RestartNode, DelayElapses, Exit, Receive, ReceiverExits,
             Cancel, Returned, receiverVars
    <3>2. PICK w \in Workers : job[w] = n /\ Rests(w)
      BY <3>1 DEF Owned
    <3>3. /\ worker[w] # "off" /\ worker[w] # "parked"
          /\ handler[w[1]] # "new"
      BY <3>2, <2>a DEF Rests, Gates
    <3>4. ASSUME NEW v \in Workers, WorkerStep(v)
          PROVE  job'[w] = n /\ Rests(w)'
      <4>1. CASE Dequeue(v)
        <5>1. v # w
          BY <4>1, <3>2, <2>a DEF Dequeue, Rests, Gates
        <5>2. QED
          BY <4>1, <5>1, <3>2 DEF Dequeue, Rests, Types
      <4>2. CASE DelayElapses(v)
        BY <4>2, <3>1, <3>2 DEF DelayElapses, Rests, Types
      <4>3. CASE Exit(v)
        BY <4>3, <3>2 DEF Exit, MayExit, Rests, Types
      <4>4. QED
        BY <3>4, <4>1, <4>2, <4>3, <2>2, <3>2
           DEF WorkerStep, Park, RestartNode, Rests, Types
    <3>5. ASSUME NEW h \in Handlers, HandlerStep(h)
          PROVE  job'[w] = n /\ Rests(w)'
      BY <3>5, <3>2, <3>3 DEF HandlerStep, SpawnTenant, RunHandler, Offer,
             Skip, CloseQueue, StopHandler, workerVars, Rests, Types
    <3>6. CASE DispatchAll
      <4>1. handler[None] = "new"
        BY <3>6 DEF DispatchAll, Gates
      <4>2. w[1] # None
        BY <4>1, <3>3
      <4>3. QED
        BY <3>6, <4>2, <3>2 DEF DispatchAll, RunHandler, Rests, Types
    <3>7. CASE \/ SpawnsOver \/ DispatchOver \/ Join \/ ReceiverStep
               \/ Cancel \/ UNCHANGED vars
      BY <3>7, <3>2 DEF SpawnsOver, DispatchOver, Join, ReceiverStep,
             Receive, ReceiverExits, Cancel, vars, workerVars, Rests, Types
    <3>8. QED
      BY <3>4, <3>5, <3>6, <3>7 DEF Next, MainStep, Returned
  <2>3. QED
    BY <2>1, <2>2
<1>3. QED
  BY <1>1, <1>2, TypesInductive, GatesInductive, JobsInductive, PTL DEF Spec

(* While the context lives, the owner of a status holds its token. *)
LEMMA ActivesHoldAlways ==
    ASSUME DelayOutlastsReceiver PROVE Spec => []ActivesHold
<1>1. Types /\ Gates /\ Jobs /\ Owned => ActivesHold
  <2> SUFFICES ASSUME Types, Gates, Jobs, Owned, ~cancelled,
                      NEW w \in ActiveWorkers, NEW h \in Handlers, w[1] = h
               PROVE  h \in Holders
    BY DEF ActivesHold, ActiveHandlers
  <2>1. w \in Workers
    BY DEF ActiveWorkers
  <2>2. worker[w] \in {"restart", "send", "delay"}
    <3>1. CASE job[w] \in statusCh
      <4>1. PICK v \in Workers : job[v] = job[w] /\ Rests(v)
        BY <3>1 DEF Owned
      <4>2. job[w] # None
        BY <3>1, RestartBatchAssumption DEF Types
      <4>3. v = w
        BY <2>1, <4>1, <4>2 DEF Jobs
      <4>4. QED
        BY <4>1, <4>3 DEF Rests
    <3>2. QED
      BY <3>1 DEF ActiveWorkers
  <2>3. QED
    BY <2>1, <2>2 DEF Gates, Holders
<1>2. QED
  BY <1>1, TypesInductive, GatesInductive, JobsInductive, OwnedInductive, PTL

(* No more tenants than tokens have a worker whose status is on its way. *)
LEMMA FewActivesAlways ==
    ASSUME DelayOutlastsReceiver PROVE Spec => []FewActives
<1>a. /\ IsFiniteSet(ActiveHandlers) /\ IsFiniteSet(ActiveHandlers')
      /\ Cardinality(ActiveHandlers) \in Nat
      /\ Cardinality(ActiveHandlers') \in Nat
      /\ IsFiniteSet(Holders') /\ Cardinality(Holders') \in Nat
  <2>1. /\ ActiveHandlers \in SUBSET Handlers
        /\ ActiveHandlers' \in SUBSET Handlers
        /\ Holders' \in SUBSET Handlers
    BY DEF ActiveHandlers, Holders
  <2>2. QED
    BY <2>1, FiniteSets, FS_Subset, FS_CardinalityType
<1>1. Init => FewActives
  <2> SUFFICES ASSUME Init PROVE FewActives
    OBVIOUS
  <2>1. ActiveHandlers = {}
    BY DEF Init, ActiveHandlers, ActiveWorkers
  <2>2. QED
    BY <2>1, FS_EmptySet, RestartBatchAssumption DEF FewActives
<1>2. /\ Types /\ Gates /\ Jobs /\ FewActives
      /\ Counts' /\ ActivesHold'
      /\ [Next]_vars
      => FewActives'
  <2> SUFFICES ASSUME Types, Gates, Jobs, FewActives, Counts', ActivesHold',
                      [Next]_vars, ByTenant'
               PROVE  Cardinality(ActiveHandlers') <= TenantsInflight
    BY DEF FewActives
  <2>a. \A w \in Workers : w[1] \in Handlers
    BY DEF Workers
  <2>1. filtered' = filtered /\ (ByTenant' <=> ByTenant)
    BY DEF Next, MainStep, HandlerStep, WorkerStep, ReceiverStep,
           vars, DispatchAll, SpawnTenant, SpawnsOver, DispatchOver, Join,
           Offer, Skip, CloseQueue, StopHandler, Park, Dequeue, Send,
           RestartNode, DelayElapses, Exit, Receive, ReceiverExits,
           Cancel, Returned, ByTenant
  <2>2. CASE ~cancelled'
    <3>1. ActiveHandlers' \subseteq Holders'
      BY <2>2 DEF ActivesHold
    <3>2. Cardinality(ActiveHandlers') <= Cardinality(Holders')
      BY <3>1, <1>a, FS_Subset
    <3>3. Cardinality(Holders') <= TenantsInflight
      BY DEF Counts
    <3>4. QED
      BY <1>a, <3>2, <3>3, RestartBatchAssumption
  <2>3. CASE cancelled'
    <3>1. ActiveWorkers' \subseteq ActiveWorkers
      <4> SUFFICES ASSUME NEW w \in Workers, w \in ActiveWorkers'
                   PROVE  w \in ActiveWorkers
        BY DEF ActiveWorkers
      <4>1. ASSUME NEW v \in Workers, WorkerStep(v) PROVE w \in ActiveWorkers
        <5>1. cancelled /\ ~Dequeue(v)
          BY <2>3, <4>1, <2>a DEF WorkerStep, Park, Dequeue, RestartNode,
                 Send, DelayElapses, Exit, Gates
        <5>2. CASE Send(v)
          <6>1. job' = job /\ statusCh' = statusCh \cup {job[v]}
            BY <5>2 DEF Send
          <6>2. v \in ActiveWorkers /\ job[v] # None
            BY <5>2, RestartBatchAssumption DEF Send, ActiveWorkers, Types
          <6>3. CASE w = v
            BY <6>2, <6>3
          <6>4. CASE w # v
            <7>1. job[w] # job[v]
              BY <6>2, <6>4 DEF Jobs
            <7>2. QED
              BY <5>2, <6>1, <6>4, <7>1 DEF Send, ActiveWorkers, Types
          <6>5. QED
            BY <6>3, <6>4
        <5>3. QED
          BY <4>1, <5>1, <5>2 DEF WorkerStep, Park, RestartNode,
                 DelayElapses, Exit, ActiveWorkers, Types, receiverVars
      <4>2. ASSUME NEW h \in Handlers, HandlerStep(h)
            PROVE  w \in ActiveWorkers
        BY <4>2 DEF HandlerStep, SpawnTenant, RunHandler, Offer,
               Skip, CloseQueue, StopHandler, workerVars, receiverVars,
               ActiveWorkers, Types
      <4>3. CASE MainStep \/ ReceiverStep \/ Cancel \/ UNCHANGED vars
        BY <4>3 DEF MainStep, DispatchAll, RunHandler, SpawnsOver,
               DispatchOver, Join, ReceiverStep, Receive, ReceiverExits,
               Cancel, vars, workerVars, receiverVars, ActiveWorkers, Types
      <4>4. QED
        BY <4>1, <4>2, <4>3 DEF Next, Returned
    <3>2. ActiveHandlers' \subseteq ActiveHandlers
      BY <3>1 DEF ActiveHandlers
    <3>3. Cardinality(ActiveHandlers') <= Cardinality(ActiveHandlers)
      BY <3>2, <1>a, FS_Subset
    <3>4. Cardinality(ActiveHandlers') \in Nat
      BY <1>a
    <3>5. QED
      BY <1>a, <2>1, <3>3, <3>4, RestartBatchAssumption DEF FewActives
  <2>4. QED
    BY <2>2, <2>3
<1>3. QED
  BY <1>1, <1>2, TypesInductive, GatesInductive, JobsInductive,
     CountsInductive, ActivesHoldAlways, PTL DEF Spec

(* A worker never waits for room in the status channel, so the loop of its *)
(* handler ends with the context even if the receiver is gone.  The        *)
(* premise is the one this depends on: run batch_stuck shows the same      *)
(* workers blocked for good under a short delay.                           *)
THEOREM SendNeverBlocksSafe ==
    ASSUME DelayOutlastsReceiver PROVE Spec => []SendNeverBlocks
<1>1. Types /\ Gates /\ Counts /\ Jobs /\ Owned /\ FewActives
        => SendNeverBlocks
  <2> SUFFICES ASSUME Types, Gates, Counts, Jobs, Owned, FewActives,
                      NEW w \in Workers, worker[w] = "send"
               PROVE  Cardinality(statusCh) < Capacity
    BY DEF SendNeverBlocks
  <2> DEFINE Due == statusCh \cup {job[w]}
             Places == ActiveHandlers \X Slots
             place == [n \in Due |-> CHOOSE v \in Workers : job[v] = n]
  <2>1. \A n \in Due : n # None /\ \E v \in Workers : job[v] = n
    BY RestartBatchAssumption DEF Types, Owned
  <2>2. \A n \in Due : place[n] \in Workers /\ job[place[n]] = n
    BY <2>1
  <2>3. \A n \in Due : place[n] \in ActiveWorkers
    <3> SUFFICES ASSUME NEW n \in Due PROVE place[n] \in ActiveWorkers
      OBVIOUS
    <3>1. CASE n \in statusCh
      BY <2>2, <3>1 DEF ActiveWorkers
    <3>2. CASE n = job[w]
      <4>1. place[n] = w
        BY <2>1, <2>2, <3>2 DEF Jobs
      <4>2. QED
        BY <4>1 DEF ActiveWorkers
    <3>3. QED
      BY <3>1, <3>2
  <2>4. place \in Injection(Due, Places)
    <3>1. \A n \in Due : place[n] \in Places
      <4>1. \A v \in ActiveWorkers : v \in Places
        BY DEF ActiveWorkers, Workers, ActiveHandlers
      <4>2. QED
        BY <2>3, <4>1
    <3>2. \A m, n \in Due : place[m] = place[n] => m = n
      BY <2>2
    <3>3. QED
      BY <3>1, <3>2 DEF Injection, IsInjective
  <2>5. /\ IsFiniteSet(ActiveHandlers)
        /\ Cardinality(ActiveHandlers) \in Nat
    <3>1. ActiveHandlers \in SUBSET Handlers
      BY DEF ActiveHandlers
    <3>2. QED
      BY <3>1, FiniteSets, FS_Subset, FS_CardinalityType
  <2>6. /\ IsFiniteSet(Places)
        /\ Cardinality(Places) = Cardinality(ActiveHandlers) * NodesInflight
    <3>1. IsFiniteSet(Slots) /\ Cardinality(Slots) = NodesInflight
      BY FS_Interval, RestartBatchAssumption DEF Slots
    <3>2. QED
      BY <2>5, <3>1, FS_Product
  <2>7. Cardinality(Due) <= Cardinality(Places)
    BY <2>4, <2>6, FS_Injection
  <2>8. Cardinality(Due) = Cardinality(statusCh) + 1
    <3>1. job[w] \notin statusCh
      <4> SUFFICES ASSUME job[w] \in statusCh PROVE FALSE
        OBVIOUS
      <4>1. PICK v \in Workers : job[v] = job[w] /\ Rests(v)
        BY DEF Owned
      <4>2. v = w
        BY <2>1, <4>1 DEF Jobs
      <4>3. QED
        BY <4>1, <4>2 DEF Rests
    <3>2. QED
      BY <3>1, FiniteSets, FS_AddElement
  <2>9. Cardinality(Places) <= Capacity
    <3>1. CASE ByTenant
      <4>1. /\ Cardinality(ActiveHandlers) <= TenantsInflight
            /\ TenantsInflight > 0
        BY <3>1 DEF FewActives, ByTenant
      <4>2. \A a, b, c \in Nat : a <= b => a * c <= c * b
        OBVIOUS
      <4>3. Cardinality(ActiveHandlers) * NodesInflight
              <= NodesInflight * TenantsInflight
        BY <2>5, <4>1, <4>2, RestartBatchAssumption
      <4>4. QED
        BY <2>6, <4>1, <4>3 DEF Capacity
    <3>2. CASE ~ByTenant
      <4>1. ActiveHandlers \in SUBSET {None}
        <5> SUFFICES ASSUME NEW v \in ActiveWorkers PROVE v[1] = None
          BY DEF ActiveHandlers
        <5>1. v \in Workers /\ v[1] \in Handlers
          BY DEF ActiveWorkers, Workers
        <5>2. v[1] \in Tenants => worker[v] = "off"
          BY <3>2, <5>1 DEF Gates
        <5>3. job[v] \in statusCh => v[1] = None
          BY <2>1, <3>2, <5>1 DEF Jobs, HandlerOf
        <5>4. QED
          BY <5>1, <5>2, <5>3 DEF ActiveWorkers, Handlers
      <4>2. Cardinality(ActiveHandlers) <= 1
        <5>1. IsFiniteSet({None}) /\ Cardinality({None}) = 1
          BY FS_Singleton
        <5>2. QED
          BY <4>1, <5>1, FS_Subset
      <4>3. \A a, c \in Nat : a <= 1 => a * c <= c
        OBVIOUS
      <4>4. Cardinality(Places) <= NodesInflight
        BY <2>5, <2>6, <4>2, <4>3, RestartBatchAssumption
      <4>5. NodesInflight <= Capacity
        <5>1. \A c, t \in Nat : t > 0 => c <= c * t
          OBVIOUS
        <5>2. QED
          BY <5>1, RestartBatchAssumption DEF Capacity
      <4>6. Cardinality(Places) \in Nat
        BY <2>6, FS_CardinalityType
      <4>7. QED
        BY <4>4, <4>5, <4>6, FiniteSets, RestartBatchAssumption
    <3>3. QED
      BY <3>1, <3>2
  <2>10. /\ Cardinality(statusCh) \in Nat /\ Cardinality(Places) \in Nat
         /\ Capacity \in Nat
    BY <2>6, FiniteSets, FS_CardinalityType
  <2>11. QED
    BY <2>7, <2>8, <2>9, <2>10
<1>2. QED
  BY <1>1, TypesInductive, GatesInductive, CountsInductive, JobsInductive,
     OwnedInductive, FewActivesAlways, PTL
=============================================================================
