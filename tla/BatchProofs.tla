----------------------------- MODULE BatchProofs -----------------------------
(***************************************************************************)
(* The goroutines of RestartBatch keep the promise of Batch, on which      *)
(* Rolling is built: every step of theirs is one of Batch or changes       *)
(* nothing that Batch speaks of.  And they keep going: they never all wait *)
(* for each other, and every step brings the end nearer.                   *)
(***************************************************************************)
EXTENDS RestartBatchProofs

(* A node is restarted once in a batch, and its status exists from the end *)
(* of the restart until the receiver takes it.                             *)
Statuses ==
    /\ \A n \in toPush : outcome[n] = "none"
    /\ \A w \in Workers : worker[w] = "restart" => outcome[job[w]] = "none"
    /\ \A w \in Workers :
          worker[w] = "send" => outcome[job[w]] # "none" /\ job[w] \notin statusCh
    /\ \A n \in statusCh : outcome[n] # "none"

(* The nodes whose status has been taken. *)
Received ==
    {n \in filtered :
        /\ outcome[n] # "none" /\ n \notin statusCh
        /\ \A w \in Workers : worker[w] = "send" => job[w] # n}

(* The receiver counts them, and leaves early only for a signal.           *)
Tally ==
    /\ taken = Cardinality(Received)
    /\ receiver = "off" /\ ~cancelled => taken = Cardinality(filtered)

(* What it makes of each.                                                  *)
Verdicts ==
    /\ completed \cap filtered \subseteq Received
    /\ \A n \in Received :
          n \in completed <=> outcome[n] = "ok" \/ retries[n] = RetryNumber
    /\ completed \subseteq unreported

BInv == Types /\ Gates /\ Jobs /\ Statuses

-----------------------------------------------------------------------------
(* The steps by what they do to the statuses. *)

(* Neither a restart nor a status is begun, ended or moved.                *)
Quiet ==
    /\ UNCHANGED <<filtered, outcome, statusCh, taken, completed, unreported,
                   retries>>
    /\ toPush' \subseteq toPush
    /\ \A w \in Workers :
          /\ worker'[w] = "restart" <=> worker[w] = "restart"
          /\ worker'[w] = "send" <=> worker[w] = "send"
          /\ job'[w] = job[w]

LEMMA StepsSorted ==
    ASSUME Types, Gates, Next
    PROVE  \/ Quiet
           \/ \E w \in Workers : Dequeue(w) \/ RestartNode(w) \/ Send(w)
           \/ \E n \in Nodes : Receive(n)
<1> USE DEF Types
<1>1. \A w \in Workers : w[1] \in Handlers
  BY DEF Workers
<1>2. CASE MainStep
  BY <1>1, <1>2 DEF MainStep, DispatchAll, RunHandler, SpawnsOver, DispatchOver,
     Join, receiverVars, workerVars, Quiet, Gates
<1>3. ASSUME NEW h \in Handlers, SpawnTenant(h) PROVE Quiet
  BY <1>1, <1>3 DEF SpawnTenant, RunHandler, receiverVars, Quiet, Gates
<1>4. ASSUME NEW h \in Handlers,
             Offer(h) \/ Skip(h) \/ CloseQueue(h) \/ StopHandler(h)
      PROVE  Quiet
  BY <1>4 DEF Offer, Skip, CloseQueue, StopHandler, receiverVars, workerVars,
     Quiet
<1>5. ASSUME NEW w \in Workers, Park(w) \/ DelayElapses(w) \/ Exit(w)
      PROVE  Quiet
  BY <1>5 DEF Park, DelayElapses, Exit, MayExit, receiverVars, dispatchVars,
     Quiet
<1>6. CASE ReceiverExits
  BY <1>6 DEF ReceiverExits, workerVars, dispatchVars, Quiet
<1>7. CASE Cancel
  BY <1>7 DEF Cancel, receiverVars, Quiet
<1>8. CASE Returned
  BY <1>8 DEF Returned, vars, receiverVars, workerVars, dispatchVars, Quiet
<1> QED
  BY <1>2, <1>3, <1>4, <1>5, <1>6, <1>7, <1>8
     DEF Next, HandlerStep, WorkerStep, ReceiverStep

-----------------------------------------------------------------------------
LEMMA StatusesInductive == Spec => []Statuses
<1>1. Init => Statuses
  BY DEF Init, Statuses, Types
<1>2. Types /\ Gates /\ Jobs /\ Statuses /\ [Next]_vars => Statuses'
  <2> SUFFICES ASSUME Types, Gates, Jobs, Statuses, [Next]_vars PROVE Statuses'
    OBVIOUS
  <2> USE DEF Types, Statuses
  <2>1. CASE Quiet
    BY <2>1 DEF Quiet
  <2>2. ASSUME NEW w \in Workers, Dequeue(w) PROVE Statuses'
    <3>1. PICK n \in Pending(w[1]) : /\ toPush' = toPush \ {n}
                                     /\ job' = [job EXCEPT ![w] = n]
      BY <2>2 DEF Dequeue
    <3>2. n \in toPush
      BY <3>1 DEF Pending
    <3>3. /\ worker' = [worker EXCEPT ![w] = "restart"]
          /\ outcome' = outcome /\ statusCh' = statusCh
      BY <2>2 DEF Dequeue, receiverVars
    <3> QED
      BY <3>1, <3>2, <3>3
  <2>3. ASSUME NEW w \in Workers, RestartNode(w) PROVE Statuses'
    <3>1. /\ worker[w] = "restart" /\ job[w] \in filtered
          /\ worker' = [worker EXCEPT ![w] = "send"]
          /\ job' = job /\ toPush' = toPush /\ statusCh' = statusCh
      BY <2>3 DEF RestartNode, dispatchVars, receiverVars
    <3>2. PICK o \in {"ok", "err"} : outcome' = [outcome EXCEPT ![job[w]] = o]
      BY <2>3 DEF RestartNode
    <3>3. job[w] \notin toPush /\ job[w] \notin statusCh /\ job[w] # None
      BY <3>1, RestartBatchAssumption DEF Jobs
    <3>4. \A v \in Workers : v # w => job[v] # job[w]
      BY <3>3 DEF Jobs
    <3> QED
      BY <3>1, <3>2, <3>3, <3>4
  <2>4. ASSUME NEW w \in Workers, Send(w) PROVE Statuses'
    <3>1. job[w] \in filtered /\ job[w] # None
      BY <2>4, RestartBatchAssumption DEF Send
    <3>2. \A v \in Workers : v # w => job[v] # job[w]
      BY <3>1 DEF Jobs
    <3> QED
      BY <2>4, <3>1, <3>2 DEF Send, dispatchVars
  <2>5. ASSUME NEW n \in Nodes, Receive(n) PROVE Statuses'
    BY <2>5 DEF Receive, workerVars, dispatchVars
  <2>6. CASE UNCHANGED vars
    BY <2>6 DEF vars, dispatchVars, workerVars, receiverVars
  <2> QED
    BY <2>1, <2>2, <2>3, <2>4, <2>5, <2>6, StepsSorted
<1> QED
  BY <1>1, <1>2, TypesInductive, GatesInductive, JobsInductive, PTL DEF Spec

LEMMA BatchInvariant == Spec => []BInv
  BY TypesInductive, GatesInductive, JobsInductive, StatusesInductive, PTL
     DEF BInv

-----------------------------------------------------------------------------
(* A status is received by Receive only, and is final.                     *)
LEMMA ReceivedOnce ==
    ASSUME BInv, [Next]_vars
    PROVE  \/ \E n \in Nodes : /\ Receive(n) /\ n \notin Received
                               /\ n \in filtered
                               /\ Received' = Received \cup {n}
                               /\ outcome' = outcome
           \/ /\ Received' = Received
              /\ UNCHANGED <<filtered, taken, completed, unreported, retries>>
              /\ \A n \in Received : outcome'[n] = outcome[n]
<1> USE DEF BInv, Types, Statuses
<1>1. CASE Quiet
  BY <1>1 DEF Quiet, Received
<1>2. ASSUME NEW w \in Workers, Dequeue(w)
      PROVE  /\ Received' = Received
             /\ UNCHANGED <<filtered, taken, completed, unreported, retries>>
             /\ outcome' = outcome
  <2>1. PICK n \in Pending(w[1]) : job' = [job EXCEPT ![w] = n]
    BY <1>2 DEF Dequeue
  <2>2. /\ worker' = [worker EXCEPT ![w] = "restart"] /\ worker[w] # "send"
        /\ UNCHANGED <<filtered, outcome, receiverVars>>
    BY <1>2 DEF Dequeue
  <2> QED
    BY <2>1, <2>2 DEF Received, receiverVars
<1>3. ASSUME NEW w \in Workers, RestartNode(w)
      PROVE  /\ Received' = Received
             /\ UNCHANGED <<filtered, taken, completed, unreported, retries>>
             /\ \A n \in Received : outcome'[n] = outcome[n]
  <2>1. PICK o \in {"ok", "err"} : outcome' = [outcome EXCEPT ![job[w]] = o]
    BY <1>3 DEF RestartNode
  <2>2. /\ worker[w] = "restart" /\ worker' = [worker EXCEPT ![w] = "send"]
        /\ UNCHANGED <<filtered, job, receiverVars>>
    BY <1>3 DEF RestartNode
  <2>3. job[w] \notin Received /\ job[w] \notin Received'
    BY <2>2 DEF Received
  <2>4. \A n \in filtered : n # job[w] => outcome'[n] = outcome[n]
    BY <2>1
  <2>5. \A n \in filtered : n # job[w] => (n \in Received' <=> n \in Received)
    BY <2>2, <2>4 DEF Received, receiverVars
  <2>6. Received \subseteq filtered /\ Received' \subseteq filtered
    BY <2>2 DEF Received
  <2>7. Received' = Received
    BY <2>3, <2>5, <2>6
  <2> QED
    BY <2>2, <2>3, <2>4, <2>6, <2>7 DEF receiverVars
<1>4. ASSUME NEW w \in Workers, Send(w)
      PROVE  /\ Received' = Received
             /\ UNCHANGED <<filtered, taken, completed, unreported, retries>>
             /\ outcome' = outcome
  BY <1>4 DEF Send, Received
<1>5. ASSUME NEW n \in Nodes, Receive(n)
      PROVE  /\ Receive(n) /\ n \notin Received
             /\ n \in filtered
             /\ Received' = Received \cup {n}
             /\ outcome' = outcome
  BY <1>5 DEF Receive, Received, workerVars
<1>6. CASE UNCHANGED vars
  BY <1>6 DEF vars, workerVars, receiverVars, Received
<1> QED
  BY <1>1, <1>2, <1>3, <1>4, <1>5, <1>6, StepsSorted

LEMMA TallyInductive == Spec => []Tally
<1>1. Init => Tally
  <2> SUFFICES ASSUME Init PROVE Tally
    OBVIOUS
  <2>1. Received = {} /\ taken = 0 /\ receiver = "on"
    BY DEF Init, Received
  <2> QED
    BY <2>1, FS_EmptySet DEF Tally
<1>2. BInv /\ Tally /\ [Next]_vars => Tally'
  <2> SUFFICES ASSUME BInv, Tally, [Next]_vars PROVE Tally'
    OBVIOUS
  <2>1. IsFiniteSet(Received)
    <3>1. Received \in SUBSET filtered
      BY DEF Received
    <3> QED
      BY <3>1, FiniteSets, FS_Subset DEF BInv
  <2>2. taken' = Cardinality(Received')
    <3>1. ASSUME NEW n \in Nodes, Receive(n), n \notin Received,
                 Received' = Received \cup {n}
          PROVE  taken' = Cardinality(Received')
      BY <3>1, <2>1, FS_AddElement DEF Receive, Tally
    <3> QED
      BY <3>1, ReceivedOnce DEF Tally
  <2>3. receiver' = "off" /\ ~cancelled' => taken' = Cardinality(filtered')
    BY DEF Next, MainStep, HandlerStep, WorkerStep, ReceiverStep,
       vars, DispatchAll, SpawnTenant, SpawnsOver, DispatchOver, Join,
       Offer, Skip, CloseQueue, StopHandler, Park, Dequeue, Send,
       RestartNode, DelayElapses, Exit, Receive, ReceiverExits,
       Cancel, Returned, receiverVars, Tally
  <2> QED
    BY <2>2, <2>3 DEF Tally
<1> QED
  BY <1>1, <1>2, BatchInvariant, PTL DEF Spec

LEMMA VerdictsInductive == Spec => []Verdicts
<1>1. Init => Verdicts
  BY DEF Init, Verdicts, Received
<1>2. BInv /\ Verdicts /\ [Next]_vars => Verdicts'
  <2> SUFFICES ASSUME BInv, Verdicts, [Next]_vars PROVE Verdicts'
    OBVIOUS
  <2> USE RestartBatchAssumption DEF BInv, Types, Verdicts
  <2>1. ASSUME NEW n \in Nodes, Receive(n), n \notin Received, n \in filtered,
               Received' = Received \cup {n}, outcome' = outcome
        PROVE  Verdicts'
    <3>1. n \notin completed
      BY <2>1
    <3>2. filtered' = filtered
      BY <2>1 DEF Receive
    <3>3. \A m \in Received : retries'[m] = retries[m]
      BY <2>1 DEF Receive, Received
    <3>4. /\ completed' = IF Finished(n) THEN completed \cup {n} ELSE completed
          /\ unreported' = IF Finished(n) THEN unreported \cup {n} ELSE unreported
          /\ retries'[n] = IF outcome[n] = "ok" THEN retries[n] ELSE retries[n] + 1
      BY <2>1 DEF Receive
    <3>5. n \in completed' <=> outcome'[n] = "ok" \/ retries'[n] = RetryNumber
      BY <2>1, <3>1, <3>4 DEF Finished
    <3>6. \A m \in Received : m \in completed' <=> m \in completed
      BY <2>1, <3>4
    <3>7. \A m \in Received' :
              m \in completed' <=> outcome'[m] = "ok" \/ retries'[m] = RetryNumber
      BY <2>1, <3>3, <3>5, <3>6
    <3>8. completed' \cap filtered' \subseteq Received'
      BY <2>1, <3>2, <3>4
    <3> QED
      BY <3>4, <3>7, <3>8
  <2> QED
    BY <2>1, ReceivedOnce
<1> QED
  BY <1>1, <1>2, BatchInvariant, PTL DEF Spec

(* Without a signal nothing is left to do when the receiver has left.      *)
LEMMA AllReceived ==
    ASSUME BInv, Tally, receiver = "off", ~cancelled
    PROVE  Received = filtered
<1>1. Received \in SUBSET filtered /\ IsFiniteSet(filtered)
  BY FiniteSets DEF Received, BInv
<1>2. Cardinality(Received) = Cardinality(filtered)
  BY DEF Tally
<1> QED
  BY <1>1, <1>2, FS_Subset

-----------------------------------------------------------------------------
(* An action reported to the CMS as completed was restarted well or tried  *)
(* RetryNumber times, and unless a signal came every node was restarted    *)
(* and everything that may be reported is (processActionGroupStates,       *)
(* handleRestartStatus).                                                   *)
THEOREM CompletedJustifiedSafe == Spec => []CompletedJustified
<1>1. ASSUME BInv, Tally, Verdicts PROVE CompletedJustified
  <2> SUFFICES ASSUME main = "return" PROVE CompletedJustified
    BY DEF CompletedJustified
  <2>1. receiver = "off"
    BY <1>1 DEF BInv, Gates
  <2>2. \A n \in completed \cap filtered :
            outcome[n] = "ok" \/ (outcome[n] = "err" /\ retries[n] = RetryNumber)
    BY <1>1 DEF BInv, Types, Verdicts, Received
  <2>3. ASSUME ~cancelled, NEW n \in filtered
        PROVE  /\ outcome[n] # "none"
               /\ outcome[n] = "ok" \/ retries[n] = RetryNumber => n \in completed
    <3>1. n \in Received
      BY <1>1, <2>1, <2>3, AllReceived
    <3> QED
      BY <1>1, <3>1 DEF Verdicts, Received
  <2> QED
    BY <1>1, <2>2, <2>3 DEF CompletedJustified, Verdicts
<1> QED
  BY <1>1, BatchInvariant, TallyInductive, VerdictsInductive, PTL

-----------------------------------------------------------------------------
(* The refinement. *)
Todo == {n \in filtered : outcome[n] = "none" /\ n \notin Restarting}
Unsent == {job[w] : w \in {v \in Workers : worker[v] = "send"}}
Awaiting == Unsent \cup statusCh

(* A quiet step changes nothing of the contract but, perhaps, cancelled    *)
(* and open.                                                               *)
LEMMA QuietStep ==
    ASSUME Quiet
    PROVE  /\ Restarting' = Restarting /\ Todo' = Todo /\ Awaiting' = Awaiting
           /\ UNCHANGED <<filtered, outcome, completed, unreported, retries>>
<1>1. Restarting' = Restarting /\ Unsent' = Unsent
  BY DEF Quiet, Restarting, Unsent
<1> QED
  BY <1>1 DEF Quiet, Todo, Awaiting

(* Batch and RestartBatch extend FiniteSets each for itself. *)
LEMMA SameCardinality ==
    ASSUME NEW S
    PROVE  Contract!Cardinality(S) = Cardinality(S)
  BY DEF Contract!Cardinality, Cardinality

LEMMA DequeueStarts ==
    ASSUME BInv, NEW w \in Workers, Dequeue(w), InflightLimits'
    PROVE  \E n \in Nodes : Contract!Start(n)
<1> USE DEF BInv, Types
<1>1. PICK n \in Pending(w[1]) : job' = [job EXCEPT ![w] = n]
  BY DEF Dequeue
<1>2. /\ n \in toPush /\ n \in filtered /\ n \in Nodes /\ outcome[n] = "none"
      /\ \A v \in Workers : job[v] # n
  BY <1>1, RestartBatchAssumption DEF Pending, Statuses, Jobs
<1>3. /\ worker' = [worker EXCEPT ![w] = "restart"]
      /\ worker[w] \notin {"restart", "send"}
      /\ UNCHANGED <<filtered, cancelled, main, outcome, receiverVars>>
  BY DEF Dequeue
<1>4. ~cancelled /\ main # "return"
  BY DEF Dequeue, Gates, Workers
<1>5. Restarting' = Restarting \cup {n}
  BY <1>1, <1>3 DEF Restarting
<1>6. n \notin Restarting
  BY <1>2 DEF Restarting
<1>7. Unsent' = Unsent
  BY <1>1, <1>3 DEF Unsent
<1>8. Todo' = Todo \ {n} /\ n \in Todo
  BY <1>2, <1>3, <1>5, <1>6 DEF Todo
<1>9. Contract!WithinLimits(filtered, Restarting \cup {n})
  <2> DEFINE S == Restarting \cup {n}
  <2>1. ByTenant' <=> ByTenant
    BY <1>3 DEF ByTenant
  <2>2. ByTenant <=> Contract!DispatchedByTenant(filtered)
    BY DEF ByTenant, Contract!DispatchedByTenant
  <2>3. CASE ByTenant
    <3>1. /\ Cardinality({Tenant[m] : m \in Restarting'}) <= TenantsInflight
          /\ \A t \in Tenants :
                 Cardinality({m \in Restarting' : Tenant[m] = t})
                     <= NodesInflight
      BY <2>1, <2>3 DEF InflightLimits
    <3>2. /\ Cardinality({Tenant[m] : m \in S}) <= TenantsInflight
          /\ \A t \in Tenants :
                 Cardinality({m \in S : Tenant[m] = t}) <= NodesInflight
      BY <1>5, <3>1
    <3> QED
      BY <2>2, <2>3, <3>2, SameCardinality DEF Contract!WithinLimits
  <2>4. CASE ~ByTenant
    <3>1. Cardinality(S) <= NodesInflight
      BY <1>5, <2>1, <2>4 DEF InflightLimits
    <3> QED
      BY <2>2, <2>4, <3>1, SameCardinality DEF Contract!WithinLimits
  <2> QED
    BY <2>3, <2>4
<1> QED
  BY <1>2, <1>3, <1>4, <1>5, <1>7, <1>8, <1>9
     DEF Contract!Start, Todo, Unsent, receiverVars

LEMMA RestartFinishes ==
    ASSUME BInv, NEW w \in Workers, RestartNode(w)
    PROVE  \E n \in Nodes : Contract!Finish(n)
<1> USE DEF BInv, Types
<1> DEFINE n == job[w]
<1>1. PICK o \in {"ok", "err"} : outcome' = [outcome EXCEPT ![n] = o]
  BY DEF RestartNode
<1>2. /\ worker[w] = "restart" /\ worker' = [worker EXCEPT ![w] = "send"]
      /\ n \in filtered /\ n \in Nodes /\ n # None
      /\ UNCHANGED <<filtered, cancelled, main, job, receiverVars>>
  BY RestartBatchAssumption DEF RestartNode, dispatchVars
<1>3. \A v \in Workers : v # w => job[v] # n
  BY <1>2 DEF Jobs
<1>4. n \in Restarting /\ Restarting' = Restarting \ {n}
  BY <1>2, <1>3 DEF Restarting
<1>5. Unsent' = Unsent \cup {n}
  BY <1>2 DEF Unsent
<1>6. Todo' = Todo
  <2>1. \A m \in filtered : m # n => outcome'[m] = outcome[m]
    BY <1>1
  <2>2. outcome'[n] # "none"
    BY <1>1, <1>2
  <2> QED
    BY <1>2, <1>4, <2>1, <2>2 DEF Todo
<1> QED
  BY <1>1, <1>2, <1>4, <1>5, <1>6
     DEF Contract!Finish, Todo, Unsent, receiverVars

LEMMA SendStutters ==
    ASSUME BInv, NEW w \in Workers, Send(w)
    PROVE  UNCHANGED Contract!batchVars
<1> USE DEF BInv, Types
<1>1. /\ worker[w] = "send" /\ worker' = [worker EXCEPT ![w] = "delay"]
      /\ statusCh' = statusCh \cup {job[w]}
      /\ UNCHANGED <<filtered, cancelled, main, job, outcome, completed,
                     unreported, retries>>
  BY DEF Send, dispatchVars
<1>2. Restarting' = Restarting
  BY <1>1 DEF Restarting
<1>3. Awaiting' = Awaiting
  BY <1>1 DEF Awaiting, Unsent
<1>4. Todo' = Todo
  BY <1>1, <1>2 DEF Todo
<1> QED
  BY <1>1, <1>2, <1>3, <1>4 DEF Contract!batchVars, Awaiting, Unsent, Todo

LEMMA ReceiveRecords ==
    ASSUME BInv, NEW n \in Nodes, Receive(n)
    PROVE  Contract!Record(n)
<1> USE DEF BInv, Types
<1>1. /\ n \in statusCh /\ statusCh' = statusCh \ {n}
      /\ UNCHANGED <<filtered, cancelled, main, worker, job, outcome>>
  BY DEF Receive, dispatchVars, workerVars
<1>2. main # "return"
  BY DEF Receive, Gates
<1>3. Restarting' = Restarting /\ Unsent' = Unsent
  BY <1>1 DEF Restarting, Unsent
<1>4. n \notin Unsent
  BY <1>1 DEF Unsent, Statuses
<1>5. Awaiting' = Awaiting \ {n} /\ n \in Awaiting
  BY <1>1, <1>3, <1>4 DEF Awaiting
<1>6. Todo' = Todo
  BY <1>1, <1>3 DEF Todo
<1> QED
  BY <1>1, <1>2, <1>3, <1>5, <1>6
     DEF Receive, Finished, Contract!Record, Contract!Finished, Todo, Awaiting,
         Unsent

LEMMA JoinReturns ==
    ASSUME BInv, Tally, Join, Quiet
    PROVE  Contract!Return
<1> USE DEF BInv, Types
<1>1. /\ main = "join" /\ main' = "return" /\ receiver = "off"
      /\ UNCHANGED <<filtered, cancelled>>
  BY DEF Join
<1>2. \A w \in Workers : worker[w] \in {"off", "exit"}
  BY <1>1 DEF Gates, Workers
<1>3. Restarting = {} /\ Unsent = {}
  BY <1>2 DEF Restarting, Unsent
<1>4. ASSUME ~cancelled PROVE Todo = {} /\ Awaiting = {}
  <2>1. Received = filtered
    BY <1>1, <1>4, AllReceived
  <2> QED
    BY <1>3, <2>1 DEF Received, Todo, Awaiting
<1> QED
  BY <1>1, <1>3, <1>4, QuietStep DEF Contract!Return, Todo, Awaiting, Unsent

(* Every other quiet step stutters or is the signal.                       *)
LEMMA QuietStutters ==
    ASSUME BInv, Next, Quiet, ~Join
    PROVE  Contract!Cancel \/ UNCHANGED Contract!batchVars
<1>1. CASE Cancel
  BY <1>1, QuietStep DEF Cancel, Contract!Cancel, Todo, Awaiting, Unsent
<1>2. CASE ~Cancel
  <2>1. cancelled' = cancelled /\ (main' = "return" <=> main = "return")
    BY <1>2 DEF Next, MainStep, HandlerStep, WorkerStep, ReceiverStep,
       vars, DispatchAll, SpawnTenant, SpawnsOver, DispatchOver,
       Offer, Skip, CloseQueue, StopHandler, Park, Dequeue, Send,
       RestartNode, DelayElapses, Exit, Receive, ReceiverExits,
       Returned, dispatchVars
  <2> QED
    BY <2>1, QuietStep DEF Contract!batchVars, Todo, Awaiting, Unsent
<1> QED
  BY <1>1, <1>2

(* The goroutines, channels and wait groups of a batch implement what the  *)
(* loop relies on: nodes start within the limits and never after a signal, *)
(* each status is counted once, and control comes back when nothing is     *)
(* being restarted and, but for a signal, nothing is left to do.           *)
THEOREM ImplementsBatchSafe == Spec => ImplementsBatch
<1>1. Init => Contract!Init
  <2> SUFFICES ASSUME Init PROVE Contract!Init
    OBVIOUS
  <2>1. Restarting = {} /\ Unsent = {}
    BY DEF Init, Restarting, Unsent
  <2>2. filtered \subseteq Nodes
    BY DEF Init
  <2>3. Todo = filtered /\ Awaiting = {}
    BY <2>1, <2>2 DEF Init, Todo, Awaiting
  <2>4. retries \in [Nodes -> Nat]
    BY RestartBatchAssumption DEF Init
  <2> QED
    BY <2>1, <2>3, <2>4 DEF Init, Contract!Init, Todo, Awaiting, Unsent
<1>2. ASSUME BInv, Tally, InflightLimits', [Next]_vars
      PROVE  [Contract!Next]_Contract!batchVars
  <2>1. CASE UNCHANGED vars
    BY <2>1 DEF vars, dispatchVars, workerVars, receiverVars,
       Contract!batchVars, Restarting
  <2>2. CASE Quiet /\ Next
    BY <1>2, <2>2, JoinReturns, QuietStutters DEF Contract!Next
  <2>3. ASSUME NEW w \in Workers, Dequeue(w) \/ RestartNode(w) \/ Send(w)
        PROVE  [Contract!Next]_Contract!batchVars
    BY <1>2, <2>3, DequeueStarts, RestartFinishes, SendStutters
       DEF Contract!Next
  <2>4. ASSUME NEW n \in Nodes, Receive(n) PROVE Contract!Next
    BY <1>2, <2>4, ReceiveRecords DEF Contract!Next
  <2> QED
    BY <1>2, <2>1, <2>2, <2>3, <2>4, StepsSorted DEF BInv
<1>3. BInv /\ Tally /\ InflightLimits' /\ [Next]_vars
        => [Contract!Next]_Contract!batchVars
  BY <1>2
<1> QED
  BY <1>1, <1>3, BatchInvariant, TallyInductive, InflightLimitsSafe, PTL
     DEF Spec, ImplementsBatch, Contract!Spec

-----------------------------------------------------------------------------
(* Nobody is left behind: why the goroutines never all wait.               *)

(* While the context lives no action is dropped, no handler is passed over *)
(* and no worker leaves before its queue is closed.                        *)
Served ==
    ~cancelled =>
        /\ \A n \in filtered \ toPush : outcome[n] # "none" \/ n \in Restarting
        /\ \A h \in Handlers :
              handler[h] \in {"closed", "stopped"} => Pending(h) = {}
        /\ main # "dispatch" => \A h \in Groups : handler[h] # "new"
        /\ \A w \in Workers :
              worker[w] = "exit" => handler[w[1]] \in {"closed", "stopped"}

LEMMA ServedInductive == Spec => []Served
<1>1. Init => Served
  BY DEF Init, Served
<1>2. BInv /\ Served /\ [Next]_vars => Served'
  <2> SUFFICES ASSUME BInv, Served, [Next]_vars, ~cancelled' PROVE Served'
    BY DEF Served
  <2>1. ~cancelled /\ filtered' = filtered
    BY DEF Next, MainStep, HandlerStep, WorkerStep, ReceiverStep,
       vars, DispatchAll, SpawnTenant, SpawnsOver, DispatchOver, Join,
       Offer, Skip, CloseQueue, StopHandler, Park, Dequeue, Send,
       RestartNode, DelayElapses, Exit, Receive, ReceiverExits,
       Cancel, Returned
  <2>2. toPush' \subseteq toPush
    BY DEF Next, MainStep, HandlerStep, WorkerStep, ReceiverStep,
       vars, DispatchAll, SpawnTenant, SpawnsOver, DispatchOver, Join,
       Offer, Skip, CloseQueue, StopHandler, Park, Dequeue, Send,
       RestartNode, DelayElapses, Exit, Receive, ReceiverExits,
       Cancel, Returned, dispatchVars
  <2>3. /\ \A h \in Handlers : Pending(h)' \subseteq Pending(h)
        /\ Groups' = Groups
    BY <2>1, <2>2 DEF Pending, HandlerOf, Groups, ByTenant
  <2>4. \A n \in filtered' \ toPush' : outcome'[n] # "none" \/ n \in Restarting'
    <3>1. CASE toPush' = toPush /\ Quiet
      BY <2>1, <3>1, QuietStep DEF Served, Quiet
    <3>2. CASE \E h \in Handlers : Skip(h)
      BY <2>1, <3>2 DEF Skip
    <3>3. ASSUME NEW w \in Workers, Dequeue(w)
          PROVE  \A n \in filtered' \ toPush' :
                     outcome'[n] # "none" \/ n \in Restarting'
      <4> USE DEF BInv, Types
      <4>1. PICK m \in Pending(w[1]) : /\ toPush' = toPush \ {m}
                                       /\ job' = [job EXCEPT ![w] = m]
        BY <3>3 DEF Dequeue
      <4>2. /\ worker' = [worker EXCEPT ![w] = "restart"]
            /\ worker[w] # "restart" /\ outcome' = outcome
        BY <3>3 DEF Dequeue
      <4>3. Restarting' = Restarting \cup {m}
        BY <4>1, <4>2 DEF Restarting
      <4> QED
        BY <2>1, <4>1, <4>2, <4>3 DEF Served
    <3>4. ASSUME NEW w \in Workers, RestartNode(w)
          PROVE  \A n \in filtered' \ toPush' :
                     outcome'[n] # "none" \/ n \in Restarting'
      <4> USE DEF BInv, Types
      <4>1. PICK o \in {"ok", "err"} :
                outcome' = [outcome EXCEPT ![job[w]] = o]
        BY <3>4 DEF RestartNode
      <4>2. /\ worker[w] = "restart" /\ job[w] \in Nodes
            /\ worker' = [worker EXCEPT ![w] = "send"]
            /\ job' = job /\ toPush' = toPush
        BY <3>4 DEF RestartNode, dispatchVars
      <4>3. Restarting \subseteq Restarting' \cup {job[w]}
        BY <4>2 DEF Restarting
      <4>4. \A n \in Nodes : outcome[n] # "none" \/ n = job[w] => outcome'[n] # "none"
        BY <4>1, <4>2
      <4> QED
        BY <2>1, <4>2, <4>3, <4>4 DEF Served
    <3>5. ASSUME \/ \E w \in Workers : Send(w)
                 \/ \E n \in Nodes : Receive(n)
                 \/ UNCHANGED vars
          PROVE  \A n \in filtered' \ toPush' :
                     outcome'[n] # "none" \/ n \in Restarting'
      <4>1. UNCHANGED <<toPush, outcome>>
        BY <3>5 DEF Send, Receive, vars, dispatchVars, workerVars
      <4>2. Restarting' = Restarting
        BY <3>5 DEF BInv, Types, Send, Receive, vars, workerVars, Restarting
      <4> QED
        BY <2>1, <4>1, <4>2 DEF Served
    <3>6. ASSUME \A h \in Handlers : ~Skip(h), \A w \in Workers : ~Dequeue(w)
          PROVE  toPush' = toPush
      <4>1. ASSUME NEW h \in Handlers, HandlerStep(h)
            PROVE  toPush' = toPush
        BY <3>6, <4>1 DEF HandlerStep, SpawnTenant, Offer, CloseQueue, StopHandler
      <4>2. ASSUME NEW w \in Workers, WorkerStep(w)
            PROVE  toPush' = toPush
        BY <3>6, <4>2 DEF WorkerStep, Park, RestartNode, Send, DelayElapses, Exit,
           dispatchVars
      <4>3. CASE MainStep \/ ReceiverStep \/ Cancel \/ UNCHANGED vars
        BY <4>3 DEF MainStep, DispatchAll, SpawnsOver, DispatchOver, Join,
           ReceiverStep, Receive, ReceiverExits, Cancel, vars, dispatchVars
      <4> QED
        BY <4>1, <4>2, <4>3 DEF Next, Returned
    <3> QED
      BY <3>1, <3>2, <3>3, <3>4, <3>5, <3>6, StepsSorted DEF BInv
  <2>5. ASSUME NEW h \in Handlers, handler'[h] \in {"closed", "stopped"}
        PROVE  Pending(h)' = {}
    <3>1. Pending(h) = {}
      BY <2>1, <2>5 DEF Next, MainStep, HandlerStep, WorkerStep, ReceiverStep,
         vars, DispatchAll, SpawnTenant, RunHandler, SpawnsOver, DispatchOver,
         Join, Offer, Skip, CloseQueue, StopHandler, Park, Dequeue, Send,
         RestartNode, DelayElapses, Exit, Receive, ReceiverExits,
         Cancel, Returned, dispatchVars, Served, BInv, Types
    <3> QED
      BY <2>3, <3>1
  <2>6. ASSUME main' # "dispatch", NEW h \in Groups PROVE handler'[h] # "new"
    <3>1. h \in Handlers
      BY GroupsAreTenants DEF BInv, Groups, Handlers
    <3>2. handler[h] = "new" => main = "dispatch"
      BY <2>1 DEF Served
    <3>6. main = "dispatch" => DispatchAll \/ SpawnsOver
      BY <2>6 DEF Next, MainStep, HandlerStep, WorkerStep, ReceiverStep,
         vars, SpawnTenant, DispatchOver,
         Join, Offer, Skip, CloseQueue, StopHandler, Park, Dequeue, Send,
         RestartNode, DelayElapses, Exit, Receive, ReceiverExits,
         Cancel, Returned, dispatchVars
    <3>3. CASE DispatchAll
      BY <3>1, <3>3 DEF DispatchAll, RunHandler, Groups, BInv, Types
    <3>4. CASE SpawnsOver
      BY <2>1, <3>4 DEF SpawnsOver
    <3>5. CASE handler[h] # "new"
      BY <3>1, <3>5 DEF Next, MainStep, HandlerStep, WorkerStep, ReceiverStep,
         vars, DispatchAll, SpawnTenant, RunHandler, SpawnsOver, DispatchOver,
         Join, Offer, Skip, CloseQueue, StopHandler, Park, Dequeue, Send,
         RestartNode, DelayElapses, Exit, Receive, ReceiverExits,
         Cancel, Returned, dispatchVars, BInv, Types
    <3> QED
      BY <3>2, <3>3, <3>4, <3>5, <3>6
  <2>7. ASSUME NEW w \in Workers, worker'[w] = "exit"
        PROVE  handler'[w[1]] \in {"closed", "stopped"}
    <3> USE DEF BInv, Types
    <3>1. w[1] \in Handlers
      BY DEF Workers
    <3>2. CASE handler[w[1]] \in {"closed", "stopped"}
      BY <3>1, <3>2 DEF Next, MainStep, HandlerStep, WorkerStep, ReceiverStep,
         vars, DispatchAll, SpawnTenant, RunHandler, SpawnsOver, DispatchOver,
         Join, Offer, Skip, CloseQueue, StopHandler, Park, Dequeue, Send,
         RestartNode, DelayElapses, Exit, Receive, ReceiverExits,
         Cancel, Returned, dispatchVars, Gates
    <3>3. CASE worker[w] # "exit"
      BY <2>1, <2>7, <3>1, <3>2, <3>3
         DEF Next, MainStep, HandlerStep, WorkerStep, ReceiverStep,
         vars, DispatchAll, SpawnTenant, RunHandler, SpawnsOver, DispatchOver,
         Join, Offer, Skip, CloseQueue, StopHandler, Park, Dequeue, Send,
         RestartNode, DelayElapses, Exit, MayExit, Receive, ReceiverExits,
         Cancel, Returned, workerVars
    <3> QED
      BY <2>1, <3>2, <3>3 DEF Served
  <2> QED
    BY <2>3, <2>4, <2>5, <2>6, <2>7 DEF Served
<1> QED
  BY <1>1, <1>2, BatchInvariant, PTL DEF Spec

(* The receiver is there as long as a status is in the channel, unless a   *)
(* signal came.                                                            *)
LEMMA StatusMeansReceiver ==
    ASSUME BInv, Tally, ~cancelled, statusCh # {}
    PROVE  ~ReceiverWaits
<1>1. PICK n \in filtered : n \in statusCh
  BY DEF BInv, Types
<1>2. n \notin Received
  BY <1>1 DEF Received
<1>3. receiver = "on"
  BY <1>1, <1>2, AllReceived DEF BInv, Types
<1> QED
  BY <1>3 DEF ReceiverWaits

(* When all workers wait, a handler at work has a status on its way.       *)
LEMMA HandlerIsServed ==
    ASSUME NodesInflight > 0, BInv, Tally, Served, SendNeverBlocks,
           \A w \in Workers : WorkerWaits(w),
           NEW h \in Handlers, handler[h] \notin {"new", "stopped"},
           HandlerWaits(h)
    PROVE  ~ReceiverWaits
<1> USE DEF BInv, Types
<1>1. \A w \in Workers : worker[w] # "send"
  <2>1. Cardinality(statusCh) \in Nat /\ Capacity \in Nat
    BY FiniteSets, FS_CardinalityType
  <2> QED
    BY <2>1 DEF WorkerWaits, SendNeverBlocks
<1>2. CASE handler[h] = "offering"
  <2>1. <<h, 1>> \in Workers
    BY RestartBatchAssumption DEF Slots, Workers
  <2>2. ~cancelled /\ worker[<<h, 1>>] \notin {"off", "parked", "exit"}
    BY <1>2, <2>1 DEF Gates, Served
  <2>3. job[<<h, 1>>] \in statusCh
    BY <1>1, <2>1, <2>2 DEF WorkerWaits
  <2> QED
    BY <2>2, <2>3, StatusMeansReceiver
<1>3. CASE handler[h] = "closed"
  <2>1. PICK w \in Workers : w[1] = h /\ worker[w] # "exit"
    BY <1>3 DEF HandlerWaits, WorkersGone, WorkersOf
  <2>2. worker[w] \notin {"off", "parked"}
    BY <1>3, <2>1 DEF Gates
  <2>3. ~cancelled /\ job[w] \in statusCh
    BY <1>1, <2>1, <2>2 DEF WorkerWaits
  <2> QED
    BY <2>3, StatusMeansReceiver
<1> QED
  BY <1>2, <1>3 DEF HandlerWaits

(* When all handlers are over and nothing is on its way, every dispatched  *)
(* action has been counted: the receiver waits for nothing more.           *)
LEMMA NothingLeft ==
    ASSUME BInv, Tally, Served, ~cancelled, main # "dispatch",
           \A h \in Handlers : handler[h] \in {"new", "stopped"},
           \A w \in Workers : worker[w] \notin {"restart", "send"},
           statusCh = {}
    PROVE  taken = Cardinality(filtered)
<1> USE DEF BInv, Types
<1>1. \A n \in filtered : HandlerOf(n) \in Groups /\ HandlerOf(n) \in Handlers
  BY GroupsAreTenants DEF HandlerOf, Groups, Handlers
<1>2. toPush = {}
  <2> SUFFICES ASSUME NEW n \in toPush PROVE FALSE
    OBVIOUS
  <2>1. handler[HandlerOf(n)] = "stopped"
    BY <1>1 DEF Served
  <2> QED
    BY <1>1, <2>1 DEF Served, Pending
<1>3. Restarting = {}
  BY DEF Restarting
<1>4. filtered \subseteq Received
  BY <1>2, <1>3 DEF Served, Received
<1>5. Received = filtered
  BY <1>4 DEF Received
<1> QED
  BY <1>5 DEF Tally

(* The goroutines of a batch never all wait for each other before the call *)
(* has returned, if there is a worker and the delay between two restarts   *)
(* outlasts the receiver (dispatchByTenant, restartHandler,                *)
(* handleRestartStatus).  batch_stuck shows a batch under a short delay    *)
(* that does.                                                              *)
THEOREM SomebodyGoesOnSafe ==
    ASSUME DelayOutlastsReceiver, NodesInflight > 0
    PROVE  Spec => []SomebodyGoesOn
<1>1. BInv /\ Tally /\ Served /\ Counts /\ SendNeverBlocks => SomebodyGoesOn
  <2> SUFFICES ASSUME BInv, Tally, Served, Counts, SendNeverBlocks,
                      main # "return", MainWaits, ReceiverWaits,
                      \A h \in Handlers : HandlerWaits(h),
                      \A w \in Workers : WorkerWaits(w)
               PROVE  FALSE
    BY DEF SomebodyGoesOn
  <2>1. \A h \in Handlers : handler[h] \in {"new", "stopped"}
    BY HandlerIsServed
  <2>2. CASE main = "dispatch"
    <3>1. Holders = {}
      BY <2>1 DEF Holders
    <3>2. sem = 0
      BY <3>1, FS_EmptySet DEF Counts
    <3> QED
      BY <2>2, <3>2, RestartBatchAssumption DEF MainWaits, ByTenant
  <2>3. CASE main = "wait"
    BY <2>1, <2>3 DEF MainWaits
  <2>4. CASE main = "join"
    <3>1. ~cancelled /\ statusCh = {} /\ taken # Cardinality(filtered)
      BY <2>4 DEF MainWaits, ReceiverWaits
    <3>2. \A w \in Workers : worker[w] \notin {"restart", "send"}
      <4>1. \A w \in Workers : w[1] \in Handlers
        BY DEF Workers
      <4> QED
        BY <2>1, <4>1 DEF BInv, Gates
    <3> QED
      BY <2>1, <2>4, <3>1, <3>2, NothingLeft
  <2> QED
    BY <2>2, <2>3, <2>4 DEF BInv, Types
<1> QED
  BY <1>1, BatchInvariant, TallyInductive, ServedInductive, CountsInductive,
     SendNeverBlocksSafe, PTL

-----------------------------------------------------------------------------
(* Nobody goes back: why there is an end to going on.                      *)
MainOrder == [dispatch |-> 0, wait |-> 1, join |-> 2, return |-> 3]
HandlerOrder ==
    [new |-> 0, pushing |-> 1, offering |-> 2, closed |-> 3, stopped |-> 4]
WorkerOrder ==
    [off |-> 0, restart |-> 1, send |-> 2, delay |-> 3, idle |-> 4,
     parked |-> 5, exit |-> 6]

LEMMA Orders ==
    /\ MainOrder["dispatch"] = 0 /\ MainOrder["wait"] = 1
    /\ MainOrder["join"] = 2 /\ MainOrder["return"] = 3
    /\ HandlerOrder["new"] = 0 /\ HandlerOrder["pushing"] = 1
    /\ HandlerOrder["offering"] = 2 /\ HandlerOrder["closed"] = 3
    /\ HandlerOrder["stopped"] = 4
    /\ WorkerOrder["off"] = 0 /\ WorkerOrder["restart"] = 1
    /\ WorkerOrder["send"] = 2 /\ WorkerOrder["delay"] = 3
    /\ WorkerOrder["idle"] = 4 /\ WorkerOrder["parked"] = 5
    /\ WorkerOrder["exit"] = 6
  BY DEF MainOrder, HandlerOrder, WorkerOrder

(* No goroutine is further back than before, and some are further on.      *)
Advance ==
    /\ <<main, handler, worker, taken, receiver>>'
           # <<main, handler, worker, taken, receiver>>
    /\ MainOrder[main] <= MainOrder[main']
    /\ \A h \in Handlers :
          HandlerOrder[handler[h]] <= HandlerOrder[handler'[h]]
    /\ \A w \in Workers : WorkerOrder[worker[w]] <= WorkerOrder[worker'[w]]
    /\ taken <= taken' /\ taken' <= Cardinality(filtered)
    /\ receiver = "off" => receiver' = "off"

LEMMA CountedSoFar ==
    ASSUME BInv, Tally
    PROVE  taken <= Cardinality(filtered) /\ Cardinality(filtered) \in Nat
<1>1. Received \in SUBSET filtered /\ IsFiniteSet(filtered)
  BY FiniteSets DEF BInv, Received
<1> QED
  BY <1>1, FS_Subset, FS_CardinalityType DEF Tally

LEMMA OrdersAreNumbers ==
    ASSUME Types
    PROVE  /\ MainOrder[main] \in Nat
           /\ \A h \in Handlers : HandlerOrder[handler[h]] \in Nat
           /\ \A w \in Workers : WorkerOrder[worker[w]] \in Nat
  BY Orders DEF Types

(* One goroutine moves on, or some workers and their handler do.           *)
LEMMA WorkersAdvance ==
    ASSUME BInv, Tally, NEW w \in Workers, worker'[w] # worker[w],
           \A v \in Workers : \/ worker'[v] = worker[v]
                              \/ WorkerOrder[worker[v]] <= WorkerOrder[worker'[v]],
           \A h \in Handlers : \/ handler'[h] = handler[h]
                               \/ HandlerOrder[handler[h]] <= HandlerOrder[handler'[h]],
           UNCHANGED <<main, taken, receiver>>
    PROVE  Advance
<1>1. worker' # worker
  OBVIOUS
<1> QED
  BY <1>1, CountedSoFar, OrdersAreNumbers DEF Advance, BInv, Types

LEMMA HandlerAdvances ==
    ASSUME BInv, Tally, NEW h \in Handlers, handler'[h] # handler[h],
           \A v \in Workers : \/ worker'[v] = worker[v]
                              \/ WorkerOrder[worker[v]] <= WorkerOrder[worker'[v]],
           \A g \in Handlers : \/ handler'[g] = handler[g]
                               \/ HandlerOrder[handler[g]] <= HandlerOrder[handler'[g]],
           main' = main \/ MainOrder[main] <= MainOrder[main'],
           UNCHANGED <<taken, receiver>>
    PROVE  Advance
<1>1. handler' # handler
  OBVIOUS
<1> QED
  BY <1>1, CountedSoFar, OrdersAreNumbers DEF Advance, BInv, Types

LEMMA OthersAdvance ==
    ASSUME BInv, Tally, UNCHANGED <<worker, handler>>,
           <<main, taken, receiver>>' # <<main, taken, receiver>>,
           main' = main \/ MainOrder[main] <= MainOrder[main'],
           taken' = taken \/ (taken' = taken + 1 /\ taken < Cardinality(filtered)),
           receiver = "off" => receiver' = "off"
    PROVE  Advance
  BY CountedSoFar, OrdersAreNumbers DEF Advance, BInv, Types

(* No action comes back to a queue and no signal is taken back; and every  *)
(* step hands over or drops one of finitely many actions, or is the signal,*)
(* or moves its goroutine on towards its end while nobody moves back.  So  *)
(* no behaviour takes steps for ever, and with SomebodyGoesOn a batch      *)
(* whose goroutines keep running returns.                                  *)
OnlyForward ==
    [][/\ toPush' \subseteq toPush /\ (cancelled => cancelled')
       /\ toPush' # toPush \/ cancelled' # cancelled \/ Advance]_vars

THEOREM OnlyForwardSafe == Spec => OnlyForward
<1> DEFINE Forward == toPush' # toPush \/ cancelled' # cancelled \/ Advance
<1>1. ASSUME BInv, Tally, Next PROVE Forward \/ UNCHANGED vars
  <2> USE DEF BInv, Types
  <2>1. \A w \in Workers : w[1] \in Handlers
    BY DEF Workers
  <2>2. ASSUME NEW h \in Handlers, handler[h] = "new", RunHandler(h),
               main' = main \/ (main = "dispatch" /\ main' = "wait"),
               UNCHANGED <<toPush, taken, receiver>>
        PROVE  Forward
    <3>1. handler'[h] = "pushing" /\ \A g \in Handlers : g # h => handler'[g] = handler[g]
      BY <1>1, <2>2 DEF RunHandler
    <3>2. \A v \in Workers : \/ worker'[v] = worker[v]
                             \/ worker[v] = "off" /\ worker'[v] = "idle"
      BY <1>1, <2>2 DEF RunHandler, Gates
    <3> QED
      BY <1>1, <2>2, <3>1, <3>2, Orders, HandlerAdvances
  <2>3. CASE MainStep
    <3>1. CASE DispatchAll
      BY <1>1, <2>2, <3>1 DEF DispatchAll, Gates, Handlers, receiverVars
    <3>2. CASE SpawnsOver \/ DispatchOver \/ Join
      BY <1>1, <3>2, Orders, OthersAdvance
         DEF SpawnsOver, DispatchOver, Join, workerVars, receiverVars
    <3> QED
      BY <2>3, <3>1, <3>2 DEF MainStep
  <2>4. ASSUME NEW h \in Handlers, HandlerStep(h) PROVE Forward
    <3>1. CASE SpawnTenant(h)
      BY <2>2, <3>1 DEF SpawnTenant, receiverVars
    <3>2. CASE Offer(h) \/ StopHandler(h)
      <4>1. /\ \/ handler[h] = "pushing" /\ handler' = [handler EXCEPT ![h] = "offering"]
               \/ handler[h] = "closed" /\ handler' = [handler EXCEPT ![h] = "stopped"]
            /\ UNCHANGED <<main, toPush, worker, taken, receiver>>
        BY <3>2 DEF Offer, StopHandler, workerVars, receiverVars
      <4> QED
        BY <1>1, <4>1, Orders, HandlerAdvances
    <3>3. CASE Skip(h)
      BY <3>3 DEF Skip, Pending
    <3>4. CASE CloseQueue(h)
      <4>1. /\ handler[h] = "pushing" /\ handler' = [handler EXCEPT ![h] = "closed"]
            /\ UNCHANGED <<main, toPush, taken, receiver>>
        BY <3>4 DEF CloseQueue, receiverVars
      <4>2. \A v \in Workers : \/ worker'[v] = worker[v]
                               \/ worker[v] = "parked" /\ worker'[v] = "exit"
        BY <3>4 DEF CloseQueue
      <4> QED
        BY <1>1, <4>1, <4>2, Orders, HandlerAdvances
    <3> QED
      BY <2>4, <3>1, <3>2, <3>3, <3>4 DEF HandlerStep
  <2>5. ASSUME NEW w \in Workers, WorkerStep(w) PROVE Forward
    <3>1. CASE Dequeue(w)
      BY <3>1 DEF Dequeue, Pending
    <3>2. CASE ~Dequeue(w)
      <4>1. UNCHANGED <<main, handler, toPush, taken, receiver>>
        BY <2>5, <3>2 DEF WorkerStep, Park, RestartNode, Send, DelayElapses,
           Exit, dispatchVars, receiverVars
      <4>2. ASSUME NEW to \in {"idle", "parked", "send", "delay", "exit"},
                   worker' = [worker EXCEPT ![w] = to],
                   WorkerOrder[worker[w]] < WorkerOrder[to]
            PROVE  Forward
        <5>1. /\ worker'[w] = to /\ worker[w] # to
              /\ \A v \in Workers : v # w => worker'[v] = worker[v]
          BY <1>1, <4>2, Orders
        <5>2. WorkerOrder[worker[w]] <= WorkerOrder[worker'[w]]
          BY <1>1, <4>2, <5>1, Orders
        <5> QED
          BY <1>1, <4>1, <5>1, <5>2, WorkersAdvance
      <4>3. CASE Park(w)
        BY <4>2, <4>3, Orders DEF Park
      <4>4. CASE RestartNode(w)
        BY <4>2, <4>4, Orders DEF RestartNode
      <4>5. CASE Send(w)
        BY <4>2, <4>5, Orders DEF Send
      <4>6. CASE DelayElapses(w)
        BY <4>2, <4>6, Orders DEF DelayElapses
      <4>7. CASE Exit(w)
        BY <4>2, <4>7, Orders DEF Exit, MayExit
      <4> QED
        BY <2>5, <3>2, <4>3, <4>4, <4>5, <4>6, <4>7 DEF WorkerStep
    <3> QED
      BY <3>1, <3>2
  <2>6. CASE ReceiverStep
    BY <1>1, <2>6, OthersAdvance DEF ReceiverStep, Receive, ReceiverExits,
       dispatchVars, workerVars
  <2>7. CASE Cancel
    BY <2>7 DEF Cancel
  <2> QED
    BY <1>1, <2>3, <2>4, <2>5, <2>6, <2>7 DEF Next, Returned
<1>2. ASSUME BInv, Next PROVE toPush' \subseteq toPush /\ (cancelled => cancelled')
  <2>1. CASE Quiet
    BY <1>2, <2>1 DEF Quiet, Next, MainStep, HandlerStep, WorkerStep,
       ReceiverStep, vars, DispatchAll, SpawnTenant, SpawnsOver, DispatchOver,
       Join, Offer, Skip, CloseQueue, StopHandler, Park, Dequeue, Send,
       RestartNode, DelayElapses, Exit, Receive, ReceiverExits,
       Cancel, Returned
  <2>2. ASSUME NEW w \in Workers, Dequeue(w) \/ RestartNode(w) \/ Send(w)
        PROVE  toPush' \subseteq toPush /\ (cancelled => cancelled')
    BY <2>2 DEF Dequeue, RestartNode, Send, dispatchVars
  <2>3. ASSUME NEW n \in Nodes, Receive(n)
        PROVE  toPush' \subseteq toPush /\ (cancelled => cancelled')
    BY <2>3 DEF Receive, dispatchVars
  <2> QED
    BY <1>2, <2>1, <2>2, <2>3, StepsSorted DEF BInv
<1>3. BInv /\ Tally /\ [Next]_vars
        => [/\ toPush' \subseteq toPush /\ (cancelled => cancelled')
            /\ Forward]_vars
  BY <1>1, <1>2
<1> QED
  BY <1>3, BatchInvariant, TallyInductive, PTL DEF OnlyForward, Spec
=============================================================================
