--------------------------- MODULE CommandProofs ---------------------------
(***************************************************************************)
(* Proofs about Command: a command restarts what its options asked for,    *)
(* the storage nodes first, and leaves alone what an earlier one           *)
(* restarted.                                                              *)
(***************************************************************************)
EXTENDS Command, FiltersProofs

-----------------------------------------------------------------------------
(* The target of a phase. *)

(* A node that is asked for is asked for by its own phase, which is then   *)
(* wanted.                                                                 *)
LEMMA AskedByItsPhase ==
    ASSUME NEW n \in Nodes
    PROVE  /\ AskedFor(n) => Wanted(PhaseOf(n))
           /\ Wanted("storage") =>
                (AskedStorage(Described(n), opts, Pods["storage"])
                    <=> AskedFor(n) /\ PhaseOf(n) = "storage")
           /\ Wanted("tenant") =>
                (AskedTenant(Described(n), opts, Pods["dynamic"])
                    <=> AskedFor(n) /\ PhaseOf(n) = "tenant")
  <1>1. AskedStorage(Described(n), opts, Pods["storage"])
            => Info[n].kind = "storage"
    BY DEF AskedStorage, Described
  <1>2. AskedTenant(Described(n), opts, Pods["dynamic"])
            => Info[n].kind = "dynamic"
    BY DEF AskedTenant, Described
  <1> QED
    BY <1>1, <1>2 DEF AskedFor, Wanted, PhaseOf

(* The filter of a phase selects nodes of the phase that are up: all that  *)
(* are asked for, and otherwise at most some on which help and code differ.*)
LEMMA TargetOfPhase ==
    ASSUME phase \in {"storage", "tenant"}, Wanted(phase), up \subseteq Nodes,
           opts \in Options
    PROVE  /\ \A n \in {x.id : x \in Filter} : n \in up /\ PhaseOf(n) = phase
           /\ \A n \in up \ DisputedNodes :
                  n \in {x.id : x \in Filter}
                      <=> AskedFor(n) /\ PhaseOf(n) = phase
  <1> DEFINE pods == Pods[IF phase = "storage" THEN "storage" ELSE "dynamic"]
  <1>1. \A n : Described(n).id = n /\ Described(n).kind = Info[n].kind
    BY DEF Described
  <1>2. \A x, y \in ActiveNodes : x.id = y.id => x = y
    BY <1>1 DEF ActiveNodes
  <1>3. \A x \in Filter :
            /\ x \in ActiveNodes
            /\ x.kind = IF phase = "storage" THEN "storage" ELSE "dynamic"
    BY SelectedNode DEF Filter
  <1>4. ASSUME NEW n \in up, n \notin DisputedNodes
        PROVE  Described(n) \in Filter <=> AskedFor(n) /\ PhaseOf(n) = phase
    <2>1. Described(n) \in ActiveNodes
      BY <1>4 DEF ActiveNodes
    <2>2. /\ ValidStarted(opts.started) /\ opts.maxStaticNodeID \in Nat
          /\ n \in Nodes /\ Described(n).id \in Nat
      BY <1>1, <1>4, CommandAssumption
    <2>3. ~Disputed(Described(n), opts, Pods[Info[n].kind])
      BY <1>4, <2>2 DEF DisputedNodes
    <2>4. CASE phase = "storage"
      <3>1. CASE Info[n].kind = "storage"
        BY <2>1, <2>2, <2>3, <2>4, <3>1, FilterStorageSelects, AskedByItsPhase
           DEF Filter
      <3>2. CASE Info[n].kind # "storage"
        BY <1>1, <1>3, <2>4, <3>2 DEF PhaseOf
      <3> QED
        BY <3>1, <3>2
    <2>5. CASE phase = "tenant"
      <3>1. CASE Info[n].kind = "dynamic"
        BY <1>2, <2>1, <2>2, <2>3, <2>5, <3>1, FilterTenantSelects,
           AskedByItsPhase DEF Filter
      <3>2. CASE Info[n].kind # "dynamic"
        <4>1. AskedFor(n) => PhaseOf(n) # "tenant"
          BY <1>1, <3>2 DEF AskedFor, AskedStorage, AskedTenant, PhaseOf
        <4> QED
          BY <1>1, <1>3, <2>5, <3>2, <4>1
      <3> QED
        BY <3>1, <3>2
    <2> QED
      BY <2>4, <2>5
  <1>5. \A x \in Filter : x = Described(x.id) /\ x.id \in up
    BY <1>1, <1>3 DEF ActiveNodes
  <1>6. \A x \in Filter : PhaseOf(x.id) = phase
    BY <1>1, <1>3, <1>5 DEF PhaseOf
  <1>7. \A n : n \in {x.id : x \in Filter} <=> Described(n) \in Filter
    BY <1>1, <1>5
  <1> QED
    BY <1>4, <1>5, <1>6, <1>7

-----------------------------------------------------------------------------
(* The invariant. *)

Shape ==
    /\ opts \in Options /\ up \subseteq Nodes
    /\ due \subseteq Nodes /\ disputed \subseteq Nodes
    /\ phase \in {"storage", "tenant"}
    /\ inflight \subseteq target
    /\ inflight # {} => pc = "rolling"
    /\ pc \in {"prepare", "rolling"} => Wanted(phase)

(* What may be restarted, and what must be. *)
Sought == due \cup disputed
Firm == due \ (missed \cup disputed)

(* The target of a phase is what is asked for of its nodes. *)
Targeted ==
    pc = "rolling" =>
        /\ \A n \in target : n \in Sought /\ PhaseOf(n) = phase
        /\ \A n \in Firm : PhaseOf(n) = phase => n \in target

(* What has been dealt with: nothing of a phase to come, all of a phase    *)
(* that is over.                                                           *)
Handled ==
    /\ touched \cup done \subseteq Sought
    /\ phase = "storage" => \A n \in touched \cup done : PhaseOf(n) = "storage"
    /\ pc \in {"validate", "start", "prepare"} =>
           \A n \in touched \cup done : PhaseOf(n) # phase
    /\ phase = "tenant" =>
           \A n \in Firm : PhaseOf(n) = "storage" => n \in done
    /\ pc = "success" => Firm \subseteq done

(* A node that did not come up anew is still asked for or still not.       *)
Steady ==
    \A n \in Nodes \ touched :
        /\ n \in due <=> AskedFor(n)
        /\ n \in disputed <=> n \in DisputedNodes

(* What came up anew shows it. *)
Renewed ==
    /\ before \cup touched \subseteq Nodes
    /\ \A n \in before \cup touched :
           started[n] = Now /\ version[n] = NewVersion

(* A command that can be given again selects nothing that an earlier one   *)
(* restarted.                                                              *)
Skipped == Resumable => before \cap (target \cup touched) = {}

Inv == Shape /\ Targeted /\ Handled /\ Steady /\ Renewed /\ Skipped

(* Whether a node is asked for depends on the options and on the node.     *)
LEMMA AskedFrame ==
    ASSUME NEW n \in Nodes, opts' = opts,
           started'[n] = started[n], version'[n] = version[n]
    PROVE  /\ AskedFor(n)' <=> AskedFor(n)
           /\ n \in DisputedNodes' <=> n \in DisputedNodes
  <1>1. Described(n)' = Described(n)
    BY DEF Described
  <1> QED
    BY <1>1 DEF AskedFor, DisputedNodes

(* What a phase selects stays clear of what an earlier command restarted.  *)
LEMMA SkippedFrame ==
    ASSUME Inv, opts' = opts, before' = before, target' \subseteq target,
           touched' \subseteq touched \cup target
    PROVE  Skipped'
  BY DEF Inv, Skipped, Resumable

(* A node that came up anew does not fit the filter of a command that can  *)
(* be given again.                                                         *)
LEMMA RenewedNotSelected ==
    ASSUME NEW n \in Nodes, opts \in Options, Resumable,
           started[n] = Now, version[n] = NewVersion
    PROVE  n \notin {x.id : x \in Filter}
  <1>1. /\ Described(n).started = Now
        /\ Described(n).version = NewVersion
    BY DEF Described
  <1>2. \A x \in Filter :
            /\ x \in ActiveNodes
            /\ SatisfiesStartingTime(x, opts.started)
            /\ opts.version # None => SatisfiesVersion(opts.version, x.version)
    <2> SUFFICES ASSUME NEW x \in Filter
                 PROVE  /\ x \in ActiveNodes
                        /\ SatisfiesStartingTime(x, opts.started)
                        /\ opts.version # None =>
                              SatisfiesVersion(opts.version, x.version)
      OBVIOUS
    <2>1. CASE phase = "storage"
      BY <2>1, SelectedNode DEF Filter
    <2>2. CASE phase # "storage"
      BY <2>2, SelectedNode DEF Filter
    <2> QED
      BY <2>1, <2>2
  <1>3. \A x \in Filter : x.id = n => x = Described(n)
    BY <1>2 DEF ActiveNodes, Described
  <1>4. Described(n) \in Filter =>
            /\ SatisfiesStartingTime(Described(n), opts.started)
            /\ opts.version # None => SatisfiesVersion(opts.version, NewVersion)
    BY <1>1, <1>2
  <1>5. Now \in Nat /\ Now # None /\ NewVersion # None
    BY CommandAssumption
  <1>6. CASE /\ opts.started # None
             /\ opts.started.direction = "<" /\ opts.started.timestamp <= Now
    <2>1. opts.started.timestamp \in Nat
      BY <1>6, CommandAssumption DEF ValidStarted
    <2>2. ~(AsTime(Now) < opts.started.timestamp)
      BY <1>5, <1>6, <2>1 DEF AsTime
    <2>3. ~SatisfiesStartingTime(Described(n), opts.started)
      BY <1>1, <1>6, <2>2 DEF SatisfiesStartingTime
    <2> QED
      BY <1>3, <1>4, <2>3
  <1>7. CASE /\ opts.version # None
             /\ opts.version.sign \in {"<", "!="}
             /\ opts.version.operand = NewVersion
    <2>1. ~SatisfiesVersion(opts.version, NewVersion)
      <3>1. CASE NewVersion.plain
        <4>1. NewVersion.number \in [1..3 -> Nat]
          BY <3>1, CommandAssumption
        <4>2. ~Before(NewVersion.number, NewVersion.number)
          BY <4>1 DEF Before
        <4>3. ~CompareMajorMinorPatch(opts.version.sign, NewVersion.number,
                                      NewVersion.number)
          BY <1>7, <4>2 DEF CompareMajorMinorPatch
        <4> QED
          BY <1>7, <3>1, <4>3 DEF SatisfiesVersion
      <3>2. CASE ~NewVersion.plain
        BY <1>7, <3>2 DEF SatisfiesVersion, CompareRaw
      <3> QED
        BY <3>1, <3>2
    <2> QED
      BY <1>7, <1>3, <1>4, <2>1
  <1> QED
    BY <1>6, <1>7 DEF Resumable

-----------------------------------------------------------------------------
(* The invariant holds at first. *)
LEMMA InvInit == ASSUME Init PROVE Inv
  <1> USE DEF Init
  <1>1. due \subseteq Nodes /\ disputed \subseteq Nodes
    BY DEF Due, DisputedNodes
  <1>2. Steady
    BY DEF Steady, Due
  <1>3. Shape /\ Targeted /\ Renewed /\ Skipped
    BY <1>1 DEF Shape, Targeted, Renewed, Skipped
  <1>4. Handled
    BY DEF Handled
  <1> QED
    BY <1>2, <1>3, <1>4 DEF Inv

(* A step that lets no node come up and keeps the options keeps Steady and *)
(* Renewed.                                                                *)
LEMMA NobodyComesUp ==
    ASSUME Inv, opts' = opts, started' = started, version' = version,
           due' = due, disputed' = disputed, touched' = touched,
           before' = before
    PROVE  /\ Steady' /\ Renewed'
           /\ \A p : Wanted(p)' <=> Wanted(p)
  <1>1. \A n \in Nodes :
            /\ AskedFor(n)' <=> AskedFor(n)
            /\ n \in DisputedNodes' <=> n \in DisputedNodes
    BY AskedFrame
  <1>2. Steady'
    BY <1>1 DEF Inv, Steady
  <1>3. Renewed'
    BY DEF Inv, Renewed
  <1>4. \A p : Wanted(p)' <=> Wanted(p)
    BY DEF Wanted
  <1> QED
    BY <1>2, <1>3, <1>4

(* A step in which nodes being restarted come up keeps them, too. *)
LEMMA SomeComeUp ==
    ASSUME Inv, NEW S \in SUBSET inflight, ComeUp(S),
           opts' = opts, due' = due, disputed' = disputed, before' = before
    PROVE  /\ Steady' /\ Renewed'
           /\ \A p : Wanted(p)' <=> Wanted(p)
           /\ touched' = touched \cup S
           /\ \A n \in S : n \in Sought /\ PhaseOf(n) = phase
  <1>1. \A n \in S : pc = "rolling" /\ n \in Sought /\ PhaseOf(n) = phase
    BY DEF Inv, Shape, Targeted
  <1>2. touched' = touched \cup S
    BY DEF ComeUp
  <1>3. \A n \in Nodes \ S : started'[n] = started[n] /\ version'[n] = version[n]
    BY DEF ComeUp
  <1>4. \A n \in Nodes \ S :
            /\ AskedFor(n)' <=> AskedFor(n)
            /\ n \in DisputedNodes' <=> n \in DisputedNodes
    BY <1>3, AskedFrame
  <1>5. Steady'
    BY <1>2, <1>4 DEF Inv, Steady
  <1>6. S \subseteq Nodes
    BY <1>1 DEF Inv, Shape, Sought
  <1>7. Renewed'
    <2>1. before' \cup touched' \subseteq Nodes
      BY <1>2, <1>6 DEF Inv, Renewed
    <2>2. \A n \in S : started'[n] = Now /\ version'[n] = NewVersion
      BY <1>6 DEF ComeUp
    <2>3. \A n \in before' \cup touched' :
              started'[n] = Now /\ version'[n] = NewVersion
      BY <1>2, <1>3, <2>1, <2>2 DEF Inv, Renewed
    <2> QED
      BY <2>1, <2>3 DEF Renewed
  <1>8. \A p : Wanted(p)' <=> Wanted(p)
    BY DEF Wanted
  <1> QED
    BY <1>1, <1>2, <1>5, <1>7, <1>8

(* Going on to the next phase, once nothing of this one is left. *)
LEMMA NextPhaseKeepsInv ==
    ASSUME Inv, NextPhase, pc \in {"start", "rolling"}, inflight = {},
           \A n \in Firm : PhaseOf(n) = phase => n \in done,
           UNCHANGED <<opts, clusterVars, target, inflight, done, cancelled,
                       watching, run, historyVars>>
    PROVE  Inv'
  <1>1. Steady' /\ Renewed'
    BY NobodyComesUp DEF clusterVars, historyVars
  <1>5. Skipped'
    BY SkippedFrame DEF historyVars
  <1> USE DEF AfterPhase
  <1>2. Shape'
    BY DEF Inv, Shape, NextPhase, clusterVars, historyVars
  <1>3. Targeted'
    BY DEF Targeted, NextPhase
  <1>4. Handled'
    <2>1. \A n : PhaseOf(n) \in {"storage", "tenant"}
      BY DEF PhaseOf
    <2> QED
      BY <2>1 DEF Inv, Shape, Handled, NextPhase, historyVars, Sought, Firm
  <1> QED
    BY <1>1, <1>2, <1>3, <1>4, <1>5 DEF Inv

(* Only Prepare gives a phase a target, and RunAgain takes it away. *)
LEMMA SkippedStep == ASSUME Inv, [Next]_vars PROVE Skipped'
  <1> USE DEF commandVars, phaseVars, clusterVars, historyVars
  <1>1. CASE Prepare
    <2>1. target' = {x.id : x \in Filter}
      BY <1>1 DEF Prepare, P!Prepare
    <2>2. /\ opts' = opts /\ before' = before /\ touched' = touched
          /\ Resumable' <=> Resumable
      BY <1>1 DEF Prepare, P!Prepare, Resumable
    <2>3. Resumable => before \cap target' = {}
      BY <2>1, RenewedNotSelected DEF Inv, Shape, Renewed
    <2> QED
      BY <2>2, <2>3 DEF Inv, Skipped
  <1>2. CASE RunAgain
    BY <1>2 DEF RunAgain, P!Forget, Skipped
  <1>3. CASE UNCHANGED vars
    BY <1>3, SkippedFrame DEF vars
  <1>4. CASE \/ Validate \/ SkipPhase \/ Execute \/ PhaseOver
             \/ PhaseInterrupted \/ PhaseFails \/ Signal
             \/ \E n \in Flaky : Flip(n)
    BY <1>4, SkippedFrame
       DEF Validate, SkipPhase, NextPhase, Execute, PhaseOver, P!Finish,
           PhaseInterrupted, P!Interrupted, PhaseFails, P!Fails, Signal,
           P!Signal, Flip
  <1>5. ASSUME NEW n \in Nodes, Start(n) PROVE Skipped'
    BY <1>5, SkippedFrame DEF Start, P!Start
  <1>6. ASSUME NEW n \in Nodes, Works(n) \/ Breaks(n) PROVE Skipped'
    <2>1. n \in target /\ touched' \subseteq touched \cup {n}
      BY <1>6 DEF Inv, Shape, Works, P!Works, Breaks, P!Breaks, ComeUp
    <2> QED
      BY <1>6, <2>1, SkippedFrame
         DEF Works, P!Works, Breaks, P!Breaks
  <1>7. CASE Uncounted \/ Kill
    <2>1. PICK S \in SUBSET inflight : touched' = touched \cup S
      BY <1>7 DEF Uncounted, Kill, ComeUp
    <2>2. touched' \subseteq touched \cup target
      BY <2>1 DEF Inv, Shape
    <2> QED
      BY <1>7, <2>2, SkippedFrame DEF Uncounted, P!Uncounted, Kill, P!Kill
  <1> QED
    BY <1>1, <1>2, <1>3, <1>4, <1>5, <1>6, <1>7 DEF Next, Over

(* Each step of a command keeps the invariant. *)
LEMMA InvStep == Inv /\ [Next]_vars => Inv'
  <1> SUFFICES ASSUME Inv, [Next]_vars
               PROVE  Inv'
    OBVIOUS
  <1> USE SkippedStep DEF commandVars, phaseVars, Sought, Firm
  <1>1. CASE Validate
    <2>1. Steady' /\ Renewed' /\ \A p : Wanted(p)' <=> Wanted(p)
      BY <1>1, NobodyComesUp DEF Validate, clusterVars, historyVars
    <2>2. Shape'
      BY <1>1, <2>1 DEF Inv, Shape, Validate, clusterVars, historyVars
    <2>3. Targeted' /\ Handled'
      BY <1>1 DEF Inv, Targeted, Handled, Validate, historyVars
    <2> QED
      BY <2>1, <2>2, <2>3 DEF Inv
  <1>2. CASE SkipPhase
    <2>1. ASSUME NEW n \in Firm, PhaseOf(n) = phase
          PROVE  FALSE
      <3>1. n \notin touched /\ n \in Nodes
        BY <1>2, <2>1 DEF Inv, Shape, Handled, SkipPhase
      <3>2. AskedFor(n)
        BY <2>1, <3>1 DEF Inv, Steady
      <3> QED
        BY <1>2, <2>1, <3>1, <3>2, AskedByItsPhase DEF SkipPhase
    <2>2. inflight = {}
      BY <1>2 DEF Inv, Shape, SkipPhase
    <2> QED
      BY <1>2, <2>1, <2>2, NextPhaseKeepsInv DEF SkipPhase
  <1>3. CASE Execute
    <2>1. Steady' /\ Renewed' /\ \A p : Wanted(p)' <=> Wanted(p)
      BY <1>3, NobodyComesUp DEF Execute, clusterVars, historyVars
    <2>2. Shape'
      BY <1>3, <2>1 DEF Inv, Shape, Execute, clusterVars, historyVars
    <2>3. Targeted' /\ Handled'
      BY <1>3 DEF Inv, Targeted, Handled, Execute, historyVars
    <2> QED
      BY <2>1, <2>2, <2>3 DEF Inv
  <1>4. CASE Prepare
    <2>1. Steady' /\ Renewed' /\ \A p : Wanted(p)' <=> Wanted(p)
      BY <1>4, NobodyComesUp DEF Prepare, P!Prepare, clusterVars
    <2>2. /\ \A n \in target' : n \in up /\ PhaseOf(n) = phase
          /\ \A n \in up \ DisputedNodes :
                 n \in target' <=> AskedFor(n) /\ PhaseOf(n) = phase
      BY <1>4, TargetOfPhase DEF Inv, Shape, Prepare, P!Prepare
    <2>3. \A n \in Nodes :
              PhaseOf(n) = phase => /\ n \in due <=> AskedFor(n)
                                    /\ n \in disputed <=> n \in DisputedNodes
      BY <1>4 DEF Inv, Handled, Steady, Prepare, P!Prepare
    <2>4. Targeted'
      <3>1. \A n \in target' : n \in Sought' /\ PhaseOf(n) = phase'
        BY <1>4, <2>2, <2>3 DEF Inv, Shape, Prepare, P!Prepare
      <3>2. \A n \in Firm' : PhaseOf(n) = phase' => n \in target'
        BY <1>4, <2>2, <2>3 DEF Inv, Shape, Prepare, P!Prepare
      <3> QED
        BY <3>1, <3>2 DEF Targeted
    <2>5. Shape'
      BY <1>4, <2>1 DEF Inv, Shape, Prepare, P!Prepare, clusterVars
    <2>6. Handled'
      BY <1>4 DEF Inv, Handled, Prepare, P!Prepare
    <2> QED
      BY <2>1, <2>4, <2>5, <2>6 DEF Inv
  <1>5. ASSUME NEW n \in Nodes, Start(n)
        PROVE  Inv'
    <2>1. Steady' /\ Renewed' /\ \A p : Wanted(p)' <=> Wanted(p)
      BY <1>5, NobodyComesUp DEF Start, P!Start, clusterVars, historyVars
    <2>2. Shape'
      BY <1>5, <2>1 DEF Inv, Shape, Start, P!Start, clusterVars, historyVars
    <2>3. Targeted' /\ Handled'
      BY <1>5 DEF Inv, Targeted, Handled, Start, P!Start, historyVars
    <2> QED
      BY <2>1, <2>2, <2>3 DEF Inv
  <1>6. ASSUME NEW n \in Nodes, Works(n) \/ Breaks(n)
        PROVE  Inv'
    <2>1. PICK S \in SUBSET inflight : S \subseteq {n} /\ ComeUp(S)
      BY <1>6 DEF Works, Breaks, P!Works, P!Breaks, ComeUp
    <2>2. /\ n \in inflight /\ inflight' = inflight \ {n}
          /\ done' \subseteq done \cup {n} /\ done \subseteq done'
          /\ UNCHANGED <<opts, up, pc, phase, target, due, disputed, missed,
                         before>>
      BY <1>6 DEF Works, Breaks, P!Works, P!Breaks, ComeUp
    <2>3. /\ Steady' /\ Renewed' /\ \A p : Wanted(p)' <=> Wanted(p)
          /\ touched' \subseteq touched \cup {n}
      BY <2>1, <2>2, SomeComeUp
    <2>4. pc = "rolling" /\ n \in Sought /\ PhaseOf(n) = phase
      BY <2>2 DEF Inv, Shape, Targeted
    <2>5. Shape' /\ Targeted'
      BY <2>2, <2>3 DEF Inv, Shape, Targeted
    <2>6. Handled'
      BY <2>2, <2>3, <2>4 DEF Inv, Handled
    <2> QED
      BY <2>3, <2>5, <2>6 DEF Inv
  <1>7. CASE PhaseOver
    <2>1. \A n \in Firm : PhaseOf(n) = phase => n \in done
      BY <1>7 DEF Inv, Targeted, PhaseOver, P!Finish
    <2> QED
      BY <1>7, <2>1, NextPhaseKeepsInv DEF PhaseOver, P!Finish, NextPhase
  <1>8. CASE PhaseInterrupted \/ PhaseFails
    <2>1. Steady' /\ Renewed'
      BY <1>8, NobodyComesUp
         DEF PhaseInterrupted, PhaseFails, P!Interrupted, P!Fails,
             clusterVars, historyVars
    <2>2. Shape' /\ Targeted' /\ Handled'
      BY <1>8 DEF Inv, Shape, Targeted, Handled, PhaseInterrupted, PhaseFails,
                  P!Interrupted, P!Fails, clusterVars, historyVars
    <2> QED
      BY <2>1, <2>2 DEF Inv
  <1>9. CASE Signal
    <2>1. Steady' /\ Renewed' /\ \A p : Wanted(p)' <=> Wanted(p)
      BY <1>9, NobodyComesUp DEF Signal, P!Signal, clusterVars
    <2>2. Shape' /\ Targeted' /\ Handled'
      BY <1>9, <2>1 DEF Inv, Shape, Targeted, Handled, Signal, P!Signal,
                       clusterVars
    <2> QED
      BY <2>1, <2>2 DEF Inv
  <1>10. CASE Kill
    <2>1. PICK S \in SUBSET inflight : ComeUp(S)
      BY <1>10 DEF Kill
    <2>2. /\ Steady' /\ Renewed' /\ touched' = touched \cup S
          /\ \A n \in S : n \in Sought /\ PhaseOf(n) = phase
      BY <1>10, <2>1, SomeComeUp DEF Kill, P!Kill
    <2>3. Shape' /\ Targeted' /\ Handled'
      BY <1>10, <2>2 DEF Inv, Shape, Targeted, Handled, Kill, P!Kill,
                               ComeUp
    <2> QED
      BY <2>2, <2>3 DEF Inv
  <1>11. CASE RunAgain
    <2>1. \A n \in Nodes : /\ AskedFor(n)' <=> AskedFor(n)
                           /\ n \in DisputedNodes' <=> n \in DisputedNodes
      BY <1>11, AskedFrame DEF RunAgain, clusterVars
    <2>2. Steady'
      BY <1>11, <2>1 DEF RunAgain, Steady, Due
    <2>3. Renewed'
      BY <1>11 DEF Inv, Renewed, RunAgain, clusterVars
    <2>4. Shape' /\ Targeted' /\ Handled'
      BY <1>11 DEF Inv, Shape, Targeted, Handled, RunAgain, P!Forget, Due,
                   DisputedNodes, clusterVars
    <2> QED
      BY <2>2, <2>3, <2>4 DEF Inv
  <1>12. ASSUME NEW n \in Flaky, Flip(n)
         PROVE  Inv'
    <2>1. Steady' /\ Renewed' /\ \A p : Wanted(p)' <=> Wanted(p)
      BY <1>12, NobodyComesUp DEF Flip, historyVars
    <2>2. Shape'
      BY <1>12, <2>1, CommandAssumption DEF Inv, Shape, Flip, historyVars
    <2>3. Targeted' /\ Handled'
      BY <1>12 DEF Inv, Targeted, Handled, Flip, historyVars
    <2> QED
      BY <2>1, <2>2, <2>3 DEF Inv
  <1>13. CASE UNCHANGED vars
    <2>1. Steady' /\ Renewed' /\ \A p : Wanted(p)' <=> Wanted(p)
      BY <1>13, NobodyComesUp DEF vars, clusterVars, historyVars
    <2>2. Shape' /\ Targeted' /\ Handled'
      BY <1>13, <2>1 DEF Inv, Shape, Targeted, Handled, vars, clusterVars,
                         historyVars
    <2> QED
      BY <2>1, <2>2 DEF Inv
  <1>14. CASE Uncounted
    <2>1. PICK S \in SUBSET inflight : ComeUp(S)
      BY <1>14 DEF Uncounted
    <2>2. /\ Steady' /\ Renewed' /\ touched' = touched \cup S
          /\ \A n \in S : n \in Sought /\ PhaseOf(n) = phase
          /\ \A p : Wanted(p)' <=> Wanted(p)
      BY <1>14, <2>1, SomeComeUp DEF Uncounted
    <2>3. pc = "rolling" \/ S = {}
      BY DEF Inv, Shape
    <2>4. Shape' /\ Targeted' /\ Handled'
      BY <1>14, <2>1, <2>2, <2>3
         DEF Inv, Shape, Targeted, Handled, Uncounted, P!Uncounted, ComeUp
    <2> QED
      BY <2>2, <2>4 DEF Inv
  <1> QED
    BY <1>1, <1>2, <1>3, <1>4, <1>5, <1>6, <1>7, <1>8, <1>9, <1>10, <1>11,
       <1>12, <1>13, <1>14 DEF Next, Over

(* The invariant of the specification. *)
THEOREM InvHolds == Spec => []Inv
  BY InvInit, InvStep, PTL DEF Spec

-----------------------------------------------------------------------------
(* A command restarts only nodes that the help of its options asks for,    *)
(* and when it reports success it has dealt with all of them but those     *)
(* that were down when their phase began, and but for the nodes on which   *)
(* help and code differ: DoRestart and Run of cmd/restart and cmd/run.     *)
THEOREM RestartsWhatWasAskedSafe == Spec => []RestartsWhatWasAsked
  <1>1. Inv => RestartsWhatWasAsked
    BY DEF Inv, Shape, Targeted, Handled, RestartsWhatWasAsked, Sought, Firm
  <1> QED
    BY <1>1, InvHolds, PTL

(* No dynamic node is restarted before the command is done with the        *)
(* storage nodes it was asked for: the order of the two calls of Execute.  *)
THEOREM StorageFirstSafe == Spec => []StorageFirst
  <1>1. Inv => StorageFirst
    BY DEF Inv, Shape, Targeted, Handled, StorageFirst, Sought, Firm
  <1> QED
    BY <1>1, InvHolds, PTL

(* The same command given again leaves alone what came up anew before, if  *)
(* its --started or --version fits no restarted node.                      *)
THEOREM ResumeSkipsRestartedSafe == Spec => []ResumeSkipsRestarted
  <1>1. Inv => ResumeSkipsRestarted
    BY DEF Inv, Shape, Skipped, ResumeSkipsRestarted
  <1> QED
    BY <1>1, InvHolds, PTL

-----------------------------------------------------------------------------
LEMMA ComeUpTypes ==
    ASSUME Inv, TypeOK, NEW S \in SUBSET inflight, ComeUp(S)
    PROVE  /\ started' \in [Nodes -> Starts \cup {Now}]
           /\ \A n \in Nodes : version'[n] \in {OldVersions[n], NewVersion}
           /\ touched' \subseteq Nodes
  BY DEF Inv, TypeOK, ComeUp

(* The variables keep their types: what a phase restarts is in its target, *)
(* a set of node ids, and what was missed was asked for.                   *)
THEOREM TypeCorrect == Spec => []TypeOK
  <1> USE CommandAssumption
  <1> USE DEF TypeOK, Ended, clusterVars, historyVars, commandVars, phaseVars
  <1>1. ASSUME Init PROVE TypeOK
    <2>1. due \subseteq Nodes /\ disputed \subseteq Nodes
      BY <1>1 DEF Init, Due, DisputedNodes
    <2>2. started \in [Nodes -> Starts \cup {Now}]
      BY <1>1 DEF Init
    <2>3. \A n \in Nodes : version[n] \in {OldVersions[n], NewVersion}
      BY <1>1 DEF Init
    <2> QED
      <3>1. run \in 1..MaxRuns
        BY <1>1 DEF Init
      <3>2. pc \in Ended \cup {"validate", "start", "prepare", "rolling"}
        BY <1>1 DEF Init
      <3>3. missed \subseteq due /\ target \subseteq Nodes /\ inflight \subseteq target
        BY <1>1 DEF Init
      <3>4. opts \in Options /\ up \subseteq Nodes
        BY <1>1 DEF Init
      <3>5. cancelled \in BOOLEAN /\ watching \in BOOLEAN /\ signalled \in BOOLEAN
        BY <1>1 DEF Init
      <3> QED
        BY <1>1, <2>1, <2>2, <2>3, <3>1, <3>2, <3>3, <3>4, <3>5 DEF Init
  <1>2. ASSUME Inv, TypeOK, [Next]_vars
        PROVE  TypeOK'
    <2> USE <1>2
    <2>1. CASE Validate
      BY <2>1 DEF Validate
    <2>2. CASE SkipPhase
      BY <2>2 DEF SkipPhase, NextPhase, AfterPhase
    <2>3. CASE Execute
      BY <2>3 DEF Execute
    <2>4. CASE Prepare
      <3>1. phase \in {"storage", "tenant"} /\ Wanted(phase) /\ inflight = {}
        BY <2>4 DEF Prepare, P!Prepare, Inv, Shape
      <3>2. target' \subseteq Nodes
        BY <2>4, <3>1, TargetOfPhase DEF Prepare, P!Prepare
      <3> QED
        BY <2>4, <3>1, <3>2 DEF Prepare, P!Prepare
    <2>5. ASSUME NEW n \in Nodes, Start(n) PROVE TypeOK'
      BY <2>5 DEF Start, P!Start
    <2>6. ASSUME NEW n \in Nodes, Works(n) PROVE TypeOK'
      <3>1. {n} \in SUBSET inflight /\ ComeUp({n})
        BY <2>6 DEF Works, P!Works
      <3> QED
        BY <2>6, <3>1, ComeUpTypes DEF Works, P!Works, ComeUp
    <2>7. ASSUME NEW n \in Nodes, Breaks(n) PROVE TypeOK'
      <3>1. PICK S \in SUBSET {n} : ComeUp(S)
        BY <2>7 DEF Breaks, P!Breaks
      <3>2. S \in SUBSET inflight
        BY <2>7 DEF Breaks, P!Breaks
      <3> QED
        BY <2>7, <3>1, <3>2, ComeUpTypes DEF Breaks, P!Breaks, ComeUp
    <2>8. CASE PhaseOver
      BY <2>8 DEF PhaseOver, P!Finish, AfterPhase
    <2>9. CASE PhaseInterrupted
      BY <2>9 DEF PhaseInterrupted, P!Interrupted
    <2>10. CASE PhaseFails
      BY <2>10 DEF PhaseFails, P!Fails
    <2>11. CASE Signal
      BY <2>11 DEF Signal, P!Signal
    <2>12. CASE Kill
      <3>1. PICK S \in SUBSET inflight : ComeUp(S)
        BY <2>12 DEF Kill
      <3> QED
        BY <2>12, <3>1, ComeUpTypes DEF Kill, P!Kill, ComeUp
    <2>13. CASE RunAgain
      <3>1. Due \subseteq Nodes /\ DisputedNodes \subseteq Nodes
        BY DEF Due, DisputedNodes
      <3>2. run' \in 1..MaxRuns
        BY <2>13 DEF RunAgain
      <3>3. /\ due' \subseteq Nodes /\ missed' \subseteq due'
            /\ disputed' \subseteq Nodes
        BY <2>13, <3>1 DEF RunAgain
      <3>4. before' \subseteq Nodes /\ touched' \subseteq Nodes
        BY <2>13 DEF RunAgain
      <3>5. target' \subseteq Nodes /\ inflight' \subseteq target'
        BY <2>13 DEF RunAgain, P!Forget
      <3>6. /\ pc' = "validate" /\ phase' = "storage"
            /\ cancelled' \in BOOLEAN /\ watching' \in BOOLEAN
            /\ signalled' \in BOOLEAN /\ done' \subseteq Nodes
            /\ UNCHANGED <<opts, clusterVars>>
        BY <2>13 DEF RunAgain, P!Forget
      <3> QED
        BY <3>2, <3>3, <3>4, <3>5, <3>6
    <2>14. ASSUME NEW n \in Flaky, Flip(n) PROVE TypeOK'
      BY <2>14 DEF Flip
    <2>15. CASE UNCHANGED vars
      BY <2>15 DEF vars
    <2>16. CASE Uncounted
      <3>1. PICK S \in SUBSET inflight : ComeUp(S)
        BY <2>16 DEF Uncounted
      <3> QED
        BY <2>16, <3>1, ComeUpTypes DEF Uncounted, P!Uncounted, ComeUp
    <2> QED
      BY <2>1, <2>2, <2>3, <2>4, <2>5, <2>6, <2>7, <2>8, <2>9, <2>10, <2>11,
         <2>12, <2>13, <2>14, <2>15, <2>16 DEF Next, Over
  <1> QED
    BY <1>1, <1>2, InvHolds, PTL DEF Spec
=============================================================================
