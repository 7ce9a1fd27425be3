------------------------------ MODULE Command ------------------------------
(***************************************************************************)
(* One invocation of "ydbops restart" or "ydbops run" after another, with  *)
(* the same options: the storage phase, then the tenant phase, each of     *)
(* them a call of Execute with a filter (Filters) and a context of its     *)
(* own.  A phase is what Phase promises of it, and Rolling implements.     *)
(* How many nodes are restarted together is left open here.                *)
(***************************************************************************)
EXTENDS Filters

CONSTANTS
    Nodes,      \* node ids
    Info,       \* [host, datacenter, kind, tenant] of each node
    Pods,       \* pod on each host, for each kind of node
    Databases,  \* tenants the CMS knows
    Options,    \* options the command may be given
    Starts,     \* start times that the CMS may report at first
    OldVersions, NewVersion,   \* version of each node, and after a restart
    Now,        \* start time of a restarted node
    Flaky,      \* nodes that go down and come up on their own
    MaxRuns     \* bound: invocations, one after the other

ASSUME CommandAssumption ==
    /\ Nodes \subseteq Nat
    /\ Flaky \subseteq Nodes
    /\ MaxRuns \in Nat \ {0}
    /\ Now \in Nat /\ None \notin Nat
    /\ NewVersion # None
    /\ NewVersion.plain => NewVersion.number \in [1..3 -> Nat]
    /\ \A o \in Options :
          ValidStarted(o.started) /\ o.maxStaticNodeID \in Nat

VARIABLES
    opts,       \* the options
    started, version,   \* CMS: what it reports of each node
    up,         \* CMS: nodes whose state is UP
    pc,         \* where the command stands
    phase,      \* the phase it is in or comes to
    target,     \* nodesToRestart of the phase
    inflight,   \* nodes being restarted, as in Phase
    done,       \* nodes the command has restarted or given up
    cancelled,  \* the context of the phase is done
    watching,   \* a signal is intercepted
    run,        \* number of the invocation
    due,        \* history: nodes asked for when the command began
    disputed,   \* history: those then on which help and code differ
    missed,     \* history: those that were down when their phase began
    touched,    \* history: nodes that came up anew in this command
    before,     \* history: nodes that came up anew in an earlier one
    signalled   \* history: a signal came

P == INSTANCE Phase

clusterVars == <<started, version, up>>
historyVars == <<due, disputed, missed, touched, before, signalled>>
vars == <<opts, clusterVars, pc, phase, target, inflight, done, cancelled,
          watching, run, historyVars>>

Ended == {"refused", "success", "failed", "interrupted", "killed"}

PhaseOf(n) == IF Info[n].kind = "storage" THEN "storage" ELSE "tenant"

Described(n) ==
    [id |-> n, host |-> Info[n].host, datacenter |-> Info[n].datacenter,
     kind |-> Info[n].kind, tenant |-> Info[n].tenant,
     started |-> started[n], version |-> version[n]]

Wanted(p) ==
    LET bothUnspecified == ~opts.storage /\ ~opts.tenant IN
    (IF p = "storage" THEN opts.storage ELSE opts.tenant) \/ bothUnspecified

(* What the operator asked for, by the help of the options: --storage and  *)
(* --tenant leave out the other kind unless both are given.                *)
AskedFor(n) ==
    \/ /\ opts.storage \/ ~opts.tenant
       /\ AskedStorage(Described(n), opts, Pods["storage"])
    \/ /\ opts.tenant \/ ~opts.storage
       /\ AskedTenant(Described(n), opts, Pods["dynamic"])

Due == {n \in Nodes : AskedFor(n)}
DisputedNodes ==
    {n \in Nodes : Disputed(Described(n), opts, Pods[Info[n].kind])}

Init ==
    /\ opts \in Options
    /\ started \in [Nodes -> Starts] /\ version = OldVersions /\ up = Nodes
    /\ run = 1
    /\ pc = "validate" /\ phase = "storage"
    /\ target = {} /\ inflight = {} /\ done = {}
    /\ cancelled = FALSE /\ watching = FALSE
    /\ due = Due /\ disputed = DisputedNodes /\ before = {}
    /\ missed = {} /\ touched = {} /\ signalled = FALSE

-----------------------------------------------------------------------------
(* The part of Validate that concerns the filters. *)
Valid == opts.tenantList # {} => opts.tenant

Validate ==
    /\ pc = "validate"
    /\ pc' = IF Valid THEN "start" ELSE "refused"
    /\ UNCHANGED <<opts, clusterVars, phase, target, inflight, done, cancelled,
                   watching, run, historyVars>>

(* Run goes on to the next phase, or is at its end. *)
AfterPhase == IF phase = "storage" THEN "start" ELSE "success"
NextPhase == pc' = AfterPhase /\ phase' = "tenant"

SkipPhase ==
    /\ pc = "start"
    /\ ~Wanted(phase)
    /\ NextPhase
    /\ UNCHANGED <<opts, clusterVars, target, inflight, done, cancelled,
                   watching, run, historyVars>>

(* Execute makes a context and a goroutine that waits for one signal. *)
Execute ==
    /\ pc = "start"
    /\ Wanted(phase)
    /\ pc' = "prepare"
    /\ cancelled' = FALSE
    /\ watching' = (watching \/ opts.cleanupOnExit)
    /\ UNCHANGED <<opts, clusterVars, phase, target, inflight, done, run,
                   historyVars>>

(* prepareState lists the nodes once more for each phase. *)
ActiveNodes == {Described(n) : n \in up}

Filter ==
    IF phase = "storage"
    THEN FilterStorage(ActiveNodes, FilterNodeParams(opts), opts.k8s,
                       Pods["storage"])
    ELSE FilterTenant(ActiveNodes, FilterNodeParams(opts), opts.k8s,
                      Pods["dynamic"])

Prepare ==
    /\ opts.tenantList \subseteq Databases
    /\ P!Prepare({n.id : n \in Filter})
    /\ missed' = missed \cup {n \in due \ up : PhaseOf(n) = phase}
    /\ UNCHANGED <<opts, clusterVars, phase, watching, run, due, disputed,
                   touched, before, signalled>>

-----------------------------------------------------------------------------
phaseVars == <<pc, target, inflight, done, cancelled>>
commandVars == <<opts, phase, watching, run, due, disputed, missed, before,
                 signalled>>

Start(n) ==
    /\ P!Start(n)
    /\ UNCHANGED <<commandVars, clusterVars, touched>>

(* The nodes of S are up anew. *)
ComeUp(S) ==
    /\ started' = [n \in Nodes |-> IF n \in S THEN Now ELSE started[n]]
    /\ version' = [n \in Nodes |-> IF n \in S THEN NewVersion
                                   ELSE version[n]]
    /\ touched' = touched \cup S
    /\ UNCHANGED up

Works(n) ==
    /\ P!Works(n)
    /\ ComeUp({n})
    /\ UNCHANGED commandVars

(* RestartNode fails, the node may have restarted all the same. *)
Breaks(n) ==
    /\ P!Breaks(n)
    /\ \E S \in SUBSET {n} : ComeUp(S)
    /\ UNCHANGED commandVars

Uncounted ==
    /\ P!Uncounted
    /\ \E S \in SUBSET inflight : ComeUp(S)
    /\ UNCHANGED commandVars

(* Mutant: the phase is over when its last restart has been started. *)
OverWhenStarted ==
    /\ pc = "rolling"
    /\ target \subseteq done \cup inflight
    /\ NextPhase
    /\ UNCHANGED <<opts, clusterVars, target, inflight, done, cancelled,
                   watching, run, historyVars>>

PhaseOver ==
    /\ P!Finish(AfterPhase)
    /\ phase' = "tenant"
    /\ UNCHANGED <<opts, clusterVars, watching, run, historyVars>>

PhaseInterrupted ==
    /\ P!Interrupted
    /\ UNCHANGED <<opts, phase, clusterVars, watching, run, historyVars>>

(* Mutant: the error of the storage phase is not returned. *)
ErrorNotReturned ==
    /\ pc \in {"prepare", "rolling"}
    /\ inflight = {}
    /\ NextPhase
    /\ UNCHANGED <<opts, clusterVars, target, inflight, done, cancelled,
                   watching, run, historyVars>>

(* The error of an unknown tenant among others. *)
PhaseFails ==
    /\ P!Fails
    /\ UNCHANGED <<opts, phase, clusterVars, watching, run, historyVars>>

-----------------------------------------------------------------------------
(* SIGINT or SIGTERM once a phase has intercepted it: the goroutine of the *)
(* phase cancels its context, which is nobody's when that phase is over.   *)
Signal ==
    /\ watching
    /\ pc \notin Ended
    /\ P!Signal \/ (pc \notin P!Under /\ UNCHANGED phaseVars)
    /\ signalled' = TRUE
    /\ UNCHANGED <<opts, clusterVars, phase, watching, run, due, disputed,
                   missed, touched, before>>

(* Any other death of the process; what it was restarting may come up. *)
Kill ==
    /\ pc \notin Ended
    /\ P!Kill
    /\ \E S \in SUBSET inflight : ComeUp(S)
    /\ UNCHANGED commandVars

RunAgain ==
    /\ pc \in Ended
    /\ run < MaxRuns
    /\ run' = run + 1
    /\ pc' = "validate" /\ phase' = "storage"
    /\ P!Forget /\ watching' = FALSE
    /\ due' = Due /\ disputed' = DisputedNodes
    /\ before' = before \cup touched
    /\ missed' = {} /\ touched' = {} /\ signalled' = FALSE
    /\ UNCHANGED <<opts, clusterVars>>

(* A node goes down or comes up; its process stays the same. *)
Flip(n) ==
    /\ pc \notin Ended
    /\ up' = IF n \in up THEN up \ {n} ELSE up \cup {n}
    /\ UNCHANGED <<opts, started, version, pc, phase, target, inflight, done,
                   cancelled, watching, run, historyVars>>

Over == pc \in Ended /\ UNCHANGED vars

Next ==
    \/ Validate \/ SkipPhase \/ Execute \/ Prepare
    \/ \E n \in Nodes : Start(n) \/ Works(n) \/ Breaks(n)
    \/ Uncounted \/ PhaseOver \/ PhaseInterrupted \/ PhaseFails
    \/ Signal \/ Kill \/ RunAgain
    \/ \E n \in Flaky : Flip(n)
    \/ Over

Spec == Init /\ [][Next]_vars

-----------------------------------------------------------------------------
(* Properties. *)

TypeOK ==
    /\ opts \in Options
    /\ started \in [Nodes -> Starts \cup {Now}]
    /\ \A n \in Nodes : version[n] \in {OldVersions[n], NewVersion}
    /\ up \subseteq Nodes
    /\ pc \in Ended \cup {"validate", "start", "prepare", "rolling"}
    /\ phase \in {"storage", "tenant"}
    /\ target \subseteq Nodes /\ inflight \subseteq target
    /\ done \subseteq Nodes
    /\ cancelled \in BOOLEAN /\ watching \in BOOLEAN
    /\ run \in 1..MaxRuns
    /\ due \subseteq Nodes /\ disputed \subseteq Nodes
    /\ missed \subseteq due
    /\ touched \subseteq Nodes /\ before \subseteq Nodes
    /\ signalled \in BOOLEAN

(* A command restarts only nodes that the help of its options asks for, as *)
(* they were when it began; when it reports success it has dealt with all  *)
(* of them, except those that were down at the beginning of their phase.   *)
(* Each phase lists the nodes and filters them anew, after nodes have      *)
(* changed their start times and versions.  The nodes on which help and    *)
(* code differ (Disputed) are left out.                                    *)
RestartsWhatWasAsked ==
    /\ (inflight \cup touched \cup done) \ disputed \subseteq due
    /\ pc = "success" => due \ (missed \cup disputed) \subseteq done

(* The same command, given again after it failed, was interrupted or       *)
(* killed, leaves alone what came up anew before, if its --started or      *)
(* --version is one that no restarted node fits: the repository has no     *)
(* other way to continue a restart.                                        *)
Resumable ==
    \/ /\ opts.started # None
       /\ opts.started.direction = "<" /\ opts.started.timestamp <= Now
    \/ /\ opts.version # None
       /\ opts.version.sign \in {"<", "!="}
       /\ opts.version.operand = NewVersion

ResumeSkipsRestarted == Resumable => before \cap (inflight \cup touched) = {}

(* No dynamic node is restarted before the command is done with all the    *)
(* storage nodes it was asked for, without dispute, and could find.        *)
StorageFirst ==
    \A n \in inflight :
        PhaseOf(n) = "tenant" =>
            {m \in due \ (missed \cup disputed) : PhaseOf(m) = "storage"}
                \subseteq done

(* After a signal that was intercepted no further node is restarted.       *)
SignalStopsCommand == [][signalled => inflight' \subseteq inflight]_vars

(* With --started no node is restarted whose start time the CMS does not   *)
(* know.                                                                   *)
UnknownStartLeftOut ==
    opts.started # None => \A n \in inflight : started[n] # None
=============================================================================
