------------------------------- MODULE Session -------------------------------
(***************************************************************************)
(* The conversation of one rolling restart with the cluster: the options   *)
(* are accepted or refused, then DoRestart makes one call after the other. *)
(* A call obtains a token, connects, sends, and is retried with a growing  *)
(* pause (WrapWithRetries) or not (the discovery client, the login).       *)
(*                                                                         *)
(* The service is not part of the repository.  It acts on a request and    *)
(* answers, answers that it will not or cannot, denies a token, or the     *)
(* connection fails before or after it acted.  It acts before the attempt  *)
(* ends or never: requests are sent as synchronous operations.             *)
(***************************************************************************)
EXTENDS Startup

V == INSTANCE Versions

CONSTANTS
    Givens,          \* what an invocation may be given
    Nodes,
    Upgrades(_),     \* of each of Givens, the upgrades that it may make
    MaxAttempts      \* defaultRetryCount

ASSUME SessionAssumption ==
    /\ MaxAttempts \in Nat \ {0}
    /\ None \notin Givens
    /\ \A g \in Givens :
          g.restart \in [duration : Int, retries : Int, inflight : Int,
                         tenants : Int, interval : Int, delay : Int]
    /\ IsFiniteSet(Nodes)
    /\ \A g \in Givens :
          Upgrades(g) \subseteq [from : [Nodes -> (Nat \X Nat) \cup {None}],
                                 to : (Nat \X Nat) \cup {None}]
    /\ None \notin Nat \X Nat

VARIABLES
    pc,         \* where the invocation stands
    given,      \* what it was given, None once the calls begin
    auth,       \* the type of its credentials
    dial,       \* what a connection needs: "endpoint", "ca", or "none"
    token,      \* what the credentials provider holds
    call, attempt, result,
    reply,      \* the answer under way
    conns,      \* open connections
    waited,     \* seconds that the current call has paused
    upgrade,    \* the upgrade that this restart makes
    running,    \* the version that a node runs
    listed,     \* the versions that the check under way was shown
    known,      \* knownVersions
    before,     \* history: the first version of a node that a check showed
    uid,        \* restartTaskUID, 0 until it is made
    acted,      \* history: the service has acted on the current call
    swallowed,  \* history: and an outage has then swallowed its answer
    created     \* history: uids under which tasks were created

cluster == <<upgrade, running>>
setting == <<given, auth, dial, uid, cluster>>
versions == <<known, listed, before>>
service == <<acted, swallowed, created>>
vars == <<pc, setting, token, call, attempt, result, reply, conns, waited,
          versions, service>>

Calls == {"nodes", "tenants", "whoami", "list", "get", "drop", "create",
          "complete", "refresh", "check"}

InCall == pc \in {"auth", "connect", "sent", "backoff"}
Ended == pc \in {"refused", "fatal", "failed", "over"}

(* The executors differ: WhoAmI is asked once only and connects before it  *)
(* looks for a token, Tenants never closes its connections, and a drop     *)
(* passes nothing to put the result in.                                    *)
Discovery(c) == c = "whoami"
Wrapped(c) == ~Discovery(c)
Resultless(c) == c = "drop"

(* Mutant: the connection is closed after a success only. *)
ClosesOnSuccess(c, answer) == c # "tenants" /\ answer = "success"

Closes(c, answer) == c # "tenants"

(* Bound: more connections than the code opens are not told apart.         *)
MaxConns == MaxAttempts + 3
Opened == IF conns < MaxConns THEN conns + 1 ELSE conns

(* A listing without any version that can be read. *)
Nothing == [n \in Nodes |-> None]

Init ==
    /\ pc = "start" /\ given \in Givens
    /\ auth = "unset" /\ dial = "none" /\ token = "unset"
    /\ call = "none" /\ attempt = 0 /\ result = "none" /\ reply = "none"
    /\ conns = 0 /\ waited = 0
    /\ upgrade \in Upgrades(given) /\ running = upgrade.from
    /\ known = {} /\ listed = Nothing /\ before = Nothing
    /\ uid = 0
    /\ acted = FALSE /\ swallowed = FALSE /\ created = {}

-----------------------------------------------------------------------------
Start ==
    /\ pc = "start"
    /\ pc' = IF Accepted(given) THEN "idle" ELSE "refused"
    /\ auth' = AuthType(given)
    /\ dial' = IF ~Given(given, "endpoint") THEN "none"
               ELSE IF Secure(given) /\ Given(given, "ca-file") THEN "ca"
               ELSE "endpoint"
    /\ UNCHANGED <<given, uid, cluster, token, call, attempt, result, reply,
                   conns, waited, versions, service>>

(* The order in which DoRestart and its loop make the calls. *)
Loop == {"complete", "refresh"}

(* Mutant: an outage ends the restart, too. *)
NothingTolerated(outcome) == FALSE

(* RetryExceededError *)
Tolerated(outcome) == outcome = "exceeded"

AfterError ==
    CASE call = "none" -> {"nodes"}
      [] call \in Loop -> {"refresh"}
      [] call = "check" /\ Tolerated(result) -> Loop
      [] OTHER -> {}

Following ==
    IF result # "ok" THEN AfterError
    ELSE CASE call = "nodes" -> {"tenants"}
           [] call = "tenants" -> {"whoami"}
           [] call = "whoami" -> {"list"}
           [] call = "list" -> {"get", "create"}
           [] call = "get" -> {"get", "drop"}
           [] call = "drop" -> {"drop", "create"}
           [] call = "create" -> Loop
           [] call = "complete" -> {"refresh"}
           [] call = "refresh" -> {"check"} \cup Loop
           [] call = "check" -> IF V!NoIssues(known) THEN Loop ELSE {}

(* Of the nodes of the last batch, which then is reported as completed,    *)
(* some have come up on the new version.                                   *)
Restarted(nodes) ==
    running' = [n \in Nodes |-> IF n \in nodes THEN upgrade.to ELSE running[n]]

(* The uid is made once, at the end of prepareState.                       *)
Begin(c) ==
    /\ pc = "idle"
    /\ c \in Following
    /\ pc' = IF Discovery(c) THEN "connect" ELSE "auth"
    /\ call' = c /\ result' = "none"
    /\ acted' = FALSE /\ swallowed' = FALSE
    /\ given' = None
    /\ listed' = Nothing
    /\ IF c = "complete" THEN \E nodes \in SUBSET Nodes : Restarted(nodes)
                         ELSE UNCHANGED running
    /\ uid' = IF c = "list" THEN uid + 1 ELSE uid
    /\ UNCHANGED <<auth, dial, upgrade, token, attempt, reply, conns, waited,
                   known, before, created>>

(* DoRestart returns the error of the call or of the check, or there is no *)
(* tenant of one of the names it was given.                                *)
Fail ==
    /\ pc = "idle"
    /\ Following = {} \/ call = "tenants"
    /\ pc' = "failed"
    /\ UNCHANGED <<setting, token, call, attempt, result, reply, conns,
                   waited, versions, service>>

(* No node to restart, nothing left to complete, or a signal.              *)
Finish ==
    /\ pc = "idle"
    /\ \/ call \in {"list", "drop"} /\ result = "ok"
       \/ call \in {"create", "check"} /\ Following # {}
       \/ call \in Loop
    /\ pc' = "over"
    /\ UNCHANGED <<setting, token, call, attempt, result, reply, conns,
                   waited, versions, service>>

-----------------------------------------------------------------------------
(* ContextWithAuth: Init, once, and GetToken.  An error of GetToken is     *)
(* dropped and the call goes out with an empty token.                      *)
Unusable ==
    /\ pc = "auth"
    /\ \/ auth = "none"
       \/ auth = "iam-creds" /\ token = "unset"
    /\ pc' = "fatal"
    /\ UNCHANGED <<setting, token, call, attempt, result, reply, conns,
                   waited, versions, service>>

AfterAuth ==
    /\ pc' = IF Discovery(call) THEN "sent" ELSE "connect"
    /\ UNCHANGED <<setting, call, attempt, result, reply, waited, versions,
                   service>>

(* Auth of the static provider: one attempt for the whole invocation, over *)
(* a connection that is not closed.                                        *)
Login ==
    /\ pc = "auth" /\ auth = "static" /\ token = "unset"
    /\ token' \in {"valid", "invalid"}
    /\ conns' \in IF dial = "none" THEN {conns}
                  ELSE IF dial = "ca" /\ token' = "invalid"
                       THEN {conns, Opened}
                  ELSE {Opened}
    /\ dial = "none" => token' = "invalid"
    /\ AfterAuth

(* The token of a file or of the environment, used as it is.               *)
UseToken ==
    /\ pc = "auth" /\ auth = "iam-token" /\ token = "unset"
    /\ token' \in {"valid", "invalid"}
    /\ UNCHANGED conns
    /\ AfterAuth

(* The providers of iam-creds and iam-metadata are asked for each call.    *)
AskToken ==
    /\ pc = "auth" /\ auth \in {"iam-creds", "iam-metadata"}
    /\ token' \in {"valid", "invalid"}
    /\ UNCHANGED conns
    /\ AfterAuth

KeepToken ==
    /\ pc = "auth" /\ auth \in {"static", "iam-token"} /\ token # "unset"
    /\ UNCHANGED <<token, conns>>
    /\ AfterAuth

Authenticate == Unusable \/ Login \/ UseToken \/ AskToken \/ KeepToken

-----------------------------------------------------------------------------
(* Create of the connections factory.  It does not wait for the            *)
(* connection; the CA file is read each time.                              *)
Connect ==
    /\ pc = "connect"
    /\ dial # "none"
    /\ conns' = Opened
    /\ pc' = IF Discovery(call) THEN "auth" ELSE "sent"
    /\ UNCHANGED <<setting, token, call, attempt, result, reply, waited,
                   versions, service>>

Return(outcome) ==
    /\ pc' = "idle"
    /\ result' = outcome
    /\ reply' = "none" /\ attempt' = 0 /\ waited' = 0
    /\ UNCHANGED <<setting, token, call, service>>

(* Not a gRPC status, so not retried.                                      *)
ConnectFails ==
    /\ pc = "connect"
    /\ dial # "endpoint"
    /\ Return("error")
    /\ UNCHANGED <<conns, versions>>

(* Mutant: a retried creation makes a uid of its own. *)
NewUid == uid + 1

(* The request is made before its first attempt and is sent again as it    *)
(* was.                                                                    *)
SentAgain == uid

(* Mutant: every error is retried. *)
AnyError(answer) == answer \in {"busy", "unavailable", "broken", "denied"}

(* shouldRetry and isRetryableStatus *)
Transient(answer) == answer \in {"busy", "unavailable"}

(* Mutant: the attempts are not counted. *)
SameAttempt(n) == n
NextAttempt(n) == n + 1

(* Mutant: one attempt too few. *)
LastButOne(n) == n + 1 >= MaxAttempts - 1

(* Mutant: one attempt too many. *)
OneMore(n) == n + 1 > MaxAttempts

IsLast(n) == n + 1 >= MaxAttempts

(* math.Pow(2, n) *)
TwoTo[n \in Nat] == IF n = 0 THEN 1 ELSE 2 * TwoTo[n - 1]

backoffTimeAfter(n) == TwoTo[n]

(* Bound: longer pauses than the code can reach are not told apart. *)
MaxWait == TwoTo[MaxAttempts - 1]

Closed(answer) ==
    conns' = IF Closes(call, answer) THEN conns - 1 ELSE conns

Retry ==
    /\ pc = "sent" /\ Wrapped(call)
    /\ Transient(reply) /\ ~IsLast(attempt)
    /\ pc' = "backoff"
    /\ Closed(reply)
    /\ reply' = "none"
    /\ UNCHANGED <<setting, token, call, attempt, result, waited, versions,
                   service>>

Backoff ==
    /\ pc = "backoff"
    /\ pc' = "connect"
    /\ waited' = IF waited > MaxWait THEN waited
                 ELSE waited + backoffTimeAfter(attempt)
    /\ attempt' = NextAttempt(attempt)
    /\ uid' = IF call = "create" THEN SentAgain ELSE uid
    /\ UNCHANGED <<given, auth, dial, cluster, token, call, result, reply,
                   conns, versions, service>>

GiveUp ==
    /\ pc = "sent" /\ Wrapped(call)
    /\ Transient(reply) /\ IsLast(attempt)
    /\ Closed(reply)
    /\ Return("exceeded")
    /\ UNCHANGED versions

(* Mutant: the status is not compared with SUCCESS. *)
AnsweredAtAll(answer) == answer \in {"success", "failed", "busy"}

(* A call that expects no result returns before it compares the status.    *)
Good(answer) ==
    \/ answer = "success"
    \/ Resultless(call) /\ answer = "failed"

Compare ==
    /\ known' = V!Remember(known, {listed[n] : n \in Nodes})
    /\ before' = [n \in Nodes |->
                     IF before[n] = None THEN listed[n] ELSE before[n]]

Receive ==
    /\ pc = "sent" /\ reply # "none"
    /\ Transient(reply) => ~Wrapped(call)
    /\ Closed(reply)
    /\ Return(IF Good(reply) THEN "ok" ELSE "error")
    /\ IF call = "check" /\ Good(reply) THEN Compare
                                       ELSE UNCHANGED <<known, before>>
    /\ UNCHANGED listed

-----------------------------------------------------------------------------
(* The service and the network. *)
Answer(answer) ==
    /\ reply' = answer
    /\ UNCHANGED <<pc, setting, token, call, attempt, result, conns, waited,
                   known, before>>

(* A node that is coming up is not listed, or without its version.         *)
Shown(up) == [n \in Nodes |-> IF n \in up THEN running[n] ELSE None]

Act ==
    /\ pc = "sent" /\ reply = "none" /\ token = "valid"
    /\ acted' = TRUE
    /\ created' = IF call = "create" THEN created \cup {uid} ELSE created
    /\ listed' \in IF call = "check" THEN {Shown(up) : up \in SUBSET Nodes}
                                   ELSE {listed}
    /\ Answer("success")
    /\ UNCHANGED swallowed

(* An operation that is answered with the status UNAVAILABLE or another    *)
(* unsuccessful one.                                                       *)
Decline ==
    /\ pc = "sent" /\ reply = "none" /\ token = "valid"
    /\ \E answer \in {"busy", "failed"} : Answer(answer)
    /\ UNCHANGED <<listed, service>>

Deny ==
    /\ pc = "sent" /\ reply = "none" /\ token # "valid"
    /\ \E answer \in {"denied", "failed"} : Answer(answer)
    /\ UNCHANGED <<listed, service>>

(* The call fails with the code Unavailable or with another code, whether  *)
(* the service has acted or not.                                           *)
Break ==
    /\ pc = "sent" /\ reply \in {"none", "success"}
    /\ \E answer \in {"unavailable", "broken"} :
        /\ Answer(answer)
        /\ swallowed' = (swallowed \/ (reply = "success" /\ answer = "unavailable"))
    /\ UNCHANGED <<listed, acted, created>>

Expire ==
    /\ token = "valid" /\ ~Ended
    /\ token' = "expired"
    /\ UNCHANGED <<pc, setting, call, attempt, result, reply, conns, waited,
                   versions, service>>

Client ==
    \/ Start \/ (\E c \in Calls : Begin(c)) \/ Fail \/ Finish
    \/ Authenticate \/ Connect \/ ConnectFails
    \/ Retry \/ Backoff \/ GiveUp \/ Receive

Service == Act \/ Decline \/ Deny \/ Break

Over == Ended /\ UNCHANGED vars

Next == Client \/ Service \/ Expire \/ Over

Spec == Init /\ [][Next]_vars

(* ydbops runs, and every request is answered or its connection fails.     *)
FairSpec == Spec /\ WF_vars(Client) /\ WF_vars(Service)
-----------------------------------------------------------------------------
(* Properties. *)

TypeOK ==
    /\ pc \in {"start", "idle", "auth", "connect", "sent", "backoff",
              "refused", "fatal", "failed", "over"}
    /\ pc = "start" => given # None
    /\ auth \in {"unset", "none", "static", "iam-token", "iam-creds",
                "iam-metadata", "multiple-at-once"}
    /\ dial \in {"none", "endpoint", "ca"}
    /\ token \in {"unset", "valid", "invalid", "expired"}
    /\ call \in Calls \cup {"none"}
    /\ attempt \in 0..(MaxAttempts - 1)
    /\ result \in {"none", "ok", "error", "exceeded"}
    /\ reply \in {"none", "success", "failed", "busy", "denied",
                 "unavailable", "broken"}
    /\ reply # "none" => pc = "sent"
    /\ conns \in Nat /\ waited \in Nat
    /\ upgrade \in [from : [Nodes -> (Nat \X Nat) \cup {None}],
                   to : (Nat \X Nat) \cup {None}]
    /\ running \in [Nodes -> (Nat \X Nat) \cup {None}]
    /\ listed \in [Nodes -> (Nat \X Nat) \cup {None}]
    /\ before \in [Nodes -> (Nat \X Nat) \cup {None}]
    /\ known \subseteq Nat \X Nat
    /\ acted \in BOOLEAN /\ swallowed \in BOOLEAN
    /\ uid \in 0..1
    /\ created \subseteq Nat

(* Credentials given by options of the command line are the ones used: a   *)
(* profile or the environment can only make the invocation be refused.     *)
(* Of SA_KEY_FILE alone this is not true.                                  *)
FlagDecides ==
    pc = "idle" /\ given # None =>
        LET creds == Creds(given) IN
        /\ "token-file" \in given.flags =>
              creds.type = "iam-token" /\ creds.secret = "flag"
        /\ given.metadata => creds.type = "iam-metadata"
        /\ {"user", "password-file"} \subseteq given.flags =>
              creds = [type |-> "static", user |-> "flag", secret |-> "flag"]
        /\ "sa-key-file" \in given.flags /\ given.iamEndpoint =>
              /\ creds.type = "iam-creds"
              /\ creds.secret = "flag" \/ "SA_KEY_FILE" \in given.env

(* Without grouping by tenants the lock that a restart asks for lasts for  *)
(* one pass over the nodes, round after round, with the delays between.    *)
Rounds(nNodes, inflight) ==
    CHOOSE r \in 1..nNodes :
        r * inflight >= nNodes /\ (r - 1) * inflight < nNodes

OutlastsPass(restart, nNodes) ==
    restart.tenants = 0 /\ restart.inflight > 0 /\ restart.retries > 0 =>
        GetRestartDuration(restart, nNodes) >=
            Rounds(nNodes, restart.inflight) * (restart.duration + restart.delay)

LockOutlastsPass ==
    pc = "idle" /\ given # None =>
        \A nNodes \in 1..5 : OutlastsPass(given.restart, nNodes)

(* The service acts again on the same call only if an outage has swallowed *)
(* its answer; no other error is answered with another attempt, and the    *)
(* calls that are not retried are acted on once.                           *)
DuplicatesOnlyFromOutage ==
    [][acted /\ reply = "none" /\ reply' = "success"
          => swallowed /\ Wrapped(call)]_vars

(* However often the creation is retried, after an answer lost on the way  *)
(* too, the CMS knows one task, by the uid that the loop will name.        *)
OneTask == created \subseteq {uid}

(* Only Tenants and the login leave connections open, and both happen once *)
(* in an invocation.                                                       *)
ConnectionsBounded == conns <= MaxAttempts + 2

(* The versions that nodes have had since the restart began. *)
Had == {upgrade.from[n] : n \in Nodes} \cup {running[n] : n \in Nodes}

(* A restart to a neighbouring version is never stopped by the check,      *)
(* whatever nodes the checks were shown and in whatever order they came    *)
(* back, and an outage of the CMS does not stop it either.                 *)
UpgradeNotStopped ==
    pc = "failed" /\ call = "check" =>
        result = "error" \/ (result = "ok" /\ ~V!Neighbouring(Had \ {None}))

(* The restart does not go on when the nodes of the last check have minors *)
(* too far apart among each other, or from those they had at earlier       *)
(* checks: "comparing before\after of some restarted node".                *)
SkipsNoticed ==
    [][call = "check" /\ call' # "check" /\ result = "ok" =>
          \A n, m \in Nodes :
              V!Near(listed[n], listed[m]) /\ V!Near(before[n], listed[m])]_vars

(* "Nodes must not differ by more than one major": the restart goes on     *)
(* after a check only if those listed do not.                              *)
MajorsNotSkipped ==
    [][call = "check" /\ call' # "check" /\ result = "ok" =>
          V!AtMostOneMajor({listed[n] : n \in Nodes} \ {None})]_vars

(* A call is given up after all attempts, and not before it has paused for *)
(* 2^(MaxAttempts - 1) - 1 seconds: a shorter outage is survived.          *)
Persists ==
    [][pc = "sent" /\ result' = "exceeded"
          => waited = TwoTo[MaxAttempts - 1] - 1]_vars

(* Every call keeps the promise of Call. *)
C == INSTANCE Call WITH
    phase <- IF InCall THEN "called" ELSE IF Ended THEN "over" ELSE "idle",
    resultless <- Resultless(call),
    acted <- acted,
    result <- result

ImplementsCall == C!Spec

(* Every call returns, or the invocation ends.                             *)
CallReturns == InCall ~> ~InCall
=============================================================================
