---------------------------- MODULE SessionProofs ----------------------------
(***************************************************************************)
(* Proofs about Versions, Startup and Session: what the version check lets *)
(* through, which credentials are used, and what a call promises whatever  *)
(* is lost, retried or answered inside it.                                 *)
(***************************************************************************)
EXTENDS Session, NatLemmas

-----------------------------------------------------------------------------
(* The version check. *)

(* The check finds nothing wrong with two versions that are neighbours.    *)
THEOREM CheckNeverTooStrict ==
    ASSUME NEW seen \in SUBSET (Nat \X Nat), V!Neighbouring(seen)
    PROVE  V!NoIssues(seen)
  <1>1. ASSUME NEW major, NEW minor \in V!MinorsOf(seen, major)
        PROVE  /\ \E v \in seen : v[1] = major /\ v[2] = minor
               /\ minor \in Nat
    BY <1>1 DEF V!MinorsOf
  <1>2. ASSUME NEW major \in V!Majors(seen)
        PROVE  V!CheckWithinOneMajor(seen, major)
    <2> SUFFICES ASSUME NEW p \in V!LowHigh(V!MinorsOf(seen, major))
                 PROVE  p[2] - p[1] <= 1
      BY DEF V!CheckWithinOneMajor
    <2>1. p[1] \in V!MinorsOf(seen, major) /\ p[2] \in V!MinorsOf(seen, major)
      BY DEF V!LowHigh
    <2>2. PICK v \in seen : v[1] = major /\ v[2] = p[1]
      BY <1>1, <2>1
    <2>3. PICK w \in seen : w[1] = major /\ w[2] = p[2]
      BY <1>1, <2>1
    <2>4. V!Near(v, w) /\ v # None /\ w # None
      BY SessionAssumption DEF V!Neighbouring
    <2> QED
      BY <2>2, <2>3, <2>4 DEF V!Near, V!OneApart
  <1>3. ASSUME NEW major \in V!Majors(seen)
        PROVE  V!CheckWithPreviousMajors(seen, major)
    <2> SUFFICES ASSUME NEW older \in V!Majors(seen), older < major,
                        NEW p \in V!LowHigh(V!MinorsOf(seen, older))
                 PROVE  p[1] = p[2]
      BY DEF V!CheckWithPreviousMajors
    <2>1. p[1] \in V!MinorsOf(seen, older) /\ p[2] \in V!MinorsOf(seen, older)
      BY DEF V!LowHigh
    <2>2. PICK v \in seen : v[1] = older /\ v[2] = p[1]
      BY <1>1, <2>1
    <2>3. PICK w \in seen : w[1] = older /\ w[2] = p[2]
      BY <1>1, <2>1
    <2>4. PICK x \in seen : x[1] = major
      BY <1>3 DEF V!Majors
    <2>5. x # v /\ x # w
      BY <2>2, <2>3, <2>4
    <2> QED
      BY <2>2, <2>3, <2>5 DEF V!Neighbouring, V!AtMostTwo
  <1> QED
    BY <1>2, <1>3 DEF V!NoIssues

LEMMA FinitelyManyMinors ==
    ASSUME NEW seen \in SUBSET (Nat \X Nat), IsFiniteSet(seen), NEW major
    PROVE  IsFiniteSet(V!MinorsOf(seen, major))
  <1> DEFINE ofMajor == {w \in seen : w[1] = major}
             minor == [v \in ofMajor |-> v[2]]
  <1>1. IsFiniteSet(ofMajor)
    BY FS_Subset
  <1>2. minor \in Surjection(ofMajor, V!MinorsOf(seen, major))
    BY DEF V!MinorsOf, Surjection
  <1> QED
    BY <1>1, <1>2, FS_Surjection

(* Of versions that the check lets through none skips a minor, and there   *)
(* is one only of each older major, for any finite set of them: a listing  *)
(* shows one, and a set without a highest minor is none that findLowHigh   *)
(* could look through.                                                     *)
THEOREM CheckNeverTooLax ==
    ASSUME NEW seen \in SUBSET (Nat \X Nat), IsFiniteSet(seen),
           V!NoIssues(seen)
    PROVE  /\ \A v, w \in seen : V!Near(v, w)
           /\ \A v, w, x \in seen : v[1] = w[1] /\ v[1] < x[1] => v = w
  <1>1. ASSUME NEW v \in seen
        PROVE  \E p \in V!LowHigh(V!MinorsOf(seen, v[1])) :
                   /\ p[1] \in Nat /\ p[2] \in Nat
                   /\ \A w \in seen :
                         w[1] = v[1] => p[1] <= w[2] /\ w[2] <= p[2]
    <2> DEFINE minors == V!MinorsOf(seen, v[1])
    <2>1. minors \in SUBSET Nat /\ minors # {} /\ IsFiniteSet(minors)
      BY FinitelyManyMinors DEF V!MinorsOf
    <2>2. PICK low, high \in minors :
                \A x \in minors : low <= x /\ x <= high
      BY <2>1, FiniteExtremes
    <2>3. <<low, high>> \in V!LowHigh(minors)
      BY <2>2 DEF V!LowHigh
    <2>4. \A w \in seen : w[1] = v[1] => low <= w[2] /\ w[2] <= high
      BY <2>2 DEF V!MinorsOf
    <2>5. low \in Nat /\ high \in Nat
      BY <2>1
    <2> QED
      BY <2>3, <2>4, <2>5
  <1>2. ASSUME NEW v \in seen, NEW w \in seen, v[1] = w[1]
        PROVE  v[2] - w[2] <= 1 /\ w[2] - v[2] <= 1
    <2>1. PICK p \in V!LowHigh(V!MinorsOf(seen, v[1])) :
              /\ p[1] \in Nat /\ p[2] \in Nat
              /\ \A u \in seen : u[1] = v[1] => p[1] <= u[2] /\ u[2] <= p[2]
      BY <1>1
    <2>2. p[2] - p[1] <= 1
      BY <2>1 DEF V!NoIssues, V!Majors, V!CheckWithinOneMajor
    <2>3. p[1] <= v[2] /\ v[2] <= p[2] /\ p[1] <= w[2] /\ w[2] <= p[2]
      BY <1>2, <2>1
    <2> QED
      BY <2>1, <2>2, <2>3
  <1>3. ASSUME NEW v \in seen, NEW w \in seen, NEW x \in seen,
               v[1] = w[1], v[1] < x[1]
        PROVE  v = w
    <2>1. PICK p \in V!LowHigh(V!MinorsOf(seen, v[1])) :
              /\ p[1] \in Nat /\ p[2] \in Nat
              /\ \A u \in seen : u[1] = v[1] => p[1] <= u[2] /\ u[2] <= p[2]
      BY <1>1
    <2>2. p[1] = p[2]
      BY <1>3, <2>1 DEF V!NoIssues, V!Majors, V!CheckWithPreviousMajors
    <2>3. p[1] <= v[2] /\ v[2] <= p[2] /\ p[1] <= w[2] /\ w[2] <= p[2]
      BY <1>3, <2>1
    <2>4. v[2] = w[2]
      BY <2>1, <2>2, <2>3
    <2>5. v = <<v[1], v[2]>> /\ w = <<w[1], w[2]>>
      OBVIOUS
    <2> QED
      BY <1>3, <2>4, <2>5
  <1> QED
    BY <1>2, <1>3 DEF V!Near, V!OneApart

-----------------------------------------------------------------------------
(* The credentials. *)

(* Of several types that are named none is taken.                          *)
LEMMA OneType ==
    ASSUME NEW g, NEW type \in ExplicitAuthTypes(g)
    PROVE  AuthType(g) \in {type, "multiple-at-once"}
  <1> DEFINE types == ExplicitAuthTypes(g)
  <1>1. IsFiniteSet({"static", "iam-metadata", "iam-token", "iam-creds"})
    <2>1. {"static", "iam-metadata", "iam-token", "iam-creds"} =
              (({"static"} \cup {"iam-metadata"}) \cup {"iam-token"})
                  \cup {"iam-creds"}
      OBVIOUS
    <2>2. IsFiniteSet({"static"})
      BY FS_Singleton
    <2>3. IsFiniteSet({"static"} \cup {"iam-metadata"})
      BY <2>2, FS_AddElement
    <2>4. IsFiniteSet(({"static"} \cup {"iam-metadata"}) \cup {"iam-token"})
      BY <2>3, FS_AddElement
    <2>5. IsFiniteSet((({"static"} \cup {"iam-metadata"}) \cup {"iam-token"})
                          \cup {"iam-creds"})
      BY <2>4, FS_AddElement
    <2> QED
      BY <2>1, <2>5
  <1>2. IsFiniteSet(types)
    BY <1>1, FS_Subset DEF ExplicitAuthTypes
  <1>3. CASE Cardinality(types) = 1
    <2>1. types = {type}
      BY <1>2, <1>3, FS_Singleton
    <2> QED
      BY <1>3, <2>1 DEF AuthType
  <1>4. CASE Cardinality(types) # 1
    BY <1>4 DEF AuthType
  <1> QED
    BY <1>3, <1>4

LEMMA AcceptedType ==
    ASSUME NEW g, NEW type \in ExplicitAuthTypes(g),
           Accepted(g)
    PROVE  AuthType(g) = type
  <1>1. Secret(g) # "error"
    BY DEF Accepted
  <1>2. AuthType(g) # "multiple-at-once"
    BY <1>1 DEF Secret
  <1> QED
    BY <1>2, OneType

(* The type and the secret of an accepted invocation come from the options *)
(* of the command line wherever they name them.                            *)
FlagsDecide(g) ==
    LET creds == Creds(g) IN
    /\ "token-file" \in g.flags =>
          creds.type = "iam-token" /\ creds.secret = "flag"
    /\ g.metadata => creds.type = "iam-metadata"
    /\ {"user", "password-file"} \subseteq g.flags =>
          creds = [type |-> "static", user |-> "flag", secret |-> "flag"]
    /\ "sa-key-file" \in g.flags /\ g.iamEndpoint =>
          /\ creds.type = "iam-creds"
          /\ creds.secret = "flag" \/ "SA_KEY_FILE" \in g.env

LEMMA AcceptedFlags == ASSUME NEW g, Accepted(g) PROVE FlagsDecide(g)
  <1> DEFINE creds == Creds(g)
  <1>1. /\ creds.type = AuthType(g) /\ creds.secret = Secret(g)
        /\ creds.user = Filled(g, "user")
        /\ creds = [type |-> creds.type, user |-> creds.user,
                    secret |-> creds.secret]
    BY DEF Creds
  <1>2. Secret(g) # "error"
    BY DEF Accepted
  <1>3. \A option : option \in g.flags =>
            Filled(g, option) = "flag" /\ Given(g, option)
    BY StartupAssumption DEF Filled, Given
  <1> HIDE DEF creds
  <1>4. ASSUME "token-file" \in g.flags
        PROVE  creds.type = "iam-token" /\ creds.secret = "flag"
    <2>1. "iam-token" \in ExplicitAuthTypes(g)
      BY <1>3, <1>4 DEF ExplicitAuthTypes
    <2>2. AuthType(g) = "iam-token"
      BY <2>1, AcceptedType
    <2>3. Secret(g) = Token(g)
      BY <2>2 DEF Secret
    <2>4. Token(g) = FromFile(g, "token-file")
      BY <1>3, <1>4 DEF Token
    <2> QED
      BY <1>1, <1>2, <1>3, <1>4, <2>2, <2>3, <2>4 DEF FromFile
  <1>5. ASSUME g.metadata PROVE creds.type = "iam-metadata"
    <2>1. "iam-metadata" \in ExplicitAuthTypes(g)
      BY <1>5 DEF ExplicitAuthTypes
    <2> QED
      BY <1>1, <2>1, AcceptedType
  <1>6. ASSUME {"user", "password-file"} \subseteq g.flags
        PROVE  creds = [type |-> "static", user |-> "flag", secret |-> "flag"]
    <2>1. "static" \in ExplicitAuthTypes(g)
      BY <1>3, <1>6 DEF ExplicitAuthTypes
    <2>2. AuthType(g) = "static"
      BY <2>1, AcceptedType
    <2>3. Secret(g) = StaticPassword(g)
      BY <2>2 DEF Secret
    <2>4. StaticPassword(g) = FromFile(g, "password-file")
      BY <1>3, <1>6 DEF StaticPassword
    <2>5. creds.secret = "flag" /\ creds.user = "flag"
      BY <1>1, <1>2, <1>3, <1>6, <2>3, <2>4 DEF FromFile
    <2> QED
      BY <1>1, <2>2, <2>5
  <1>7. ASSUME "sa-key-file" \in g.flags, g.iamEndpoint
        PROVE  /\ creds.type = "iam-creds"
               /\ creds.secret = "flag" \/ "SA_KEY_FILE" \in g.env
    <2>1. "iam-creds" \in ExplicitAuthTypes(g)
      BY <1>3, <1>7 DEF ExplicitAuthTypes
    <2>2. AuthType(g) = "iam-creds"
      BY <2>1, AcceptedType
    <2>3. Secret(g) = KeyFile(g)
      BY <2>2 DEF Secret
    <2> QED
      BY <1>1, <1>2, <1>3, <1>7, <2>2, <2>3 DEF KeyFile
  <1> QED
    BY <1>4, <1>5, <1>6, <1>7 DEF FlagsDecide, creds

-----------------------------------------------------------------------------
(* The inductive invariant of Session. *)

Fates == {"none", "success", "failed", "busy", "denied", "unavailable",
          "broken"}

StateOK ==
    /\ pc \in {"start", "idle", "auth", "connect", "sent", "backoff",
              "refused", "fatal", "failed", "over"}
    /\ call \in Calls \cup {"none"}
    /\ result \in {"none", "ok", "error", "exceeded"}
    /\ reply \in Fates
    /\ attempt \in 0..(MaxAttempts - 1)
    /\ acted \in BOOLEAN

(* What the place in a call says of the attempts and the answer.           *)
CallOK ==
    /\ InCall => call \in Calls /\ result = "none" /\ given = None
    /\ pc = "start" => call = "none" /\ result = "none"
    /\ pc = "idle" /\ call # "none" => result # "none"
    /\ call = "none" => result = "none" /\ conns = 0 /\ attempt = 0
    /\ reply # "none" => pc = "sent"
    /\ pc \in {"idle", "auth"} => attempt = 0
    /\ pc = "backoff" => attempt + 1 < MaxAttempts /\ Wrapped(call)
    /\ pc = "connect" /\ Discovery(call) => attempt = 0

(* What the service has done.                                              *)
ServiceOK ==
    /\ pc = "auth" => ~acted
    /\ pc = "connect" /\ Discovery(call) => ~acted
    /\ InCall /\ acted => reply \in {"success", "broken"} \/ swallowed
    /\ InCall /\ acted /\ reply = "none" => swallowed /\ Wrapped(call)
    /\ reply = "success" => acted

(* Open connections: the one in use and those that are left open.          *)
InUse == pc = "sent" \/ (pc \in {"auth", "fatal"} /\ Discovery(call))

Leaked ==
    (IF token = "unset" THEN 0 ELSE 1)
    + IF call \in {"none", "nodes"} THEN 0
      ELSE IF call = "tenants" /\ InCall
           THEN attempt + (IF pc = "backoff" THEN 1 ELSE 0)
      ELSE MaxAttempts

ConnsOK ==
    /\ conns \in Nat
    /\ InUse => 1 <= conns /\ conns <= Leaked + 1
    /\ ~InUse => conns <= Leaked

(* What the check says when it ends the restart.                           *)
CheckOK ==
    pc = "failed" /\ call = "check" =>
        result = "error" \/ (result = "ok" /\ ~V!NoIssues(known))

GivenOK == pc = "idle" /\ given # None => Accepted(given)

SInv == StateOK /\ CallOK /\ ServiceOK /\ ConnsOK /\ CheckOK /\ GivenOK

LEMMA Attempts == MaxAttempts \in Nat /\ MaxAttempts >= 1
  BY SessionAssumption

LEMMA SessionInit == ASSUME Init PROVE SInv
  <1> USE DEF Init
  <1>1. StateOK
    <2>1. 0 \in 0..(MaxAttempts - 1)
      BY Attempts
    <2> QED
      BY <2>1 DEF StateOK, Fates
  <1>2. CallOK /\ ServiceOK
    BY Attempts DEF CallOK, ServiceOK, InCall, Discovery, Wrapped
  <1>3. ConnsOK /\ CheckOK /\ GivenOK
    <2>1. Leaked = 0 /\ ~InUse
      BY DEF Leaked, InUse
    <2> QED
      BY <2>1 DEF ConnsOK, CheckOK, GivenOK
  <1> QED
    BY <1>1, <1>2, <1>3 DEF SInv

-----------------------------------------------------------------------------
(* Every step keeps it. *)
LEMMA StartStep == ASSUME SInv, Start PROVE SInv'
  <1> USE DEF SInv, Start, setting, cluster, versions, service, InCall
  <1>1. StateOK'
    BY Attempts DEF StateOK, Fates, Calls
  <1>2. CallOK'
    BY Attempts DEF StateOK, CallOK, Discovery, Wrapped, Calls, IsLast
  <1>3. ServiceOK'
    BY DEF StateOK, CallOK, ServiceOK, Discovery, Wrapped, Transient
  <1>4. ConnsOK'
    BY Attempts DEF StateOK, CallOK, ConnsOK, InUse, Leaked, Discovery, Calls
  <1>5. CheckOK'
    BY DEF CallOK, CheckOK
  <1>6. GivenOK'
    BY DEF GivenOK
  <1> QED
    BY <1>1, <1>2, <1>3, <1>4, <1>5, <1>6

LEMMA BeginStep == ASSUME SInv, NEW c \in Calls, Begin(c) PROVE SInv'
  <1> USE DEF SInv, Begin, Following, AfterError, setting, cluster, versions, service, InCall
  <1>1. StateOK'
    BY Attempts DEF StateOK, Fates, Calls
  <1>2. CallOK'
    BY Attempts DEF StateOK, CallOK, Discovery, Wrapped, Calls, IsLast
  <1>3. ServiceOK'
    BY DEF StateOK, CallOK, ServiceOK, Discovery, Wrapped, Transient
  <1>4. ConnsOK'
    <2>1. /\ c = "nodes" => call = "none"
          /\ c = "tenants" => call = "nodes"
          /\ c \notin {"nodes", "tenants"} => call \notin {"none", "nodes"}
      BY DEF StateOK, CallOK, Calls, Loop
    <2>2. conns <= Leaked /\ conns \in Nat
      BY DEF ConnsOK, InUse
    <2>3. ~InUse'
      BY DEF InUse, Discovery
    <2>4. Leaked <= Leaked'
      <3>1. CASE c \in {"nodes", "tenants"}
        BY <2>1, <3>1, Attempts DEF Leaked, CallOK
      <3>2. CASE c \notin {"nodes", "tenants"}
        <4>1. Leaked = (IF token = "unset" THEN 0 ELSE 1) + MaxAttempts
          BY <2>1, <3>2 DEF Leaked
        <4>2. Leaked' = (IF token = "unset" THEN 0 ELSE 1) + MaxAttempts
          BY <3>2 DEF Leaked, Calls
        <4> QED
          BY <4>1, <4>2, Attempts
      <3> QED
        BY <3>1, <3>2
    <2>5. Leaked \in Nat /\ Leaked' \in Nat
      BY Attempts DEF Leaked, StateOK
    <2> QED
      BY <2>2, <2>3, <2>4, <2>5 DEF ConnsOK
  <1>5. CheckOK'
    BY DEF CallOK, CheckOK
  <1>6. GivenOK'
    BY DEF GivenOK
  <1> QED
    BY <1>1, <1>2, <1>3, <1>4, <1>5, <1>6

LEMMA FailStep == ASSUME SInv, Fail PROVE SInv'
  <1> USE DEF SInv, Fail, Following, AfterError, setting, cluster, versions, service, InCall
  <1>1. StateOK'
    BY Attempts DEF StateOK, Fates, Calls
  <1>2. CallOK'
    BY Attempts DEF StateOK, CallOK, Discovery, Wrapped, Calls, IsLast
  <1>3. ServiceOK'
    BY DEF StateOK, CallOK, ServiceOK, Discovery, Wrapped, Transient
  <1>4. ConnsOK'
    BY Attempts DEF StateOK, CallOK, ConnsOK, InUse, Leaked, Discovery, Calls
  <1>5. CheckOK'
    BY DEF StateOK, CallOK, CheckOK, Tolerated, Loop
  <1>6. GivenOK'
    BY DEF GivenOK
  <1> QED
    BY <1>1, <1>2, <1>3, <1>4, <1>5, <1>6

LEMMA FinishStep == ASSUME SInv, Finish PROVE SInv'
  <1> USE DEF SInv, Finish, setting, cluster, versions, service, InCall
  <1>1. StateOK'
    BY Attempts DEF StateOK, Fates, Calls
  <1>2. CallOK'
    BY Attempts DEF StateOK, CallOK, Discovery, Wrapped, Calls, IsLast
  <1>3. ServiceOK'
    BY DEF StateOK, CallOK, ServiceOK, Discovery, Wrapped, Transient
  <1>4. ConnsOK'
    BY Attempts DEF StateOK, CallOK, ConnsOK, InUse, Leaked, Discovery, Calls
  <1>5. CheckOK'
    BY DEF CallOK, CheckOK
  <1>6. GivenOK'
    BY DEF GivenOK
  <1> QED
    BY <1>1, <1>2, <1>3, <1>4, <1>5, <1>6

LEMMA UnusableStep == ASSUME SInv, Unusable PROVE SInv'
  <1> USE DEF SInv, Unusable, setting, cluster, versions, service, InCall
  <1>1. StateOK'
    BY Attempts DEF StateOK, Fates, Calls
  <1>2. CallOK'
    BY Attempts DEF StateOK, CallOK, Discovery, Wrapped, Calls, IsLast
  <1>3. ServiceOK'
    BY DEF StateOK, CallOK, ServiceOK, Discovery, Wrapped, Transient
  <1>4. ConnsOK'
    BY Attempts DEF StateOK, CallOK, ConnsOK, InUse, Leaked, Discovery, Calls
  <1>5. CheckOK'
    BY DEF CallOK, CheckOK
  <1>6. GivenOK'
    BY DEF GivenOK
  <1> QED
    BY <1>1, <1>2, <1>3, <1>4, <1>5, <1>6

LEMMA LoginStep == ASSUME SInv, Login PROVE SInv'
  <1> USE DEF SInv, Login, AfterAuth, Opened, setting, cluster, versions, service, InCall
  <1>1. StateOK'
    BY Attempts DEF StateOK, Fates, Calls
  <1>2. CallOK'
    BY Attempts DEF StateOK, CallOK, Discovery, Wrapped, Calls, IsLast
  <1>3. ServiceOK'
    BY DEF StateOK, CallOK, ServiceOK, Discovery, Wrapped, Transient
  <1>4. ConnsOK'
    BY Attempts DEF StateOK, CallOK, ConnsOK, InUse, Leaked, Discovery, Calls
  <1>5. CheckOK'
    BY DEF CallOK, CheckOK
  <1>6. GivenOK'
    BY DEF GivenOK
  <1> QED
    BY <1>1, <1>2, <1>3, <1>4, <1>5, <1>6

LEMMA UseTokenStep == ASSUME SInv, UseToken PROVE SInv'
  <1> USE DEF SInv, UseToken, AfterAuth, setting, cluster, versions, service, InCall
  <1>1. StateOK'
    BY Attempts DEF StateOK, Fates, Calls
  <1>2. CallOK'
    BY Attempts DEF StateOK, CallOK, Discovery, Wrapped, Calls, IsLast
  <1>3. ServiceOK'
    BY DEF StateOK, CallOK, ServiceOK, Discovery, Wrapped, Transient
  <1>4. ConnsOK'
    BY Attempts DEF StateOK, CallOK, ConnsOK, InUse, Leaked, Discovery, Calls
  <1>5. CheckOK'
    BY DEF CallOK, CheckOK
  <1>6. GivenOK'
    BY DEF GivenOK
  <1> QED
    BY <1>1, <1>2, <1>3, <1>4, <1>5, <1>6

LEMMA AskTokenStep == ASSUME SInv, AskToken PROVE SInv'
  <1> USE DEF SInv, AskToken, AfterAuth, setting, cluster, versions, service, InCall
  <1>1. StateOK'
    BY Attempts DEF StateOK, Fates, Calls
  <1>2. CallOK'
    BY Attempts DEF StateOK, CallOK, Discovery, Wrapped, Calls, IsLast
  <1>3. ServiceOK'
    BY DEF StateOK, CallOK, ServiceOK, Discovery, Wrapped, Transient
  <1>4. ConnsOK'
    BY Attempts DEF StateOK, CallOK, ConnsOK, InUse, Leaked, Discovery, Calls
  <1>5. CheckOK'
    BY DEF CallOK, CheckOK
  <1>6. GivenOK'
    BY DEF GivenOK
  <1> QED
    BY <1>1, <1>2, <1>3, <1>4, <1>5, <1>6

LEMMA KeepTokenStep == ASSUME SInv, KeepToken PROVE SInv'
  <1> USE DEF SInv, KeepToken, AfterAuth, setting, cluster, versions, service, InCall
  <1>1. StateOK'
    BY Attempts DEF StateOK, Fates, Calls
  <1>2. CallOK'
    BY Attempts DEF StateOK, CallOK, Discovery, Wrapped, Calls, IsLast
  <1>3. ServiceOK'
    BY DEF StateOK, CallOK, ServiceOK, Discovery, Wrapped, Transient
  <1>4. ConnsOK'
    BY Attempts DEF StateOK, CallOK, ConnsOK, InUse, Leaked, Discovery, Calls
  <1>5. CheckOK'
    BY DEF CallOK, CheckOK
  <1>6. GivenOK'
    BY DEF GivenOK
  <1> QED
    BY <1>1, <1>2, <1>3, <1>4, <1>5, <1>6

LEMMA ConnectStep == ASSUME SInv, Connect PROVE SInv'
  <1> USE DEF SInv, Connect, Opened, setting, cluster, versions, service, InCall
  <1>1. StateOK'
    BY Attempts DEF StateOK, Fates, Calls
  <1>2. CallOK'
    BY Attempts DEF StateOK, CallOK, Discovery, Wrapped, Calls, IsLast
  <1>3. ServiceOK'
    BY DEF StateOK, CallOK, ServiceOK, Discovery, Wrapped, Transient
  <1>4. ConnsOK'
    BY Attempts DEF MaxConns, StateOK, CallOK, ConnsOK, InUse, Leaked, Discovery, Calls
  <1>5. CheckOK'
    BY DEF CallOK, CheckOK
  <1>6. GivenOK'
    BY DEF GivenOK
  <1> QED
    BY <1>1, <1>2, <1>3, <1>4, <1>5, <1>6

LEMMA ConnectFailsStep == ASSUME SInv, ConnectFails PROVE SInv'
  <1> USE DEF SInv, ConnectFails, Return, setting, cluster, versions, service, InCall
  <1>1. StateOK'
    BY Attempts DEF StateOK, Fates, Calls
  <1>2. CallOK'
    BY Attempts DEF StateOK, CallOK, Discovery, Wrapped, Calls, IsLast
  <1>3. ServiceOK'
    BY DEF StateOK, CallOK, ServiceOK, Discovery, Wrapped, Transient
  <1>4. ConnsOK'
    BY Attempts DEF StateOK, CallOK, ConnsOK, InUse, Leaked, Discovery, Calls
  <1>5. CheckOK'
    BY DEF CallOK, CheckOK
  <1>6. GivenOK'
    BY DEF GivenOK, CallOK
  <1> QED
    BY <1>1, <1>2, <1>3, <1>4, <1>5, <1>6

LEMMA RetryStep == ASSUME SInv, Retry PROVE SInv'
  <1> USE DEF SInv, Retry, Closed, Closes, setting, cluster, versions, service, InCall
  <1>1. StateOK'
    BY Attempts DEF StateOK, Fates, Calls
  <1>2. CallOK'
    BY Attempts DEF StateOK, CallOK, Discovery, Wrapped, Calls, IsLast
  <1>3. ServiceOK'
    BY DEF StateOK, CallOK, ServiceOK, Discovery, Wrapped, Transient
  <1>4. ConnsOK'
    BY Attempts DEF StateOK, CallOK, ConnsOK, InUse, Leaked, Discovery, Calls
  <1>5. CheckOK'
    BY DEF CallOK, CheckOK
  <1>6. GivenOK'
    BY DEF GivenOK
  <1> QED
    BY <1>1, <1>2, <1>3, <1>4, <1>5, <1>6

LEMMA BackoffStep == ASSUME SInv, Backoff PROVE SInv'
  <1> USE DEF SInv, Backoff, NextAttempt, setting, cluster, versions, service, InCall
  <1>1. StateOK'
    BY Attempts DEF StateOK, CallOK
  <1>2. CallOK'
    BY Attempts DEF StateOK, CallOK, Discovery, Wrapped, Calls, IsLast
  <1>3. ServiceOK'
    BY DEF StateOK, CallOK, ServiceOK, Discovery, Wrapped, Transient
  <1>4. ConnsOK'
    BY Attempts DEF StateOK, CallOK, ConnsOK, InUse, Leaked, Discovery, Calls
  <1>5. CheckOK'
    BY DEF CallOK, CheckOK
  <1>6. GivenOK'
    BY DEF GivenOK
  <1> QED
    BY <1>1, <1>2, <1>3, <1>4, <1>5, <1>6

LEMMA GiveUpStep == ASSUME SInv, GiveUp PROVE SInv'
  <1> USE DEF SInv, GiveUp, Closed, Closes, Return, setting, cluster, versions, service, InCall
  <1>1. StateOK'
    BY Attempts DEF StateOK, Fates, Calls
  <1>2. CallOK'
    BY Attempts DEF StateOK, CallOK, Discovery, Wrapped, Calls, IsLast
  <1>3. ServiceOK'
    BY DEF StateOK, CallOK, ServiceOK, Discovery, Wrapped, Transient
  <1>4. ConnsOK'
    BY Attempts DEF StateOK, CallOK, ConnsOK, InUse, Leaked, Discovery, Calls
  <1>5. CheckOK'
    BY DEF CallOK, CheckOK
  <1>6. GivenOK'
    BY DEF GivenOK, CallOK
  <1> QED
    BY <1>1, <1>2, <1>3, <1>4, <1>5, <1>6

LEMMA ReceiveStep == ASSUME SInv, Receive PROVE SInv'
  <1> USE DEF SInv, Receive, Closed, Closes, Return, setting, cluster, versions, service, InCall
  <1>1. StateOK'
    BY Attempts DEF StateOK, Fates
  <1>2. CallOK'
    BY Attempts DEF StateOK, CallOK, Discovery, Wrapped, Calls, IsLast
  <1>3. ServiceOK'
    BY DEF StateOK, CallOK, ServiceOK, Discovery, Wrapped, Transient
  <1>4. ConnsOK'
    BY Attempts DEF StateOK, CallOK, ConnsOK, InUse, Leaked, Discovery, Calls
  <1>5. CheckOK'
    BY DEF CallOK, CheckOK
  <1>6. GivenOK'
    BY DEF GivenOK, CallOK
  <1> QED
    BY <1>1, <1>2, <1>3, <1>4, <1>5, <1>6

LEMMA ActStep == ASSUME SInv, Act PROVE SInv'
  <1> USE DEF SInv, Act, Answer, setting, cluster, versions, service, InCall
  <1>1. StateOK'
    BY DEF StateOK, Fates
  <1>2. CallOK'
    BY Attempts DEF StateOK, CallOK, Discovery, Wrapped, Calls, IsLast
  <1>3. ServiceOK'
    BY DEF StateOK, CallOK, ServiceOK, Discovery, Wrapped, Transient
  <1>4. ConnsOK'
    BY Attempts DEF StateOK, CallOK, ConnsOK, InUse, Leaked, Discovery, Calls
  <1>5. CheckOK'
    BY DEF CallOK, CheckOK
  <1>6. GivenOK'
    BY DEF GivenOK
  <1> QED
    BY <1>1, <1>2, <1>3, <1>4, <1>5, <1>6

LEMMA DeclineStep == ASSUME SInv, Decline PROVE SInv'
  <1> USE DEF SInv, Decline, Answer, setting, cluster, versions, service, InCall
  <1>1. StateOK'
    BY Attempts DEF StateOK, Fates, Calls
  <1>2. CallOK'
    BY Attempts DEF StateOK, CallOK, Discovery, Wrapped, Calls, IsLast
  <1>3. ServiceOK'
    BY DEF StateOK, CallOK, ServiceOK, Discovery, Wrapped, Transient
  <1>4. ConnsOK'
    BY Attempts DEF StateOK, CallOK, ConnsOK, InUse, Leaked, Discovery, Calls
  <1>5. CheckOK'
    BY DEF CallOK, CheckOK
  <1>6. GivenOK'
    BY DEF GivenOK
  <1> QED
    BY <1>1, <1>2, <1>3, <1>4, <1>5, <1>6

LEMMA DenyStep == ASSUME SInv, Deny PROVE SInv'
  <1> USE DEF SInv, Deny, Answer, setting, cluster, versions, service, InCall
  <1>1. StateOK'
    BY Attempts DEF StateOK, Fates, Calls
  <1>2. CallOK'
    BY Attempts DEF StateOK, CallOK, Discovery, Wrapped, Calls, IsLast
  <1>3. ServiceOK'
    BY DEF StateOK, CallOK, ServiceOK, Discovery, Wrapped, Transient
  <1>4. ConnsOK'
    BY Attempts DEF StateOK, CallOK, ConnsOK, InUse, Leaked, Discovery, Calls
  <1>5. CheckOK'
    BY DEF CallOK, CheckOK
  <1>6. GivenOK'
    BY DEF GivenOK
  <1> QED
    BY <1>1, <1>2, <1>3, <1>4, <1>5, <1>6

LEMMA BreakStep == ASSUME SInv, Break PROVE SInv'
  <1> USE DEF SInv, Break, Answer, setting, cluster, versions, service, InCall
  <1>1. StateOK'
    BY Attempts DEF StateOK, Fates, Calls
  <1>2. CallOK'
    BY Attempts DEF StateOK, CallOK, Discovery, Wrapped, Calls, IsLast
  <1>3. ServiceOK'
    BY DEF StateOK, CallOK, ServiceOK, Discovery, Wrapped, Transient
  <1>4. ConnsOK'
    BY Attempts DEF StateOK, CallOK, ConnsOK, InUse, Leaked, Discovery, Calls
  <1>5. CheckOK'
    BY DEF CallOK, CheckOK
  <1>6. GivenOK'
    BY DEF GivenOK
  <1> QED
    BY <1>1, <1>2, <1>3, <1>4, <1>5, <1>6

LEMMA ExpireStep == ASSUME SInv, Expire PROVE SInv'
  <1> USE DEF SInv, Expire, setting, cluster, versions, service, InCall
  <1>1. StateOK'
    BY Attempts DEF StateOK, Fates, Calls
  <1>2. CallOK'
    BY Attempts DEF StateOK, CallOK, Discovery, Wrapped, Calls, IsLast
  <1>3. ServiceOK'
    BY DEF StateOK, CallOK, ServiceOK, Discovery, Wrapped, Transient
  <1>4. ConnsOK'
    BY Attempts DEF StateOK, CallOK, ConnsOK, InUse, Leaked, Discovery, Calls
  <1>5. CheckOK'
    BY DEF CallOK, CheckOK
  <1>6. GivenOK'
    BY DEF GivenOK
  <1> QED
    BY <1>1, <1>2, <1>3, <1>4, <1>5, <1>6

LEMMA SessionStep == ASSUME SInv, [Next]_vars PROVE SInv'
  <1>1. CASE Client
    BY <1>1, StartStep, BeginStep, FailStep, FinishStep, UnusableStep,
       LoginStep, UseTokenStep, AskTokenStep, KeepTokenStep, ConnectStep,
       ConnectFailsStep, RetryStep, BackoffStep, GiveUpStep, ReceiveStep
       DEF Client, Authenticate
  <1>2. CASE Service
    BY <1>2, ActStep, DeclineStep, DenyStep, BreakStep DEF Service
  <1>3. CASE Expire
    BY <1>3, ExpireStep
  <1>4. CASE UNCHANGED vars
    <2> USE <1>4 DEF SInv, vars, setting, cluster, versions, service
    <2>1. StateOK' /\ CallOK' /\ ServiceOK'
      BY DEF StateOK, CallOK, ServiceOK, InCall
    <2>2. ConnsOK' /\ CheckOK' /\ GivenOK'
      BY DEF ConnsOK, InUse, Leaked, InCall, CheckOK, GivenOK
    <2> QED
      BY <2>1, <2>2
  <1> QED
    BY <1>1, <1>2, <1>3, <1>4 DEF Next, Over

LEMMA SessionInductive == Spec => []SInv
  BY SessionInit, SessionStep, PTL DEF Spec

-----------------------------------------------------------------------------
(* Types and pauses. *)
LEMMA Powers ==
    /\ TwoTo[0] = 1
    /\ \A n \in Nat : /\ TwoTo[n] \in Nat /\ TwoTo[n] >= 1
                      /\ TwoTo[n + 1] = 2 * TwoTo[n]
    /\ \A m, n \in Nat : m <= n => TwoTo[m] <= TwoTo[n]
  BY Doubling, DoublingGrows DEF TwoTo

LEMMA AuthTypes ==
    ASSUME NEW g
    PROVE  AuthType(g) \in {"none", "static", "iam-token", "iam-creds",
                            "iam-metadata", "multiple-at-once"}
  <1>1. CASE ExplicitAuthTypes(g) = {}
    BY <1>1 DEF AuthType, ImplicitAuthType
  <1>2. CASE ExplicitAuthTypes(g) # {}
    <2>1. PICK type \in ExplicitAuthTypes(g) : TRUE
      BY <1>2
    <2>2. AuthType(g) \in {type, "multiple-at-once"}
      BY OneType
    <2> QED
      BY <2>2 DEF ExplicitAuthTypes
  <1> QED
    BY <1>1, <1>2

(* The pauses of a call add up to one second less than the next one.       *)
PausesOK == waited = TwoTo[attempt] - 1

LEMMA PausesInit == ASSUME Init PROVE PausesOK
  BY Powers DEF Init, PausesOK

LEMMA PausesStep == ASSUME SInv, PausesOK, [Next]_vars PROVE PausesOK'
  <1> USE DEF PausesOK
  <1>1. CASE Backoff
    <2>1. attempt \in Nat /\ attempt <= MaxAttempts - 1 /\ MaxAttempts - 1 \in Nat
      BY Attempts DEF SInv, StateOK
    <2>2. waited <= MaxWait
      BY <2>1, Powers DEF MaxWait
    <2>3. waited' = waited + TwoTo[attempt] /\ attempt' = attempt + 1
      BY <1>1, <2>1, <2>2, Powers DEF Backoff, backoffTimeAfter, NextAttempt, MaxWait
    <2> QED
      BY <2>1, <2>3, Powers
  <1>2. CASE ConnectFails \/ GiveUp \/ Receive
    BY <1>2, Powers DEF ConnectFails, GiveUp, Receive, Return
  <1>3. CASE ~(Backoff \/ ConnectFails \/ GiveUp \/ Receive)
    BY <1>3 DEF Next, Client, Service, Authenticate, Start, Begin, Fail,
                Finish, Unusable, Login, UseToken, AskToken, KeepToken,
                AfterAuth, Connect, Retry, Act, Decline, Deny, Break, Answer,
                Expire, Over, vars
  <1> QED
    BY <1>1, <1>2, <1>3

LEMMA PausesInductive == Spec => []PausesOK
  BY SessionInductive, PausesInit, PausesStep, PTL DEF Spec

(* The parts of TypeOK that the invariant does not say.                    *)
OptionsOK ==
    /\ pc = "start" => given # None
    /\ auth \in {"unset", "none", "static", "iam-token", "iam-creds",
                 "iam-metadata", "multiple-at-once"}
    /\ dial \in {"none", "endpoint", "ca"}
    /\ token \in {"unset", "valid", "invalid", "expired"}
    /\ swallowed \in BOOLEAN

LEMMA OptionsInit == ASSUME Init PROVE OptionsOK
  BY SessionAssumption DEF Init, OptionsOK

LEMMA OptionsStep == ASSUME OptionsOK, [Next]_vars PROVE OptionsOK'
  <1> USE DEF OptionsOK, setting, cluster, versions, service
  <1>1. CASE Start
    BY <1>1, AuthTypes DEF Start
  <1>2. CASE Authenticate \/ Expire
    BY <1>2 DEF Authenticate, Unusable, Login, UseToken, AskToken, KeepToken,
                AfterAuth, Expire
  <1>3. CASE Service
    BY <1>3 DEF Service, Act, Decline, Deny, Break, Answer
  <1>4. CASE ~(Start \/ Authenticate \/ Expire \/ Service)
    BY <1>4 DEF Next, Client, Begin, Fail, Finish, Connect, ConnectFails,
                Return, Retry, Backoff, GiveUp, Receive, Over, vars
  <1> QED
    BY <1>1, <1>2, <1>3, <1>4

(* The uid is made once, before the task can be created.                   *)
UidOK ==
    /\ uid \in 0..1
    /\ created \subseteq {uid}
    /\ call \in {"none", "nodes", "tenants", "whoami"} => uid = 0 /\ created = {}

LEMMA UidInit == ASSUME Init PROVE UidOK
  BY DEF Init, UidOK

LEMMA UidStep == ASSUME SInv, UidOK, [Next]_vars PROVE UidOK'
  <1> USE DEF UidOK, setting, cluster, versions, service
  <1>1. ASSUME NEW c \in Calls, Begin(c) PROVE UidOK'
    <2>1. CASE c = "list"
      <3>1. /\ "list" \in Following /\ call \in Calls \cup {"none"}
            /\ call = "none" => result # "ok"
        BY <1>1, <2>1 DEF Begin, SInv, StateOK, CallOK
      <3>2. "list" \notin AfterError
        BY DEF AfterError, Loop
      <3>3. call = "whoami"
        BY <3>1, <3>2 DEF Following, Loop, Calls
      <3> QED
        BY <1>1, <2>1, <3>3 DEF Begin
    <2>2. CASE c # "list"
      <3>1. c \in {"nodes", "tenants", "whoami"} =>
                call \in {"none", "nodes", "tenants"}
        BY <1>1 DEF Begin, Following, AfterError, Loop, SInv, StateOK, Calls
      <3>2. UNCHANGED <<uid, created>> /\ call' = c
        BY <1>1, <2>2 DEF Begin
      <3> QED
        BY <2>2, <3>1, <3>2 DEF Calls
    <2> QED
      BY <2>1, <2>2
  <1>2. CASE Act
    BY <1>2 DEF Act, Answer
  <1>3. CASE Backoff
    BY <1>3 DEF Backoff, SentAgain
  <1>4. CASE Start
    BY <1>4 DEF Start
  <1>5. CASE Fail \/ Finish \/ Authenticate \/ Connect \/ ConnectFails \/ Retry
               \/ GiveUp \/ Receive \/ Decline \/ Deny \/ Break \/ Expire
               \/ UNCHANGED vars
    BY <1>5 DEF Fail, Finish, Authenticate, Unusable, Login, UseToken,
        AskToken, KeepToken, AfterAuth, Connect, ConnectFails, Return, Retry,
        GiveUp, Receive, Decline, Deny, Break, Answer, Expire, vars
  <1> QED
    BY <1>1, <1>2, <1>3, <1>4, <1>5 DEF Next, Client, Service, Over

LEMMA UidInductive == Spec => []UidOK
  BY SessionInductive, UidInit, UidStep, PTL DEF Spec

-----------------------------------------------------------------------------
(* The versions.  A node has the version from before the restart or the    *)
(* new one; a listing shows what runs, or nothing of a node; and of what   *)
(* the checks were shown nothing is forgotten and nothing made up.         *)
Readable == Nat \X Nat
Maybe == Readable \cup {None}

RunningOK ==
    /\ upgrade \in [from : [Nodes -> Maybe], to : Maybe]
    /\ running \in [Nodes -> Maybe]
    /\ \A n \in Nodes : running[n] = upgrade.from[n] \/ running[n] = upgrade.to

KnownOK ==
    /\ known \subseteq Readable /\ known \subseteq Had
    /\ listed \in [Nodes -> Maybe] /\ before \in [Nodes -> Maybe]
    /\ \A n \in Nodes : listed[n] = None \/ listed[n] = running[n]
    /\ \A n \in Nodes : before[n] = None \/ before[n] \in known
    /\ pc \in {"idle", "failed", "over"} /\ call = "check" /\ result = "ok" =>
          \A n \in Nodes : listed[n] = None \/ listed[n] \in known

VersionsOK == RunningOK /\ KnownOK

LEMMA VersionsInit == ASSUME Init PROVE VersionsOK
  <1>1. upgrade \in [from : [Nodes -> Maybe], to : Maybe]
    BY SessionAssumption DEF Init, Maybe, Readable
  <1>2. Nothing \in [Nodes -> Maybe] /\ \A n \in Nodes : Nothing[n] = None
    BY DEF Nothing, Maybe
  <1> QED
    BY <1>1, <1>2 DEF Init, VersionsOK, RunningOK, KnownOK

(* Nodes come up on the new version, and nothing is listed yet.            *)
LEMMA VersionsBegin ==
    ASSUME VersionsOK, NEW c \in Calls, Begin(c)
    PROVE  VersionsOK'
  <1> USE DEF VersionsOK
  <1>1. Nothing \in [Nodes -> Maybe] /\ \A n \in Nodes : Nothing[n] = None
    BY DEF Nothing, Maybe
  <1>2. UNCHANGED <<upgrade, known, before>> /\ listed' = Nothing
        /\ result' = "none"
    BY DEF Begin
  <1>3. /\ running' \in [Nodes -> Maybe]
        /\ \A n \in Nodes : running'[n] = running[n] \/ running'[n] = upgrade.to
    <2>1. CASE c = "complete"
      <3>1. PICK nodes \in SUBSET Nodes : Restarted(nodes)
        BY <2>1 DEF Begin
      <3> QED
        BY <3>1 DEF Restarted, RunningOK
    <2>2. CASE c # "complete"
      BY <2>2 DEF Begin, RunningOK
    <2> QED
      BY <2>1, <2>2
  <1>4. RunningOK'
    BY <1>2, <1>3 DEF RunningOK
  <1>5. Had \subseteq Had'
    <2>1. \A n \in Nodes : running[n] \in Had'
      <3> SUFFICES ASSUME NEW n \in Nodes PROVE running[n] \in Had'
        OBVIOUS
      <3>1. running[n] = upgrade.from[n] \/ running[n] = running'[n]
        BY <1>3 DEF RunningOK
      <3> QED
        BY <1>2, <3>1 DEF Had
    <2> QED
      BY <1>2, <2>1 DEF Had
  <1>6. KnownOK'
    BY <1>1, <1>2, <1>5 DEF KnownOK
  <1> QED
    BY <1>4, <1>6

(* What the check was shown is remembered when its answer has come.        *)
LEMMA VersionsReceive ==
    ASSUME VersionsOK, Receive
    PROVE  VersionsOK'
  <1> USE DEF VersionsOK, setting, cluster, Return
  <1>1. RunningOK' /\ Had' = Had /\ UNCHANGED <<listed, call, running>>
    BY DEF Receive, RunningOK, Had
  <1>2. CASE call = "check" /\ Good(reply)
    <2>1. known' = known \cup ({listed[n] : n \in Nodes} \ {None})
      BY <1>2 DEF Receive, Compare, V!Remember
    <2>2. before' = [n \in Nodes |->
                       IF before[n] = None THEN listed[n] ELSE before[n]]
      BY <1>2 DEF Receive, Compare
    <2>3. \A n \in Nodes : listed[n] = None
                           \/ (listed[n] \in Readable /\ listed[n] \in Had)
      BY DEF KnownOK, Maybe, Had
    <2>4. \A n \in Nodes : listed[n] = None \/ listed[n] \in known'
      BY <2>1
    <2>5. known' \subseteq Readable /\ known' \subseteq Had
      BY <2>1, <2>3 DEF KnownOK
    <2>6. /\ before' \in [Nodes -> Maybe]
          /\ \A n \in Nodes : before'[n] = None \/ before'[n] \in known'
      BY <2>1, <2>2, <2>4 DEF KnownOK
    <2> QED
      BY <1>1, <2>4, <2>5, <2>6 DEF KnownOK
  <1>3. CASE ~(call = "check" /\ Good(reply))
    BY <1>1, <1>3 DEF Receive, KnownOK
  <1> QED
    BY <1>2, <1>3

LEMMA VersionsAct ==
    ASSUME VersionsOK, Act
    PROVE  VersionsOK'
  <1> USE DEF VersionsOK, setting, cluster
  <1>1. RunningOK' /\ Had' = Had /\ UNCHANGED <<known, before, pc, running>>
    BY DEF Act, Answer, RunningOK, Had
  <1>2. pc = "sent"
    BY DEF Act
  <1>3. /\ listed' \in [Nodes -> Maybe]
        /\ \A n \in Nodes : listed'[n] = None \/ listed'[n] = running[n]
    <2>1. CASE call = "check"
      <3>1. PICK up \in SUBSET Nodes : listed' = Shown(up)
        BY <2>1 DEF Act
      <3> QED
        BY <3>1 DEF Shown, RunningOK, Maybe
    <2>2. CASE call # "check"
      BY <2>2 DEF Act, KnownOK
    <2> QED
      BY <2>1, <2>2
  <1> QED
    BY <1>1, <1>2, <1>3 DEF KnownOK

LEMMA VersionsStep == ASSUME SInv, VersionsOK, [Next]_vars PROVE VersionsOK'
  <1> DEFINE Same == UNCHANGED <<cluster, versions>>
             Kept == /\ UNCHANGED <<call, result>>
                     /\ pc' \in {"idle", "failed", "over"} =>
                           pc \in {"idle", "failed", "over"}
  <1>1. ASSUME Same, Kept \/ result' # "ok" PROVE VersionsOK'
    BY <1>1 DEF VersionsOK, RunningOK, KnownOK, Had, cluster, versions
  <1>2. CASE ConnectFails \/ GiveUp
    BY <1>1, <1>2 DEF ConnectFails, GiveUp, Return, setting
  <1>3. CASE Start
    BY <1>1, <1>3 DEF Start, SInv, CallOK, StateOK
  <1>4. CASE Fail \/ Finish \/ Authenticate \/ Connect \/ Retry \/ Backoff
               \/ Expire \/ UNCHANGED vars
    <2> USE DEF setting
    <2>1. CASE Fail \/ Finish \/ Expire \/ UNCHANGED vars
      BY <1>1, <2>1 DEF Fail, Finish, Expire, vars
    <2>2. CASE Authenticate \/ Connect \/ Retry \/ Backoff
      BY <1>1, <2>2 DEF Authenticate, Unusable, Login, UseToken, AskToken,
         KeepToken, AfterAuth, Connect, Retry, Backoff
    <2> QED
      BY <1>4, <2>1, <2>2
  <1>5. CASE Decline \/ Deny \/ Break
    BY <1>1, <1>5 DEF Decline, Deny, Break, Answer, setting, versions
  <1> QED
    BY <1>2, <1>3, <1>4, <1>5, VersionsBegin, VersionsReceive, VersionsAct
       DEF Next, Client, Service, Over

LEMMA VersionsInductive == Spec => []VersionsOK
  BY SessionInductive, VersionsInit, VersionsStep, PTL DEF Spec

-----------------------------------------------------------------------------
(* The variables keep their types, the pauses and the uids among them.     *)
THEOREM TypeCorrect == Spec => []TypeOK
  <1>1. Spec => []OptionsOK
    BY OptionsInit, OptionsStep, PTL DEF Spec
  <1>2. ASSUME SInv, PausesOK, OptionsOK, UidOK, VersionsOK PROVE TypeOK
    <2>1. waited \in Nat
      BY <1>2, Attempts, Powers DEF SInv, StateOK, PausesOK
    <2>2. uid \in 0..1 /\ created \subseteq Nat
      BY <1>2 DEF UidOK
    <2>3. /\ upgrade \in [from : [Nodes -> (Nat \X Nat) \cup {None}],
                          to : (Nat \X Nat) \cup {None}]
          /\ running \in [Nodes -> (Nat \X Nat) \cup {None}]
          /\ listed \in [Nodes -> (Nat \X Nat) \cup {None}]
          /\ before \in [Nodes -> (Nat \X Nat) \cup {None}]
          /\ known \subseteq Nat \X Nat
      BY <1>2 DEF VersionsOK, RunningOK, KnownOK, Maybe, Readable
    <2> QED
      BY <1>2, <2>1, <2>2, <2>3
         DEF SInv, StateOK, CallOK, ConnsOK, OptionsOK, TypeOK, Fates
  <1> QED
    BY <1>1, <1>2, SessionInductive, PausesInductive, UidInductive,
       VersionsInductive, PTL

-----------------------------------------------------------------------------
(* The properties. *)

(* A call is given up after all its attempts and all the pauses between    *)
(* them, for any number of attempts: a shorter outage is survived.         *)
THEOREM PersistsSafe == Spec => Persists
  <1>1. ASSUME SInv, PausesOK, [Next]_vars, pc = "sent", result' = "exceeded"
        PROVE  waited = TwoTo[MaxAttempts - 1] - 1
    <2>1. GiveUp
      BY <1>1 DEF SInv, CallOK, InCall, Next, Client, Service, Authenticate,
           Start, Begin, Fail, Finish, Unusable, Login, UseToken, AskToken,
           KeepToken, AfterAuth, Connect, ConnectFails, Return, Retry, Backoff,
           Receive, Act, Decline, Deny, Break, Answer, Expire, Over, Ended, vars
    <2>2. attempt = MaxAttempts - 1
      BY <1>1, <2>1, Attempts DEF GiveUp, IsLast, SInv, StateOK
    <2> QED
      BY <1>1, <2>2 DEF PausesOK
  <1>2. SInv /\ PausesOK /\ [Next]_vars =>
            [pc = "sent" /\ result' = "exceeded"
                => waited = TwoTo[MaxAttempts - 1] - 1]_vars
    BY <1>1
  <1> QED
    BY <1>2, SessionInductive, PausesInductive, PTL DEF Spec, Persists

(* Options of the command line decide which credentials are used.          *)
THEOREM FlagDecidesSafe == Spec => []FlagDecides
  <1>1. SInv => FlagDecides
    <2> SUFFICES ASSUME SInv, pc = "idle", given # None
                 PROVE  FlagsDecide(given)
      BY DEF FlagDecides, FlagsDecide
    <2> QED
      BY AcceptedFlags DEF SInv, GivenOK
  <1> QED
    BY <1>1, SessionInductive, PTL

(* The lock lasts for one pass over any number of nodes: the division that *)
(* rounds up counts the rounds, and each is asked for with all attempts.   *)
LEMMA AcceptedOutlasts ==
    ASSUME NEW g \in Givens, Accepted(g), NEW nNodes \in Nat \ {0}
    PROVE  OutlastsPass(g.restart, nNodes)
  <1> DEFINE restart == g.restart
             d == restart.inflight
             rounds == Rounds(nNodes, d)
             asked == restart.duration * restart.retries + restart.delay
             pass == restart.duration + restart.delay
  <1>1. restart \in [duration : Int, retries : Int, inflight : Int,
                     tenants : Int, interval : Int, delay : Int]
    BY SessionAssumption
  <1> SUFFICES ASSUME d > 0, restart.retries > 0
               PROVE  GetRestartDuration(restart, nNodes) >= rounds * pass
    BY DEF OutlastsPass
  <1>2. d \in Nat \ {0} /\ restart.retries \in Nat \ {0}
        /\ restart.duration \in Nat
    BY <1>1 DEF Accepted, RestartValidate
  <1>3. Ceil(nNodes, d) = rounds /\ rounds \in 1..nNodes
    <2>1. \E r \in 1..nNodes : r * d >= nNodes /\ (r - 1) * d < nNodes
      BY <1>2, RoundedUp
    <2>2. /\ rounds \in 1..nNodes
          /\ rounds * d >= nNodes /\ (rounds - 1) * d < nNodes
      BY <2>1 DEF Rounds
    <2> QED
      BY <1>2, <2>2, RoundedUp DEF Ceil
  <1>4. asked \in Int /\ pass \in Int /\ asked >= pass
    <2>1. restart.duration * restart.retries >= restart.duration
      BY <1>2
    <2>2. restart.duration * restart.retries \in Int
      BY <1>2
    <2> QED
      BY <1>1, <2>1, <2>2
  <1>5. GetRestartDuration(restart, nNodes) = rounds * asked
    BY <1>3 DEF GetRestartDuration
  <1> HIDE DEF asked, pass, rounds
  <1>6. rounds * asked >= rounds * pass
    BY <1>3, <1>4
  <1> QED
    BY <1>5, <1>6

(* What an invocation is given is one of Givens until its calls begin.     *)
GivenKnown == given \in Givens \cup {None}

LEMMA GivenStays == ASSUME GivenKnown, [Next]_vars PROVE GivenKnown'
  BY DEF GivenKnown, Next, Client, Service, Authenticate, Start, Begin, Fail, Finish,
         Unusable, Login, UseToken, AskToken, KeepToken, AfterAuth,
         Connect, ConnectFails, Return, Retry, Backoff, GiveUp, Receive,
         Act, Decline, Deny, Break, Answer, Expire, Over, vars, setting

(* Whatever the number of nodes, and not only for up to 5 of them.         *)
OutlastsAnyPass ==
    pc = "idle" /\ given # None =>
        \A nNodes \in Nat \ {0} : OutlastsPass(given.restart, nNodes)

(* The lock that an accepted invocation asks for lasts for one pass over   *)
(* the nodes, as many as there are: GetRestartDuration.                    *)
THEOREM LockOutlastsAnyPass == Spec => []OutlastsAnyPass
  <1>1. Init => GivenKnown
    BY DEF Init, GivenKnown
  <1>2. SInv /\ GivenKnown => OutlastsAnyPass
    BY AcceptedOutlasts DEF GivenKnown, SInv, GivenOK, OutlastsAnyPass
  <1> QED
    BY <1>1, <1>2, GivenStays, SessionInductive, PTL DEF Spec

(* The run's instance of it, for 1 to 5 nodes.                             *)
THEOREM LockOutlastsPassSafe == Spec => []LockOutlastsPass
  <1>1. OutlastsAnyPass => LockOutlastsPass
    BY DEF OutlastsAnyPass, LockOutlastsPass
  <1> QED
    BY <1>1, LockOutlastsAnyPass, PTL

(* However often the creation is retried and whatever answers are lost,    *)
(* the CMS knows one task, by the uid that prepareState has made.          *)
THEOREM OneTaskSafe == Spec => []OneTask
  <1>1. UidOK => OneTask
    BY DEF UidOK, OneTask
  <1> QED
    BY <1>1, UidInductive, PTL

(* An invocation never holds more connections than one attempt and a few.  *)
THEOREM ConnectionsBoundedSafe == Spec => []ConnectionsBounded
  <1>1. ASSUME SInv PROVE ConnectionsBounded
    <2>1. Leaked <= MaxAttempts + 1 /\ Leaked \in Nat
      BY <1>1, Attempts DEF SInv, StateOK, CallOK, Leaked
    <2> QED
      BY <1>1, <2>1, Attempts DEF SInv, ConnsOK, ConnectionsBounded
  <1> QED
    BY <1>1, SessionInductive, PTL

(* The service acts again on a call only after an outage has swallowed its *)
(* answer, and never on one that is not retried.                           *)
THEOREM DuplicatesOnlyFromOutageSafe == Spec => DuplicatesOnlyFromOutage
  <1>1. ASSUME SInv, [Next]_vars, acted, reply = "none", reply' = "success"
        PROVE  swallowed /\ Wrapped(call)
    <2>1. pc = "sent"
      <3> USE <1>1
      <3>1. CASE Service
        BY <3>1 DEF Service, Act, Decline, Deny, Break
      <3>2. CASE ~Service
        BY <3>2 DEF Next, Client, Authenticate, Start, Begin, Fail, Finish,
             Unusable, Login, UseToken, AskToken, KeepToken, AfterAuth,
             Connect, ConnectFails, Return, Retry, Backoff, GiveUp, Receive,
             Expire, Over, vars
      <3> QED
        BY <3>1, <3>2
    <2> QED
      BY <1>1, <2>1 DEF SInv, ServiceOK, InCall
  <1>2. SInv /\ [Next]_vars =>
            [acted /\ reply = "none" /\ reply' = "success"
                => swallowed /\ Wrapped(call)]_vars
    BY <1>1
  <1> QED
    BY <1>2, SessionInductive, PTL DEF Spec, DuplicatesOnlyFromOutage

(* No check ends a restart whose nodes had neighbouring versions only, in  *)
(* whatever order they came back, unless its call failed for good.         *)
THEOREM UpgradeNotStoppedSafe == Spec => []UpgradeNotStopped
  <1>1. ASSUME SInv, VersionsOK, pc = "failed", call = "check", result # "error"
        PROVE  result = "ok" /\ ~V!Neighbouring(Had \ {None})
    <2>1. result = "ok" /\ ~V!NoIssues(known)
      BY <1>1 DEF SInv, CheckOK
    <2>2. known \in SUBSET (Nat \X Nat) /\ known \subseteq Had \ {None}
      BY <1>1, SessionAssumption DEF VersionsOK, KnownOK, Readable
    <2>3. ~V!Neighbouring(known)
      BY <2>1, <2>2, CheckNeverTooStrict
    <2>4. V!Neighbouring(Had \ {None}) => V!Neighbouring(known)
      BY <2>2 DEF V!Neighbouring, V!AtMostTwo, V!AtMostOneMajor
    <2> QED
      BY <2>1, <2>3, <2>4
  <1>2. SInv /\ VersionsOK => UpgradeNotStopped
    BY <1>1 DEF UpgradeNotStopped
  <1> QED
    BY <1>2, SessionInductive, VersionsInductive, PTL

(* There are finitely many versions to look through.                       *)
LEMMA KnownFinite == ASSUME VersionsOK PROVE IsFiniteSet(known)
  <1> DEFINE old == {upgrade.from[n] : n \in Nodes}
             new == {running[n] : n \in Nodes}
             oldOf == [n \in Nodes |-> upgrade.from[n]]
             newOf == [n \in Nodes |-> running[n]]
  <1>1. oldOf \in Surjection(Nodes, old) /\ newOf \in Surjection(Nodes, new)
    BY DEF Surjection
  <1>2. IsFiniteSet(old) /\ IsFiniteSet(new)
    BY <1>1, FS_Surjection, SessionAssumption
  <1>3. IsFiniteSet(Had)
    <2>1. Had = old \cup new
      BY DEF Had
    <2> HIDE DEF old, new
    <2> QED
      BY <1>2, <2>1, FS_Union
  <1>4. known \in SUBSET Had
    BY DEF VersionsOK, KnownOK
  <1> QED
    BY <1>3, <1>4, FS_Subset

(* The restart goes on after a check only if no node that it listed has    *)
(* skipped a minor, against the others or against what a node had before.  *)
THEOREM SkipsNoticedSafe == Spec => SkipsNoticed
  <1>1. ASSUME SInv, VersionsOK, [Next]_vars,
               call = "check", call' # "check", result = "ok",
               NEW n \in Nodes, NEW m \in Nodes
        PROVE  V!Near(listed[n], listed[m]) /\ V!Near(before[n], listed[m])
    <2>1. PICK c \in Calls : Begin(c)
      BY <1>1
         DEF Next, Client, Service, Authenticate, Start, Fail, Finish,
             Unusable, Login, UseToken, AskToken, KeepToken, AfterAuth,
             Connect, ConnectFails, Return, Retry, Backoff, GiveUp, Receive,
             Act, Decline, Deny, Break, Answer, Expire, Over, vars, setting
    <2>2. V!NoIssues(known) /\ pc = "idle"
      BY <1>1, <2>1 DEF Begin, Following
    <2>3. known \in SUBSET (Nat \X Nat) /\ IsFiniteSet(known)
      BY <1>1, KnownFinite DEF VersionsOK, KnownOK, Readable
    <2>4. \A v, w \in known : V!Near(v, w)
      BY <2>2, <2>3, CheckNeverTooLax
    <2>5. /\ listed[n] = None \/ listed[n] \in known
          /\ listed[m] = None \/ listed[m] \in known
          /\ before[n] = None \/ before[n] \in known
      BY <1>1, <2>2 DEF VersionsOK, KnownOK
    <2> QED
      BY <2>4, <2>5 DEF V!Near
  <1>2. SInv /\ VersionsOK /\ [Next]_vars =>
            [call = "check" /\ call' # "check" /\ result = "ok" =>
                \A n, m \in Nodes :
                    V!Near(listed[n], listed[m])
                    /\ V!Near(before[n], listed[m])]_vars
    BY <1>1
  <1> QED
    BY <1>2, SessionInductive, VersionsInductive, PTL DEF Spec, SkipsNoticed

(* Every call keeps the promise of Call.                                   *)
THEOREM ImplementsCallSafe == Spec => ImplementsCall
  <1> USE DEF InCall, Ended
  <1>1. Init => C!Init
    BY DEF Init, C!Init, Resultless
  <1>2. ASSUME SInv, [Next]_vars
        PROVE  [C!Next]_(C!callVars)
    <2> USE <1>2 DEF C!callVars, setting, cluster, versions, service
    <2>1. CASE Start
      BY <2>1 DEF Start, C!Next, C!End, SInv, CallOK
    <2>2. ASSUME NEW c \in Calls, Begin(c) PROVE C!Next
      BY <2>2 DEF Begin, C!Next, C!Begin, Resultless
    <2>3. CASE Fail \/ Finish
      BY <2>3 DEF Fail, Finish, C!Next, C!End
    <2>4. CASE Unusable
      BY <2>4 DEF Unusable, C!Next, C!Fatal, SInv, ServiceOK, StateOK
    <2>5. CASE Login \/ UseToken \/ AskToken \/ KeepToken \/ Connect
                  \/ Retry \/ Backoff \/ Expire
      BY <2>5 DEF Login, UseToken, AskToken, KeepToken, AfterAuth, Connect,
                  Retry, Backoff, Expire
    <2>6. CASE ConnectFails \/ GiveUp
      BY <2>6 DEF ConnectFails, GiveUp, Return, C!Next, C!Return
    <2>7. CASE Receive
      <3>1. Good(reply) => acted \/ Resultless(call)
        BY DEF Good, SInv, ServiceOK
      <3> QED
        BY <2>7, <3>1 DEF Receive, Return, C!Next, C!Return
    <2>8. CASE Act
      BY <2>8 DEF Act, Answer, C!Next, C!Act
    <2>9. CASE Decline \/ Deny \/ Break
      BY <2>9 DEF Decline, Deny, Break, Answer
    <2>10. CASE UNCHANGED vars
      BY <2>10 DEF vars
    <2> QED
      BY <1>2, <2>1, <2>2, <2>3, <2>4, <2>5, <2>6, <2>7, <2>8, <2>9, <2>10
         DEF Next, Client, Service, Authenticate, Over
  <1> QED
    BY <1>1, <1>2, SessionInductive, PTL DEF Spec, ImplementsCall, C!Spec

-----------------------------------------------------------------------------
(* The way to the end of a call. *)

(* The executor of the discovery connects before it looks for a token.     *)
PlaceInCall ==
    IF Discovery(call)
    THEN [connect |-> 1, auth |-> 2, sent |-> 3, backoff |-> 4]
    ELSE [auth |-> 1, connect |-> 2, sent |-> 3, backoff |-> 4]

Finality ==
    [none |-> 1, success |-> 2, failed |-> 3, busy |-> 3, denied |-> 3,
     unavailable |-> 3, broken |-> 3]

(* The call has returned, or counts one attempt more, or has come to a     *)
(* later place of the attempt, or to an answer that is nearer to being     *)
(* the last.                                                               *)
Onward ==
    \/ ~InCall'
    \/ attempt' = attempt + 1
    \/ attempt' = attempt /\ PlaceInCall'[pc'] > PlaceInCall[pc]
    \/ /\ UNCHANGED <<attempt, pc>>
       /\ Finality[reply'] > Finality[reply]

(* No step of a client inside a call, or of the service, is taken in vain: *)
(* whatever is denied, declined, cut off or tried again, the call comes    *)
(* nearer to its return.  By TypeOK the attempts stay below MaxAttempts,   *)
(* so a call takes finitely many of them.                                  *)
CallGoesOn == [][InCall /\ (Client \/ Service) => Onward /\ call' = call]_vars

THEOREM CallGoesOnSafe == Spec => CallGoesOn
  <1>1. ASSUME SInv, Next, InCall, Client \/ Service
        PROVE  Onward /\ call' = call
    <2> USE <1>1 DEF InCall, Onward, PlaceInCall, Finality, Discovery,
                     setting, cluster, versions, service
    <2>1. CASE Start \/ (\E c \in Calls : Begin(c)) \/ Fail \/ Finish
      BY <2>1 DEF Start, Begin, Fail, Finish
    <2>2. CASE Authenticate
      BY <2>2 DEF Authenticate, Unusable, Login, UseToken, AskToken,
                  KeepToken, AfterAuth
    <2>3. CASE Connect
      BY <2>3 DEF Connect
    <2>4. CASE ConnectFails \/ GiveUp \/ Receive
      BY <2>4 DEF ConnectFails, GiveUp, Receive, Return
    <2>5. CASE Retry
      BY <2>5 DEF Retry
    <2>6. CASE Backoff
      BY <2>6 DEF Backoff, NextAttempt
    <2>7. CASE Act \/ Decline \/ Deny \/ Break
      BY <2>7 DEF Act, Decline, Deny, Break, Answer
    <2> QED
      BY <1>1, <2>1, <2>2, <2>3, <2>4, <2>5, <2>6, <2>7 DEF Client, Service
  <1>2. SInv /\ [Next]_vars =>
            [InCall /\ (Client \/ Service) => Onward /\ call' = call]_vars
    BY <1>1
  <1> QED
    BY <1>2, SessionInductive, PTL DEF Spec, CallGoesOn
=============================================================================
