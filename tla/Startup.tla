------------------------------- MODULE Startup -------------------------------
(***************************************************************************)
(* What an invocation makes of its options, its profile file and its       *)
(* environment before the first call: PopulateProfileDefaultsAndValidate   *)
(* of pkg/cli with the options of pkg/options, pkg/profile, pkg/rolling.   *)
(*                                                                         *)
(* A value is named by where it comes from: "flag", "profile", "env" or    *)
(* None.  What the invocation is given is a record:                        *)
(*   flags        the string options that have a value                     *)
(*   metadata     --use-metadata-credentials                               *)
(*   iamEndpoint  whether the iam endpoint has a value (by default it has) *)
(*   named        whether --profile names a profile                        *)
(*   file         the profile file: [status, current, found, fields]       *)
(*   env          the environment variables that are set                   *)
(*   empty        those of them that hold the empty string                 *)
(*   missing      the files that cannot be read, each <<option, source>>   *)
(*   url          the endpoint each source names: [scheme, grpcs, port],   *)
(*                grpcs if the text has "grpcs" anywhere                   *)
(*   skipVerify, timeout                                                   *)
(*   restart      the numbers of a rolling restart, see Valid              *)
(***************************************************************************)
EXTENDS Integers, FiniteSets

CONSTANT None

ASSUME StartupAssumption == None \notin {"flag", "profile", "env"}

-----------------------------------------------------------------------------
(* The options that a profile may fill. *)
ProfileOptions ==
    {"user", "password-file", "token-file", "sa-key-file", "endpoint",
     "ca-file", "kubeconfig", "k8s-namespace"}

UsesProfile(given) == given.file.status # "absent"

(* FillDefaultsFromActiveProfile ends with an error. *)
ProfileFails(given) ==
    IF ~UsesProfile(given) THEN given.named
    ELSE \/ given.file.status = "malformed"
         \/ ~given.named /\ ~given.file.current
         \/ ~given.file.found
         \/ ~(given.file.fields \subseteq ProfileOptions)

(* Mutant: the profile's value wins. *)
ProfileFirst(given, option) ==
    IF UsesProfile(given) /\ option \in given.file.fields THEN "profile"
    ELSE IF option \in given.flags THEN "flag"
    ELSE None

(* The profile fills what is still at its default. *)
Filled(given, option) ==
    IF option \in given.flags THEN "flag"
    ELSE IF UsesProfile(given) /\ option \in given.file.fields THEN "profile"
    ELSE None

Given(given, option) == Filled(given, option) # None

Unreadable(given, option) ==
    <<option, Filled(given, option)>> \in given.missing

-----------------------------------------------------------------------------
(* GRPC.Validate. Without an endpoint nothing else is looked at; each call *)
(* then fails on its own.                                                  *)
Url(given) == given.url[Filled(given, "endpoint")]

CaFileAccepted(given) ==
    Given(given, "ca-file") =>
        /\ Given(given, "endpoint") /\ Url(given).grpcs
        /\ ~Unreadable(given, "ca-file")

EndpointAccepted(given) ==
    Given(given, "endpoint") =>
        /\ Url(given).scheme \in {"grpc", "grpcs"}
        /\ given.skipVerify => Url(given).scheme = "grpcs"
        /\ Url(given).port = None \/ Url(given).port \in 0..65536

GRPCValidate(given) ==
    CaFileAccepted(given) /\ given.timeout >= 0 /\ EndpointAccepted(given)

(* GRPCSecure *)
Secure(given) == Given(given, "endpoint") /\ Url(given).scheme = "grpcs"

-----------------------------------------------------------------------------
(* determineExplicitAuthType: every type the options and the profile name. *)
ExplicitAuthTypes(given) ==
    {type \in {"static", "iam-metadata", "iam-token", "iam-creds"} :
        \/ /\ type = "static"
           /\ Given(given, "user")
           /\ Given(given, "password-file") \/ "YDB_PASSWORD" \in given.env
        \/ type = "iam-metadata" /\ given.metadata
        \/ type = "iam-token" /\ Given(given, "token-file")
        \/ /\ type = "iam-creds"
           /\ Given(given, "sa-key-file") /\ given.iamEndpoint}

ImplicitAuthType(given) ==
    IF "YDB_TOKEN" \in given.env THEN "iam-token"
    ELSE IF {"YDB_USER", "YDB_PASSWORD"} \subseteq given.env THEN "static"
    ELSE "none"

AuthType(given) ==
    IF ExplicitAuthTypes(given) = {} THEN ImplicitAuthType(given)
    ELSE IF Cardinality(ExplicitAuthTypes(given)) = 1
         THEN CHOOSE type \in ExplicitAuthTypes(given) : TRUE
    ELSE "multiple-at-once"

-----------------------------------------------------------------------------
(* The Validate of each type finds the secret: its source, or "error".     *)
FromFile(given, option) ==
    IF Unreadable(given, option) THEN "error" ELSE Filled(given, option)

StaticPassword(given) ==
    IF Given(given, "password-file") THEN FromFile(given, "password-file")
    ELSE IF "YDB_PASSWORD" \in given.env THEN "env"
    ELSE "error"

Token(given) ==
    IF Given(given, "token-file") THEN FromFile(given, "token-file")
    ELSE IF "YDB_TOKEN" \in given.env \ given.empty THEN "env"
    ELSE "error"

(* SA_KEY_FILE replaces the option, also when it is empty. *)
KeyFile(given) ==
    IF Unreadable(given, "sa-key-file") THEN "error"
    ELSE IF "SA_KEY_FILE" \in given.env \cap given.empty THEN "error"
    ELSE IF "SA_KEY_FILE" \in given.env THEN "env"
    ELSE Filled(given, "sa-key-file")

Secret(given) ==
    CASE AuthType(given) = "static"       -> StaticPassword(given)
      [] AuthType(given) = "iam-token"    -> Token(given)
      [] AuthType(given) = "iam-creds"    -> KeyFile(given)
      [] AuthType(given) = "iam-metadata" -> "service"
      [] AuthType(given) = "none"         -> "nothing"
      [] OTHER                            -> "error"

(* YDB_USER is looked up to choose the type, and never becomes the user.   *)
Creds(given) ==
    [type |-> AuthType(given),
     user |-> Filled(given, "user"),
     secret |-> Secret(given)]

-----------------------------------------------------------------------------
(* The numbers of a rolling restart: duration, retries, inflight, tenants, *)
(* interval, delay.  NodesInflight is not validated.                       *)
RestartValidate(restart) ==
    /\ restart.interval >= 0 /\ restart.retries >= 0
    /\ restart.duration >= 0 /\ restart.tenants >= 0

Ceil(n, d) == (n + d - 1) \div d

(* Mutant: the last, incomplete round of restarts is not counted. *)
RestartDurationFloor(restart, nNodes) ==
    (nNodes \div restart.inflight)
        * (restart.duration * restart.retries + restart.delay)

(* Not defined for --nodes-inflight 0, which divides by zero. *)
GetRestartDuration(restart, nNodes) ==
    Ceil(nNodes, restart.inflight)
        * (restart.duration * restart.retries + restart.delay)

-----------------------------------------------------------------------------
(* PopulateProfileDefaultsAndValidate *)
Accepted(given) ==
    /\ ~ProfileFails(given)
    /\ RestartValidate(given.restart)
    /\ GRPCValidate(given)
    /\ Secret(given) # "error"
=============================================================================
