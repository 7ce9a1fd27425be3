----------------------------- MODULE MCSession -----------------------------
(* Instances of Session for TLC. *)
EXTENDS Session, TLC

Plain ==
    [flags |-> {"endpoint"}, metadata |-> FALSE, iamEndpoint |-> TRUE,
     named |-> FALSE,
     file |-> [status |-> "absent", current |-> FALSE, found |-> FALSE,
               fields |-> {}],
     env |-> {}, empty |-> {}, missing |-> {},
     url |-> [source \in {"flag", "profile"} |->
                [scheme |-> "grpc", grpcs |-> FALSE, port |-> None]],
     skipVerify |-> FALSE, timeout |-> 60,
     restart |-> [duration |-> 2, retries |-> 3, inflight |-> 1,
                  tenants |-> 0, interval |-> 1, delay |-> 1]]

ReadProfile(fields) ==
    [status |-> "read", current |-> TRUE, found |-> TRUE, fields |-> fields]

(* Each type of credentials, from every mixture of sources. *)
CredentialOptions == {"user", "password-file", "token-file", "sa-key-file"}
Variables == {"YDB_TOKEN", "YDB_USER", "YDB_PASSWORD", "SA_KEY_FILE"}

Mixtures ==
    {[Plain EXCEPT !.flags = flags \cup {"endpoint"},
                   !.metadata = metadata,
                   !.file = ReadProfile(fields),
                   !.env = env,
                   !.empty = empty] :
        flags \in SUBSET CredentialOptions, metadata \in BOOLEAN,
        fields \in SUBSET CredentialOptions, env \in SUBSET Variables,
        empty \in {{}, {"YDB_TOKEN", "SA_KEY_FILE"}}}

Unreadables ==
    {[Plain EXCEPT !.flags = flags \cup {"endpoint"},
                   !.file = ReadProfile(CredentialOptions \ flags),
                   !.missing = {<<option, source>>}] :
        flags \in SUBSET CredentialOptions, option \in CredentialOptions,
        source \in {"flag", "profile"}}

Files ==
    {[Plain EXCEPT !.named = named, !.env = {"YDB_TOKEN"},
                   !.file = [status |-> status, current |-> current,
                             found |-> found, fields |-> fields]] :
        named \in BOOLEAN, status \in {"absent", "malformed", "read"},
        current \in BOOLEAN, found \in BOOLEAN,
        fields \in {{}, {"endpoint", "kubeconfig"}, {"iam-endpoint"}}}

Connections ==
    {[Plain EXCEPT !.flags = flags, !.env = {"YDB_TOKEN"},
                   !.file = ReadProfile(fields),
                   !.url = [source \in {"flag", "profile"} |->
                              [scheme |-> scheme, grpcs |-> scheme = "grpcs",
                               port |-> port]],
                   !.skipVerify = skipVerify, !.timeout = timeout] :
        flags \in SUBSET {"endpoint", "ca-file"},
        fields \in SUBSET {"endpoint", "ca-file"},
        scheme \in {"grpc", "grpcs", "http"}, port \in {None, 0, 65537},
        skipVerify \in BOOLEAN, timeout \in {-1, 0}}

Restarts ==
    {[Plain EXCEPT !.env = {"YDB_TOKEN"},
                   !.restart = [duration |-> duration, retries |-> retries,
                                inflight |-> inflight, tenants |-> tenants,
                                interval |-> interval, delay |-> delay]] :
        duration \in {-1, 0, 2}, retries \in -1..2, inflight \in 0..3,
        tenants \in -1..1, interval \in {-1, 0}, delay \in 0..1}

SomeGivens == Mixtures \cup Unreadables \cup Files \cup Connections \cup Restarts

Upgrade(first, second, to) ==
    [from |-> [n \in Nodes |-> IF n = "node1" THEN first ELSE second],
     to |-> to]

(* To the next minor, to one too far, to the next major, to the next major *)
(* from two minors, to a third minor, and from a version that cannot be    *)
(* read.  The other invocations upgrade nothing.                           *)
SomeUpgrades(g) ==
    IF g \in Restarts
    THEN {Upgrade(<<24, 1>>, <<24, 1>>, <<24, 2>>),
          Upgrade(<<24, 1>>, <<24, 1>>, <<24, 3>>),
          Upgrade(<<24, 4>>, <<24, 4>>, <<25, 1>>),
          Upgrade(<<24, 1>>, <<24, 2>>, <<25, 1>>),
          Upgrade(<<24, 1>>, <<24, 2>>, <<24, 3>>),
          Upgrade(None, <<24, 1>>, <<24, 2>>)}
    ELSE {Upgrade(<<24, 1>>, <<24, 1>>, <<24, 1>>)}

(* Past a whole major. *)
WithToken == {[Plain EXCEPT !.env = {"YDB_TOKEN"}]}
OverMajor(g) == {Upgrade(<<23, 4>>, <<23, 4>>, <<25, 1>>)}
=============================================================================
