---------------------------- MODULE MCInjection ----------------------------
EXTENDS Injection

P(part) == <<"/", "data", part>>

Plain == [path |-> P("model"), signaturePath |-> P("model") \o <<"model.sig">>,
          ignorePaths |-> <<>>, switches |-> [s \in Switch |-> {}]]

(* The model's path has a slash at the end.                                 *)
Slashed == [Plain EXCEPT !.path = P("model") \o <<"/">>]

(* One of the paths to ignore is called like a flag.                        *)
Choosy == [path |-> P("model"), signaturePath |-> <<"/", "sigs", "model.sig">>,
           ignorePaths |-> << P("tmp"), <<"--allow_symlinks">> >>,
           switches |-> [s \in Switch |->
                           IF s = "ignoreUnsignedFiles" THEN {FALSE} ELSE {TRUE}]]

NoMethod == [sigstore |-> {}, publicKey |-> {}, pki |-> {}, trust |-> {}]

SignedBy(identity, issuer) ==
    [NoMethod EXCEPT !.sigstore = {[identity |-> identity, issuer |-> issuer]}]

Signed(who) == SignedBy(<<who>>, <<"https:", "issuer">>)
Janes   == SignedBy(<<"jane", "https:">>, <<"issuer">>)
Private == [Signed("jane") EXCEPT !.trust = {<<"/", "trust", "config.json">>}]
Keyed   == [NoMethod EXCEPT !.publicKey = {<<"/", "keys", "pub">>}]
Chained == [NoMethod EXCEPT !.pki = {<<"/", "keys", "ca.pem">>}]

Every(i) == {[enabled |-> TRUE, interval |-> i]}
Disabled == {[enabled |-> FALSE, interval |-> <<"5m">>]}

Amounts(memory, other) == {[r \in Compute \cup {"other"} |->
                              CASE r = "lim-mem" -> memory [] r = "other" -> other
                                [] OTHER -> "1"]}

MV(model, config, continuous, amounts) ==
    [model |-> model, config |-> config, imagePullPolicy |-> "Always",
     continuousValidation |-> continuous, resources |-> amounts]

SomeSpecs == {MV(Plain, Signed("jane"), {}, {}),
              MV(Plain, Signed("joe"), Every(<<"5m">>), {}),
              MV(Plain, Private, {}, {}),
              MV(Slashed, Janes, {}, {}),
              MV(Choosy, Signed("joe"), Every(<<"1h">>), {}),
              MV(Choosy, Keyed, {}, Amounts("1Gi", "")),
              MV(Choosy, Keyed, Disabled, Amounts("2Gi", "x")),
              MV(Plain, Chained, Every(<<"90m">>), Amounts("1Gi", "")),
              [MV(Plain, Chained, {}, {}) EXCEPT !.imagePullPolicy = "Never"]}

NoAnnotations == [ignorePaths |-> <<>>, switches |-> [s \in Switch |-> "absent"]]
SomeAnnotations ==
    [ignorePaths |-> << <<>>, P("cache"), <<"--identity">> >>,
     switches |-> [s \in Switch |-> CASE s = "ignoreGitPaths"      -> "false"
                                      [] s = "ignoreUnsignedFiles" -> "true"
                                      [] s = "allowSymlinks"       -> "false"]]
PoorAnnotations ==
    [ignorePaths |-> << <<>> >>, switches |-> [s \in Switch |-> "unreadable"]]

Mounted(paths, v) == [q \in paths |-> [volume |-> v, readOnly |-> FALSE]]

NoPath == Mounted({}, "")

(* One volume; a volume within another; two containers that agree, and two  *)
(* that do not; a path that only begins like one the agent needs; slashes   *)
(* at the end, of the mount above and of the mount at the path; a place     *)
(* mounted under two texts, and a mount at the root.                        *)
SomeContainers ==
    {<< Mounted({<<"/", "data">>, <<"/", "keys">>}, "A") >>,
     << Mounted({<<"/", "data">>}, "A") @@ Mounted({P("model")}, "B") >>,
     << NoPath, Mounted({P("model"), <<"/", "trust">>}, "B"),
        Mounted({P("model"), <<"/", "keys", "pub">>}, "B") @@ Mounted({P("mod")}, "A") >>,
     << Mounted({<<"/", "data">>}, "A"), Mounted({P("model")}, "B") >>,
     << Mounted({<<"/", "data", "/">>}, "A") @@ Mounted({P("model")}, "B") >>,
     << Mounted({<<"/", "data">>}, "A") @@ Mounted({P("model") \o <<"/">>}, "B") >>,
     << Mounted({<<"/", "data">>}, "A") @@ Mounted({Root}, "B"),
        Mounted({<<"/", "data", "/">>}, "A") >>}

SomeRequests == [annotations : {NoAnnotations, SomeAnnotations, PoorAnnotations},
                 containers : SomeContainers]

SomeVersions == {[major |-> {1}, minor |-> {27}], [major |-> {1}, minor |-> {28}],
                 [major |-> {2}, minor |-> {0}],  [major |-> {}, minor |-> {}]}
=============================================================================
