----------------------------- MODULE Injection -----------------------------
(***************************************************************************)
(* What the webhook puts into the pods of one ModelValidation               *)
(* (internal/webhooks/pod_webhook.go), while users edit the ModelValidation *)
(* and the pods, the cluster is upgraded or downgraded and the operator is  *)
(* started again.  Whether a pod is injected at all is in PodWebhook.tla:   *)
(* here its label names the ModelValidation, which exists.  A webhook whose *)
(* cache is behind does what it would have done before the edit.            *)
(*                                                                          *)
(* Probes, the image, the security context and what is in a TelemetryConfig *)
(* are left out; times too.  The hash of a text is the text.                *)
(***************************************************************************)
EXTENDS VolumeMounts, Maps

CONSTANTS Pod,
          Specs,       \* what users write as the ModelValidation's spec
          Requests,    \* the pods they create, without validation
          Versions,    \* what the API server says of itself
          Telemetry,   \* the TelemetryConfigs that may be found for a pod
          NoTelemetry

Compute == {"req-cpu", "req-mem", "lim-cpu", "lim-mem"}

(* Amounts; "" is none.                                                     *)
Resources == [Compute \cup {"other"} -> STRING]

ModelValidationSpec ==
    [model : Model, config : ValidationConfig, imagePullPolicy : STRING,
     continuousValidation : Optional([enabled : BOOLEAN, interval : Text]),
     resources : Optional(Resources)]

TufPath == <<"/", ".sigstore">>

(* The mounts of a pod's own containers: each has a path, and none is where *)
(* the agent has a mount of its own.                                        *)
IsContainers(containers) ==
    /\ Len(containers) \in Nat /\ DOMAIN containers = 1 .. Len(containers)
    /\ \A i \in DOMAIN containers :
          /\ IsMap(containers[i], Text, Mount)
          /\ \A q \in DOMAIN containers[i] :
                q \notin {<<>>, <<"/">>} /\ Place(q) # Place(TufPath)

(* What cannot be read as a number, or an API server that does not answer,  *)
(* is an empty set.                                                         *)
ASSUME InjectionAssumption ==
    /\ Specs \subseteq ModelValidationSpec
    /\ \A r \in Requests : r.annotations \in Annotations /\ IsContainers(r.containers)
    /\ Versions \subseteq [major : Optional(Nat), minor : Optional(Nat)]

(* For the proofs: the words that are written here are words.               *)
ASSUME WordsAssumption ==
    {"/", ".sigstore", "sigstore-tuf-cache", "5m", "--interval=", "--skip-initial", "verify",
     "sigstore", "key", "certificate", "--signature=", "--identity", "--identity_provider",
     "--public_key", "--certificate_chain", "--trust_config", "--ignore-paths",
     "--ignore-git-paths", "--no-ignore-git-paths", "--ignore_unsigned_files",
     "--no-ignore_unsigned_files", "--allow_symlinks", "pki", "publickey", "clienttrust",
     "continuous-enabled", "continuous-disabled", "resources", "req-cpu", "req-mem",
     "lim-cpu", "lim-mem"} \subseteq STRING

VARIABLES spec,   \* of the ModelValidation
          native, \* what the running operator takes the cluster for
          pods    \* the pods there are

vars == <<spec, native, pods>>

-----------------------------------------------------------------------------
(* api/v1alpha1: what the tracker compares, in the annotations of a pod     *)

GetAuthMethod(s) == IF s.config.sigstore # {} THEN "sigstore"
                    ELSE IF s.config.pki # {} THEN "pki" ELSE "public-key"

MethodHash(config) ==
    IF config.sigstore # {} THEN LET c == Only(config.sigstore)
                                 IN <<"sigstore">> \o c.identity \o c.issuer
    ELSE IF config.pki # {} THEN <<"pki">> \o Only(config.pki)
    ELSE <<"publickey">> \o Only(config.publicKey)

ConfigHash_NoTrust(config) == MethodHash(config)

ConfigHash(config) ==
    MethodHash(config)
    \o IF config.trust = {} THEN <<>> ELSE <<"clienttrust">> \o Only(config.trust)

ContinuousHash(continuous) ==
    IF continuous = {} THEN <<>>
    ELSE IF Only(continuous).enabled
    THEN <<"continuous-enabled">> \o Only(continuous).interval
    ELSE <<"continuous-disabled">>

AmountHash(amounts, r) == IF amounts[r] = "" THEN <<>> ELSE <<r, amounts[r]>>

ResourcesHash(resources) ==
    LET amounts == Only(resources)
    IN IF resources = {} THEN <<>>
       ELSE <<"resources">>
            \o AmountHash(amounts, "req-cpu") \o AmountHash(amounts, "req-mem")
            \o AmountHash(amounts, "lim-cpu") \o AmountHash(amounts, "lim-mem")

(* The configuration is hashed first, to a fixed length.                    *)
GetConfigHash(s) == [config |-> ConfigHash(s.config),
                     rest   |-> <<s.imagePullPolicy>> \o ContinuousHash(s.continuousValidation)
                                \o ResourcesHash(s.resources)]

-----------------------------------------------------------------------------
(* internal/webhooks *)

NativeSidecarSupport(version) ==
    \E major \in version.major, minor \in version.minor :
        major > 1 \/ (major = 1 /\ minor >= 28)

continuousEnabled(s) == \E c \in s.continuousValidation : c.enabled

interval(s) == LET i == Only(s.continuousValidation).interval
               IN IF i = <<>> THEN <<"5m">> ELSE i

resources(s) ==
    IF s.resources # {} THEN Only(s.resources)
    ELSE [r \in Compute \cup {"other"} |->
             CASE r = "req-cpu" -> "100m" [] r = "req-mem" -> "128Mi"
               [] r = "lim-cpu" -> "1"    [] r = "lim-mem" -> "512Mi"
               [] r = "other"   -> ""]

imagePullPolicy(s) == IF s.imagePullPolicy = "" THEN "Always" ELSE s.imagePullPolicy

(* A validation container: "init" is model-validation among the init        *)
(* containers, "sidecar" the one among the pod's own.                       *)
Agent(name, s, args, mounts) ==
    [name |-> name, args |-> args, mounts |-> mounts, restartAlways |-> FALSE,
     telemetry |-> NoTelemetry, resources |-> resources(s),
     imagePullPolicy |-> imagePullPolicy(s)]

buildValidationContainer(s, args, mounts, tc, withNative) ==
    LET continuous == continuousEnabled(s) /\ withNative IN
    [Agent("init", s, IF continuous THEN << <<"--interval=">> \o interval(s) >> \o args
                                    ELSE args, mounts)
        EXCEPT !.restartAlways = continuous, !.telemetry = tc]

buildLegacySidecarContainer(s, args, mounts) ==
    Agent("sidecar", s,
          << <<"--interval=">> \o interval(s), <<"--skip-initial">> >> \o args, mounts)

agentMounts(s, model, containers) ==
    LET own == filterVolumeMounts(containers, collectNeededPaths(model, s.config))
    IN IF s.config.sigstore = {} THEN own
       ELSE Put(own, TufPath, [volume |-> "sigstore-tuf-cache", readOnly |-> FALSE])

(* The containers it adds to a pod that has none of them yet.               *)
Injected(s, withNative, tc, annotations, containers) ==
    LET model  == mergeModelWithAnnotations(s.model, annotations)
        args   == VerifyArgs(s.config, model)
        mounts == agentMounts(s, model, containers)
    IN {buildValidationContainer(s, args, mounts, tc, withNative)}
       \cup IF continuousEnabled(s) /\ ~withNative
            THEN {buildLegacySidecarContainer(s, args, mounts)} ELSE {}

(* A pod as its user writes it; with it, what it was admitted under.        *)
NewPod(r) == [annotations |-> r.annotations, containers |-> r.containers, agents |-> {},
              hash |-> {}, auth |-> {}, admitted |-> {}]

Handle_SidecarOnly(pod, tc) ==
    IF \E a \in pod.agents : a.name = "sidecar" THEN pod
    ELSE [pod EXCEPT
            !.agents   = @ \cup Injected(spec, native, tc, pod.annotations, pod.containers),
            !.hash     = {GetConfigHash(spec)},
            !.auth     = {GetAuthMethod(spec)},
            !.admitted = {[spec |-> spec, annotations |-> pod.annotations]}]

Handle(pod, tc) ==
    IF \E a \in pod.agents : a.name \in {"init", "sidecar"} THEN pod
    ELSE [pod EXCEPT
            !.agents   = Injected(spec, native, tc, pod.annotations, pod.containers),
            !.hash     = {GetConfigHash(spec)},
            !.auth     = {GetAuthMethod(spec)},
            !.admitted = {[spec |-> spec, annotations |-> pod.annotations]}]

-----------------------------------------------------------------------------

(* The operator starts, with or without --force-legacy-sidecar.             *)
Starts(version, forceLegacySidecar) ==
    native' = (NativeSidecarSupport(version) /\ ~forceLegacySidecar)

Init == /\ spec \in Specs
        /\ \E v \in Versions, f \in BOOLEAN : native = (NativeSidecarSupport(v) /\ ~f)
        /\ pods = EmptyMap

StartOperator == /\ \E v \in Versions, f \in BOOLEAN : Starts(v, f)
                 /\ UNCHANGED <<spec, pods>>

EditSpec(s) == /\ spec' = s
               /\ UNCHANGED <<native, pods>>

CreatePod(k, r, tc) == /\ k \notin DOMAIN pods
                       /\ pods' = Put(pods, k, Handle(NewPod(r), tc))
                       /\ UNCHANGED <<spec, native>>

(* Every update of the pod passes the webhook too.                          *)
AnnotatePod(k, annotations, tc) ==
    /\ k \in DOMAIN pods
    /\ pods' = Put(pods, k, Handle([pods[k] EXCEPT !.annotations = annotations], tc))
    /\ UNCHANGED <<spec, native>>

DeletePod(k) == /\ k \in DOMAIN pods
                /\ pods' = Drop(pods, {k})
                /\ UNCHANGED <<spec, native>>

Next == \/ StartOperator
        \/ \E s \in Specs : EditSpec(s)
        \/ \E k \in Pod :
              \/ DeletePod(k)
              \/ \E r \in Requests, tc \in Telemetry :
                    CreatePod(k, r, tc) \/ AnnotatePod(k, r.annotations, tc)

Spec == Init /\ [][Next]_vars

-----------------------------------------------------------------------------
(* Properties *)

(* Every pod was admitted under one spec and has one or two agents, of      *)
(* different names.                                                         *)
InjectionTypeOK ==
    /\ spec \in Specs /\ native \in BOOLEAN
    /\ DOMAIN pods \subseteq Pod
    /\ \A k \in DOMAIN pods :
          /\ IsContainers(pods[k].containers)
          /\ \E x \in pods[k].admitted :
                pods[k].admitted = {x} /\ x.spec \in Specs /\ x.annotations \in Annotations
          /\ pods[k].agents # {}
          /\ \A a \in pods[k].agents : /\ a.name \in {"init", "sidecar"}
                                        /\ IsMap(a.mounts, Text, Mount)
          /\ \A a, b \in pods[k].agents : a.name = b.name => a = b

(* What main and ParseArgs make of an agent's arguments, for the verifier.  *)
OptionsOf(a) == {Options(cfg) : cfg \in ParseArgs(flagArgs(a.args))}

(* One agent revalidates, as often as wanted, and it is none the kubelet    *)
(* would wait for; it is the first to validate or comes after another.      *)
RevalidatesAs(agents, s) ==
    LET blocking == {a \in agents : a.name = "init" /\ ~a.restartAlways}
        periodic == {a \in agents : IntervalOf(a.args) # {}}
    IN IF continuousEnabled(s)
       THEN \E a \in periodic \ blocking :
               /\ periodic = {a} /\ IntervalOf(a.args) = {interval(s)}
               /\ SkipsInitial(a.args) =>
                     \E b \in blocking : b.name = "init" /\ ~SkipsInitial(b.args)
       ELSE periodic = {} /\ blocking # {}

(* README.md:330: "Pod annotations take precedence over the ModelValidation *)
(* CR settings."  Whatever becomes of the ModelValidation, the annotations  *)
(* and the cluster later, every agent of a pod verifies what was asked for  *)
(* when it was admitted, with the options and as often as asked for.        *)
ValidatesAsAsked ==
    \A k \in DOMAIN pods : \A x \in pods[k].admitted :
        /\ \A a \in pods[k].agents :
              OptionsOf(a) = {Asked(x.spec.model, x.spec.config, x.annotations)}
        /\ RevalidatesAs(pods[k].agents, x.spec)

(* All of the containers that see anything at the path see v there.         *)
AgreeOn(containers, p, v) == SeenAt(containers, p) = {v}

(* Every mount in which the path is, is written so that the webhook's texts *)
(* agree with the kubelet's places.                                         *)
AllComparable(containers, p) ==
    \A i \in DOMAIN containers : \A q \in Above(containers[i], p) : Comparable(q, p)

(* Where all of the pod's containers that see anything at a path the agent  *)
(* needs see the same volume, the agent sees it too: it does not verify     *)
(* other files than the workload reads.  The mounts in which the path is    *)
(* may end in a slash, unless one is just at the path and the path does not *)
(* end in a slash (SeesWhateverTheSlash); they and the path are absolute,   *)
(* with no slash doubled.  Nobody's mount at "/" counts, which the agent    *)
(* does not get on purpose.                                                 *)
SeesWhatWorkloadSees ==
    \A k \in DOMAIN pods : \A x \in pods[k].admitted :
        \A p \in collectNeededPaths(x.spec.model, x.spec.config) :
            \A v \in SeenAt(pods[k].containers, p) :
                AgreeOn(pods[k].containers, p, v) /\ AllComparable(pods[k].containers, p) =>
                    \A a \in pods[k].agents : Sees(a.mounts, p) = {v}

(* pod_webhook.go:485: "collectNeededPaths returns file paths the           *)
(* validation agent needs access to."  The same, wherever the pod's mounts  *)
(* and the paths have a slash at the end.                                   *)
SeesWhateverTheSlash ==
    \A k \in DOMAIN pods : \A x \in pods[k].admitted :
        \A p \in collectNeededPaths(x.spec.model, x.spec.config) :
            \A v \in SeenAt(pods[k].containers, p) :
                AgreeOn(pods[k].containers, p, v) =>
                    \A a \in pods[k].agents : Sees(a.mounts, p) = {v}

(* Who is to be trusted, of what Validate hands to a verifier; of a signer, *)
(* the identity with the issuer behind it.                                  *)
Trusted(options) ==
    [method |-> options.method,
     signer |-> IF options.method = "sigstore"
                THEN options.texts["identity"] \o options.texts["identityProvider"] ELSE <<>>,
     texts  |-> [f \in Credentials(options.method) \ {"identity", "identityProvider"} |->
                    options.texts[f]]]

(* What makes a pod drifted for the tracker.                                *)
HashAgrees(pod) == pod.hash = {GetConfigHash(spec)} /\ pod.auth = {GetAuthMethod(spec)}

(* modelvalidation_types.go:247: the hash is "for drift detection".  A pod  *)
(* the tracker does not call orphaned has agents that trust whom the        *)
(* ModelValidation says now, revalidate as it says and may use as much.     *)
(* Where a signer's identity ends and its issuer begins the hash does not   *)
(* tell (CredentialDriftDetected); an edit of either alone it does.         *)
DriftDetected ==
    \A k \in DOMAIN pods :
        HashAgrees(pods[k]) =>
            /\ RevalidatesAs(pods[k].agents, spec)
            /\ \A a \in pods[k].agents, x \in pods[k].admitted :
                  /\ {Trusted(o) : o \in OptionsOf(a)}
                     = {Trusted(Asked(spec.model, spec.config, x.annotations))}
                  /\ a.imagePullPolicy = imagePullPolicy(spec)
                  /\ \A r \in Compute : a.resources[r] = resources(spec)[r]

(* modelvalidation_types.go:291: "GetConfigHash returns a hash of the       *)
(* validation configuration for drift detection".  A pod the tracker does   *)
(* not call orphaned has agents with the credentials the ModelValidation    *)
(* has now, each of them.                                                   *)
CredentialDriftDetected ==
    \A k \in DOMAIN pods :
        HashAgrees(pods[k]) =>
            \A a \in pods[k].agents, x \in pods[k].admitted : \A o \in OptionsOf(a) :
                LET asked == Asked(spec.model, spec.config, x.annotations) IN
                /\ o.method = asked.method
                /\ \A f \in Credentials(asked.method) : o.texts[f] = asked.texts[f]
=============================================================================
