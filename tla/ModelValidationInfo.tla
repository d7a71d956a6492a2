------------------------ MODULE ModelValidationInfo ------------------------
(***************************************************************************)
(* internal/tracker/model_validation_info.go: what the tracker keeps for    *)
(* one ModelValidation.  Three maps from pod UIDs to PodInfo, functions     *)
(* whose domains are the UIDs present; the Go methods that change them are  *)
(* operators from one value to the next.                                    *)
(*                                                                          *)
(* A configuration is [hash, auth]: what GetConfigHash and GetAuthMethod    *)
(* return for a ModelValidation, or what a pod's two annotations say, where *)
(* an annotation that is missing reads as the empty string.                 *)
(***************************************************************************)
EXTENDS Maps

CONSTANTS PodName,  \* NamespacedNames of pods
          UID,      \* pod UIDs
          Config,   \* configurations ModelValidations have, [hash, auth]
          Note,     \* configurations pods are annotated with, [hash, auth]
          Generation

NoHash == ""        \* no config-hash annotation
NoAuth == ""        \* no auth-method annotation

PodInfo == [name : PodName, uid : UID, config : Note]

(* The pods of one category: what is known of each, by UID.                 *)
IsPodTable(t) == /\ IsMap(t, UID, PodInfo)
                 /\ \A u \in DOMAIN t : t[u].uid = u

IsInfo(info) ==
    /\ info = [config     |-> info.config,
               generation |-> info.generation,      \* ObservedGeneration
               injected   |-> info.injected,
               uninjected |-> info.uninjected,
               orphaned   |-> info.orphaned]
    /\ info.config \in Config
    /\ info.generation \in Generation
    /\ IsPodTable(info.injected)
    /\ IsPodTable(info.uninjected)
    /\ IsPodTable(info.orphaned)

NewModelValidationInfo(config, generation) ==
    [config |-> config, generation |-> generation,
     injected |-> EmptyMap, uninjected |-> EmptyMap, orphaned |-> EmptyMap]

(* The pod was annotated under another configuration than config.           *)
Drifted(pod, config) ==
    \/ pod.config.hash # NoHash /\ pod.config.hash # config.hash
    \/ pod.config.auth # NoAuth /\ pod.config.auth # config.auth

PodsOf(info) ==
    DOMAIN info.injected \cup DOMAIN info.uninjected \cup DOMAIN info.orphaned

(* GetAllPods: the pods of the three maps.                                  *)
GetAllPods(info) == {info.injected[u]   : u \in DOMAIN info.injected}
               \cup {info.uninjected[u] : u \in DOMAIN info.uninjected}
               \cup {info.orphaned[u]   : u \in DOMAIN info.orphaned}

(* Stops at the first map that has the pod.                                 *)
RemovePod(info, u) ==
    IF u \in DOMAIN info.injected
      THEN [info EXCEPT !.injected = Drop(@, {u})]
    ELSE IF u \in DOMAIN info.orphaned
      THEN [info EXCEPT !.orphaned = Drop(@, {u})]
      ELSE [info EXCEPT !.uninjected = Drop(@, {u})]

AddInjectedPod_ByName(info, pod) ==
    [RemovePod(info, pod.uid) EXCEPT !.injected = Put(@, pod.name, pod)]

AddInjectedPod_NoDrift(info, pod) ==
    [RemovePod(info, pod.uid) EXCEPT !.injected = Put(@, pod.uid, pod)]

(* AddInjectedPod and AddUninjectedPod, with movePodToState.                *)
AddInjectedPod(info, pod) ==
    IF Drifted(pod, info.config)
      THEN [RemovePod(info, pod.uid) EXCEPT !.orphaned = Put(@, pod.uid, pod)]
      ELSE [RemovePod(info, pod.uid) EXCEPT !.injected = Put(@, pod.uid, pod)]

AddUninjectedPod_ByName(info, pod) ==
    [RemovePod(info, pod.uid) EXCEPT !.uninjected = Put(@, pod.name, pod)]

AddUninjectedPod_Stays(info, pod) ==
    [info EXCEPT !.uninjected = Put(@, pod.uid, pod)]

AddUninjectedPod(info, pod) ==
    [RemovePod(info, pod.uid) EXCEPT !.uninjected = Put(@, pod.uid, pod)]

DriftedPods_OldConfig(info, config) ==
    {u \in DOMAIN info.injected : Drifted(info.injected[u], info.config)}

(* Injected pods the new configuration leaves behind become orphaned; the   *)
(* orphaned ones are not looked at.                                         *)
DriftedPods(info, config) ==
    {u \in DOMAIN info.injected : Drifted(info.injected[u], config)}

UpdateConfig(info, config, generation) ==
    IF info.config = config
      THEN [info EXCEPT !.generation = generation]
      ELSE LET left == DriftedPods(info, config) IN
           [info EXCEPT
              !.config = config,
              !.generation = generation,
              !.injected = Drop(@, left),
              !.orphaned = [u \in DOMAIN @ \cup left |->
                               IF u \in left THEN info.injected[u] ELSE @[u]]]
=============================================================================
