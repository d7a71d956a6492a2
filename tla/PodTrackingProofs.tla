-------------------------- MODULE PodTrackingProofs --------------------------
(***************************************************************************)
(* What the finalizer and the untracking of pods achieve (FinalizerHolds    *)
(* and ListsNoOtherGhosts of Operator.tla) as long as no pod is relabelled. *)
(***************************************************************************)
EXTENDS OperatorProofs

-----------------------------------------------------------------------------
(* The inductive invariant *)

Held(info) == DOMAIN info.injected \cup DOMAIN info.orphaned

(* The copies of pods the operator may act on: those in the cache and the   *)
(* one PodReconciler has read.                                              *)
HasPod == podWorker.pc \in {"found", "update"}

Copies == {podCache[n] : n \in DOMAIN podCache}
          \cup {c \in PodInCluster : HasPod /\ c = podWorker.pod}

WithFinalizer(u) == Exists(u) /\ pods[NameOf[u]].obj.finalizer

(* A copy is an earlier version: a deletion is not taken back, and only     *)
(* PodReconciler takes the finalizer, from a deleted pod.                   *)
PodBehind(c) ==
    LET u == c.obj.uid IN
    /\ u \in usedUIDs
    /\ c.deleting /\ Exists(u) => pods[NameOf[u]].deleting
    /\ ~c.deleting /\ c.obj.finalizer => WithFinalizer(u)

PodsWellKept ==
    /\ \A n \in DOMAIN pods : pods[n].obj.name = n /\ pods[n].obj.label # NoKey
                              /\ pods[n].obj.uid \in usedUIDs
    /\ \A n \in DOMAIN podCache : podCache[n].obj.name = n
    /\ HasPod => podWorker.pod.obj.name = podWorker.name
    /\ \A c \in Copies : PodBehind(c) /\ c.obj.label # NoKey

(* The cache is never older than what PodReconciler has read.               *)
ReadBehindCache ==
    HasPod /\ podWorker.pod.deleting =>
        \A n \in DOMAIN podCache :
            podCache[n].obj.uid = podWorker.pod.obj.uid => podCache[n].deleting

(* A pod that is about to lose its finalizer is not tracked.                *)
UntrackedBeforeUpdate ==
    podWorker.pc = "update" =>
        LET u == podWorker.pod.obj.uid IN
        /\ podWorker.pod.deleting
        /\ u \notin raced => /\ u \notin SeedUIDs
                             /\ \A k \in Tracked : u \notin PodsOf(modelValidations[k])

(* What is tracked as injected, or will be, has its finalizer.              *)
SeededHeld == \A s \in Seeder : seeds[s].pc = "process" =>
    \A p \in seeds[s].pods : p.finalizer /\ p.uid \notin raced => WithFinalizer(p.uid)

TrackedHeld == \A k \in Tracked : \A u \in Held(modelValidations[k]) \ raced : WithFinalizer(u)

FinalizerInv == /\ PodsWellKept /\ ReadBehindCache /\ UntrackedBeforeUpdate
                /\ SeededHeld /\ TrackedHeld

-----------------------------------------------------------------------------
(* The second invariant: pods that need not be listed are on their way out  *)

TrackedUIDs == UNION {PodsOf(modelValidations[k]) : k \in Tracked}

Known == TrackedUIDs \cup SeedUIDs

(* The operator has seen, or still holds, a pod of UID u with label k.      *)
SeenAs(u, k) ==
    \/ \E n \in DOMAIN pods : pods[n].obj.uid = u /\ pods[n].obj.label = k
    \/ \E c \in Copies : c.obj.uid = u /\ c.obj.label = k
    \/ \E s \in Seeder : seeds[s].pc = "process" /\ \E p \in seeds[s].pods : p.uid = u /\ p.label = k
    \/ k \in Tracked /\ u \in PodsOf(modelValidations[k])

LabelsFixed == \A u \in UID : \A k, j \in Key :
    SeenAs(u, k) => u \in usedUIDs /\ (SeenAs(u, j) => k = j)

(* A tracked pod is found by its name.                                      *)
FoundByName == \A k \in Tracked : \A pod \in GetAllPods(modelValidations[k]) :
    pod.name \in DOMAIN podMapping.uidOf /\ podMapping.uidOf[pod.name] = pod.uid

(* PodReconciler works on the cached pod, or has to look again.             *)
ReadCurrent ==
    podWorker.pc = "found" /\ podWorker.name \notin podQueue =>
        podWorker.name \in DOMAIN podCache /\ podCache[podWorker.name] = podWorker.pod

(* The cache does not lose a pod before the API server does.                *)
KnownCached == \A u \in UID :
    (u \in Known \/ (HasPod /\ podWorker.pod.obj.uid = u)) /\ Exists(u) =>
        NameOf[u] \in DOMAIN podCache

Alive(u) == Exists(u) /\ ~pods[NameOf[u]].deleting

(* An event that leads PodReconciler to the pod, or the pod need not go.    *)
Accounted(u) ==
    \/ Alive(u)
    \/ ~Same(pods, podCache, NameOf[u])
    \/ NameOf[u] \in podQueue
    \/ podWorker.pc = "untrack" /\ podWorker.name = NameOf[u]
    \/ podWorker.pc = "found" /\ podWorker.pod.deleting /\ podWorker.pod.obj.uid = u

AllAccounted == \A u \in Known \ raced : Accounted(u)

GhostInv == LabelsFixed /\ FoundByName /\ ReadCurrent /\ KnownCached /\ AllAccounted

(* No two pods are created under one name.                                  *)
UniqueNames == \A u, v \in UID : NameOf[u] = NameOf[v] => u = v

-----------------------------------------------------------------------------
(* What a step does to the tables of pods *)

(* RemovePod removes the pod and no step but TrackPod brings one in.        *)
LEMMA RemovePodShrinks ==
    ASSUME NEW info, IsInfo(info), Exclusive(info), NEW u
    PROVE  /\ PodsOf(RemovePod(info, u)) \subseteq PodsOf(info) \ {u}
           /\ Held(RemovePod(info, u)) \subseteq Held(info)
BY DEF IsInfo, Exclusive, RemovePod, Drop, PodsOf, Held

LEMMA UpdateConfigShrinks ==
    ASSUME NEW info, IsInfo(info), NEW c, NEW g
    PROVE  /\ PodsOf(UpdateConfig(info, c, g)) \subseteq PodsOf(info)
           /\ Held(UpdateConfig(info, c, g)) \subseteq Held(info)
BY DEF IsInfo, UpdateConfig, DriftedPods, Drop, PodsOf, Held

LEMMA AddPodGains ==
    ASSUME NEW info, IsInfo(info), Exclusive(info), NEW pod \in PodInfo
    PROVE  /\ PodsOf(AddInjectedPod(info, pod)) \subseteq PodsOf(info) \cup {pod.uid}
           /\ Held(AddInjectedPod(info, pod)) \subseteq Held(info) \cup {pod.uid}
           /\ PodsOf(AddUninjectedPod(info, pod)) \subseteq PodsOf(info) \cup {pod.uid}
           /\ Held(AddUninjectedPod(info, pod)) \subseteq Held(info)
<1> DEFINE removed == RemovePod(info, pod.uid)
<1>1. /\ IsInfo(removed) /\ PodsOf(removed) \subseteq PodsOf(info)
      /\ Held(removed) \subseteq Held(info)
  BY RemovePodInfo, RemovePodShrinks
<1> HIDE DEF removed
<1>2. \A uid :
      /\ PodsOf([removed EXCEPT !.orphaned = Put(@, uid, pod)]) \subseteq PodsOf(info) \cup {uid}
      /\ PodsOf([removed EXCEPT !.injected = Put(@, uid, pod)]) \subseteq PodsOf(info) \cup {uid}
      /\ PodsOf([removed EXCEPT !.uninjected = Put(@, uid, pod)]) \subseteq PodsOf(info) \cup {uid}
  BY <1>1 DEF IsInfo, PodsOf, Put
<1>3. \A uid :
      /\ Held([removed EXCEPT !.orphaned = Put(@, uid, pod)]) \subseteq Held(info) \cup {uid}
      /\ Held([removed EXCEPT !.injected = Put(@, uid, pod)]) \subseteq Held(info) \cup {uid}
      /\ Held([removed EXCEPT !.uninjected = Put(@, uid, pod)]) \subseteq Held(info)
  BY <1>1 DEF IsInfo, Held, Put
<1> QED
  BY <1>2, <1>3 DEF AddInjectedPod, AddUninjectedPod, removed

NoMorePods(k) ==
    \/ PodsOf(modelValidations'[k]) = {}
    \/ /\ k \in Tracked
       /\ PodsOf(modelValidations'[k]) \subseteq PodsOf(modelValidations[k])
       /\ Held(modelValidations'[k]) \subseteq Held(modelValidations[k])

TablesShrink == \A k \in Tracked' : NoMorePods(k)

TablesGain(pod, k0) ==
    \A k \in Tracked' :
        \/ NoMorePods(k)
        \/ /\ k = k0 /\ k \in Tracked
           /\ PodsOf(modelValidations'[k]) \subseteq PodsOf(modelValidations[k]) \cup {pod.uid}
           /\ Held(modelValidations'[k]) \subseteq
                 Held(modelValidations[k]) \cup {u \in {pod.uid} : pod.finalizer}

LEMMA SameTables ==
    ASSUME modelValidations' = modelValidations
    PROVE  TablesShrink
BY DEF TablesShrink, NoMorePods, Tracked

LEMMA InfosKept ==
    ASSUME ClusterInv, OneCategory, NEW k \in Tracked
    PROVE  IsInfo(modelValidations[k]) /\ Exclusive(modelValidations[k])
BY DEF ClusterInv, TypeInv, TypeOK, IsTracking, OneCategory, Exclusive, Tracked

(* The handlers of ModelValidations bring in no pod.                        *)
LEMMA MVHandlersShrink ==
    ASSUME ClusterInv, OneCategory
    PROVE  /\ \A k \in Key, c \in Config, g \in Generation :
                 AddModelValidation(k, c, g) => TablesShrink
           /\ \A k \in Key : RemoveModelValidation(k) => TablesShrink
           /\ Forget => TablesShrink
<1>1. ASSUME NEW k \in Key, NEW c \in Config, NEW g \in Generation,
             StartTracking(k, c, g)
      PROVE  TablesShrink
  BY <1>1 DEF StartTracking, Put, Tracked, NewModelValidationInfo, EmptyMap, PodsOf,
              TablesShrink, NoMorePods
<1>2. ASSUME NEW k \in Key, NEW c \in Config, NEW g \in Generation,
             ContinueTracking(k, c, g)
      PROVE  TablesShrink
  <2>1. Tracked' = Tracked
    BY <1>2 DEF ContinueTracking, Tracked
  <2>2. \A j \in Tracked : \/ modelValidations'[j] = modelValidations[j]
                           \/ modelValidations'[j] = UpdateConfig(modelValidations[j], c, g)
    BY <1>2 DEF ContinueTracking, Tracked
  <2> QED
    BY <2>1, <2>2, InfosKept, UpdateConfigShrinks DEF TablesShrink, NoMorePods
<1>3. ASSUME NEW k \in Key, RemoveModelValidation(k) PROVE TablesShrink
  BY <1>3 DEF RemoveModelValidation, tables, Drop, Tracked, TablesShrink, NoMorePods
<1>4. Forget => TablesShrink
  BY DEF Forget, Drop, Tracked, TablesShrink, NoMorePods
<1> QED
  BY <1>1, <1>2, <1>3, <1>4 DEF AddModelValidation

(* Untracking a pod removes it from every table.                            *)
LEMMA UntrackShrinks ==
    ASSUME ClusterInv, OneCategory, NEW u, Untrack(u)
    PROVE  TablesShrink /\ \A k \in Tracked' : u \notin PodsOf(modelValidations'[k])
<1>1. /\ Tracked' = Tracked
      /\ \A k \in Tracked : modelValidations'[k] = RemovePod(modelValidations[k], u)
  BY DEF Untrack, Tracked
<1> QED
  BY <1>1, InfosKept, RemovePodShrinks DEF TablesShrink, NoMorePods

(* TrackPod brings in its pod, as held when it has the finalizer.           *)
LEMMA TrackPodGains ==
    ASSUME ClusterInv, OneCategory, NEW k0, NEW pod \in Pods, TrackPod(pod, k0)
    PROVE  TablesGain(pod, k0)
<1> DEFINE info == [name |-> pod.name, uid |-> pod.uid, config |-> pod.config]
<1>1. info \in PodInfo /\ pod.finalizer \in BOOLEAN
  BY TrackerAssumption DEF PodObject, PodInfo
<1>2. CASE k0 \notin Tracked
  BY <1>2, SameTables DEF TrackPod, tables, TablesGain, TablesShrink
<1>3. CASE k0 \in Tracked
  <2>1. Tracked' = Tracked /\ \A k \in Tracked : k # k0 => modelValidations'[k] = modelValidations[k]
    BY <1>3 DEF TrackPod, Tracked
  <2>2. \/ pod.finalizer /\ modelValidations'[k0] = AddInjectedPod(modelValidations[k0], info)
        \/ modelValidations'[k0] = AddUninjectedPod(modelValidations[k0], info)
    BY <1>3 DEF TrackPod, Tracked
  <2>3. /\ PodsOf(modelValidations'[k0]) \subseteq PodsOf(modelValidations[k0]) \cup {info.uid}
        /\ Held(modelValidations'[k0]) \subseteq
              Held(modelValidations[k0]) \cup {u \in {info.uid} : pod.finalizer}
    BY <1>1, <1>3, <2>2, InfosKept, AddPodGains
  <2>4. \A k \in Tracked : k # k0 => NoMorePods(k)
    BY <2>1 DEF NoMorePods
  <2> QED
    BY <1>3, <2>1, <2>3, <2>4 DEF TablesGain
<1> QED
  BY <1>2, <1>3

-----------------------------------------------------------------------------
(* FinalizerInv: steps that leave the pods of the cluster alone *)

(* The seeding goroutines have no pod on their lists they did not have.     *)
SeedsShrink == \A s \in Seeder : seeds'[s].pc = "process" =>
                   seeds[s].pc = "process" /\ seeds'[s].pods \subseteq seeds[s].pods

SamePods == UNCHANGED <<pods, usedUIDs, podCache>> /\ podWorker' \in {podWorker, Idle}

LEMMA SameSeeds == UNCHANGED seeds => SeedsShrink
BY DEF SeedsShrink

LEMMA SeedsOfUID == 
    ASSUME NEW u
    PROVE  u \in SeedUIDs <=> \E s \in Seeder : seeds[s].pc = "process"
                                          /\ \E p \in seeds[s].pods : p.uid = u
BY DEF SeedUIDs

LEMMA SamePodsKept ==
    ASSUME PodsWellKept, ReadBehindCache, SamePods
    PROVE  PodsWellKept' /\ ReadBehindCache'
<1>1. CASE podWorker' = podWorker
  BY <1>1 DEF SamePods, PodsWellKept, ReadBehindCache, HasPod, Copies, PodBehind, WithFinalizer, Exists
<1>2. CASE podWorker' = Idle
  <2>1. HasPod' = FALSE
    BY <1>2 DEF HasPod, Idle
  <2>2. Copies' \subseteq Copies
    BY <2>1 DEF SamePods, Copies
  <2> QED
    BY <2>1, <2>2 DEF SamePods, PodsWellKept, ReadBehindCache, PodBehind, WithFinalizer, Exists
<1> QED
  BY <1>1, <1>2 DEF SamePods

(* The tracker's tables and the goroutines' lists shrink.                   *)
LEMMA ShrinkKeepsFinalizers ==
    ASSUME FinalizerInv, SamePods, TablesShrink, SeedsShrink, raced \subseteq raced'
    PROVE  FinalizerInv'
<1> USE DEF FinalizerInv
<1>1. PodsWellKept' /\ ReadBehindCache'
  BY SamePodsKept
<1>2. \A u : WithFinalizer(u) => WithFinalizer(u)'
  BY DEF SamePods, WithFinalizer, Exists
<1>3. SeededHeld'
  BY <1>2 DEF SeededHeld, SeedsShrink
<1>4. TrackedHeld'
  BY <1>2 DEF TrackedHeld, TablesShrink, NoMorePods, PodsOf, Held
<1>5. SeedUIDs' \subseteq SeedUIDs
  BY DEF SeedUIDs, SeedsShrink
<1>6. \A u : (\A k \in Tracked : u \notin PodsOf(modelValidations[k]))
          => \A k \in Tracked' : u \notin PodsOf(modelValidations'[k])
  BY DEF TablesShrink, NoMorePods
<1>7. UntrackedBeforeUpdate'
  BY <1>5, <1>6 DEF UntrackedBeforeUpdate, SamePods, Idle
<1> QED
  BY <1>1, <1>3, <1>4, <1>7

(* A pod comes in that has its finalizer, or is not held for it, and is not *)
(* the one about to lose it.                                                *)
LEMMA GainKeepsFinalizers ==
    ASSUME FinalizerInv, SamePods, NEW pod, NEW k0, TablesGain(pod, k0), SeedsShrink,
           UNCHANGED raced,
           pod.finalizer /\ pod.uid \notin raced => WithFinalizer(pod.uid),
           podWorker'.pc = "update" => pod.uid \in raced \/ pod.uid # podWorker.pod.obj.uid
    PROVE  FinalizerInv'
<1> USE DEF FinalizerInv
<1>1. PodsWellKept' /\ ReadBehindCache'
  BY SamePodsKept
<1>2. \A u : WithFinalizer(u) => WithFinalizer(u)'
  BY DEF SamePods, WithFinalizer, Exists
<1>3. SeededHeld'
  BY <1>2 DEF SeededHeld, SeedsShrink
<1>4. TrackedHeld'
  <2> SUFFICES ASSUME NEW k \in Tracked', NEW u \in Held(modelValidations'[k]), u \notin raced
               PROVE  WithFinalizer(u)'
    BY DEF TrackedHeld
  <2>1. CASE k \in Tracked /\ u \in Held(modelValidations[k])
    BY <1>2, <2>1 DEF TrackedHeld
  <2>2. CASE u = pod.uid /\ pod.finalizer
    BY <1>2, <2>2
  <2> QED
    BY <2>1, <2>2 DEF TablesGain, NoMorePods, Held, PodsOf
<1>5. SeedUIDs' \subseteq SeedUIDs
  BY DEF SeedUIDs, SeedsShrink
<1>6. \A u : u # pod.uid /\ (\A k \in Tracked : u \notin PodsOf(modelValidations[k]))
          => \A k \in Tracked' : u \notin PodsOf(modelValidations'[k])
  BY DEF TablesGain, NoMorePods
<1>7. UntrackedBeforeUpdate'
  BY <1>5, <1>6 DEF UntrackedBeforeUpdate, SamePods, Idle
<1> QED
  BY <1>1, <1>3, <1>4, <1>7

-----------------------------------------------------------------------------
(* FinalizerInv: pods of the cluster change, are copied and read *)

(* What users and the kubelet do to pods while none is relabelled: a new    *)
(* pod has a new UID, deletion is for good, and what goes was deleted and   *)
(* is without our finalizer.                                                *)
PodChange ==
    /\ usedUIDs \subseteq usedUIDs'
    /\ \A n \in DOMAIN pods' :
          \/ /\ n \in DOMAIN pods /\ pods'[n].obj = pods[n].obj
             /\ pods'[n] = pods[n] \/ (~pods[n].deleting /\ pods'[n].deleting)
          \/ /\ n \notin DOMAIN pods
             /\ pods'[n].obj.uid \in usedUIDs' \ usedUIDs
             /\ pods'[n].obj.name = n /\ pods'[n].obj.label # NoKey
    /\ \A n \in DOMAIN pods \ DOMAIN pods' : pods[n].deleting /\ ~pods[n].obj.finalizer

Elsewhere == UNCHANGED <<trackerVars, podCache, podQueue, podWorker, raced>>

(* The pods the operator finds were made by users, under their names.       *)
LEMMA AdmittedPod ==
    ASSUME ClusterInv, NEW u \in UID, NEW k \in Key, NEW ignored,
           Webhook!Handle(NewPod(u, k), mvCache, ignored).allowed
    PROVE  LET pod == Webhook!Handle(NewPod(u, k), mvCache, ignored).pod IN
           pod.uid = u /\ pod.name = NameOf[u] /\ pod.label = k
BY DEF NewPod, Webhook!Handle, Webhook!Admitted, Webhook!Refused

LEMMA EditsChange ==
    ASSUME ClusterInv, "relabel" \notin Edits
    PROVE  /\ Users => PodChange /\ Elsewhere
           /\ \A n \in PodName : PodGone(n) => PodChange /\ Elsewhere
<1> USE DEF OperatorUnchanged, cacheVars, Elsewhere
<1>1. ASSUME UNCHANGED <<pods, usedUIDs>> PROVE PodChange
  BY <1>1 DEF PodChange
<1>2. ASSUME NEW u \in UID, NEW k \in Key, NEW i \in Bypass, CreatePod(u, k, i)
      PROVE  PodChange /\ Elsewhere
  <2> DEFINE pod == Webhook!Handle(NewPod(u, k), mvCache, i).pod
  <2>1. pod.uid = u /\ pod.name = NameOf[u] /\ pod.label = k /\ k # NoKey
    BY <1>2, AdmittedPod, TrackerAssumption DEF CreatePod
  <2>2. /\ pods' = Put(pods, NameOf[u], Created(pod))
        /\ u \notin usedUIDs /\ usedUIDs' = usedUIDs \cup {u}
        /\ NameOf[u] \notin DOMAIN pods
    BY <1>2 DEF CreatePod
  <2> HIDE DEF pod
  <2>3. PodChange
    BY <2>1, <2>2 DEF PodChange, Put, Created
  <2> QED
    BY <1>2, <2>3 DEF CreatePod
<1>3. ASSUME NEW n \in PodName, DeletePod(n) PROVE PodChange /\ Elsewhere
  <2>1. /\ n \in DOMAIN pods /\ ~pods[n].deleting
        /\ pods' = Updated(n, pods[n].obj, TRUE) /\ usedUIDs' = usedUIDs
    BY <1>3 DEF DeletePod
  <2>2. /\ DOMAIN pods' = DOMAIN pods /\ pods'[n].obj = pods[n].obj /\ pods'[n].deleting
        /\ \A m \in DOMAIN pods : m # n => pods'[m] = pods[m]
    BY <2>1 DEF Updated
  <2>3. PodChange
    BY <2>1, <2>2 DEF PodChange
  <2> QED
    BY <1>3, <2>3 DEF DeletePod
<1>4. ASSUME NEW n \in PodName, PodGone(n) PROVE PodChange /\ Elsewhere
  BY <1>4 DEF PodGone, PodChange, Drop
<1>5. ~ \E n \in PodName, k \in Key \cup {NoKey}, i \in Bypass : Relabel(n, k, i)
  BY DEF Relabel, Edit
<1> QED
  BY <1>1, <1>2, <1>3, <1>4, <1>5 DEF Users, CreateMV, EditMV, DeleteMV

LEMMA ChangeKeepsPods ==
    ASSUME PodsWellKept, PodChange, NEW u \in usedUIDs
    PROVE  /\ Exists(u)' => Exists(u)
           /\ Exists(u)' /\ pods[NameOf[u]].deleting => pods'[NameOf[u]].deleting
           /\ WithFinalizer(u) => WithFinalizer(u)'
BY DEF PodsWellKept, PodChange, Exists, WithFinalizer

(* The UIDs the operator knows are in use.                                  *)
LEMMA ChangeKeepsFinalizers ==
    ASSUME FinalizerInv, PodChange, Elsewhere
    PROVE  FinalizerInv'
<1> USE DEF FinalizerInv
<1>1. \A u : WithFinalizer(u) => WithFinalizer(u)'
  <2> SUFFICES ASSUME NEW u, WithFinalizer(u) PROVE WithFinalizer(u)'
    OBVIOUS
  <2>1. u \in usedUIDs
    BY DEF WithFinalizer, Exists, PodsWellKept
  <2> QED
    BY <2>1, ChangeKeepsPods
<1>2. Copies' = Copies
  BY DEF Elsewhere, Copies, HasPod
<1>3. ASSUME NEW c \in Copies PROVE PodBehind(c)'
  <2>1. PodBehind(c)
    BY DEF PodsWellKept
  <2>2. c.obj.uid \in usedUIDs
    BY <2>1 DEF PodBehind
  <2> QED
    BY <2>1, <2>2, ChangeKeepsPods DEF PodBehind, PodChange
<1>4. \A n \in DOMAIN pods' : pods'[n].obj.name = n /\ pods'[n].obj.label # NoKey
                             /\ pods'[n].obj.uid \in usedUIDs'
  BY DEF PodsWellKept, PodChange
<1>5. PodsWellKept'
  BY <1>2, <1>3, <1>4 DEF PodsWellKept, Elsewhere, HasPod
<1>6. SeededHeld' /\ TrackedHeld'
  BY <1>1 DEF SeededHeld, TrackedHeld, Elsewhere, trackerVars, tables, Tracked
<1>7. ReadBehindCache' /\ UntrackedBeforeUpdate'
  BY DEF ReadBehindCache, UntrackedBeforeUpdate, Elsewhere, trackerVars, tables, HasPod, SeedUIDs, Tracked
<1> QED
  BY <1>5, <1>6, <1>7

(* A pod has the name its UID was created under.                            *)
LEMMA NameOfPod ==
    ASSUME NEW c \in PodInCluster
    PROVE  c.obj.name = NameOf[c.obj.uid] /\ c.obj.uid \in UID /\ c.obj \in Pods
           /\ c.deleting \in BOOLEAN
BY OperatorAssumption DEF PodInCluster, PodObject

LEMMA CopyIsPod ==
    ASSUME ClusterInv
    PROVE  /\ \A c \in Copies : c \in PodInCluster
           /\ HasPod => podWorker.pod \in Copies
           /\ \A n \in DOMAIN pods : pods[n] \in PodInCluster
<1>1. HasPod => podWorker.pod \in PodInCluster
  BY DEF ClusterInv, WorkerTypes, HasPod, Idle
<1> QED
  BY <1>1 DEF ClusterInv, APITypes, CacheTypes, IsMap, Copies

(* The current object is its own copy.                                      *)
LEMMA CurrentBehind ==
    ASSUME ClusterInv, PodsWellKept, NEW n \in DOMAIN pods
    PROVE  PodBehind(pods[n])
<1>1. pods[n].obj.name = n /\ NameOf[pods[n].obj.uid] = n
  BY CopyIsPod, NameOfPod DEF PodsWellKept
<1> QED
  BY <1>1 DEF PodsWellKept, PodBehind, WithFinalizer, Exists

(* What an informer changes of a cache.                                     *)
LEMMA CopiedAt ==
    ASSUME NEW from, NEW to, NEW k, NEW new, new = Copied(from, to, k)
    PROVE  /\ DOMAIN new \ {k} = DOMAIN to \ {k}
           /\ k \in DOMAIN new <=> k \in DOMAIN from
           /\ \A m \in DOMAIN new : \/ m # k /\ m \in DOMAIN to /\ new[m] = to[m]
                                    \/ m = k /\ k \in DOMAIN from /\ new[m] = from[k]
<1>1. CASE k \in DOMAIN from
  <2>1. new = [x \in DOMAIN to \cup {k} |-> IF x = k THEN from[k] ELSE to[x]]
    BY <1>1 DEF Copied, Put
  <2> QED
    BY <1>1, <2>1
<1>2. CASE k \notin DOMAIN from
  <2>1. new = [x \in DOMAIN to \ {k} |-> to[x]]
    BY <1>2 DEF Copied, Drop
  <2>2. DOMAIN new = DOMAIN to \ {k}
    BY <2>1
  <2>3. \A m \in DOMAIN new : m # k /\ m \in DOMAIN to /\ new[m] = to[m]
    BY <2>1
  <2> QED
    BY <1>2, <2>2, <2>3
<1> QED
  BY <1>1, <1>2

LEMMA SyncKeepsFinalizers ==
    ASSUME ClusterInv, FinalizerInv, NEW n \in PodName, SyncPod(n)
    PROVE  FinalizerInv'
<1> USE DEF FinalizerInv
<1>1. /\ UNCHANGED <<pods, usedUIDs, podWorker, raced, seeds, modelValidations>>
      /\ podCache' = Copied(pods, podCache, n)
  BY DEF SyncPod, apiVars, trackerVars, tables
<1>2. /\ DOMAIN podCache' \subseteq DOMAIN podCache \cup {n}
      /\ \A m \in DOMAIN podCache' : \/ m \in DOMAIN podCache /\ podCache'[m] = podCache[m]
                                     \/ m = n /\ n \in DOMAIN pods /\ podCache'[m] = pods[n]
  BY <1>1, CopiedAt
<1>3. \A c \in Copies' : c \in Copies \/ (n \in DOMAIN pods /\ c = pods[n])
  BY <1>1, <1>2 DEF Copies, HasPod
<1>4. \A c \in Copies' : PodBehind(c) /\ c.obj.label # NoKey
  BY <1>3, CurrentBehind DEF PodsWellKept
<1>5. \A c : PodBehind(c) => PodBehind(c)'
  BY <1>1 DEF PodBehind, WithFinalizer, Exists
<1>6. PodsWellKept'
  BY <1>1, <1>2, <1>4, <1>5 DEF PodsWellKept, HasPod
<1>7. ReadBehindCache'
  <2> SUFFICES ASSUME HasPod, podWorker.pod.deleting, NEW m \in DOMAIN podCache',
                      podCache'[m].obj.uid = podWorker.pod.obj.uid
               PROVE  podCache'[m].deleting
    BY <1>1 DEF ReadBehindCache, HasPod
  <2>1. CASE m \in DOMAIN podCache /\ podCache'[m] = podCache[m]
    BY <2>1 DEF ReadBehindCache
  <2>2. CASE m = n /\ n \in DOMAIN pods /\ podCache'[m] = pods[n]
    <3>1. PodBehind(podWorker.pod)
      BY CopyIsPod DEF PodsWellKept
    <3>2. pods[n].obj.uid = podWorker.pod.obj.uid /\ NameOf[pods[n].obj.uid] = n
      BY <2>2, CopyIsPod, NameOfPod DEF PodsWellKept
    <3> QED
      BY <2>2, <3>1, <3>2 DEF PodBehind, Exists
  <2> QED
    BY <1>2, <2>1, <2>2
<1>8. UntrackedBeforeUpdate'
  BY <1>1 DEF UntrackedBeforeUpdate, SeedUIDs, Tracked
<1>9. SeededHeld' /\ TrackedHeld'
  BY <1>1 DEF SeededHeld, TrackedHeld, Tracked, WithFinalizer, Exists
<1> QED
  BY <1>6, <1>7, <1>8, <1>9

LEMMA ReadKeepsFinalizers ==
    ASSUME ClusterInv, FinalizerInv, NEW n \in PodName, PodRead(n)
    PROVE  FinalizerInv'
<1> USE DEF FinalizerInv
<1>1. UNCHANGED <<pods, usedUIDs, podCache, raced, seeds, modelValidations>>
  BY DEF PodRead, apiVars, trackerVars, tables
<1>2. SeededHeld' /\ TrackedHeld'
  BY <1>1 DEF SeededHeld, TrackedHeld, Tracked, WithFinalizer, Exists
<1>3. \A c : PodBehind(c) => PodBehind(c)'
  BY <1>1 DEF PodBehind, WithFinalizer, Exists
<1>4. CASE n \in DOMAIN podCache
  <2>1. podWorker' = [pc |-> "found", name |-> n, pod |-> podCache[n]]
    BY <1>4 DEF PodRead
  <2>2. Copies' \subseteq Copies
    BY <1>1, <1>4, <2>1 DEF Copies
  <2>3. PodsWellKept'
    BY <1>1, <1>3, <1>4, <2>1, <2>2 DEF PodsWellKept
  <2>4. \A m \in DOMAIN podCache : podCache[m].obj.uid = podCache[n].obj.uid => m = n
    <3>1. \A m \in DOMAIN podCache : podCache[m] \in PodInCluster /\ podCache[m].obj.name = m
      BY CopyIsPod DEF Copies, PodsWellKept
    <3> QED
      BY <1>4, <3>1, NameOfPod
  <2>5. ReadBehindCache'
    BY <1>1, <2>1, <2>4 DEF ReadBehindCache
  <2>6. UntrackedBeforeUpdate'
    BY <2>1 DEF UntrackedBeforeUpdate
  <2> QED
    BY <1>2, <2>3, <2>5, <2>6
<1>5. CASE n \notin DOMAIN podCache
  <2>1. podWorker' = [pc |-> "untrack", name |-> n]
    BY <1>5 DEF PodRead
  <2>2. HasPod' = FALSE /\ Copies' \subseteq Copies
    BY <1>1, <2>1 DEF Copies, HasPod
  <2> QED
    BY <1>1, <1>2, <1>3, <2>1, <2>2
       DEF PodsWellKept, ReadBehindCache, UntrackedBeforeUpdate
<1> QED
  BY <1>4, <1>5

-----------------------------------------------------------------------------
(* FinalizerInv: PodReconciler *)

LEMMA DeletedKeepsFinalizers ==
    ASSUME ClusterInv, OneCategory, FinalizerInv, PodDeleted,
           UNCHANGED <<apiVars, cacheVars>>
    PROVE  FinalizerInv'
<1> USE DEF FinalizerInv
<1> DEFINE u == podWorker.pod.obj.uid
<1>1. /\ UNCHANGED <<pods, usedUIDs, podCache, seeds>> /\ Untrack(u)
      /\ raced' = raced \cup ({u} \cap SeedUIDs)
  BY DEF PodDeleted, RemovePodEvent, apiVars, cacheVars
<1>2. TablesShrink /\ \A k \in Tracked' : u \notin PodsOf(modelValidations'[k])
  BY <1>1, UntrackShrinks
<1>3. raced \subseteq raced' /\ SeedsShrink
  BY <1>1, SameSeeds
<1>4. CASE podWorker' = Idle
  BY <1>1, <1>2, <1>3, <1>4, ShrinkKeepsFinalizers DEF SamePods
<1>5. CASE podWorker' = [podWorker EXCEPT !.pc = "update"]
  <2>1. /\ podWorker \in [pc : {"found", "update"}, name : PodName, pod : PodInCluster]
        /\ podWorker.pc = "found" /\ podWorker.pod.deleting
    BY DEF PodDeleted, ClusterInv, WorkerTypes, Idle
  <2>2. /\ podWorker'.pc = "update" /\ podWorker'.pod = podWorker.pod
        /\ podWorker'.name = podWorker.name
    BY <1>5, <2>1
  <2>3. HasPod /\ HasPod' /\ Copies' = Copies
    BY <1>1, <2>1, <2>2 DEF HasPod, Copies
  <2>4. PodsWellKept' /\ ReadBehindCache'
    BY <1>1, <2>2, <2>3 DEF PodsWellKept, ReadBehindCache, PodBehind, WithFinalizer, Exists
  <2>5. SeedUIDs' = SeedUIDs
    BY <1>1 DEF SeedUIDs
  <2>6. UntrackedBeforeUpdate'
    BY <1>1, <1>2, <2>1, <2>2, <2>5 DEF UntrackedBeforeUpdate
  <2>7. SeededHeld'
    BY <1>1 DEF SeededHeld, WithFinalizer, Exists
  <2>8. TrackedHeld'
    BY <1>1, <1>2, <1>3 DEF TrackedHeld, TablesShrink, NoMorePods, PodsOf, Held, WithFinalizer, Exists
  <2> QED
    BY <2>4, <2>6, <2>7, <2>8
<1> QED
  BY <1>4, <1>5 DEF PodDeleted

LEMMA ReconcileKeepsFinalizers ==
    ASSUME ClusterInv, OneCategory, FinalizerInv, PodReconcile
    PROVE  FinalizerInv'
<1>1. UNCHANGED <<apiVars, cacheVars>>
  BY DEF PodReconcile
<1>2. UNCHANGED <<pods, usedUIDs, podCache>>
  BY <1>1 DEF apiVars, cacheVars
<1>3. CASE PodDeleted
  BY <1>1, <1>3, DeletedKeepsFinalizers
<1>4. ~PodUnlabelled
  <2>1. podWorker.pc = "found" => podWorker.pod.obj.label # NoKey
    BY CopyIsPod DEF FinalizerInv, PodsWellKept, HasPod
  <2> QED
    BY <2>1 DEF PodUnlabelled
<1>5. CASE PodLabelled
  <2> DEFINE c == podWorker.pod
  <2>1. HasPod /\ ~c.deleting /\ c.obj.label # NoKey
    BY <1>5 DEF PodLabelled, HasPod
  <2>2. c.obj \in Pods /\ PodBehind(c)
    BY <2>1, CopyIsPod, NameOfPod DEF FinalizerInv, PodsWellKept
  <2>3. /\ TrackPod(c.obj, c.obj.label) /\ UNCHANGED <<seeds, raced>> /\ podWorker' = Idle
    BY <1>5, <2>1 DEF PodLabelled, ProcessPodEvent
  <2>4. TablesGain(c.obj, c.obj.label)
    BY <2>2, <2>3, TrackPodGains
  <2>5. c.obj.finalizer => WithFinalizer(c.obj.uid)
    BY <2>1, <2>2 DEF PodBehind
  <2>6. podWorker'.pc # "update" /\ SamePods /\ SeedsShrink
    BY <1>2, <2>3, SameSeeds DEF SamePods, Idle
  <2> HIDE DEF c
  <2> QED
    BY <2>3, <2>4, <2>5, <2>6, GainKeepsFinalizers
<1>6. CASE PodUntrack
  <2>1. /\ RemovePodByName(podWorker.name) /\ podWorker' = Idle /\ raced \subseteq raced'
    BY <1>6 DEF PodUntrack
  <2>2. TablesShrink
    BY <2>1, SameTables, UntrackShrinks DEF RemovePodByName
  <2>3. SeedsShrink
    BY <2>1, SameSeeds DEF RemovePodByName
  <2> QED
    BY <1>2, <2>1, <2>2, <2>3, ShrinkKeepsFinalizers DEF SamePods
<1> QED
  BY <1>3, <1>4, <1>5, <1>6 DEF PodReconcile

(* Only the pod PodReconciler has untracked loses its finalizer.            *)
LEMMA UpdateKeepsFinalizers ==
    ASSUME ClusterInv, OneCategory, FinalizerInv, PodUpdate
    PROVE  FinalizerInv'
<1> USE DEF FinalizerInv
<1> DEFINE n == podWorker.name
           c == podWorker.pod
           u == c.obj.uid
<1>1. UNCHANGED <<usedUIDs, podCache, seeds, modelValidations, raced>>
  BY DEF PodUpdate, trackerVars, tables
<1>2. HasPod /\ podWorker.pc = "update" /\ c.deleting /\ c \in Copies
  BY CopyIsPod DEF PodUpdate, HasPod, UntrackedBeforeUpdate
<1>3. CASE FinalizerKept(n)
  BY <1>1, <1>3, SameTables, SameSeeds, ShrinkKeepsFinalizers DEF FinalizerKept, SamePods
<1>4. CASE FinalizerRemoved(n)
  <2>1. /\ n \in DOMAIN pods /\ pods[n] = c /\ podWorker' = Idle
        /\ pods' = Updated(n, [pods[n].obj EXCEPT !.finalizer = FALSE], pods[n].deleting)
    BY <1>2, <1>4 DEF FinalizerRemoved
  <2>2. NameOf[u] = n
        /\ pods[n].obj \in PodObject
    BY <2>1, CopyIsPod, NameOfPod, TrackerAssumption DEF PodsWellKept, PodInCluster
  <2>3. /\ DOMAIN pods' = DOMAIN pods
        /\ \A m \in DOMAIN pods : m # n => pods'[m] = pods[m]
        /\ pods'[n].deleting = pods[n].deleting
        /\ pods'[n].obj.uid = u /\ pods'[n].obj.name = pods[n].obj.name
        /\ pods'[n].obj.label = pods[n].obj.label
    BY <2>1, <2>2 DEF PodObject, Updated
  <2>4. \A v : Exists(v)' <=> Exists(v)
    BY <2>1, <2>3 DEF Exists
  <2>5. \A v : v # u /\ WithFinalizer(v) => WithFinalizer(v)'
    BY <2>1, <2>3, <2>4 DEF WithFinalizer, Exists
  <2>6. HasPod' = FALSE /\ Copies' \subseteq Copies /\ podWorker'.pc # "update"
    BY <1>1, <2>1 DEF HasPod, Copies, Idle
  <2>7. ASSUME NEW d \in Copies' PROVE PodBehind(d)' /\ d.obj.label # NoKey
    <3>1. PodBehind(d) /\ d.obj.label # NoKey
      BY <2>6 DEF PodsWellKept
    <3>2. d.obj.uid = u => d.deleting
      <4>1. d \in {podCache[m] : m \in DOMAIN podCache}
        BY <1>1, <2>6, <2>7 DEF Copies
      <4> QED
        BY <1>2, <4>1 DEF ReadBehindCache
    <3>3. Exists(d.obj.uid)' => /\ Exists(d.obj.uid)
                               /\ pods'[NameOf[d.obj.uid]].deleting = pods[NameOf[d.obj.uid]].deleting
      BY <2>3, <2>4 DEF Exists
    <3> QED
      BY <1>1, <2>5, <3>1, <3>2, <3>3 DEF PodBehind
  <2>8. PodsWellKept'
    <3>1. \A m \in DOMAIN pods' : pods'[m].obj.name = m /\ pods'[m].obj.label # NoKey
                                 /\ pods'[m].obj.uid \in usedUIDs
      <4>1. pods'[n].obj.name = n /\ pods'[n].obj.label # NoKey /\ pods'[n].obj.uid \in usedUIDs
        BY <2>1, <2>3 DEF PodsWellKept
      <4> QED
        BY <2>1, <2>3, <4>1 DEF PodsWellKept
    <3> QED
      BY <1>1, <2>6, <2>7, <3>1 DEF PodsWellKept
  <2>9. ReadBehindCache' /\ UntrackedBeforeUpdate'
    BY <2>6 DEF ReadBehindCache, UntrackedBeforeUpdate
  <2>10. SeededHeld' /\ TrackedHeld'
    <3>1. u \notin raced => u \notin SeedUIDs /\ \A k \in Tracked : u \notin PodsOf(modelValidations[k])
      BY <1>2 DEF UntrackedBeforeUpdate
    <3>2. SeededHeld'
      BY <1>1, <2>5, <3>1, SeedsOfUID DEF SeededHeld
    <3>3. TrackedHeld'
      BY <1>1, <2>5, <3>1 DEF TrackedHeld, Tracked, Held, PodsOf
    <3> QED
      BY <3>2, <3>3
  <2> QED
    BY <2>8, <2>9, <2>10
<1> QED
  BY <1>3, <1>4 DEF PodUpdate

-----------------------------------------------------------------------------
(* FinalizerInv: the seeding goroutines *)

(* A deleted pod on the list may be about to lose its finalizer: its        *)
(* removal may be undone.                                                   *)
LEMMA SeedListKeepsFinalizers ==
    ASSUME ClusterInv, FinalizerInv, NEW s \in Seeder,
           SeedList(s, LabelledCached(seeds[s].mv)), SamePods, podWorker' = podWorker,
           raced' = raced \cup {podCache[n].obj.uid :
                                   n \in {m \in DOMAIN podCache : podCache[m].deleting}}
    PROVE  FinalizerInv'
<1> USE DEF FinalizerInv
<1> DEFINE k0 == seeds[s].mv
<1>1. /\ UNCHANGED modelValidations
      /\ seeds' = [seeds EXCEPT ![s] = [pc |-> "process", mv |-> k0, pods |-> LabelledCached(k0)]]
  BY DEF SeedList, tables
<1>2. \A t \in Seeder : seeds'[t].pc = "process" =>
         \A p \in seeds'[t].pods :
            \/ seeds[t].pc = "process" /\ p \in seeds[t].pods
            \/ \E n \in DOMAIN podCache : p = podCache[n].obj
  <2>1. LabelledCached(k0) \subseteq {podCache[n].obj : n \in DOMAIN podCache}
    BY DEF LabelledCached
  <2>2. seeds \in [Seeder -> SeederState]
    BY DEF ClusterInv, TypeInv, TypeOK
  <2> HIDE DEF k0
  <2> QED
    BY <1>1, <2>1, <2>2
<1>3. \A n \in DOMAIN podCache : podCache[n].obj.uid \notin raced' => ~podCache[n].deleting
  OBVIOUS
<1>4. PodsWellKept' /\ ReadBehindCache'
  BY SamePodsKept
<1>5. SeededHeld'
  <2> SUFFICES ASSUME NEW t \in Seeder, seeds'[t].pc = "process", NEW p \in seeds'[t].pods,
                      p.finalizer, p.uid \notin raced'
               PROVE  WithFinalizer(p.uid)'
    BY DEF SeededHeld
  <2>1. WithFinalizer(p.uid)
    <3>1. \A n \in DOMAIN podCache : PodBehind(podCache[n])
      BY DEF PodsWellKept, Copies
    <3> QED
      BY <1>2, <1>3, <3>1 DEF SeededHeld, PodBehind
  <2> QED
    BY <2>1 DEF SamePods, WithFinalizer, Exists
<1>6. TrackedHeld'
  BY <1>1 DEF TrackedHeld, Tracked, SamePods, WithFinalizer, Exists
<1>7. UntrackedBeforeUpdate'
  <2> SUFFICES ASSUME podWorker.pc = "update", podWorker.pod.obj.uid \notin raced'
               PROVE  podWorker.pod.obj.uid \notin SeedUIDs'
    BY <1>1 DEF UntrackedBeforeUpdate, Tracked
  <2> DEFINE u == podWorker.pod.obj.uid
  <2>1. u \notin SeedUIDs /\ HasPod /\ podWorker.pod.deleting
    BY DEF UntrackedBeforeUpdate, HasPod
  <2>2. \A n \in DOMAIN podCache : podCache[n].obj.uid # u
    BY <1>3, <2>1 DEF ReadBehindCache
  <2>3. \A t \in Seeder : seeds'[t].pc = "process" => \A p \in seeds'[t].pods : p.uid # u
    BY <1>2, <2>1, <2>2, SeedsOfUID
  <2> QED
    BY <2>3 DEF SeedUIDs
<1> QED
  BY <1>4, <1>5, <1>6, <1>7

LEMMA SeedKeepsFinalizers ==
    ASSUME ClusterInv, OneCategory, FinalizerInv, NEW s \in Seeder, SeedStep(s)
    PROVE  FinalizerInv'
<1>1. SamePods /\ podWorker' = podWorker
  BY DEF SeedStep, SamePods, apiVars, cacheVars
<1>2. seeds \in [Seeder -> SeederState]
  BY DEF ClusterInv, TypeInv, TypeOK
<1>3. CASE SeedList(s, LabelledCached(seeds[s].mv)) /\ UNCHANGED podWorker
           /\ raced' = raced \cup {podCache[n].obj.uid :
                                      n \in {m \in DOMAIN podCache : podCache[m].deleting}}
  BY <1>1, <1>3, SeedListKeepsFinalizers
<1>4. CASE (SeedFail(s) \/ SeedDone(s)) /\ UNCHANGED raced
  <2>1. UNCHANGED modelValidations /\ seeds' = [seeds EXCEPT ![s] = IdleSeeder]
    BY <1>4 DEF SeedFail, SeedDone, tables
  <2>2. SeedsShrink
    BY <1>2, <2>1 DEF SeedsShrink, IdleSeeder
  <2> QED
    BY <1>1, <1>4, <2>1, <2>2, SameTables, ShrinkKeepsFinalizers
<1>5. CASE SeedPod(s) /\ UNCHANGED raced
  <2>1. PICK pod \in seeds[s].pods : /\ TrackPod(pod, seeds[s].mv)
                                     /\ seeds' = [seeds EXCEPT ![s].pods = @ \ {pod}]
    BY <1>5 DEF SeedPod
  <2>2. seeds[s].pc = "process" /\ seeds[s] \in SeederState
    BY <1>2, <1>5 DEF SeedPod
  <2>3. /\ seeds[s].pods \subseteq Pods
        /\ seeds[s] = [pc |-> "process", mv |-> seeds[s].mv, pods |-> seeds[s].pods]
    BY <2>2 DEF SeederState, IdleSeeder
  <2>4. SeedsShrink
    BY <1>2, <2>1, <2>3 DEF SeedsShrink
  <2>5. pod.finalizer /\ pod.uid \notin raced => WithFinalizer(pod.uid)
    BY <2>2 DEF FinalizerInv, SeededHeld
  <2>6. podWorker'.pc = "update" => pod.uid \in raced \/ pod.uid # podWorker.pod.obj.uid
    BY <1>1, <2>2, SeedsOfUID DEF FinalizerInv, UntrackedBeforeUpdate
  <2>7. TablesGain(pod, seeds[s].mv)
    BY <2>1, <2>3, TrackPodGains
  <2> QED
    BY <1>1, <1>5, <2>4, <2>5, <2>6, <2>7, GainKeepsFinalizers
<1> QED
  BY <1>1, <1>3, <1>4, <1>5 DEF SeedStep

-----------------------------------------------------------------------------
(* FinalizerInv: every step *)

LEMMA InitFinalizers == Init => FinalizerInv
<1> SUFFICES ASSUME Init PROVE FinalizerInv
  OBVIOUS
<1>1. ClusterInv
  BY InitClusterTypes
<1>2. \A n \in DOMAIN pods : pods[n].obj.label # NoKey /\ pods[n].obj.name = n
                           /\ pods[n].obj.uid \in usedUIDs /\ ~pods[n].obj.finalizer
                           /\ ~pods[n].deleting
  <2> PICK us \in SUBSET FirstPods : \E k \in [us -> Key] :
          /\ pods = [n \in {NameOf[u] : u \in us} |->
                       Created(LET u == CHOOSE u \in us : NameOf[u] = n
                               IN NewPod(u, k[u]))]
          /\ usedUIDs = us
    BY DEF Init
  <2> PICK k \in [us -> Key] :
          /\ pods = [n \in {NameOf[u] : u \in us} |->
                       Created(LET u == CHOOSE u \in us : NameOf[u] = n
                               IN NewPod(u, k[u]))]
          /\ usedUIDs = us
    OBVIOUS
  <2> DEFINE first(n) == CHOOSE u \in us : NameOf[u] = n
  <2>1. \A n \in {NameOf[u] : u \in us} : first(n) \in us /\ NameOf[first(n)] = n
    OBVIOUS
  <2>2. \A u \in us : k[u] # NoKey
    BY TrackerAssumption
  <2>3. \A n \in DOMAIN pods : /\ n \in {NameOf[u] : u \in us}
                             /\ pods[n] = Created(NewPod(first(n), k[first(n)]))
    OBVIOUS
  <2> HIDE DEF first
  <2>4. \A n \in DOMAIN pods : /\ pods[n].obj = NewPod(first(n), k[first(n)])
                             /\ ~pods[n].deleting
    BY <2>3 DEF Created
  <2>5. \A u \in us : /\ NewPod(u, k[u]).label # NoKey /\ NewPod(u, k[u]).name = NameOf[u]
                      /\ NewPod(u, k[u]).uid = u /\ ~NewPod(u, k[u]).finalizer
    BY <2>2 DEF NewPod
  <2>6. \A n \in DOMAIN pods : first(n) \in us /\ NameOf[first(n)] = n
    BY <2>1, <2>3
  <2>7. ASSUME NEW n \in DOMAIN pods
        PROVE  /\ pods[n].obj.label # NoKey /\ pods[n].obj.name = n /\ pods[n].obj.uid \in usedUIDs
               /\ ~pods[n].obj.finalizer /\ ~pods[n].deleting
    <3>1. usedUIDs = us
      OBVIOUS
    <3>2. /\ first(n) \in us /\ NameOf[first(n)] = n
          /\ pods[n].obj = NewPod(first(n), k[first(n)]) /\ ~pods[n].deleting
      BY <2>4, <2>6
    <3> QED
      BY ONLY <2>5, <3>1, <3>2
  <2> QED
    BY <2>7
<1>3. podCache = pods /\ podWorker = Idle /\ modelValidations = EmptyMap
      /\ seeds = [s \in Seeder |-> IdleSeeder]
  BY DEF Init, TrackerInit
<1>4. HasPod = FALSE /\ podWorker.pc # "update"
  BY <1>3 DEF HasPod, Idle
<1>5. PodsWellKept
  BY <1>2, <1>3, <1>4 DEF PodsWellKept, PodBehind, Copies
<1>6. SeededHeld /\ TrackedHeld
  BY <1>3 DEF SeededHeld, TrackedHeld, IdleSeeder, Tracked, EmptyMap
<1> QED
  BY <1>4, <1>5, <1>6 DEF FinalizerInv, ReadBehindCache, UntrackedBeforeUpdate

(* The new caches hold the current objects; nothing is remembered.          *)
LEMMA RestartKeepsFinalizers ==
    ASSUME ClusterInv, FinalizerInv, Restart
    PROVE  FinalizerInv'
<1>1. /\ UNCHANGED <<pods, usedUIDs>> /\ podCache' = pods /\ podWorker' = Idle
      /\ modelValidations' = EmptyMap /\ seeds' = [s \in Seeder |-> IdleSeeder]
  BY DEF Restart, NewStatusTracker, apiVars
<1>2. HasPod' = FALSE /\ podWorker'.pc # "update" /\ Copies' \subseteq {pods[n] : n \in DOMAIN pods}
  BY <1>1 DEF HasPod, Idle, Copies
<1>3. \A n \in DOMAIN pods : PodBehind(pods[n])
  BY CurrentBehind DEF FinalizerInv
<1>4. \A c : PodBehind(c) => PodBehind(c)'
  BY <1>1 DEF PodBehind, WithFinalizer, Exists
<1>5. PodsWellKept'
  BY <1>1, <1>2, <1>3, <1>4 DEF FinalizerInv, PodsWellKept
<1>6. SeededHeld' /\ TrackedHeld'
  BY <1>1 DEF SeededHeld, TrackedHeld, IdleSeeder, Tracked, EmptyMap
<1> QED
  BY <1>2, <1>5, <1>6 DEF FinalizerInv, ReadBehindCache, UntrackedBeforeUpdate

(* The controllers' calls for ModelValidations, and the worker, bring in no *)
(* pod and start no list.                                                   *)
LEMMA OtherSteps ==
    ASSUME ClusterInv, OneCategory,
           \/ MVReconcile \/ MVEnqueue \/ WorkerStep
           \/ \E k \in Key : SyncMV(k) \/ MVRead(k) \/ MVGone(k)
    PROVE  /\ UNCHANGED <<pods, usedUIDs, podCache, podQueue, podWorker, raced>>
           /\ TablesShrink /\ SeedsShrink
<1>1. UNCHANGED <<pods, usedUIDs, podCache, podQueue, podWorker, raced>>
  BY DEF MVReconcile, MVEnqueue, WorkerStep, WorkerTake, WorkerRead, WorkerForget,
         WorkerCompare, WorkerWrite, WorkerFinish, WorkerOnly, SyncMV, MVRead, MVGone,
         OperatorUnchanged, apiVars, cacheVars
<1>2. ASSUME UNCHANGED <<modelValidations, seeds>> PROVE TablesShrink /\ SeedsShrink
  BY <1>2, SameTables, SameSeeds
<1>3. CASE MVReconcile
  <2>1. /\ mvWorker.pc = "found" => /\ mvWorker.key \in Key /\ mvWorker.mv.config \in Config
                                    /\ mvWorker.mv.generation \in Generation
        /\ mvWorker.pc = "missing" => mvWorker.key \in Key
    BY DEF ClusterInv, WorkerTypes, Idle, MVObject
  <2>2. TablesShrink
    BY <1>3, <2>1, MVHandlersShrink DEF MVReconcile
  <2>3. \/ UNCHANGED seeds
        \/ \E s \in Seeder, k \in Key : seeds' = [seeds EXCEPT ![s] = [pc |-> "list", mv |-> k]]
    BY <1>3, <2>1
       DEF MVReconcile, AddModelValidation, StartTracking, ContinueTracking, RemoveModelValidation
  <2>4. SeedsShrink
    <3>1. seeds \in [Seeder -> SeederState]
      BY DEF ClusterInv, TypeInv, TypeOK
    <3> QED
      BY <2>3, <3>1 DEF SeedsShrink
  <2> QED
    BY <1>1, <2>2, <2>4
<1>4. CASE WorkerForget
  <2>1. TablesShrink /\ UNCHANGED seeds
    BY <1>4, MVHandlersShrink DEF WorkerForget, Forget
  <2> QED
    BY <1>1, <2>1, SameSeeds
<1>5. CASE WorkerStep /\ ~WorkerForget
  BY <1>1, <1>2, <1>5
     DEF WorkerStep, WorkerTake, WorkerRead, WorkerCompare, WorkerWrite, WorkerFinish, tables,
         WorkerGet, ReadError, ReadMissing, ReadFound, Compare, WriteDone, WriteFailed, WorkerDone
<1>6. CASE MVEnqueue
  BY <1>1, <1>2, <1>6 DEF MVEnqueue, EnqueueAdded, tables
<1>7. CASE \E k \in Key : SyncMV(k) \/ MVRead(k) \/ MVGone(k)
  BY <1>1, <1>2, <1>7 DEF SyncMV, MVRead, MVGone, OperatorUnchanged, trackerVars, tables
<1> QED
  BY <1>1, <1>3, <1>4, <1>5, <1>6, <1>7

LEMMA StepsKeepFinalizers ==
    ASSUME "relabel" \notin Edits, ClusterInv, OneCategory, FinalizerInv, [Next]_vars
    PROVE  FinalizerInv'
<1>1. CASE Users
  BY <1>1, EditsChange, ChangeKeepsFinalizers
<1>2. ASSUME NEW n \in PodName, SyncPod(n) \/ PodRead(n) \/ PodGone(n) PROVE FinalizerInv'
  BY <1>2, SyncKeepsFinalizers, ReadKeepsFinalizers, EditsChange, ChangeKeepsFinalizers
<1>3. CASE PodReconcile \/ PodUpdate
  BY <1>3, ReconcileKeepsFinalizers, UpdateKeepsFinalizers
<1>4. ASSUME NEW s \in Seeder, SeedStep(s) PROVE FinalizerInv'
  BY <1>4, SeedKeepsFinalizers
<1>5. CASE Restart
  BY <1>5, RestartKeepsFinalizers
<1>6. CASE UNCHANGED vars
  <2>1. SamePods /\ UNCHANGED <<modelValidations, seeds, raced>>
    BY <1>6 DEF vars, trackerVars, tables, apiVars, cacheVars, SamePods
  <2> QED
    BY <2>1, SameTables, SameSeeds, ShrinkKeepsFinalizers
<1>7. CASE \/ MVReconcile \/ MVEnqueue \/ WorkerStep
           \/ \E k \in Key : SyncMV(k) \/ MVRead(k) \/ MVGone(k)
  BY <1>7, OtherSteps, ShrinkKeepsFinalizers DEF SamePods
<1> QED
  BY <1>1, <1>2, <1>3, <1>4, <1>5, <1>6, <1>7 DEF Next, System

LEMMA FinalizersAlways ==
    ASSUME "relabel" \notin Edits
    PROVE  Spec => []FinalizerInv
<1>1. ClusterInv /\ OneCategory /\ FinalizerInv /\ [Next]_vars => FinalizerInv'
  BY StepsKeepFinalizers
<1>2. Spec => []OneCategory
  BY TrackerInCluster, PTL
<1> QED
  BY <1>1, <1>2, InitFinalizers, ClusterAlways, PTL DEF Spec

(* The finalizer keeps an injected pod in the API server until the tracker  *)
(* has forgotten it, across conflicts, faults, reused names and restarts,   *)
(* unless a list that is older than the removal brings the pod back.  (When *)
(* a pod can lose its label this does not hold: PodReconciler then takes    *)
(* the finalizer before it untracks the pod.)                               *)
THEOREM FinalizerHoldsAlways ==
    ASSUME "relabel" \notin Edits
    PROVE  Spec => []FinalizerHolds
<1>1. FinalizerInv => FinalizerHolds
  BY DEF FinalizerInv, TrackedHeld, Held, WithFinalizer, FinalizerHolds
<1> QED
  BY <1>1, FinalizersAlways, PTL

-----------------------------------------------------------------------------
(* GhostInv: labels *)

(* Nothing a step shows the operator of a pod was not seen before.          *)
LEMMA SightingsKept ==
    ASSUME LabelsFixed, usedUIDs' = usedUIDs,
           \A n \in DOMAIN pods' : n \in DOMAIN pods /\ pods'[n].obj.uid = pods[n].obj.uid
                                  /\ pods'[n].obj.label = pods[n].obj.label,
           \A c \in Copies' : c \in Copies \/ \E n \in DOMAIN pods : c = pods[n],
           \A s \in Seeder : seeds'[s].pc = "process" => \A p \in seeds'[s].pods :
               \/ seeds[s].pc = "process" /\ p \in seeds[s].pods
               \/ \E c \in Copies : p = c.obj,
           \A k \in Tracked' : \A u \in PodsOf(modelValidations'[k]) : SeenAs(u, k)
    PROVE  LabelsFixed'
<1>1. ASSUME NEW u, NEW k, SeenAs(u, k)' PROVE SeenAs(u, k)
  <2>1. CASE \E n \in DOMAIN pods' : pods'[n].obj.uid = u /\ pods'[n].obj.label = k
    BY <2>1 DEF SeenAs
  <2>2. CASE \E c \in Copies' : c.obj.uid = u /\ c.obj.label = k
    BY <2>2 DEF SeenAs
  <2>3. CASE \E s \in Seeder : seeds'[s].pc = "process"
                /\ \E p \in seeds'[s].pods : p.uid = u /\ p.label = k
    BY <2>3 DEF SeenAs
  <2>4. CASE k \in Tracked' /\ u \in PodsOf(modelValidations'[k])
    BY <2>4
  <2> QED
    BY <1>1, <2>1, <2>2, <2>3, <2>4 DEF SeenAs
<1> QED
  BY <1>1 DEF LabelsFixed

(* What a step makes of the tables keeps to what was seen.                  *)
LEMMA TablesSeen ==
    ASSUME TablesShrink
    PROVE  \A k \in Tracked' : \A u \in PodsOf(modelValidations'[k]) : SeenAs(u, k)
BY DEF TablesShrink, NoMorePods, SeenAs

LEMMA GainSeen ==
    ASSUME NEW pod, NEW k0, TablesGain(pod, k0), SeenAs(pod.uid, k0)
    PROVE  \A k \in Tracked' : \A u \in PodsOf(modelValidations'[k]) : SeenAs(u, k)
BY DEF TablesGain, NoMorePods, SeenAs

(* A new pod has a UID that nothing refers to.                              *)
LEMMA ChangeKeepsLabels ==
    ASSUME ClusterInv', FinalizerInv', LabelsFixed, PodChange, Elsewhere
    PROVE  LabelsFixed'
<1> SUFFICES ASSUME NEW u \in UID, NEW k \in Key, NEW j \in Key, SeenAs(u, k)'
             PROVE  u \in usedUIDs' /\ (SeenAs(u, j)' => k = j)
  BY DEF LabelsFixed
<1> DEFINE Newly(n) == n \in DOMAIN pods' /\ n \notin DOMAIN pods /\ pods'[n].obj.uid = u
<1>1. \A i \in Key : SeenAs(u, i)' => SeenAs(u, i) \/ \E n : Newly(n) /\ pods'[n].obj.label = i
  BY DEF SeenAs, Elsewhere, trackerVars, tables, PodChange, Copies, HasPod, Tracked
<1>2. \A n : Newly(n) => u \notin usedUIDs /\ u \in usedUIDs' /\ n = NameOf[u]
  <2>1. \A n \in DOMAIN pods' : pods'[n] \in PodInCluster /\ pods'[n].obj.name = n
    BY DEF ClusterInv, APITypes, IsMap, FinalizerInv, PodsWellKept
  <2> QED
    BY <2>1, NameOfPod DEF PodChange
<1>3. usedUIDs \subseteq usedUIDs'
  BY DEF PodChange
<1>4. \A i \in Key : SeenAs(u, i) => u \in usedUIDs
  BY DEF LabelsFixed
<1> HIDE DEF Newly
<1>5. CASE u \in usedUIDs
  BY <1>1, <1>2, <1>3, <1>5 DEF LabelsFixed
<1>6. CASE u \notin usedUIDs
  BY <1>1, <1>2, <1>4, <1>6
<1> QED
  BY <1>5, <1>6

-----------------------------------------------------------------------------
(* GhostInv: names *)

(* A pod is tracked under the name of its UID.                              *)
LEMMA TrackedNames ==
    ASSUME NEW k, NEW pod, Reported(pod, k)
    PROVE  pod.name = NameOf[pod.uid] /\ pod.uid \in UID
<1>1. PICK p \in LabelledPods(k) : p.name = pod.name /\ p.uid = pod.uid
  BY DEF Reported
<1> QED
  BY <1>1, OperatorAssumption DEF LabelledPods, PodObject

(* A table holds a pod for every UID in it.                                 *)
LEMMA PodOfUID ==
    ASSUME NEW info, IsInfo(info), NEW u \in PodsOf(info)
    PROVE  \E pod \in GetAllPods(info) : pod.uid = u
BY DEF IsInfo, IsPodTable, PodsOf, GetAllPods

(* A name is cleared only together with the pod it leads to.                *)
LEMMA NamesStayFound ==
    ASSUME ClusterInv, ClusterInv', UniqueNames, PodsReported, PodsReported', LabelsFixed,
           FoundByName, PodsStep
    PROVE  FoundByName'
<1> SUFFICES ASSUME NEW k \in Tracked', NEW q \in GetAllPods(modelValidations'[k])
             PROVE  q.name \in DOMAIN podMapping'.uidOf /\ podMapping'.uidOf[q.name] = q.uid
  BY DEF FoundByName
<1>1. q.name = NameOf[q.uid] /\ q.uid \in UID
  <2>1. Reported(q, k)
    BY DEF PodsReported, Reported, LabelledPods
  <2> QED
    BY <2>1, TrackedNames
<1>2. k \in Tracked /\ q \in GetAllPods(modelValidations[k])
        => q.name \in DOMAIN podMapping.uidOf /\ podMapping.uidOf[q.name] = q.uid
  BY DEF FoundByName
<1>3. /\ \A j \in Tracked : j \in Key /\ IsInfo(modelValidations[j])
      /\ IsInfo(modelValidations'[k])
  BY DEF ClusterInv, TypeInv, TypeOK, IsTracking, Tracked
<1>4. CASE NewOrSamePods
  BY <1>2, <1>4 DEF NewOrSamePods
<1>5. ASSUME NEW pod \in Pods, PodTracked(pod)
      PROVE  q.name \in DOMAIN podMapping'.uidOf /\ podMapping'.uidOf[q.name] = q.uid
  <2>1. CASE q.name = pod.name
    <3>1. pod.name = NameOf[pod.uid] /\ pod.uid \in UID
      BY OperatorAssumption DEF PodObject
    <3>2. q.uid = pod.uid
      BY <1>1, <2>1, <3>1 DEF UniqueNames
    <3> QED
      BY <1>5, <2>1, <3>2 DEF PodTracked, AddPod, removePod, Put, Drop
  <2>2. CASE q.name # pod.name
    BY <1>2, <1>5, <2>2 DEF PodTracked, AddPod, removePod, Put, Drop
  <2> QED
    BY <2>1, <2>2
<1>6. ASSUME NEW k0 \in Key, PodsOfRemoved(k0)
      PROVE  q.name \in DOMAIN podMapping'.uidOf /\ podMapping'.uidOf[q.name] = q.uid
  <2>1. /\ k \in Tracked /\ q \in GetAllPods(modelValidations[k]) /\ k # k0
        /\ k0 \in Tracked
    BY <1>6 DEF PodsOfRemoved, PodsStay
  <2>2. ASSUME NEW r \in GetAllPods(modelValidations[k0]), r.name = q.name PROVE FALSE
    <3>1. r.uid = q.uid
      BY <1>1, <2>1, <2>2, TrackedNames DEF PodsReported, UniqueNames
    <3>2. q.uid \in PodsOf(modelValidations[k]) /\ q.uid \in PodsOf(modelValidations[k0])
      BY <1>3, <2>1, <3>1, PodsByUID
    <3>3. SeenAs(q.uid, k) /\ SeenAs(q.uid, k0)
      BY <2>1, <3>2 DEF SeenAs
    <3> QED
      BY <1>1, <1>3, <2>1, <3>3 DEF LabelsFixed
  <2>3. q.name \notin {r.name : r \in GetAllPods(modelValidations[k0])}
    BY <2>2
  <2> QED
    BY <1>2, <1>6, <2>1, <2>3 DEF PodsOfRemoved, RemovePodsByName, Drop
<1>7. ASSUME NEW n \in PodName, NameUntracked(n)
      PROVE  q.name \in DOMAIN podMapping'.uidOf /\ podMapping'.uidOf[q.name] = q.uid
  <2>1. k \in Tracked /\ q \in GetAllPods(modelValidations[k])
    BY <1>7 DEF NameUntracked, PodsStay
  <2>2. q.uid \in PodsOf(modelValidations'[k])
    BY <1>3, PodsByUID
  <2>3. q.name # n
    BY <1>2, <1>7, <2>1, <2>2 DEF NameUntracked
  <2> QED
    BY <1>2, <1>7, <2>1, <2>3 DEF NameUntracked, RemovePodsByName, Drop
<1> QED
  BY <1>4, <1>5, <1>6, <1>7 DEF PodsStep

-----------------------------------------------------------------------------
(* GhostInv: events that are under way *)

Events == ReadCurrent /\ KnownCached /\ AllAccounted

Labelled == SeedsLabelled /\ LabelsFixed

LEMMA KnownUIDs ==
    ASSUME ClusterInv, Labelled
    PROVE  \A u \in Known : u \in UID /\ u \in usedUIDs
<1>1. \A k \in Tracked : \A u \in PodsOf(modelValidations[k]) : u \in UID /\ u \in usedUIDs
  <2> SUFFICES ASSUME NEW k \in Tracked, NEW u \in PodsOf(modelValidations[k])
               PROVE  u \in UID /\ u \in usedUIDs
    OBVIOUS
  <2>1. k \in Key /\ IsInfo(modelValidations[k])
    BY DEF ClusterInv, TypeInv, TypeOK, IsTracking, Tracked
  <2>2. u \in UID
    BY <2>1 DEF IsInfo, IsPodTable, IsMap, PodsOf
  <2>3. SeenAs(u, k)
    BY DEF SeenAs
  <2> QED
    BY <2>1, <2>2, <2>3 DEF Labelled, LabelsFixed
<1>2. \A u \in SeedUIDs : u \in UID /\ u \in usedUIDs
  <2> SUFFICES ASSUME NEW s \in Seeder, seeds[s].pc = "process", NEW p \in seeds[s].pods
               PROVE  p.uid \in UID /\ p.uid \in usedUIDs
    BY DEF SeedUIDs
  <2>1. seeds[s].mv \in Key
    BY DEF ClusterInv, TypeInv, TypeOK, SeederState, IdleSeeder
  <2>2. p \in Pods /\ p.label = seeds[s].mv
    BY DEF Labelled, SeedsLabelled, LabelledPods
  <2>3. p.uid \in UID
    BY <2>2, TrackerAssumption DEF PodObject
  <2>4. SeenAs(p.uid, seeds[s].mv)
    BY <2>2 DEF SeenAs
  <2> QED
    BY <2>1, <2>3, <2>4 DEF Labelled, LabelsFixed
<1> QED
  BY <1>1, <1>2 DEF Known, TrackedUIDs

LEMMA KnownShrinks ==
    ASSUME TablesShrink, SeedsShrink
    PROVE  Known' \subseteq Known
BY DEF TablesShrink, NoMorePods, SeedsShrink, Known, TrackedUIDs, SeedUIDs

LEMMA KnownGains ==
    ASSUME NEW pod, NEW k0, TablesGain(pod, k0), SeedsShrink
    PROVE  Known' \subseteq Known \cup {pod.uid}
BY DEF TablesGain, NoMorePods, SeedsShrink, Known, TrackedUIDs, SeedUIDs

(* What is known shrinks and everything else stays.                         *)
LEMMA ShrinkKeepsEvents ==
    ASSUME Events, UNCHANGED <<pods, podCache, podQueue, podWorker>>,
           Known' \subseteq Known, raced \subseteq raced'
    PROVE  Events'
<1>1. \A u : (Accounted(u) => Accounted(u)') /\ (Exists(u)' = Exists(u))
  BY DEF Accounted, Alive, Exists, Same
<1>2. ReadCurrent'
  BY DEF Events, ReadCurrent
<1>3. KnownCached'
  BY <1>1 DEF Events, KnownCached, HasPod
<1>4. AllAccounted'
  BY <1>1 DEF Events, AllAccounted
<1> QED
  BY <1>2, <1>3, <1>4 DEF Events

(* The pod of a name, in the cluster or a copy.                             *)
LEMMA OnlyPod ==
    ASSUME ClusterInv, UniqueNames, NEW u \in UID, NEW c \in PodInCluster, c.obj.name = NameOf[u]
    PROVE  c.obj.uid = u
BY NameOfPod DEF UniqueNames

LEMMA ChangeKeepsEvents ==
    ASSUME ClusterInv, ClusterInv', FinalizerInv, UniqueNames, Labelled, Events,
           PodChange, Elsewhere
    PROVE  Events'
<1>1. /\ UNCHANGED <<podCache, podQueue, podWorker, raced>>
      /\ Known' = Known
  BY DEF Elsewhere, trackerVars, tables, Known, TrackedUIDs, SeedUIDs, Tracked
<1>2. ReadCurrent'
  BY <1>1 DEF Events, ReadCurrent
<1>3. \A u \in usedUIDs : Exists(u)' => Exists(u)
  BY ChangeKeepsPods DEF FinalizerInv
<1>4. HasPod => podWorker.pod.obj.uid \in usedUIDs
  BY CopyIsPod DEF FinalizerInv, PodsWellKept, PodBehind
<1>5. KnownCached'
  BY <1>1, <1>3, <1>4, KnownUIDs DEF Events, KnownCached, HasPod
<1>6. ASSUME NEW u \in Known, u \notin raced PROVE Accounted(u)'
  <2> DEFINE n == NameOf[u]
  <2>1. u \in UID /\ u \in usedUIDs /\ Accounted(u)
    BY <1>6, KnownUIDs DEF Events, AllAccounted
  <2>2. n \in DOMAIN pods => /\ pods[n].obj.uid = u /\ Exists(u)
                             /\ n \in DOMAIN podCache
    <3>1. n \in DOMAIN pods => pods[n] \in PodInCluster /\ pods[n].obj.name = n
      BY CopyIsPod DEF FinalizerInv, PodsWellKept
    <3> QED
      BY <1>6, <2>1, <3>1, OnlyPod DEF Exists, Events, KnownCached, PodInCluster
  <2>4. n \in DOMAIN podCache => PodBehind(podCache[n])
    BY DEF FinalizerInv, PodsWellKept, Copies
  <2>5. UNCHANGED <<podQueue, podWorker>> /\ podCache' = podCache
    BY <1>1
  <2> HIDE DEF n
  <2>6. CASE n \in DOMAIN pods /\ n \in DOMAIN pods' /\ pods'[n] # pods[n]
    <3>1. pods'[n].obj = pods[n].obj /\ pods'[n].deleting /\ ~pods[n].deleting
      BY <2>6 DEF PodChange
    <3>2. podCache[n] # pods'[n]
      BY <2>2, <2>4, <2>6, <3>1 DEF PodBehind, n
    <3> QED
      BY <2>2, <2>5, <2>6, <3>2 DEF Accounted, Same, n
  <2>7. CASE n \in DOMAIN pods /\ n \notin DOMAIN pods'
    BY <2>2, <2>5, <2>7 DEF Accounted, Same, n
  <2>8. CASE n \notin DOMAIN pods /\ n \in DOMAIN pods'
    <3>1. pods'[n].obj.uid \notin usedUIDs
      BY <2>8 DEF PodChange
    <3>2. ~Same(pods, podCache, n)'
      BY <2>4, <2>5, <2>8, <3>1 DEF Same, PodBehind
    <3> QED
      BY <3>2 DEF Accounted, n
  <2>9. CASE n \in DOMAIN pods <=> n \in DOMAIN pods'
    BY <2>1, <2>5, <2>6, <2>9 DEF Accounted, Alive, Exists, Same, n
  <2> QED
    BY <2>7, <2>8, <2>9
<1> QED
  BY <1>1, <1>2, <1>5, <1>6 DEF Events, AllAccounted

LEMMA SyncKeepsGhosts ==
    ASSUME ClusterInv, FinalizerInv, Labelled, Events, NEW n \in PodName, SyncPod(n)
    PROVE  LabelsFixed' /\ Events'
<1>1. /\ UNCHANGED <<pods, usedUIDs, podWorker, raced, seeds, modelValidations>>
      /\ podCache' = Copied(pods, podCache, n) /\ podQueue' = podQueue \cup {n}
  BY DEF SyncPod, apiVars, trackerVars, tables
<1>2. /\ DOMAIN podCache' \ {n} = DOMAIN podCache \ {n}
      /\ n \in DOMAIN podCache' <=> n \in DOMAIN pods
      /\ \A m \in DOMAIN podCache' : \/ m # n /\ m \in DOMAIN podCache /\ podCache'[m] = podCache[m]
                                     \/ m = n /\ n \in DOMAIN pods /\ podCache'[m] = pods[n]
  BY <1>1, CopiedAt
<1>3. LabelsFixed'
  <2>1. \A c \in Copies' : c \in Copies \/ \E m \in DOMAIN pods : c = pods[m]
    BY <1>1, <1>2 DEF Copies, HasPod
  <2>2. \A k \in Tracked' : \A u \in PodsOf(modelValidations'[k]) : SeenAs(u, k)
    BY <1>1, SameTables, TablesSeen
  <2> QED
    BY <1>1, <2>1, <2>2, SightingsKept DEF Labelled
<1>4. ReadCurrent'
  BY <1>1, <1>2 DEF Events, ReadCurrent
<1>5. Known' = Known /\ \A u : Exists(u)' = Exists(u)
  BY <1>1 DEF Known, TrackedUIDs, SeedUIDs, Tracked, Exists
<1>6. KnownCached'
  BY <1>1, <1>2, <1>5 DEF Events, KnownCached, HasPod, Exists
<1>7. ASSUME NEW u, Accounted(u) PROVE Accounted(u)'
  <2>1. CASE NameOf[u] = n
    BY <1>1, <2>1 DEF Accounted
  <2>2. CASE NameOf[u] # n
    <3>1. Same(pods, podCache, NameOf[u])' <=> Same(pods, podCache, NameOf[u])
      BY <1>1, <1>2, <2>2 DEF Same
    <3> QED
      BY <1>1, <1>7, <3>1 DEF Accounted, Alive, Exists
  <2> QED
    BY <2>1, <2>2
<1> QED
  BY <1>1, <1>3, <1>4, <1>5, <1>6, <1>7 DEF Events, AllAccounted

LEMMA ReadKeepsGhosts ==
    ASSUME ClusterInv, FinalizerInv, UniqueNames, Labelled, Events, NEW n \in PodName, PodRead(n)
    PROVE  LabelsFixed' /\ Events'
<1>1. /\ UNCHANGED <<pods, usedUIDs, podCache, raced, seeds, modelValidations>>
      /\ podQueue' = podQueue \ {n} /\ podWorker = Idle
      /\ podWorker' = IF n \in DOMAIN podCache
                      THEN [pc |-> "found", name |-> n, pod |-> podCache[n]]
                      ELSE [pc |-> "untrack", name |-> n]
  BY DEF PodRead, apiVars, trackerVars, tables
<1>2. Copies' \subseteq Copies
  BY <1>1 DEF Copies, HasPod
<1>3. LabelsFixed'
  <2>1. \A k \in Tracked' : \A u \in PodsOf(modelValidations'[k]) : SeenAs(u, k)
    BY <1>1, SameTables, TablesSeen
  <2> QED
    BY <1>1, <1>2, <2>1, SightingsKept DEF Labelled
<1>4. ReadCurrent'
  BY <1>1 DEF ReadCurrent
<1>5. Known' = Known /\ \A u : Exists(u)' = Exists(u)
  BY <1>1 DEF Known, TrackedUIDs, SeedUIDs, Tracked, Exists
<1>6. n \in DOMAIN podCache => podCache[n] \in PodInCluster /\ podCache[n].obj.name = n
  BY CopyIsPod DEF Copies, FinalizerInv, PodsWellKept
<1>7. KnownCached'
  <2> SUFFICES ASSUME NEW u \in UID, HasPod', podWorker'.pod.obj.uid = u
               PROVE  NameOf[u] \in DOMAIN podCache
    BY <1>1, <1>5 DEF Events, KnownCached
  <2>1. n \in DOMAIN podCache /\ podWorker'.pod = podCache[n]
    BY <1>1 DEF HasPod
  <2> QED
    BY <1>6, <2>1, NameOfPod
<1>8. ASSUME NEW u \in Known, u \notin raced PROVE Accounted(u)'
  <2>1. Accounted(u) /\ u \in UID
    BY <1>8, KnownUIDs DEF Events, AllAccounted
  <2>2. CASE NameOf[u] # n
    BY <1>1, <2>1, <2>2 DEF Accounted, Alive, Exists, Same, Idle
  <2>3. CASE NameOf[u] = n /\ n \notin DOMAIN podCache
    BY <1>1, <2>3 DEF Accounted
  <2>4. CASE NameOf[u] = n /\ n \in DOMAIN podCache /\ ~Same(pods, podCache, n)
    BY <1>1, <2>4 DEF Accounted, Same
  <2>5. CASE NameOf[u] = n /\ n \in DOMAIN podCache /\ Same(pods, podCache, n)
    <3>1. n \in DOMAIN pods /\ pods[n] = podCache[n] /\ podCache[n].obj.uid = u
      BY <1>6, <2>1, <2>5, OnlyPod DEF Same
    <3> QED
      BY <1>1, <2>5, <3>1 DEF Accounted, Alive, Exists
  <2> QED
    BY <2>2, <2>3, <2>4, <2>5
<1> QED
  BY <1>1, <1>3, <1>4, <1>5, <1>7, <1>8 DEF Events, AllAccounted

(* PodReconciler's step on the pod it has read, or on a name.               *)
LEMMA ReconcileKeepsGhosts ==
    ASSUME ClusterInv, OneCategory, FinalizerInv, UniqueNames, Labelled, FoundByName,
           PodsReported, Events, PodReconcile
    PROVE  LabelsFixed' /\ Events'
<1>1. UNCHANGED <<pods, usedUIDs, podCache, podQueue>>
  BY DEF PodReconcile, apiVars, cacheVars
<1>2. UNCHANGED seeds /\ SeedUIDs' = SeedUIDs /\ SeedsShrink
  BY SameSeeds DEF PodReconcile, PodDeleted, PodUnlabelled, PodLabelled, PodUntrack, RemovePodEvent,
         ProcessPodEvent, RemovePodByName, trackerVars, SeedUIDs
<1>3. HasPod' => HasPod /\ podWorker'.pod = podWorker.pod
  BY DEF PodReconcile, PodDeleted, PodUnlabelled, PodLabelled, PodUntrack, HasPod, Idle,
         ClusterInv, WorkerTypes
<1>4. podWorker'.pc # "found"
  BY DEF PodReconcile, PodDeleted, PodUnlabelled, PodLabelled, PodUntrack, Idle,
         ClusterInv, WorkerTypes
<1>5. Copies' \subseteq Copies
  BY <1>1, <1>3 DEF Copies
<1>6. ReadCurrent'
  BY <1>4 DEF ReadCurrent
<1>7. \A u : Exists(u)' = Exists(u)
  BY <1>1 DEF Exists
<1>8. ASSUME \A k \in Tracked' : \A u \in PodsOf(modelValidations'[k]) : SeenAs(u, k)
      PROVE  LabelsFixed'
  BY <1>1, <1>2, <1>5, <1>8, SightingsKept DEF Labelled
<1>9. \A u \in UID : Accounted(u) =>
         \/ Accounted(u)'
         \/ podWorker.pc = "untrack" /\ podWorker.name = NameOf[u]
         \/ podWorker.pc = "found" /\ podWorker.pod.deleting /\ podWorker.pod.obj.uid = u
  BY <1>1, <1>7 DEF Accounted, Alive, Same
<1>10. CASE PodDeleted
  <2> DEFINE v == podWorker.pod.obj.uid
  <2>1. /\ podWorker.pc = "found" /\ Untrack(v) /\ raced' = raced \cup ({v} \cap SeedUIDs)
    BY <1>10 DEF PodDeleted, RemovePodEvent
  <2>2. TablesShrink /\ \A k \in Tracked' : v \notin PodsOf(modelValidations'[k])
    BY <2>1, UntrackShrinks
  <2>3. Known' \subseteq Known /\ (v \in Known' => v \in raced')
    BY <1>2, <2>1, <2>2, KnownShrinks DEF Known, TrackedUIDs
  <2>4. KnownCached'
    BY <1>1, <1>3, <1>7, <2>3 DEF Events, KnownCached
  <2>5. AllAccounted'
    BY <1>9, <2>1, <2>3, KnownUIDs DEF Events, AllAccounted
  <2> QED
    BY <1>6, <1>8, <2>2, <2>4, <2>5, TablesSeen DEF Events
<1>11. ~PodUnlabelled
  <2>1. podWorker.pc = "found" => podWorker.pod.obj.label # NoKey
    BY CopyIsPod DEF FinalizerInv, PodsWellKept, HasPod
  <2> QED
    BY <2>1 DEF PodUnlabelled
<1>12. CASE PodLabelled
  <2> DEFINE c == podWorker.pod
  <2>1. /\ HasPod /\ podWorker.pc = "found" /\ ~c.deleting /\ c.obj.label # NoKey
        /\ c \in Copies /\ c.obj \in Pods /\ c \in PodInCluster
    BY <1>12, CopyIsPod, NameOfPod DEF PodLabelled, HasPod
  <2>2. TrackPod(c.obj, c.obj.label) /\ raced' = raced
    BY <1>12, <2>1 DEF PodLabelled, ProcessPodEvent
  <2>3. TablesGain(c.obj, c.obj.label)
    BY <2>1, <2>2, TrackPodGains
  <2>4. SeenAs(c.obj.uid, c.obj.label)
    BY <2>1 DEF SeenAs
  <2>5. Known' \subseteq Known \cup {c.obj.uid}
    BY <1>2, <2>3, KnownGains
  <2>6. KnownCached'
    BY <1>1, <1>3, <1>7, <2>1, <2>5 DEF Events, KnownCached
  <2>7. ASSUME NEW v \in UID, v = c.obj.uid PROVE Accounted(v)'
    <3>1. NameOf[v] = podWorker.name
      BY <2>1, <2>7, NameOfPod DEF FinalizerInv, PodsWellKept
    <3>2. CASE podWorker.name \in podQueue
      BY <1>1, <3>1, <3>2 DEF Accounted
    <3>3. CASE podWorker.name \notin podQueue
      <4>1. podWorker.name \in DOMAIN podCache /\ podCache[podWorker.name] = c
        BY <2>1, <3>3 DEF Events, ReadCurrent
      <4>2. Same(pods, podCache, NameOf[v]) => Alive(v)
        BY <2>1, <2>7, <3>1, <4>1 DEF Same, Alive, Exists
      <4> QED
        BY <1>1, <4>2 DEF Accounted, Alive, Exists, Same
    <3> QED
      BY <3>2, <3>3
  <2>8. AllAccounted'
    <3> SUFFICES ASSUME NEW u \in Known', u \notin raced PROVE Accounted(u)'
      BY <2>2 DEF AllAccounted
    <3>1. CASE u = c.obj.uid
      BY <2>1, <2>7, <3>1, NameOfPod
    <3>2. CASE u \in Known
      BY <1>9, <2>1, <2>7, <3>2, KnownUIDs DEF Events, AllAccounted
    <3> QED
      BY <2>5, <3>1, <3>2
  <2> QED
    BY <1>6, <1>8, <2>3, <2>4, <2>6, <2>8, GainSeen DEF Events
<1>13. CASE PodUntrack
  <2> DEFINE n == podWorker.name
  <2>1. /\ podWorker.pc = "untrack" /\ RemovePodByName(n)
        /\ raced' = raced \cup {u \in SeedUIDs : NameOf[u] = n}
    BY <1>13 DEF PodUntrack
  <2>2. TablesShrink
    BY <2>1, SameTables, UntrackShrinks DEF RemovePodByName
  <2>3. \A u \in TrackedUIDs' : NameOf[u] # n
    <3> SUFFICES ASSUME NEW k \in Tracked', NEW u \in PodsOf(modelValidations'[k]), NameOf[u] = n
                 PROVE  FALSE
      BY DEF TrackedUIDs
    <3>1. k \in Tracked /\ u \in PodsOf(modelValidations[k])
      BY <2>2 DEF TablesShrink, NoMorePods
    <3>2. PICK q \in GetAllPods(modelValidations[k]) : q.uid = u
      BY <3>1, InfosKept, PodOfUID
    <3>3. q.name = n
      BY <3>1, <3>2, TrackedNames DEF PodsReported
    <3>4. n \in DOMAIN podMapping.uidOf /\ podMapping.uidOf[n] = u
      BY <3>1, <3>2, <3>3 DEF FoundByName
    <3>5. Untrack(u)
      BY <2>1, <3>4 DEF RemovePodByName
    <3> QED
      BY <3>5, UntrackShrinks
  <2>4. Known' \subseteq Known /\ \A u \in Known' : NameOf[u] = n => u \in raced'
    BY <1>2, <2>1, <2>2, <2>3, KnownShrinks DEF Known
  <2>5. KnownCached'
    BY <1>1, <1>3, <1>7, <2>4 DEF Events, KnownCached
  <2>6. AllAccounted'
    BY <1>9, <2>1, <2>4, KnownUIDs DEF Events, AllAccounted
  <2> QED
    BY <1>6, <1>8, <2>2, <2>5, <2>6, TablesSeen DEF Events
<1> QED
  BY <1>10, <1>11, <1>12, <1>13 DEF PodReconcile

(* The pod that loses its finalizer is not tracked; every other one stays.  *)
LEMMA UpdateKeepsGhosts ==
    ASSUME ClusterInv, FinalizerInv, UniqueNames, Labelled, Events, PodUpdate
    PROVE  LabelsFixed' /\ Events'
<1> DEFINE n == podWorker.name
           c == podWorker.pod
           v == c.obj.uid
<1>1. UNCHANGED <<usedUIDs, podCache, seeds, modelValidations, raced>> /\ Known' = Known
  BY DEF PodUpdate, trackerVars, tables, Known, TrackedUIDs, SeedUIDs, Tracked
<1>2. HasPod /\ podWorker.pc = "update" /\ c.deleting /\ c \in Copies
  BY CopyIsPod DEF PodUpdate, HasPod, FinalizerInv, UntrackedBeforeUpdate
<1>3. podWorker' = Idle /\ HasPod' = FALSE /\ podWorker'.pc = "idle" /\ podQueue \subseteq podQueue'
  BY <1>2 DEF PodUpdate, FinalizerRemoved, FinalizerKept, HasPod, Idle
<1>4. ReadCurrent'
  BY <1>3 DEF ReadCurrent
<1>5. Copies' \subseteq Copies
  BY <1>1, <1>3 DEF Copies
<1>6. \A k \in Tracked' : \A u \in PodsOf(modelValidations'[k]) : SeenAs(u, k)
  BY <1>1, SameTables, TablesSeen
<1>7. CASE UNCHANGED pods
  <2>1. LabelsFixed'
    BY <1>1, <1>5, <1>6, <1>7, SightingsKept DEF Labelled
  <2>2. KnownCached'
    BY <1>1, <1>3, <1>7 DEF Events, KnownCached, Exists
  <2>3. AllAccounted'
    BY <1>1, <1>2, <1>3, <1>7 DEF Events, AllAccounted, Accounted, Alive, Exists, Same
  <2> QED
    BY <1>4, <2>1, <2>2, <2>3 DEF Events
<1>8. CASE FinalizerRemoved(n)
  <2>1. /\ n \in DOMAIN pods /\ pods[n] = c
        /\ pods' = Updated(n, [pods[n].obj EXCEPT !.finalizer = FALSE], pods[n].deleting)
    BY <1>8 DEF FinalizerRemoved
  <2>2. NameOf[v] = n
        /\ pods[n].obj \in PodObject /\ v \in UID
    BY <2>1, CopyIsPod, NameOfPod, TrackerAssumption DEF FinalizerInv, PodsWellKept, PodInCluster
  <2>3. /\ DOMAIN pods' = DOMAIN pods
        /\ \A m \in DOMAIN pods : m # n => pods'[m] = pods[m]
        /\ pods'[n].obj.uid = v /\ pods'[n].obj.label = pods[n].obj.label
    BY <2>1, <2>2 DEF PodObject, Updated
  <2>4. \A u : Exists(u)' = Exists(u)
    BY <2>1, <2>3 DEF Exists
  <2>5. LabelsFixed'
    <3>1. \A m \in DOMAIN pods' : m \in DOMAIN pods /\ pods'[m].obj.uid = pods[m].obj.uid
                                  /\ pods'[m].obj.label = pods[m].obj.label
      BY <2>1, <2>3
    <3> QED
      BY <1>1, <1>5, <1>6, <3>1, SightingsKept DEF Labelled
  <2>6. KnownCached'
    BY <1>1, <1>3, <2>4 DEF Events, KnownCached
  <2>7. ASSUME NEW u \in Known, u \notin raced PROVE Accounted(u)'
    <3>1. u # v
      BY <1>2, <2>7 DEF FinalizerInv, UntrackedBeforeUpdate, Known, TrackedUIDs
    <3>2. NameOf[u] # n
      BY <2>2, <2>7, <3>1, KnownUIDs DEF UniqueNames
    <3>3. Accounted(u)
      BY <2>7 DEF Events, AllAccounted
    <3>4. Alive(u) => Alive(u)'
      BY <2>3, <3>2 DEF Alive, Exists
    <3>5. ~Same(pods, podCache, NameOf[u]) => ~Same(pods, podCache, NameOf[u])'
      BY <1>1, <2>3, <3>2 DEF Same
    <3> QED
      BY <1>2, <1>3, <3>3, <3>4, <3>5 DEF Accounted
  <2> QED
    BY <1>1, <1>4, <2>5, <2>6, <2>7 DEF Events, AllAccounted
<1> QED
  BY <1>7, <1>8 DEF PodUpdate, FinalizerKept

(* A pod on a new list is in the cache: it is there, or its deletion is yet *)
(* to be seen, or its removal may be undone.                                *)
LEMMA SeedListKeepsGhosts ==
    ASSUME ClusterInv, FinalizerInv, Labelled, Events, NEW s \in Seeder,
           SeedList(s, LabelledCached(seeds[s].mv)),
           UNCHANGED <<pods, usedUIDs, podCache, podQueue, podWorker>>,
           raced' = raced \cup {podCache[n].obj.uid :
                                   n \in {m \in DOMAIN podCache : podCache[m].deleting}}
    PROVE  LabelsFixed' /\ Events'
<1> DEFINE k0 == seeds[s].mv
<1>1. /\ UNCHANGED modelValidations
      /\ seeds' = [seeds EXCEPT ![s] = [pc |-> "process", mv |-> k0, pods |-> LabelledCached(k0)]]
  BY DEF SeedList, tables
<1>2. \A t \in Seeder : seeds'[t].pc = "process" =>
         \A p \in seeds'[t].pods :
            \/ seeds[t].pc = "process" /\ p \in seeds[t].pods
            \/ \E n \in DOMAIN podCache : p = podCache[n].obj
  <2>1. LabelledCached(k0) \subseteq {podCache[n].obj : n \in DOMAIN podCache}
    BY DEF LabelledCached
  <2>2. seeds \in [Seeder -> SeederState]
    BY DEF ClusterInv, TypeInv, TypeOK
  <2> HIDE DEF k0
  <2> QED
    BY <1>1, <2>1, <2>2
<1>3. LabelsFixed'
  <2>1. Copies' = Copies
    BY DEF Copies, HasPod
  <2>2. \A t \in Seeder : seeds'[t].pc = "process" => \A p \in seeds'[t].pods :
               \/ seeds[t].pc = "process" /\ p \in seeds[t].pods
               \/ \E c \in Copies : p = c.obj
    BY <1>2 DEF Copies
  <2>3. \A k \in Tracked' : \A u \in PodsOf(modelValidations'[k]) : SeenAs(u, k)
    BY <1>1, SameTables, TablesSeen
  <2> QED
    BY <2>1, <2>2, <2>3, SightingsKept DEF Labelled
<1>4. \A u \in Known' : u \in Known \/ \E n \in DOMAIN podCache : u = podCache[n].obj.uid
  BY <1>1, <1>2 DEF Known, TrackedUIDs, SeedUIDs, Tracked
<1>5. \A n \in DOMAIN podCache : podCache[n] \in PodInCluster /\ NameOf[podCache[n].obj.uid] = n
  BY CopyIsPod, NameOfPod DEF Copies, FinalizerInv, PodsWellKept
<1>6. \A u : (Accounted(u)' <=> Accounted(u)) /\ (Exists(u)' <=> Exists(u))
  BY DEF Accounted, Alive, Exists, Same
<1>7. ReadCurrent'
  BY DEF Events, ReadCurrent
<1>8. KnownCached'
  BY <1>4, <1>5, <1>6 DEF Events, KnownCached, HasPod
<1>9. ASSUME NEW n \in DOMAIN podCache, ~podCache[n].deleting PROVE Accounted(podCache[n].obj.uid)
  BY <1>5, <1>9 DEF Accounted, Alive, Exists, Same
<1>10. AllAccounted'
  <2> SUFFICES ASSUME NEW u \in Known', u \notin raced' PROVE Accounted(u)
    BY <1>6 DEF AllAccounted
  <2> QED
    BY <1>4, <1>9 DEF Events, AllAccounted
<1> QED
  BY <1>3, <1>7, <1>8, <1>10 DEF Events

LEMMA SeedKeepsGhosts ==
    ASSUME ClusterInv, OneCategory, FinalizerInv, Labelled, Events, NEW s \in Seeder, SeedStep(s)
    PROVE  LabelsFixed' /\ Events'
<1>1. UNCHANGED <<pods, usedUIDs, podCache, podQueue, podWorker>>
  BY DEF SeedStep, apiVars, cacheVars
<1>2. seeds \in [Seeder -> SeederState]
  BY DEF ClusterInv, TypeInv, TypeOK
<1>3. Copies' = Copies
  BY <1>1 DEF Copies, HasPod
<1>4. ASSUME Known' \subseteq Known, UNCHANGED raced, SeedsShrink,
             \A k \in Tracked' : \A u \in PodsOf(modelValidations'[k]) : SeenAs(u, k)
      PROVE  LabelsFixed' /\ Events'
  <2>1. LabelsFixed'
    BY <1>1, <1>3, <1>4, SightingsKept DEF Labelled, SeedsShrink
  <2> QED
    BY <1>1, <1>4, <2>1, ShrinkKeepsEvents
<1>5. CASE SeedList(s, LabelledCached(seeds[s].mv))
           /\ raced' = raced \cup {podCache[n].obj.uid :
                                      n \in {m \in DOMAIN podCache : podCache[m].deleting}}
  BY <1>1, <1>5, SeedListKeepsGhosts
<1>6. CASE (SeedFail(s) \/ SeedDone(s)) /\ UNCHANGED raced
  <2>1. UNCHANGED modelValidations /\ seeds' = [seeds EXCEPT ![s] = IdleSeeder]
    BY <1>6 DEF SeedFail, SeedDone, tables
  <2>2. SeedsShrink
    BY <1>2, <2>1 DEF SeedsShrink, IdleSeeder
  <2> QED
    BY <1>4, <1>6, <2>1, <2>2, SameTables, KnownShrinks, TablesSeen
<1>7. CASE SeedPod(s) /\ UNCHANGED raced
  <2>1. PICK pod \in seeds[s].pods : /\ TrackPod(pod, seeds[s].mv)
                                     /\ seeds' = [seeds EXCEPT ![s].pods = @ \ {pod}]
    BY <1>7 DEF SeedPod
  <2>2. seeds[s].pc = "process" /\ seeds[s] \in SeederState
    BY <1>2, <1>7 DEF SeedPod
  <2>3. /\ seeds[s].pods \subseteq Pods
        /\ seeds[s] = [pc |-> "process", mv |-> seeds[s].mv, pods |-> seeds[s].pods]
    BY <2>2 DEF SeederState, IdleSeeder
  <2>4. SeedsShrink
    BY <1>2, <2>1, <2>3 DEF SeedsShrink
  <2>5. TablesGain(pod, seeds[s].mv)
    BY <2>1, <2>3, TrackPodGains
  <2>6. pod.uid \in Known
    BY <2>2, SeedsOfUID DEF Known
  <2>7. Known' \subseteq Known
    BY <2>4, <2>5, <2>6, KnownGains
  <2>8. SeenAs(pod.uid, seeds[s].mv)
    BY <2>2 DEF SeenAs, Labelled, SeedsLabelled, LabelledPods
  <2> QED
    BY <1>4, <1>7, <2>4, <2>5, <2>7, <2>8, GainSeen
<1> QED
  BY <1>5, <1>6, <1>7 DEF SeedStep

-----------------------------------------------------------------------------
(* GhostInv: every step *)

LEMMA RestartKeepsGhosts ==
    ASSUME ClusterInv, FinalizerInv, Labelled, Restart
    PROVE  LabelsFixed' /\ Events'
<1>1. /\ UNCHANGED <<pods, usedUIDs>> /\ podCache' = pods /\ podWorker' = Idle
      /\ modelValidations' = EmptyMap /\ seeds' = [s \in Seeder |-> IdleSeeder]
  BY DEF Restart, NewStatusTracker, apiVars
<1>2. HasPod' = FALSE /\ podWorker'.pc = "idle"
  BY <1>1 DEF HasPod, Idle
<1>3. Tracked' = {} /\ Known' = {}
  BY <1>1 DEF Tracked, EmptyMap, Known, TrackedUIDs, SeedUIDs, IdleSeeder
<1>4. \A c \in Copies' : \E n \in DOMAIN pods : c = pods[n]
  BY <1>1, <1>2 DEF Copies
<1>5. \A s \in Seeder : seeds'[s].pc # "process"
  BY <1>1 DEF IdleSeeder
<1>6. LabelsFixed'
  BY <1>1, <1>3, <1>4, <1>5, SightingsKept DEF Labelled
<1> QED
  BY <1>2, <1>3, <1>6 DEF Events, ReadCurrent, KnownCached, AllAccounted

LEMMA InitGhosts == Init => GhostInv
<1> SUFFICES ASSUME Init PROVE GhostInv
  OBVIOUS
<1>1. FinalizerInv
  BY InitFinalizers
<1>2. podCache = pods /\ podWorker = Idle /\ modelValidations = EmptyMap
      /\ seeds = [s \in Seeder |-> IdleSeeder]
  BY DEF Init, TrackerInit
<1>3. HasPod = FALSE /\ podWorker.pc = "idle" /\ Tracked = {} /\ Known = {}
  BY <1>2 DEF HasPod, Idle, Tracked, EmptyMap, Known, TrackedUIDs, SeedUIDs, IdleSeeder
<1>4. \A u, k : SeenAs(u, k) => \E n \in DOMAIN pods : pods[n].obj.uid = u /\ pods[n].obj.label = k
  BY <1>2, <1>3 DEF SeenAs, Copies, IdleSeeder
<1>5. \A n \in DOMAIN pods : n = NameOf[pods[n].obj.uid] /\ pods[n].obj.uid \in usedUIDs
  BY <1>1, InitClusterTypes, CopyIsPod, NameOfPod DEF FinalizerInv, PodsWellKept
<1>6. LabelsFixed
  BY <1>4, <1>5 DEF LabelsFixed
<1> QED
  BY <1>3, <1>6 DEF GhostInv, FoundByName, ReadCurrent, KnownCached, AllAccounted

LEMMA StepsKeepGhosts ==
    ASSUME "relabel" \notin Edits, UniqueNames, ClusterInv, ClusterInv', OneCategory,
           FinalizerInv, FinalizerInv', SeedsLabelled, PodsReported, PodsReported', GhostInv,
           [Next]_vars
    PROVE  GhostInv'
<1>1. Labelled /\ Events /\ FoundByName
  BY DEF Labelled, Events, GhostInv
<1>2. FoundByName'
  <2>1. [TrackerNext]_trackerVars
    BY ClusterInvTypes, TrackerSteps
  <2>2. PodsStep
    BY <2>1, PodsSteps DEF ClusterInv
  <2> QED
    BY <1>1, <2>2, NamesStayFound DEF Labelled
<1>3. LabelsFixed' /\ Events'
  <2>1. CASE Users
    BY <1>1, <2>1, EditsChange, ChangeKeepsLabels, ChangeKeepsEvents DEF Labelled
  <2>2. ASSUME NEW n \in PodName, SyncPod(n) \/ PodRead(n) \/ PodGone(n)
        PROVE  LabelsFixed' /\ Events'
    <3>1. CASE PodGone(n)
      BY <1>1, <3>1, EditsChange, ChangeKeepsLabels, ChangeKeepsEvents DEF Labelled
    <3> QED
      BY <1>1, <2>2, <3>1, SyncKeepsGhosts, ReadKeepsGhosts
  <2>3. CASE PodReconcile
    BY <1>1, <2>3, ReconcileKeepsGhosts
  <2>4. CASE PodUpdate
    BY <1>1, <2>4, UpdateKeepsGhosts
  <2>5. ASSUME NEW s \in Seeder, SeedStep(s) PROVE LabelsFixed' /\ Events'
    BY <1>1, <2>5, SeedKeepsGhosts
  <2>6. CASE Restart
    BY <1>1, <2>6, RestartKeepsGhosts
  <2>7. ASSUME UNCHANGED <<pods, usedUIDs, podCache, podQueue, podWorker, raced>>,
               TablesShrink, SeedsShrink
        PROVE  LabelsFixed' /\ Events'
    <3>1. Copies' = Copies
      BY <2>7 DEF Copies, HasPod
    <3>2. LabelsFixed'
      BY <1>1, <2>7, <3>1, TablesSeen, SightingsKept DEF Labelled, SeedsShrink
    <3> QED
      BY <1>1, <2>7, <3>2, KnownShrinks, ShrinkKeepsEvents
  <2>8. CASE \/ MVReconcile \/ MVEnqueue \/ WorkerStep
             \/ \E k \in Key : SyncMV(k) \/ MVRead(k) \/ MVGone(k)
    BY <2>7, <2>8, OtherSteps
  <2>9. CASE UNCHANGED vars
    <3>1. UNCHANGED <<pods, usedUIDs, podCache, podQueue, podWorker, raced, modelValidations, seeds>>
      BY <2>9 DEF vars, trackerVars, tables, apiVars, cacheVars
    <3> QED
      BY <2>7, <3>1, SameTables, SameSeeds
  <2> QED
    BY <2>1, <2>2, <2>3, <2>4, <2>5, <2>6, <2>8, <2>9 DEF Next, System
<1> QED
  BY <1>2, <1>3 DEF GhostInv, Events

LEMMA GhostsAlways ==
    ASSUME "relabel" \notin Edits, UniqueNames
    PROVE  Spec => []GhostInv
<1> DEFINE Before == ClusterInv /\ OneCategory /\ FinalizerInv /\ SeedsLabelled /\ PodsReported
<1>1. Before /\ Before' /\ GhostInv /\ [Next]_vars => GhostInv'
  BY StepsKeepGhosts
<1>2. Spec => [](SeedsLabelled /\ PodsReported)
  BY TrackerImplemented, ReportedAlways, PTL DEF ImplementsTracker
<1>3. Spec => []OneCategory
  BY TrackerInCluster, PTL
<1> QED
  BY <1>1, <1>2, <1>3, InitGhosts, ClusterAlways, FinalizersAlways, PTL DEF Spec

(* A pod that is listed exists, carries the label and is not being deleted, *)
(* once everything has been observed: no event of a deletion is lost, in a  *)
(* queue, in PodReconciler or by a restart, that would have untracked it.   *)
THEOREM ListsNoOtherGhostsAlways ==
    ASSUME "relabel" \notin Edits, UniqueNames
    PROVE  Spec => []ListsNoOtherGhosts
<1>1. ClusterInv /\ FinalizerInv /\ GhostInv => ListsNoOtherGhosts
  <2> SUFFICES ASSUME ClusterInv, FinalizerInv, GhostInv, Quiescent, NEW k \in Tracked,
                      NEW u \in PodsOf(modelValidations[k]), u \notin raced
               PROVE  Exists(u) /\ pods[NameOf[u]].obj.label = k /\ ~pods[NameOf[u]].deleting
    BY DEF ListsNoOtherGhosts
  <2>1. k \in Key /\ u \in UID
    BY DEF ClusterInv, TypeInv, TypeOK, IsTracking, Tracked, IsInfo, IsPodTable, IsMap, PodsOf
  <2>2. Accounted(u)
    BY DEF GhostInv, AllAccounted, Known, TrackedUIDs
  <2>3. Alive(u)
    <3>1. NameOf[u] \in PodName
      BY <2>1, OperatorAssumption
    <3> QED
      BY <2>2, <3>1 DEF Quiescent, Accounted, Idle
  <2>4. pods[NameOf[u]].obj.label \in Key
    <3>1. pods[NameOf[u]] \in PodInCluster /\ pods[NameOf[u]].obj.label # NoKey
      BY <2>3, CopyIsPod DEF Alive, Exists, FinalizerInv, PodsWellKept
    <3> QED
      BY <3>1, TrackerAssumption DEF PodInCluster, PodObject
  <2>5. SeenAs(u, k) /\ SeenAs(u, pods[NameOf[u]].obj.label)
    BY <2>3 DEF SeenAs, Alive, Exists
  <2> QED
    BY <2>1, <2>3, <2>4, <2>5 DEF GhostInv, LabelsFixed, Alive
<1> QED
  BY <1>1, GhostsAlways, FinalizersAlways, ClusterAlways, PTL
=============================================================================
