-------------------------- MODULE PodCategoryProofs --------------------------
(***************************************************************************)
(* Why every pod ends up in its category (PodsCategorised of Operator.tla), *)
(* whatever is relabelled: what the operator knows of a pod is a version it *)
(* had, and a pod that is not in its category has an event no reconciler    *)
(* has turned to, is being worked on, or is still to be seeded.             *)
(***************************************************************************)
EXTENDS PodTrackingProofs

-----------------------------------------------------------------------------
(* The inductive invariant *)

(* c is an earlier version of d, or the same one.                           *)
EarlierOrSame(c, d) == c.obj.uid = d.obj.uid => c.version < d.version \/ c = d

(* The cache is behind the cluster, and PodReconciler behind the cache.     *)
VersionsAscend ==
    /\ \A n \in DOMAIN podCache \cap DOMAIN pods : EarlierOrSame(podCache[n], pods[n])
    /\ HasPod => LET n == podWorker.name IN
          /\ n \in DOMAIN pods => EarlierOrSame(podWorker.pod, pods[n])
          /\ n \in DOMAIN podCache => EarlierOrSame(podWorker.pod, podCache[n])

PodsNamed ==
    /\ \A n \in DOMAIN pods : pods[n].obj.name = n /\ pods[n].obj.uid \in usedUIDs
    /\ \A n \in DOMAIN podCache : podCache[n].obj.name = n
    /\ HasPod => podWorker.pod.obj.name = podWorker.name

(* What is known of a pod says how it is annotated.                         *)
Faithful(p) ==
    /\ p.uid \in usedUIDs
    /\ \A n \in DOMAIN pods : pods[n].obj.uid = p.uid => pods[n].obj.config = p.config

AllFaithful ==
    /\ \A n \in DOMAIN podCache : Faithful(podCache[n].obj)
    /\ HasPod => Faithful(podWorker.pod.obj)
    /\ \A s \in Seeder : seeds[s].pc = "process" => \A p \in seeds[s].pods : Faithful(p)
    /\ \A k \in Tracked : \A p \in GetAllPods(modelValidations[k]) : Faithful(p)

(* The pod has the finalizer, or not, as p says, if it stays.               *)
FinalizerAsIn(p) ==
    \A n \in DOMAIN pods : pods[n].obj.uid = p.uid /\ ~pods[n].deleting =>
        pods[n].obj.finalizer = p.finalizer

Untracking(n) == podWorker.pc = "untrack" /\ podWorker.name = n

(* A pod without its finalizer is not taken for one with it: the label was  *)
(* gone, and the pod is untracked before anything is done about a new one.  *)
FinalizersSeen ==
    /\ \A n \in DOMAIN podCache :
          podCache[n].obj.label # NoKey => FinalizerAsIn(podCache[n].obj)
    /\ \A s \in Seeder : seeds[s].pc = "process" =>
          \A p \in seeds[s].pods :
              p.uid \in raced \/ FinalizerAsIn(p) \/ Untracking(p.name)

(* The name mapping says of a name the pod that has it.                     *)
NamesMapped == \A n \in DOMAIN podMapping.uidOf : NameOf[podMapping.uidOf[n]] = n

(* There is an event of the pod PodReconciler has not turned to.            *)
EventDue(n) == ~Same(pods, podCache, n) \/ n \in podQueue

(* A pod is untracked when it is gone or unlabelled, or what has become of  *)
(* it since is still to come.                                               *)
UntrackDue == \A n \in PodName : Untracking(n) =>
    EventDue(n) \/ n \notin DOMAIN pods \/ pods[n].obj.label = NoKey

(* Only a pod that leaves, or has lost its label, is updated.               *)
UpdatesLeaving ==
    podWorker.pc = "update" => podWorker.pod.deleting \/ podWorker.pod.obj.label = NoKey

(* A seeding goroutine will list the pod, or has it on its list.            *)
WillBeSeeded(pod) == \E s \in Seeder :
    \/ seeds[s].pc = "list" /\ seeds[s].mv = pod.label
    \/ /\ seeds[s].pc = "process" /\ seeds[s].mv = pod.label
       /\ \E p \in seeds[s].pods : p.uid = pod.uid

(* PodReconciler is at work on the pod.                                     *)
Turned(n) == podWorker # Idle /\ podWorker.name = n

(* The pod is in its category, or need not be, or something leads to it.    *)
Covered(n) ==
    LET pod == pods[n].obj IN
    \/ EventDue(n) \/ Turned(n) \/ pods[n].deleting
    \/ pod.label \notin Tracked \/ pod.uid \in raced
    \/ Categorised(pod, modelValidations[pod.label])
    \/ WillBeSeeded(pod)

AllCovered == \A n \in DOMAIN pods : Covered(n)

CategoryInv == /\ PodsNamed /\ VersionsAscend /\ AllFaithful /\ FinalizersSeen
               /\ NamesMapped /\ ReadCurrent /\ UntrackDue /\ UpdatesLeaving
               /\ AllCovered

-----------------------------------------------------------------------------
(* What a handler does to the category of a pod *)

(* A pod that is not the one removed stays where it is.                     *)
LEMMA RemovePodCategories ==
    ASSUME NEW info, IsInfo(info), Exclusive(info), NEW u
    PROVE  /\ \A q \in PodObject : q.uid # u /\ Categorised(q, info)
                                      => Categorised(q, RemovePod(info, u))
           /\ GetAllPods(RemovePod(info, u)) \subseteq GetAllPods(info)
           /\ RemovePod(info, u).config = info.config
           /\ IsInfo(RemovePod(info, u))
<1> DEFINE new == RemovePod(info, u)
<1>1. /\ new.config = info.config
      /\ new.injected \in {info.injected, Drop(info.injected, {u})}
      /\ new.orphaned \in {info.orphaned, Drop(info.orphaned, {u})}
      /\ new.uninjected \in {info.uninjected, Drop(info.uninjected, {u})}
  BY DEF IsInfo, RemovePod
<1>2. IsInfo(new)
  BY RemovePodInfo
<1> HIDE DEF new
<1>3. \A q \in PodObject : q.uid # u /\ Categorised(q, info) => Categorised(q, new)
  BY <1>1 DEF Categorised, Drop
<1>4. GetAllPods(new) \subseteq GetAllPods(info)
  BY <1>1 DEF GetAllPods, Drop
<1> QED
  BY <1>1, <1>2, <1>3, <1>4 DEF new

(* A pod that is added is filed as its finalizer and annotations say.       *)
LEMMA AddPodCategories ==
    ASSUME NEW info, IsInfo(info), Exclusive(info), NEW p \in PodInfo, NEW f \in BOOLEAN,
           NEW new, new = IF f THEN AddInjectedPod(info, p) ELSE AddUninjectedPod(info, p)
    PROVE  /\ \A q \in PodObject : q.uid # p.uid /\ Categorised(q, info) => Categorised(q, new)
           /\ \A q \in PodObject : q.uid = p.uid /\ q.finalizer = f /\ q.config = p.config
                                      => Categorised(q, new)
           /\ GetAllPods(new) \subseteq GetAllPods(info) \cup {p}
<1> DEFINE removed == RemovePod(info, p.uid)
<1>1. /\ IsInfo(removed) /\ removed.config = info.config
      /\ \A q \in PodObject : q.uid # p.uid /\ Categorised(q, info) => Categorised(q, removed)
      /\ GetAllPods(removed) \subseteq GetAllPods(info)
  BY RemovePodCategories
<1>2. new = IF ~f THEN [removed EXCEPT !.uninjected = Put(@, p.uid, p)]
            ELSE IF Drifted(p, info.config) THEN [removed EXCEPT !.orphaned = Put(@, p.uid, p)]
            ELSE [removed EXCEPT !.injected = Put(@, p.uid, p)]
  BY DEF AddInjectedPod, AddUninjectedPod
<1> HIDE DEF removed
<1>3. /\ new.config = info.config
      /\ new.uninjected = IF ~f THEN Put(removed.uninjected, p.uid, p) ELSE removed.uninjected
      /\ new.orphaned = IF f /\ Drifted(p, info.config) THEN Put(removed.orphaned, p.uid, p)
                                                        ELSE removed.orphaned
      /\ new.injected = IF f /\ ~Drifted(p, info.config) THEN Put(removed.injected, p.uid, p)
                                                         ELSE removed.injected
  BY <1>1, <1>2 DEF IsInfo
<1>4. \A t : /\ DOMAIN Put(t, p.uid, p) = DOMAIN t \cup {p.uid}
             /\ \A u \in DOMAIN Put(t, p.uid, p) :
                   Put(t, p.uid, p)[u] = p \/ (u \in DOMAIN t /\ Put(t, p.uid, p)[u] = t[u])
  BY DEF Put
<1>5. /\ DOMAIN new.uninjected = DOMAIN removed.uninjected \cup {u \in {p.uid} : ~f}
      /\ DOMAIN new.orphaned = DOMAIN removed.orphaned \cup {u \in {p.uid} : f /\ Drifted(p, info.config)}
      /\ DOMAIN new.injected = DOMAIN removed.injected \cup {u \in {p.uid} : f /\ ~Drifted(p, info.config)}
  BY <1>3, <1>4
<1>6. \A q \in PodObject : q.uid # p.uid /\ Categorised(q, removed) => Categorised(q, new)
  BY <1>1, <1>3, <1>5 DEF Categorised
<1>7. \A q \in PodObject : q.uid = p.uid /\ q.finalizer = f /\ q.config = p.config
                              => Categorised(q, new)
  <2> SUFFICES ASSUME NEW q \in PodObject, q.uid = p.uid, q.finalizer = f, q.config = p.config
               PROVE  Categorised(q, new)
    OBVIOUS
  <2>1. Drifted(q, info.config) <=> Drifted(p, info.config)
    BY DEF Drifted
  <2> QED
    BY <1>3, <1>5, <2>1 DEF Categorised
<1>8. /\ \A u \in DOMAIN new.uninjected : new.uninjected[u] = p
            \/ (u \in DOMAIN removed.uninjected /\ new.uninjected[u] = removed.uninjected[u])
      /\ \A u \in DOMAIN new.orphaned : new.orphaned[u] = p
            \/ (u \in DOMAIN removed.orphaned /\ new.orphaned[u] = removed.orphaned[u])
      /\ \A u \in DOMAIN new.injected : new.injected[u] = p
            \/ (u \in DOMAIN removed.injected /\ new.injected[u] = removed.injected[u])
  BY <1>3, <1>4
<1>9. GetAllPods(new) \subseteq GetAllPods(removed) \cup {p}
  BY <1>8 DEF GetAllPods
<1> QED
  BY <1>1, <1>6, <1>7, <1>9

(* A new configuration moves the injected pods it leaves behind.            *)
LEMMA UpdateConfigCategories ==
    ASSUME NEW info, IsInfo(info), NEW c, NEW g
    PROVE  /\ \A q \in PodObject :
                 /\ \A p \in GetAllPods(info) : p.uid = q.uid => p.config = q.config
                 /\ Categorised(q, info)
                 => Categorised(q, UpdateConfig(info, c, g))
           /\ GetAllPods(UpdateConfig(info, c, g)) \subseteq GetAllPods(info)
<1> DEFINE new == UpdateConfig(info, c, g)
           left == DriftedPods(info, c)
<1>1. CASE info.config = c
  <2>1. /\ new.config = info.config /\ new.injected = info.injected
        /\ new.uninjected = info.uninjected /\ new.orphaned = info.orphaned
    BY <1>1 DEF UpdateConfig, IsInfo
  <2> QED
    BY <2>1 DEF Categorised, GetAllPods
<1>2. CASE info.config # c
  <2>1. /\ new.config = c /\ new.uninjected = info.uninjected
        /\ new.injected = Drop(info.injected, left)
        /\ new.orphaned = [u \in DOMAIN info.orphaned \cup left |->
                              IF u \in left THEN info.injected[u] ELSE info.orphaned[u]]
    BY <1>2 DEF UpdateConfig, IsInfo
  <2>2. /\ left \subseteq DOMAIN info.injected
        /\ \A u \in DOMAIN info.injected : u \in left <=> Drifted(info.injected[u], c)
    BY DEF DriftedPods
  <2>3. \A u \in DOMAIN info.injected : info.injected[u].uid = u
                                      /\ info.injected[u] \in GetAllPods(info)
    BY DEF IsInfo, IsPodTable, GetAllPods
  <2> HIDE DEF new, left
  <2>4. /\ DOMAIN new.injected = DOMAIN info.injected \ left
        /\ DOMAIN new.orphaned = DOMAIN info.orphaned \cup left
        /\ \A u \in DOMAIN new.injected : new.injected[u] = info.injected[u]
        /\ \A u \in DOMAIN new.orphaned : new.orphaned[u] = IF u \in left THEN info.injected[u]
                                                            ELSE info.orphaned[u]
    BY <2>1 DEF Drop
  <2>5. ASSUME NEW q \in PodObject, Categorised(q, info),
               \A p \in GetAllPods(info) : p.uid = q.uid => p.config = q.config
        PROVE  Categorised(q, new)
    <3>1. q.uid \in DOMAIN info.injected => (q.uid \in left <=> Drifted(q, c))
      <4>1. q.uid \in DOMAIN info.injected => info.injected[q.uid].config = q.config
        BY <2>3, <2>5
      <4> QED
        BY <2>2, <4>1 DEF Drifted
    <3> QED
      BY <2>1, <2>4, <2>5, <3>1 DEF Categorised
  <2>6. GetAllPods(new) \subseteq GetAllPods(info)
    BY <2>1, <2>2, <2>4 DEF GetAllPods
  <2> QED
    BY <2>5, <2>6 DEF new
<1> QED
  BY <1>1, <1>2

LEMMA UntrackCategories ==
    ASSUME ClusterInv, OneCategory, NEW u, Untrack(u)
    PROVE  /\ Tracked' = Tracked
           /\ \A k \in Tracked :
                 /\ GetAllPods(modelValidations'[k]) \subseteq GetAllPods(modelValidations[k])
                 /\ \A q \in PodObject : q.uid # u /\ Categorised(q, modelValidations[k])
                                            => Categorised(q, modelValidations'[k])
<1>1. /\ Tracked' = Tracked
      /\ \A k \in Tracked : modelValidations'[k] = RemovePod(modelValidations[k], u)
  BY DEF Untrack, Tracked
<1> QED
  BY <1>1, InfosKept, RemovePodCategories

LEMMA TrackPodCategories ==
    ASSUME ClusterInv, OneCategory, NEW k0, NEW pod \in Pods, TrackPod(pod, k0)
    PROVE  /\ Tracked' = Tracked
           /\ \A k \in Tracked :
                 /\ GetAllPods(modelValidations'[k]) \subseteq GetAllPods(modelValidations[k])
                       \cup {[name |-> pod.name, uid |-> pod.uid, config |-> pod.config]}
                 /\ \A q \in PodObject : q.uid # pod.uid /\ Categorised(q, modelValidations[k])
                                            => Categorised(q, modelValidations'[k])
                 /\ k # k0 => modelValidations'[k] = modelValidations[k]
                 /\ k = k0 => \A q \in PodObject :
                       q.uid = pod.uid /\ q.finalizer = pod.finalizer /\ q.config = pod.config
                           => Categorised(q, modelValidations'[k])
<1> DEFINE info == [name |-> pod.name, uid |-> pod.uid, config |-> pod.config]
<1>1. info \in PodInfo /\ pod.finalizer \in BOOLEAN
  BY TrackerAssumption DEF PodObject, PodInfo
<1>2. CASE k0 \notin Tracked
  BY <1>2 DEF TrackPod, tables, Tracked
<1>3. CASE k0 \in Tracked
  <2>1. Tracked' = Tracked /\ \A k \in Tracked : k # k0 => modelValidations'[k] = modelValidations[k]
    BY <1>3 DEF TrackPod, Tracked
  <2>2. modelValidations'[k0] = IF pod.finalizer THEN AddInjectedPod(modelValidations[k0], info)
                                ELSE AddUninjectedPod(modelValidations[k0], info)
    BY <1>3 DEF TrackPod, Tracked
  <2>3. /\ info.uid = pod.uid /\ info.config = pod.config
        /\ info = [name |-> pod.name, uid |-> pod.uid, config |-> pod.config]
    OBVIOUS
  <2> HIDE DEF info
  <2>4. /\ \A q \in PodObject : q.uid # info.uid /\ Categorised(q, modelValidations[k0])
                                   => Categorised(q, modelValidations'[k0])
        /\ \A q \in PodObject : q.uid = info.uid /\ q.finalizer = pod.finalizer /\ q.config = info.config
                                   => Categorised(q, modelValidations'[k0])
        /\ GetAllPods(modelValidations'[k0]) \subseteq GetAllPods(modelValidations[k0]) \cup {info}
    BY <1>1, <1>3, <2>2, InfosKept, AddPodCategories
  <2>5. ASSUME NEW k \in Tracked, k # k0
        PROVE  /\ GetAllPods(modelValidations'[k]) = GetAllPods(modelValidations[k])
               /\ \A q \in PodObject : Categorised(q, modelValidations[k])
                                            => Categorised(q, modelValidations'[k])
    BY <2>1, <2>5
  <2> QED
    BY <2>1, <2>3, <2>4, <2>5
<1> QED
  BY <1>2, <1>3

-----------------------------------------------------------------------------
(* What users, the kubelet and the informer do to pods *)

(* A pod that is written gets a later version, one that is created a new    *)
(* UID; neither changes whom a UID and its annotations belong to.           *)
PodsEdited ==
    /\ usedUIDs \subseteq usedUIDs'
    /\ \A n \in DOMAIN pods' :
          \/ n \in DOMAIN pods /\ pods'[n] = pods[n]
          \/ /\ n \in DOMAIN pods /\ pods'[n].version \in Nat
             /\ pods[n].version < pods'[n].version
             /\ pods'[n].obj.uid = pods[n].obj.uid /\ pods'[n].obj.name = pods[n].obj.name
             /\ pods'[n].obj.config = pods[n].obj.config
          \/ /\ n \notin DOMAIN pods
             /\ pods'[n].obj.uid \in usedUIDs' \ usedUIDs /\ pods'[n].obj.name = n

FinalizersStay == \A n \in DOMAIN pods \cap DOMAIN pods' :
    /\ pods'[n].obj.finalizer = pods[n].obj.finalizer
    /\ pods[n].deleting => pods'[n].deleting

LEMMA WrittenPod ==
    ASSUME ClusterInv, NEW n \in DOMAIN pods, NEW obj \in Pods, NEW deleting \in BOOLEAN,
           pods' = Updated(n, obj, deleting), usedUIDs' = usedUIDs,
           obj.uid = pods[n].obj.uid, obj.name = pods[n].obj.name, obj.config = pods[n].obj.config
    PROVE  /\ PodsEdited /\ DOMAIN pods' = DOMAIN pods
           /\ \A m \in DOMAIN pods : m # n => pods'[m] = pods[m]
           /\ pods'[n].obj = obj /\ pods'[n].deleting = deleting
<1>1. /\ DOMAIN pods' = DOMAIN pods
      /\ \A m \in DOMAIN pods : m # n => pods'[m] = pods[m]
      /\ pods'[n].obj = obj /\ pods'[n].deleting = deleting
      /\ pods'[n].version = pods[n].version + 1
  BY DEF Updated
<1>2. pods[n].version \in Nat
  BY CopyIsPod DEF PodInCluster
<1>3. pods'[n].version \in Nat /\ pods[n].version < pods'[n].version
  BY <1>1, <1>2
<1> QED
  BY <1>1, <1>3 DEF PodsEdited

LEMMA UsersEdit ==
    ASSUME ClusterInv
    PROVE  /\ Users => PodsEdited /\ FinalizersStay /\ Elsewhere
           /\ \A k \in Key : MVGone(k) => PodsEdited /\ FinalizersStay /\ Elsewhere
           /\ \A n \in PodName : PodGone(n) => PodsEdited /\ FinalizersStay /\ Elsewhere
<1> USE DEF OperatorUnchanged, cacheVars, Elsewhere
<1>1. ASSUME UNCHANGED <<pods, usedUIDs>> PROVE PodsEdited /\ FinalizersStay
  BY <1>1 DEF PodsEdited, FinalizersStay
<1>2. ASSUME NEW u \in UID, NEW k \in Key, NEW i \in Bypass, CreatePod(u, k, i)
      PROVE  PodsEdited /\ FinalizersStay /\ Elsewhere
  <2> DEFINE pod == Webhook!Handle(NewPod(u, k), mvCache, i).pod
  <2>1. pod.uid = u /\ pod.name = NameOf[u]
    BY <1>2, AdmittedPod DEF CreatePod
  <2>2. /\ pods' = Put(pods, NameOf[u], Created(pod))
        /\ u \notin usedUIDs /\ usedUIDs' = usedUIDs \cup {u}
        /\ NameOf[u] \notin DOMAIN pods
    BY <1>2 DEF CreatePod
  <2> HIDE DEF pod
  <2>3. PodsEdited /\ FinalizersStay
    BY <2>1, <2>2 DEF PodsEdited, FinalizersStay, Put, Created
  <2> QED
    BY <1>2, <2>3 DEF CreatePod
<1>3. ASSUME NEW n \in PodName, DeletePod(n) PROVE PodsEdited /\ FinalizersStay /\ Elsewhere
  <2>1. /\ n \in DOMAIN pods /\ ~pods[n].deleting
        /\ pods' = Updated(n, pods[n].obj, TRUE) /\ usedUIDs' = usedUIDs
        /\ pods[n].obj \in Pods
    BY <1>3, CopyIsPod DEF DeletePod, PodInCluster
  <2>2. PodsEdited /\ FinalizersStay
    BY <2>1, WrittenPod DEF FinalizersStay
  <2> QED
    BY <1>3, <2>2 DEF DeletePod
<1>4. ASSUME NEW n \in PodName, NEW k \in Key \cup {NoKey}, NEW i \in Bypass, Relabel(n, k, i)
      PROVE  PodsEdited /\ FinalizersStay /\ Elsewhere
  <2>1. /\ n \in DOMAIN pods /\ ~pods[n].deleting /\ pods[n].obj \in Pods
        /\ pods' = Updated(n, [pods[n].obj EXCEPT !.label = k], FALSE) /\ usedUIDs' = usedUIDs
    BY <1>4, CopyIsPod DEF Relabel, PodInCluster
  <2> DEFINE obj == [pods[n].obj EXCEPT !.label = k]
  <2>2. /\ obj \in Pods /\ obj.uid = pods[n].obj.uid /\ obj.name = pods[n].obj.name
        /\ obj.config = pods[n].obj.config /\ obj.finalizer = pods[n].obj.finalizer
    BY <2>1, ObjectTypes, OperatorAssumption DEF PodObject
  <2>3. pods' = Updated(n, obj, FALSE)
    BY <2>1
  <2> HIDE DEF obj
  <2>4. /\ PodsEdited /\ DOMAIN pods' = DOMAIN pods
        /\ \A m \in DOMAIN pods : m # n => pods'[m] = pods[m]
        /\ pods'[n].obj = obj
    BY <2>1, <2>2, <2>3, WrittenPod
  <2>5. FinalizersStay
    BY <2>1, <2>2, <2>4 DEF FinalizersStay
  <2> QED
    BY <1>4, <2>4, <2>5 DEF Relabel
<1>5. ASSUME NEW n \in PodName, PodGone(n) PROVE PodsEdited /\ FinalizersStay /\ Elsewhere
  BY <1>5 DEF PodGone, PodsEdited, FinalizersStay, Drop
<1> QED
  BY <1>1, <1>2, <1>3, <1>4, <1>5 DEF Users, CreateMV, EditMV, DeleteMV, MVGone

(* What is known of pods stays true, and a change is an event to come.      *)
LEMMA EditedPods ==
    ASSUME ClusterInv, CategoryInv, PodsEdited, podCache' = podCache
    PROVE  /\ \A n \in DOMAIN pods' : pods'[n].obj.name = n /\ pods'[n].obj.uid \in usedUIDs'
           /\ \A p : Faithful(p) => Faithful(p)'
           /\ \A c \in PodInCluster : c.obj.uid \in usedUIDs =>
                 \A n \in DOMAIN pods' :
                     (n \in DOMAIN pods => EarlierOrSame(c, pods[n])) => EarlierOrSame(c, pods'[n])
           /\ \A n \in DOMAIN pods' :
                 \/ n \in DOMAIN pods /\ pods'[n] = pods[n]
                 \/ ~Same(pods', podCache, n)
<1>1. \A n \in DOMAIN pods' : pods'[n].obj.name = n /\ pods'[n].obj.uid \in usedUIDs'
  BY DEF CategoryInv, PodsNamed, PodsEdited
<1>2. \A p : Faithful(p) => Faithful(p)'
  BY DEF PodsEdited, Faithful
<1>3. ASSUME NEW c \in PodInCluster, c.obj.uid \in usedUIDs, NEW n \in DOMAIN pods',
             n \in DOMAIN pods => EarlierOrSame(c, pods[n])
      PROVE  EarlierOrSame(c, pods'[n])
  <2>1. CASE n \in DOMAIN pods /\ pods'[n] = pods[n]
    BY <1>3, <2>1
  <2>2. CASE /\ n \in DOMAIN pods /\ pods[n].version < pods'[n].version
             /\ pods'[n].version \in Nat
             /\ pods'[n].obj.uid = pods[n].obj.uid
    <3>1. c.version \in Nat /\ pods[n].version \in Nat
      BY <2>2, CopyIsPod DEF PodInCluster
    <3> QED
      BY <1>3, <2>2, <3>1 DEF EarlierOrSame
  <2>3. CASE pods'[n].obj.uid \in usedUIDs' \ usedUIDs
    BY <1>3, <2>3 DEF EarlierOrSame
  <2> QED
    BY <2>1, <2>2, <2>3 DEF PodsEdited
<1>4. ASSUME NEW n \in DOMAIN pods', n \in DOMAIN pods => pods'[n] # pods[n]
      PROVE  ~Same(pods', podCache, n)
  <2> SUFFICES ASSUME n \in DOMAIN podCache, podCache[n] = pods'[n] PROVE FALSE
    BY DEF Same
  <2>1. podCache[n].obj.uid \in usedUIDs /\ podCache[n].version \in Nat
    BY CopyIsPod DEF CategoryInv, AllFaithful, Faithful, Copies, PodInCluster
  <2>2. /\ n \in DOMAIN pods /\ pods[n].version < podCache[n].version
        /\ podCache[n].obj.uid = pods[n].obj.uid
    BY <1>4, <2>1 DEF PodsEdited
  <2>3. EarlierOrSame(podCache[n], pods[n]) /\ pods[n].version \in Nat
    BY <2>2, CopyIsPod DEF CategoryInv, VersionsAscend, PodInCluster
  <2> QED
    BY <2>1, <2>2, <2>3 DEF EarlierOrSame
<1> QED
  BY <1>1, <1>2, <1>3, <1>4

LEMMA EditsKeepCategories ==
    ASSUME ClusterInv, CategoryInv, PodsEdited, FinalizersStay, Elsewhere
    PROVE  CategoryInv'
<1>1. UNCHANGED <<modelValidations, podMapping, seeds, podCache, podQueue, podWorker, raced>>
  BY DEF Elsewhere, trackerVars, tables
<1>2. PodsNamed'
  BY <1>1, EditedPods DEF CategoryInv, PodsNamed, HasPod
<1>3. \A p : Faithful(p) => Faithful(p)'
  BY <1>1, EditedPods
<1>4. AllFaithful'
  BY <1>1, <1>3 DEF CategoryInv, AllFaithful, HasPod, Tracked
<1>5. VersionsAscend'
  <2>1. /\ \A n \in DOMAIN podCache : podCache[n] \in PodInCluster /\ podCache[n].obj.uid \in usedUIDs
        /\ HasPod => podWorker.pod \in PodInCluster /\ podWorker.pod.obj.uid \in usedUIDs
    BY CopyIsPod DEF Copies, CategoryInv, AllFaithful, Faithful
  <2>2. \A n \in DOMAIN podCache \cap DOMAIN pods' : EarlierOrSame(podCache[n], pods'[n])
    BY <1>1, <2>1, EditedPods DEF CategoryInv, VersionsAscend
  <2>3. HasPod /\ podWorker.name \in DOMAIN pods' => EarlierOrSame(podWorker.pod, pods'[podWorker.name])
    BY <1>1, <2>1, EditedPods DEF CategoryInv, VersionsAscend
  <2> QED
    BY <1>1, <2>2, <2>3 DEF CategoryInv, VersionsAscend, HasPod
<1>6. \A p : p.uid \in usedUIDs /\ FinalizerAsIn(p) => FinalizerAsIn(p)'
  BY DEF FinalizerAsIn, PodsEdited, FinalizersStay
<1>7. FinalizersSeen'
  BY <1>1, <1>6 DEF CategoryInv, AllFaithful, Faithful, FinalizersSeen, Untracking
<1>8. ASSUME NEW n \in DOMAIN pods', ~EventDue(n)'
      PROVE  n \in DOMAIN pods /\ pods'[n] = pods[n] /\ ~EventDue(n)
  <2>1. n \in DOMAIN pods /\ pods'[n] = pods[n]
    BY <1>1, <1>8, EditedPods DEF EventDue
  <2> QED
    BY <1>1, <1>8, <2>1 DEF EventDue, Same
<1>9. UntrackDue'
  BY <1>1, <1>8 DEF CategoryInv, UntrackDue, Untracking
<1>10. AllCovered'
  <2> SUFFICES ASSUME NEW n \in DOMAIN pods', ~EventDue(n)' PROVE Covered(n)'
    BY DEF AllCovered, Covered
  <2>1. n \in DOMAIN pods /\ pods'[n] = pods[n] /\ ~EventDue(n) /\ Covered(n)
    BY <1>8 DEF CategoryInv, AllCovered
  <2> QED
    BY <1>1, <2>1 DEF Covered, Turned, WillBeSeeded, Tracked
<1>11. NamesMapped' /\ ReadCurrent' /\ UpdatesLeaving'
  BY <1>1 DEF CategoryInv, NamesMapped, ReadCurrent, UpdatesLeaving
<1> QED
  BY <1>2, <1>4, <1>5, <1>7, <1>9, <1>10, <1>11 DEF CategoryInv

LEMMA SyncKeepsCategories ==
    ASSUME ClusterInv, CategoryInv, NEW n \in PodName, SyncPod(n)
    PROVE  CategoryInv'
<1>1. /\ UNCHANGED <<pods, usedUIDs, podWorker, raced, seeds, modelValidations, podMapping>>
      /\ podCache' = Copied(pods, podCache, n) /\ podQueue' = podQueue \cup {n}
  BY DEF SyncPod, apiVars, trackerVars, tables
<1>2. /\ DOMAIN podCache' \ {n} = DOMAIN podCache \ {n}
      /\ n \in DOMAIN podCache' <=> n \in DOMAIN pods
      /\ \A m \in DOMAIN podCache' : \/ m # n /\ m \in DOMAIN podCache /\ podCache'[m] = podCache[m]
                                     \/ m = n /\ n \in DOMAIN pods /\ podCache'[m] = pods[n]
  BY <1>1, CopiedAt
<1>3. PodsNamed'
  BY <1>1, <1>2 DEF CategoryInv, PodsNamed, HasPod
<1>4. \A p : Faithful(p)' <=> Faithful(p)
  BY <1>1 DEF Faithful
<1>5. \A m \in DOMAIN pods : \A j \in DOMAIN pods : pods[m].obj.uid = pods[j].obj.uid => m = j
  BY CopyIsPod, NameOfPod DEF CategoryInv, PodsNamed
<1>6. \A m \in DOMAIN pods : Faithful(pods[m].obj)
  BY <1>5 DEF CategoryInv, PodsNamed, Faithful
<1>7. AllFaithful'
  <2>1. \A m \in DOMAIN podCache' : Faithful(podCache'[m].obj)
    BY <1>2, <1>6 DEF CategoryInv, AllFaithful
  <2> QED
    BY <1>1, <1>4, <2>1 DEF CategoryInv, AllFaithful, HasPod, Tracked
<1>8. VersionsAscend'
  <2>1. \A m \in DOMAIN podCache' \cap DOMAIN pods : EarlierOrSame(podCache'[m], pods[m])
    BY <1>2 DEF CategoryInv, VersionsAscend, EarlierOrSame
  <2>2. HasPod => LET m == podWorker.name IN
           m \in DOMAIN podCache' => EarlierOrSame(podWorker.pod, podCache'[m])
    BY <1>2 DEF CategoryInv, VersionsAscend
  <2> QED
    BY <1>1, <2>1, <2>2 DEF CategoryInv, VersionsAscend, HasPod
<1>9. FinalizersSeen'
  <2>1. \A m \in DOMAIN pods : FinalizerAsIn(pods[m].obj)
    BY <1>5 DEF FinalizerAsIn
  <2>2. \A m \in DOMAIN podCache' : podCache'[m].obj.label # NoKey => FinalizerAsIn(podCache'[m].obj)
    BY <1>2, <2>1 DEF CategoryInv, FinalizersSeen
  <2>3. \A p : FinalizerAsIn(p)' <=> FinalizerAsIn(p)
    BY <1>1 DEF FinalizerAsIn
  <2> QED
    BY <1>1, <2>2, <2>3 DEF CategoryInv, FinalizersSeen, Untracking
<1>10. \A m : EventDue(m) => EventDue(m)'
  <2>1. EventDue(n)'
    BY <1>1 DEF EventDue
  <2>2. \A m : m # n => (Same(pods, podCache, m)' <=> Same(pods, podCache, m))
    BY <1>1, <1>2 DEF Same
  <2> QED
    BY <1>1, <2>1, <2>2 DEF EventDue
<1>11. UntrackDue'
  BY <1>1, <1>10 DEF CategoryInv, UntrackDue, Untracking
<1>12. AllCovered'
  BY <1>1, <1>10 DEF CategoryInv, AllCovered, Covered, Turned, WillBeSeeded, Tracked
<1>13. NamesMapped' /\ UpdatesLeaving'
  BY <1>1 DEF CategoryInv, NamesMapped, UpdatesLeaving
<1>14. ReadCurrent'
  BY <1>1, <1>2 DEF CategoryInv, ReadCurrent
<1> QED
  BY <1>3, <1>7, <1>8, <1>9, <1>11, <1>12, <1>13, <1>14 DEF CategoryInv

LEMMA ReadKeepsCategories ==
    ASSUME ClusterInv, CategoryInv, NEW n \in PodName, PodRead(n)
    PROVE  CategoryInv'
<1>1. /\ UNCHANGED <<pods, usedUIDs, podCache, raced, seeds, modelValidations, podMapping>>
      /\ podWorker = Idle /\ podQueue' = podQueue \ {n}
      /\ podWorker' = IF n \in DOMAIN podCache
                      THEN [pc |-> "found", name |-> n, pod |-> podCache[n]]
                      ELSE [pc |-> "untrack", name |-> n]
  BY DEF PodRead, apiVars, trackerVars, tables
<1>2. /\ podWorker'.name = n /\ podWorker' # Idle /\ ~HasPod
      /\ HasPod' <=> n \in DOMAIN podCache
      /\ HasPod' => podWorker'.pod = podCache[n] /\ podWorker'.pc = "found"
      /\ ~HasPod' => podWorker'.pc = "untrack"
  BY <1>1 DEF Idle, HasPod
<1>3. PodsNamed'
  BY <1>1, <1>2 DEF CategoryInv, PodsNamed
<1>4. \A p : Faithful(p)' <=> Faithful(p)
  BY <1>1 DEF Faithful
<1>5. AllFaithful'
  BY <1>1, <1>2, <1>4 DEF CategoryInv, AllFaithful, Tracked
<1>6. VersionsAscend'
  BY <1>1, <1>2 DEF CategoryInv, VersionsAscend, EarlierOrSame
<1>7. \A p : FinalizerAsIn(p)' <=> FinalizerAsIn(p)
  BY <1>1 DEF FinalizerAsIn
<1>8. \A m : ~Untracking(m)
  BY <1>1 DEF Untracking, Idle
<1>9. FinalizersSeen'
  BY <1>1, <1>7, <1>8 DEF CategoryInv, FinalizersSeen
<1>10. \A m : m # n /\ EventDue(m) => EventDue(m)'
  BY <1>1 DEF EventDue
<1>11. UntrackDue'
  BY <1>1, <1>2 DEF UntrackDue, Untracking, EventDue, Same, HasPod
<1>12. AllCovered'
  <2> SUFFICES ASSUME NEW m \in DOMAIN pods, m # n PROVE Covered(m)'
    BY <1>1, <1>2 DEF AllCovered, Covered, Turned
  <2>1. Covered(m) /\ ~Turned(m)
    BY <1>1 DEF CategoryInv, AllCovered, Turned
  <2> QED
    BY <1>1, <1>10, <2>1 DEF Covered, WillBeSeeded, Tracked
<1>13. NamesMapped'
  BY <1>1 DEF CategoryInv, NamesMapped
<1>14. ReadCurrent' /\ UpdatesLeaving'
  BY <1>1, <1>2 DEF ReadCurrent, UpdatesLeaving, HasPod
<1> QED
  BY <1>3, <1>5, <1>6, <1>9, <1>11, <1>12, <1>13, <1>14 DEF CategoryInv

-----------------------------------------------------------------------------
(* PodReconciler *)

SameView == UNCHANGED <<pods, usedUIDs, podCache, podQueue>>

(* The copy PodReconciler holds is the one it held, if it still holds one.  *)
SameCopy == HasPod' => /\ HasPod /\ podWorker'.pod = podWorker.pod
                       /\ podWorker'.name = podWorker.name

LEMMA ViewKept ==
    ASSUME CategoryInv, SameView, SameCopy
    PROVE  /\ PodsNamed' /\ VersionsAscend'
           /\ \A p : Faithful(p)' <=> Faithful(p)
           /\ \A p : FinalizerAsIn(p)' <=> FinalizerAsIn(p)
           /\ \A n : EventDue(n)' <=> EventDue(n)
<1> USE DEF SameView
<1>1. \A n : EventDue(n)' <=> EventDue(n)
  BY DEF EventDue, Same
<1>2. PodsNamed' /\ VersionsAscend'
  BY DEF CategoryInv, PodsNamed, VersionsAscend, EarlierOrSame, SameCopy
<1>3. \A p : (Faithful(p)' <=> Faithful(p)) /\ (FinalizerAsIn(p)' <=> FinalizerAsIn(p))
  BY DEF Faithful, FinalizerAsIn
<1> QED
  BY <1>1, <1>2, <1>3

LEMMA StaysFaithful ==
    ASSUME CategoryInv, SameView, SameCopy, SeedsShrink,
           \A k \in Tracked' : \A p \in GetAllPods(modelValidations'[k]) : Faithful(p)
    PROVE  AllFaithful'
<1>1. \A p : Faithful(p)' <=> Faithful(p)
  BY ViewKept
<1> QED
  BY <1>1 DEF CategoryInv, AllFaithful, SameView, SameCopy, SeedsShrink

LEMMA TrackPodMapped ==
    ASSUME ClusterInv, NamesMapped, NEW pod \in Pods, NEW k0, TrackPod(pod, k0)
    PROVE  NamesMapped'
<1>1. NameOf[pod.uid] = pod.name
  BY OperatorAssumption
<1>2. CASE podMapping' = podMapping
  BY <1>2 DEF NamesMapped
<1>3. CASE podMapping' = AddPod(podMapping, pod.name, pod.uid)
  <2>1. podMapping'.uidOf = Put(Drop(podMapping.uidOf, {pod.name}), pod.name, pod.uid)
    BY <1>3 DEF AddPod, removePod
  <2>2. \A n \in DOMAIN podMapping'.uidOf :
           \/ n = pod.name /\ podMapping'.uidOf[n] = pod.uid
           \/ n \in DOMAIN podMapping.uidOf /\ podMapping'.uidOf[n] = podMapping.uidOf[n]
    BY <2>1 DEF Put, Drop
  <2> QED
    BY <1>1, <2>2 DEF NamesMapped
<1> QED
  BY <1>2, <1>3 DEF TrackPod, tables

LEMMA NamesDropped ==
    ASSUME NamesMapped, NEW names, podMapping' = RemovePodsByName(podMapping, names)
    PROVE  NamesMapped'
<1>1. podMapping'.uidOf = Drop(podMapping.uidOf, names)
  BY DEF RemovePodsByName
<1> QED
  BY <1>1 DEF NamesMapped, Drop

LEMMA PodUIDs ==
    ASSUME ClusterInv, CategoryInv, NEW n \in DOMAIN pods
    PROVE  /\ NameOf[pods[n].obj.uid] = n /\ pods[n].obj \in PodObject
           /\ pods[n].obj.uid \in UID /\ pods[n].deleting \in BOOLEAN
BY CopyIsPod, NameOfPod, TrackerAssumption DEF CategoryInv, PodsNamed, PodInCluster

LEMMA ReadPod ==
    ASSUME ClusterInv, CategoryInv, HasPod
    PROVE  /\ podWorker.pod \in PodInCluster /\ podWorker.pod.obj \in Pods
           /\ NameOf[podWorker.pod.obj.uid] = podWorker.name
           /\ podWorker.pod.obj.uid \in UID
           /\ podWorker # Idle
BY CopyIsPod, NameOfPod DEF CategoryInv, PodsNamed, HasPod, Idle

(* What PodReconciler has found is current, unless there is a newer event.  *)
LEMMA FoundIsCurrent ==
    ASSUME CategoryInv, podWorker.pc = "found", ~EventDue(podWorker.name),
           podWorker.name \in DOMAIN pods
    PROVE  pods[podWorker.name] = podWorker.pod
BY DEF CategoryInv, ReadCurrent, EventDue, Same

LEMMA DeletedKeepsCategories ==
    ASSUME ClusterInv, OneCategory, CategoryInv, PodDeleted, UNCHANGED <<apiVars, cacheVars>>
    PROVE  CategoryInv'
<1> DEFINE u == podWorker.pod.obj.uid
           n0 == podWorker.name
<1>1. /\ SameView /\ UNCHANGED <<podMapping, seeds>> /\ Untrack(u)
      /\ raced' = raced \cup ({u} \cap SeedUIDs)
      /\ podWorker.pc = "found" /\ podWorker.pod.deleting
  BY DEF PodDeleted, RemovePodEvent, apiVars, cacheVars, SameView
<1>2. podWorker' = Idle \/ podWorker' = [podWorker EXCEPT !.pc = "update"]
  BY DEF PodDeleted
<1>3. HasPod /\ podWorker \in [pc : {"found", "update"}, name : PodName, pod : PodInCluster]
  BY <1>1 DEF HasPod, ClusterInv, WorkerTypes, Idle
<1>4. /\ podWorker'.pc \in {"idle", "update"}
      /\ podWorker'.pc = "update" => podWorker'.pod = podWorker.pod /\ podWorker'.name = n0
  BY <1>2, <1>3 DEF Idle
<1>5. SameCopy
  BY <1>3, <1>4 DEF SameCopy, HasPod
<1>6. PodsNamed' /\ VersionsAscend'
  BY <1>1, <1>5, ViewKept
<1>7. AllFaithful'
  <2>1. \A k \in Tracked' : \A p \in GetAllPods(modelValidations'[k]) : Faithful(p)
    BY <1>1, UntrackCategories DEF CategoryInv, AllFaithful
  <2> QED
    BY <1>1, <1>5, <2>1, SameSeeds, StaysFaithful
<1>8. FinalizersSeen'
  <2>1. \A p : FinalizerAsIn(p)' <=> FinalizerAsIn(p)
    BY <1>1, <1>5, ViewKept
  <2>2. \A n : ~Untracking(n)
    BY <1>1 DEF Untracking
  <2> QED
    BY <1>1, <2>1, <2>2 DEF CategoryInv, FinalizersSeen, SameView
<1>9. UntrackDue' /\ ReadCurrent' /\ UpdatesLeaving' /\ NamesMapped'
  BY <1>1, <1>4 DEF UntrackDue, Untracking, ReadCurrent, UpdatesLeaving, CategoryInv, NamesMapped
<1>10. ASSUME NEW n \in DOMAIN pods PROVE Covered(n)'
  <2>1. EventDue(n)' <=> EventDue(n)
    BY <1>1, <1>5, ViewKept
  <2>2. CASE n = n0
    <3>1. EventDue(n) \/ pods[n].deleting
      BY <1>1, <2>2, FoundIsCurrent
    <3> QED
      BY <1>1, <2>1, <3>1 DEF Covered, SameView
  <2>3. CASE n # n0
    <3>1. Covered(n) /\ ~Turned(n) /\ pods[n].obj.uid # u /\ pods[n].obj \in PodObject
      BY <1>3, <2>3, PodUIDs, ReadPod DEF CategoryInv, AllCovered, Turned
    <3>2. /\ Tracked' = Tracked
          /\ \A k \in Tracked : Categorised(pods[n].obj, modelValidations[k])
                                  => Categorised(pods[n].obj, modelValidations'[k])
      BY <1>1, <3>1, UntrackCategories
    <3>3. WillBeSeeded(pods[n].obj) => WillBeSeeded(pods[n].obj)'
      BY <1>1 DEF WillBeSeeded, SameView
    <3> QED
      BY <1>1, <2>1, <3>1, <3>2, <3>3 DEF Covered, SameView
  <2> QED
    BY <2>2, <2>3
<1>11. AllCovered'
  BY <1>1, <1>10 DEF AllCovered, SameView
<1> QED
  BY <1>6, <1>7, <1>8, <1>9, <1>11 DEF CategoryInv

LEMMA UnlabelledKeepsCategories ==
    ASSUME ClusterInv, CategoryInv, PodUnlabelled, UNCHANGED <<apiVars, cacheVars>>
    PROVE  CategoryInv'
<1> DEFINE n0 == podWorker.name
<1>1. /\ SameView /\ UNCHANGED <<podMapping, seeds, modelValidations, raced>>
      /\ podWorker.pc = "found" /\ podWorker.pod.obj.label = NoKey
  BY DEF PodUnlabelled, apiVars, cacheVars, SameView, trackerVars, tables
<1>2. podWorker' = [podWorker EXCEPT !.pc = "update"] \/ podWorker' = [pc |-> "untrack", name |-> n0]
  BY DEF PodUnlabelled
<1>3. HasPod /\ podWorker \in [pc : {"found", "update"}, name : PodName, pod : PodInCluster]
  BY <1>1 DEF HasPod, ClusterInv, WorkerTypes, Idle
<1>4. /\ podWorker'.pc \in {"untrack", "update"} /\ podWorker'.name = n0 /\ podWorker' # Idle
      /\ podWorker'.pc = "update" => podWorker'.pod = podWorker.pod
  BY <1>2, <1>3 DEF Idle
<1>5. SameCopy
  BY <1>3, <1>4 DEF SameCopy, HasPod
<1>6. /\ PodsNamed' /\ VersionsAscend'
      /\ \A p : FinalizerAsIn(p)' <=> FinalizerAsIn(p)
      /\ \A n : EventDue(n)' <=> EventDue(n)
  BY <1>1, <1>5, ViewKept
<1>7. AllFaithful'
  <2>1. \A k \in Tracked' : \A p \in GetAllPods(modelValidations'[k]) : Faithful(p)
    BY <1>1 DEF CategoryInv, AllFaithful, Tracked
  <2> QED
    BY <1>1, <1>5, <2>1, SameSeeds, StaysFaithful
<1>8. FinalizersSeen'
  <2>1. \A n : ~Untracking(n)
    BY <1>1 DEF Untracking
  <2> QED
    BY <1>1, <1>6, <2>1 DEF CategoryInv, FinalizersSeen, SameView
<1>9. UntrackDue'
  <2>1. EventDue(n0) \/ n0 \notin DOMAIN pods \/ pods[n0].obj.label = NoKey
    BY <1>1, FoundIsCurrent
  <2> QED
    BY <1>1, <1>4, <1>6, <2>1 DEF UntrackDue, Untracking, SameView
<1>10. ReadCurrent' /\ UpdatesLeaving' /\ NamesMapped'
  BY <1>1, <1>4 DEF ReadCurrent, UpdatesLeaving, CategoryInv, NamesMapped
<1>11. AllCovered'
  <2>1. \A n : Turned(n) => Turned(n)'
    BY <1>4 DEF Turned
  <2> QED
    BY <1>1, <1>6, <2>1 DEF CategoryInv, AllCovered, Covered, WillBeSeeded, SameView, Tracked
<1> QED
  BY <1>6, <1>7, <1>8, <1>9, <1>10, <1>11 DEF CategoryInv

LEMMA LabelledKeepsCategories ==
    ASSUME ClusterInv, OneCategory, CategoryInv, PodLabelled, UNCHANGED <<apiVars, cacheVars>>
    PROVE  CategoryInv'
<1> DEFINE n0 == podWorker.name
           pod == podWorker.pod.obj
<1>1. /\ SameView /\ UNCHANGED <<seeds, raced>> /\ podWorker' = Idle
      /\ podWorker.pc = "found" /\ TrackPod(pod, pod.label)
  BY DEF PodLabelled, ProcessPodEvent, apiVars, cacheVars, SameView
<1>2. HasPod /\ pod \in Pods /\ NameOf[pod.uid] = n0 /\ Faithful(pod) /\ pod \in PodObject
  BY <1>1, ReadPod, TrackerAssumption DEF HasPod, CategoryInv, AllFaithful
<1>3. SameCopy
  BY <1>1 DEF SameCopy, HasPod, Idle
<1>4. /\ PodsNamed' /\ VersionsAscend'
      /\ \A p : FinalizerAsIn(p)' <=> FinalizerAsIn(p)
      /\ \A n : EventDue(n)' <=> EventDue(n)
  BY <1>1, <1>3, ViewKept
<1>5. AllFaithful'
  <2>1. Faithful([name |-> pod.name, uid |-> pod.uid, config |-> pod.config])
    BY <1>2 DEF Faithful
  <2>2. \A k \in Tracked' : \A p \in GetAllPods(modelValidations'[k]) : Faithful(p)
    BY <1>1, <1>2, <2>1, TrackPodCategories DEF CategoryInv, AllFaithful
  <2> QED
    BY <1>1, <1>3, <2>2, SameSeeds, StaysFaithful
<1>6. FinalizersSeen'
  <2>1. \A n : ~Untracking(n)
    BY <1>1 DEF Untracking
  <2> QED
    BY <1>1, <1>4, <2>1 DEF CategoryInv, FinalizersSeen, SameView
<1>7. NamesMapped'
  BY <1>1, <1>2, TrackPodMapped DEF CategoryInv
<1>8. UntrackDue' /\ ReadCurrent' /\ UpdatesLeaving'
  BY <1>1 DEF UntrackDue, Untracking, ReadCurrent, UpdatesLeaving, Idle
<1>9. ASSUME NEW n \in DOMAIN pods PROVE Covered(n)'
  <2>1. CASE n = n0
    <3>1. EventDue(n) \/ pods[n].obj = pod
      BY <1>1, <2>1, FoundIsCurrent
    <3>2. Tracked' = Tracked /\ (pod.label \in Tracked
                                    => Categorised(pod, modelValidations'[pod.label]))
      BY <1>1, <1>2, TrackPodCategories
    <3> QED
      BY <1>1, <1>4, <3>1, <3>2 DEF Covered, SameView
  <2>2. CASE n # n0
    <3>1. Covered(n) /\ ~Turned(n) /\ pods[n].obj.uid # pod.uid /\ pods[n].obj \in PodObject
      BY <1>2, <2>2, PodUIDs DEF CategoryInv, AllCovered, Turned
    <3>2. /\ Tracked' = Tracked
          /\ \A k \in Tracked : Categorised(pods[n].obj, modelValidations[k])
                                  => Categorised(pods[n].obj, modelValidations'[k])
      BY <1>1, <1>2, <3>1, TrackPodCategories
    <3>3. WillBeSeeded(pods[n].obj) => WillBeSeeded(pods[n].obj)'
      BY <1>1 DEF WillBeSeeded, SameView
    <3> QED
      BY <1>1, <1>4, <3>1, <3>2, <3>3 DEF Covered, SameView
  <2> QED
    BY <2>1, <2>2
<1>10. AllCovered'
  BY <1>1, <1>9 DEF AllCovered, SameView
<1> QED
  BY <1>4, <1>5, <1>6, <1>7, <1>8, <1>10 DEF CategoryInv

LEMMA UntrackKeepsCategories ==
    ASSUME ClusterInv, OneCategory, CategoryInv, PodUntrack, UNCHANGED <<apiVars, cacheVars>>
    PROVE  CategoryInv'
<1> DEFINE n0 == podWorker.name
<1>1. /\ SameView /\ UNCHANGED seeds /\ podWorker' = Idle /\ Untracking(n0)
      /\ raced' = raced \cup {u \in SeedUIDs : NameOf[u] = n0}
      /\ RemovePodByName(n0)
  BY DEF PodUntrack, RemovePodByName, apiVars, cacheVars, SameView, Untracking
<1>2. SameCopy
  BY <1>1 DEF SameCopy, HasPod, Idle
<1>3. /\ PodsNamed' /\ VersionsAscend'
      /\ \A p : FinalizerAsIn(p)' <=> FinalizerAsIn(p)
      /\ \A n : EventDue(n)' <=> EventDue(n)
  BY <1>1, <1>2, ViewKept
<1>4. /\ Tracked' = Tracked
      /\ \A k \in Tracked :
            /\ GetAllPods(modelValidations'[k]) \subseteq GetAllPods(modelValidations[k])
            /\ \A q \in PodObject : NameOf[q.uid] # n0 /\ Categorised(q, modelValidations[k])
                                       => Categorised(q, modelValidations'[k])
  <2>1. CASE n0 \in DOMAIN podMapping.uidOf
    <3>1. NameOf[podMapping.uidOf[n0]] = n0 /\ Untrack(podMapping.uidOf[n0])
      BY <1>1, <2>1 DEF RemovePodByName, CategoryInv, NamesMapped
    <3> QED
      BY <3>1, UntrackCategories
  <2>2. CASE n0 \notin DOMAIN podMapping.uidOf
    BY <1>1, <2>2 DEF RemovePodByName, Tracked
  <2> QED
    BY <2>1, <2>2
<1>5. NamesMapped'
  <2>1. podMapping' = RemovePodsByName(podMapping, {n0}) \/ podMapping' = podMapping
    BY <1>1 DEF RemovePodByName
  <2>2. CASE podMapping' = RemovePodsByName(podMapping, {n0})
    BY <2>2, NamesDropped DEF CategoryInv
  <2>3. CASE podMapping' = podMapping
    BY <2>3 DEF CategoryInv, NamesMapped
  <2> QED
    BY <2>1, <2>2, <2>3
<1>6. AllFaithful'
  <2>1. \A k \in Tracked' : \A p \in GetAllPods(modelValidations'[k]) : Faithful(p)
    BY <1>4 DEF CategoryInv, AllFaithful
  <2> QED
    BY <1>1, <1>2, <2>1, SameSeeds, StaysFaithful
<1>7. FinalizersSeen'
  <2>1. ASSUME NEW s \in Seeder, seeds[s].pc = "process", NEW p \in seeds[s].pods,
               p.uid \notin raced'
        PROVE  FinalizerAsIn(p)
    <3>1. p.name = NameOf[p.uid]
      BY <2>1, OperatorAssumption DEF ClusterInv, TypeInv, TypeOK, SeederState, IdleSeeder
    <3>2. p.uid \in SeedUIDs
      BY <2>1, SeedsOfUID
    <3>3. ~Untracking(p.name)
      BY <1>1, <2>1, <3>1, <3>2 DEF Untracking
    <3> QED
      BY <1>1, <2>1, <3>3 DEF CategoryInv, FinalizersSeen
  <2> QED
    BY <1>1, <1>3, <2>1 DEF CategoryInv, FinalizersSeen, SameView
<1>8. UntrackDue' /\ ReadCurrent' /\ UpdatesLeaving'
  BY <1>1 DEF UntrackDue, Untracking, ReadCurrent, UpdatesLeaving, Idle
<1>9. ASSUME NEW n \in DOMAIN pods PROVE Covered(n)'
  <2>1. CASE n = n0
    <3>1. EventDue(n) \/ pods[n].obj.label = NoKey
      BY <1>1, <2>1 DEF CategoryInv, UntrackDue, ClusterInv, WorkerTypes, Untracking, Idle,
                       APITypes, IsMap
    <3>2. NoKey \notin Tracked
      BY TrackerAssumption DEF ClusterInv, TypeInv, TypeOK, IsTracking, Tracked
    <3> QED
      BY <1>1, <1>3, <1>4, <3>1, <3>2 DEF Covered, SameView
  <2>2. CASE n # n0
    <3>1. Covered(n) /\ ~Turned(n) /\ NameOf[pods[n].obj.uid] # n0 /\ pods[n].obj \in PodObject
      BY <2>2, PodUIDs DEF CategoryInv, AllCovered, Turned
    <3>2. \A k \in Tracked : Categorised(pods[n].obj, modelValidations[k])
                                => Categorised(pods[n].obj, modelValidations'[k])
      BY <1>4, <3>1
    <3>3. WillBeSeeded(pods[n].obj) => WillBeSeeded(pods[n].obj)'
      BY <1>1 DEF WillBeSeeded, SameView
    <3>4. CASE pods[n].obj.uid \in raced
      BY <1>1, <3>4 DEF Covered, SameView
    <3> QED
      BY <1>1, <1>3, <1>4, <3>1, <3>2, <3>3, <3>4 DEF Covered, SameView
  <2> QED
    BY <2>1, <2>2
<1>10. AllCovered'
  BY <1>1, <1>9 DEF AllCovered, SameView
<1> QED
  BY <1>3, <1>5, <1>6, <1>7, <1>8, <1>10 DEF CategoryInv

LEMMA KeptKeepsCategories ==
    ASSUME ClusterInv, CategoryInv, PodUpdate, FinalizerKept(podWorker.name)
    PROVE  CategoryInv'
<1> DEFINE n0 == podWorker.name
<1>1. /\ UNCHANGED <<pods, usedUIDs, podCache, raced, seeds, modelValidations, podMapping>>
      /\ podWorker' = Idle /\ podQueue' = podQueue \cup {n0}
  BY DEF PodUpdate, FinalizerKept, trackerVars, tables
<1>2. HasPod' = FALSE
  BY <1>1 DEF HasPod, Idle
<1>3. PodsNamed' /\ VersionsAscend'
  BY <1>1, <1>2 DEF CategoryInv, PodsNamed, VersionsAscend, EarlierOrSame
<1>4. AllFaithful'
  BY <1>1, <1>2 DEF CategoryInv, AllFaithful, Faithful, Tracked
<1>5. FinalizersSeen'
  <2>1. \A n : ~Untracking(n)
    BY DEF PodUpdate, Untracking
  <2> QED
    BY <1>1, <2>1 DEF CategoryInv, FinalizersSeen, FinalizerAsIn
<1>6. UntrackDue' /\ ReadCurrent' /\ UpdatesLeaving' /\ NamesMapped'
  BY <1>1 DEF UntrackDue, Untracking, ReadCurrent, UpdatesLeaving, Idle, CategoryInv, NamesMapped
<1>7. AllCovered'
  <2>1. \A n : EventDue(n) \/ Turned(n) => EventDue(n)'
    BY <1>1 DEF EventDue, Turned, Same
  <2> QED
    BY <1>1, <2>1 DEF CategoryInv, AllCovered, Covered, WillBeSeeded, Tracked
<1> QED
  BY <1>3, <1>4, <1>5, <1>6, <1>7 DEF CategoryInv

LEMMA RemovedKeepsCategories ==
    ASSUME ClusterInv, CategoryInv, PodUpdate, FinalizerRemoved(podWorker.name)
    PROVE  CategoryInv'
<1> PICK n0 : n0 = podWorker.name
  OBVIOUS
<1> DEFINE c == podWorker.pod
           obj == [pods[n0].obj EXCEPT !.finalizer = FALSE]
<1>1. /\ UNCHANGED <<usedUIDs, podCache, podQueue, raced, seeds, modelValidations, podMapping>>
      /\ n0 \in DOMAIN pods /\ pods[n0] = c
      /\ pods' = Updated(n0, obj, pods[n0].deleting)
      /\ podWorker' = IF c.deleting THEN Idle ELSE [pc |-> "untrack", name |-> n0]
      /\ podWorker.pc = "update"
  BY DEF PodUpdate, FinalizerRemoved, trackerVars, tables
<1>2. HasPod /\ (c.deleting \/ c.obj.label = NoKey)
  BY <1>1 DEF CategoryInv, UpdatesLeaving, HasPod
<1>3. /\ obj \in Pods /\ obj.uid = pods[n0].obj.uid /\ obj.name = pods[n0].obj.name
      /\ obj.config = pods[n0].obj.config /\ obj.label = pods[n0].obj.label
      /\ pods[n0].deleting \in BOOLEAN /\ pods[n0].version \in Nat
  BY <1>1, CopyIsPod, ObjectTypes, OperatorAssumption DEF PodInCluster, PodObject
<1> HIDE DEF obj
<1>4. /\ PodsEdited /\ DOMAIN pods' = DOMAIN pods
      /\ \A m \in DOMAIN pods : m # n0 => pods'[m] = pods[m]
      /\ pods'[n0].obj = obj /\ pods'[n0].deleting = pods[n0].deleting
  BY <1>1, <1>3, WrittenPod
<1>5. HasPod' = FALSE /\ \A n : Untracking(n)' <=> n = n0 /\ ~c.deleting
  BY <1>1 DEF HasPod, Idle, Untracking
<1>6. PodsNamed'
  BY <1>1, <1>5, <1>4, EditedPods DEF CategoryInv, PodsNamed
<1>7. AllFaithful'
  <2>1. \A p : Faithful(p) => Faithful(p)'
    BY <1>1, <1>4, EditedPods
  <2> QED
    BY <1>1, <1>5, <2>1 DEF CategoryInv, AllFaithful, Tracked
<1>8. VersionsAscend'
  <2>1. \A n \in DOMAIN podCache : podCache[n] \in PodInCluster /\ podCache[n].obj.uid \in usedUIDs
    BY CopyIsPod DEF Copies, CategoryInv, AllFaithful, Faithful
  <2>2. \A n \in DOMAIN podCache \cap DOMAIN pods' : EarlierOrSame(podCache[n], pods'[n])
    BY <1>1, <1>4, <2>1, EditedPods DEF CategoryInv, VersionsAscend
  <2> QED
    BY <1>1, <1>5, <2>2 DEF VersionsAscend
<1>9. ASSUME NEW p, p.uid # c.obj.uid, FinalizerAsIn(p) PROVE FinalizerAsIn(p)'
  BY <1>1, <1>3, <1>4, <1>9 DEF FinalizerAsIn
<1>10. \A n \in DOMAIN pods : pods[n].obj.uid = c.obj.uid => n = n0
  BY <1>1, PodUIDs
<1>11. c.deleting => \A p : p.uid = c.obj.uid => FinalizerAsIn(p)'
  <2>1. \A n \in DOMAIN pods' : pods'[n].obj.uid = c.obj.uid => n = n0
    BY <1>1, <1>3, <1>4, <1>10
  <2>2. c.deleting => pods'[n0].deleting
    BY <1>1, <1>4
  <2> QED
    BY <2>1, <2>2 DEF FinalizerAsIn
<1>12. FinalizersSeen'
  <2>1. ASSUME NEW m \in DOMAIN podCache, podCache[m].obj.label # NoKey
        PROVE  FinalizerAsIn(podCache[m].obj)'
    <3>1. CASE podCache[m].obj.uid # c.obj.uid
      BY <1>1, <1>9, <2>1, <3>1 DEF CategoryInv, FinalizersSeen
    <3>2. CASE podCache[m].obj.uid = c.obj.uid
      <4>1. m = n0 /\ podCache[m].version \in Nat /\ c.version \in Nat
        <5>1. podCache[m] \in PodInCluster /\ podCache[m].obj.name = m
          BY CopyIsPod DEF Copies, CategoryInv, PodsNamed
        <5> QED
          BY <1>1, <1>3, <3>2, <5>1, NameOfPod, PodUIDs DEF PodInCluster
      <4>2. EarlierOrSame(c, podCache[m]) /\ EarlierOrSame(podCache[m], c)
        BY <1>1, <4>1 DEF CategoryInv, VersionsAscend, HasPod
      <4>3. podCache[m] = c
        BY <3>2, <4>1, <4>2 DEF EarlierOrSame
      <4> QED
        BY <1>1, <1>2, <1>11, <2>1, <3>2, <4>3
    <3> QED
      BY <3>1, <3>2
  <2>2. ASSUME NEW s \in Seeder, seeds[s].pc = "process", NEW p \in seeds[s].pods
        PROVE  p.uid \in raced \/ FinalizerAsIn(p)' \/ Untracking(p.name)'
    <3>1. CASE p.uid # c.obj.uid
      <4>1. ~Untracking(p.name)
        BY <1>1 DEF Untracking
      <4> QED
        BY <1>9, <2>2, <3>1, <4>1 DEF CategoryInv, FinalizersSeen
    <3>2. CASE p.uid = c.obj.uid
      <4>1. p.name = NameOf[p.uid]
        BY <2>2, OperatorAssumption DEF ClusterInv, TypeInv, TypeOK, SeederState, IdleSeeder
      <4>2. p.name = n0
        BY <1>1, <3>2, <4>1, PodUIDs
      <4> QED
        BY <1>5, <1>11, <3>2, <4>2
    <3> QED
      BY <3>1, <3>2
  <2> QED
    BY <1>1, <2>1, <2>2 DEF FinalizersSeen
<1>13. UntrackDue'
  BY <1>1, <1>2, <1>3, <1>4, <1>5 DEF UntrackDue
<1>14. ReadCurrent' /\ UpdatesLeaving' /\ NamesMapped'
  BY <1>1, <1>5 DEF ReadCurrent, UpdatesLeaving, HasPod, CategoryInv, NamesMapped
<1>15. ASSUME NEW n \in DOMAIN pods, n # n0 PROVE Covered(n)'
  <2>1. pods'[n] = pods[n] /\ Covered(n) /\ ~Turned(n)
    BY <1>4, <1>15 DEF CategoryInv, AllCovered, Turned
  <2>2. EventDue(n)' <=> EventDue(n)
    BY <1>1, <1>4, <1>15 DEF EventDue, Same
  <2> QED
    BY <1>1, <2>1, <2>2 DEF Covered, WillBeSeeded, Tracked
<1>16. NoKey \notin Tracked
  BY TrackerAssumption DEF ClusterInv, TypeInv, TypeOK, IsTracking, Tracked
<1>17. Covered(n0)'
  BY <1>1, <1>2, <1>3, <1>4, <1>16 DEF Covered, Tracked
<1>18. AllCovered'
  BY <1>4, <1>15, <1>17 DEF AllCovered
<1> QED
  BY <1>6, <1>7, <1>8, <1>12, <1>13, <1>14, <1>18 DEF CategoryInv

LEMMA PodStepsKeepCategories ==
    ASSUME ClusterInv, OneCategory, CategoryInv
    PROVE  (PodReconcile => CategoryInv') /\ (PodUpdate => CategoryInv')
<1>1. ASSUME PodReconcile PROVE CategoryInv'
  BY <1>1, DeletedKeepsCategories, UnlabelledKeepsCategories, LabelledKeepsCategories,
     UntrackKeepsCategories DEF PodReconcile
<1>2. ASSUME PodUpdate PROVE CategoryInv'
  BY <1>2, KeptKeepsCategories, RemovedKeepsCategories DEF PodUpdate
<1> QED
  BY <1>1, <1>2

-----------------------------------------------------------------------------
(* The tracker's goroutines and the ModelValidations *)

SameTurn == SameView /\ UNCHANGED podWorker

LEMMA TurnKept ==
    ASSUME CategoryInv, SameTurn
    PROVE  /\ SameView /\ SameCopy
           /\ PodsNamed' /\ VersionsAscend' /\ UntrackDue' /\ ReadCurrent' /\ UpdatesLeaving'
           /\ \A n : Turned(n)' <=> Turned(n)
           /\ \A n : Untracking(n)' <=> Untracking(n)
<1>1. SameView /\ SameCopy
  BY DEF SameTurn, SameCopy, HasPod
<1>2. \A n : EventDue(n)' <=> EventDue(n)
  BY <1>1, ViewKept
<1>3. UntrackDue'
  BY <1>2 DEF CategoryInv, UntrackDue, Untracking, SameTurn, SameView
<1>4. ReadCurrent' /\ UpdatesLeaving'
  BY DEF CategoryInv, ReadCurrent, UpdatesLeaving, SameTurn, SameView
<1> QED
  BY <1>1, <1>3, <1>4, ViewKept DEF SameTurn, Turned, Untracking

(* A handler of a ModelValidation leaves the pods of a table in their       *)
(* categories; it may start a table, with the goroutine that seeds it.      *)
TablesKeepCategories ==
    \A k \in Tracked' :
        \/ /\ GetAllPods(modelValidations'[k]) = {}
           /\ \E s \in Seeder : seeds'[s].pc = "list" /\ seeds'[s].mv = k
        \/ /\ k \in Tracked
           /\ GetAllPods(modelValidations'[k]) \subseteq GetAllPods(modelValidations[k])
           /\ \A n \in DOMAIN pods :
                 Categorised(pods[n].obj, modelValidations[k])
                     => Categorised(pods[n].obj, modelValidations'[k])

SeedsGoOn == \A s \in Seeder : seeds[s].pc \in {"list", "process"} => seeds'[s] = seeds[s]

LEMMA TablesStayCategorised ==
    ASSUME CategoryInv, SameTurn, TablesKeepCategories, SeedsGoOn, SeedsShrink,
           UNCHANGED raced, NamesMapped'
    PROVE  CategoryInv'
<1>1. /\ PodsNamed' /\ VersionsAscend' /\ UntrackDue' /\ ReadCurrent' /\ UpdatesLeaving'
      /\ SameView /\ SameCopy
      /\ \A n : Turned(n)' <=> Turned(n)
      /\ \A n : Untracking(n)' <=> Untracking(n)
      /\ \A n : EventDue(n)' <=> EventDue(n)
      /\ \A p : FinalizerAsIn(p)' <=> FinalizerAsIn(p)
  BY TurnKept, ViewKept
<1>2. AllFaithful'
  <2>1. \A k \in Tracked' : \A p \in GetAllPods(modelValidations'[k]) : Faithful(p)
    BY DEF TablesKeepCategories, CategoryInv, AllFaithful
  <2> QED
    BY <1>1, <2>1, StaysFaithful
<1>3. FinalizersSeen'
  BY <1>1 DEF CategoryInv, FinalizersSeen, SameView, SeedsShrink
<1>4. ASSUME NEW n \in DOMAIN pods PROVE Covered(n)'
  <2>1. Covered(n)
    BY DEF CategoryInv, AllCovered
  <2>2. WillBeSeeded(pods[n].obj) => WillBeSeeded(pods[n].obj)'
    BY <1>1 DEF WillBeSeeded, SameView, SeedsGoOn
  <2>3. ASSUME pods[n].obj.label \in Tracked'
        PROVE  \/ WillBeSeeded(pods[n].obj)'
               \/ /\ pods[n].obj.label \in Tracked
                  /\ Categorised(pods[n].obj, modelValidations[pods[n].obj.label])
                       => Categorised(pods[n].obj, modelValidations'[pods[n].obj.label])
    BY <1>1, <2>3 DEF TablesKeepCategories, WillBeSeeded, SameView
  <2> QED
    BY <1>1, <2>1, <2>2, <2>3 DEF Covered, SameView
<1>5. AllCovered'
  BY <1>1, <1>4 DEF AllCovered, SameView
<1> QED
  BY <1>1, <1>2, <1>3, <1>5 DEF CategoryInv

LEMMA MVHandlersKeepTables ==
    ASSUME ClusterInv, OneCategory, CategoryInv
    PROVE  /\ \A k \in Key, c \in Config, g \in Generation :
                 AddModelValidation(k, c, g) => TablesKeepCategories /\ SeedsGoOn /\ SeedsShrink
           /\ \A k \in Key : RemoveModelValidation(k)
                 => TablesKeepCategories /\ SeedsGoOn /\ SeedsShrink /\ NamesMapped'
           /\ Forget => TablesKeepCategories
<1>1. ASSUME NEW k \in Key, NEW c \in Config, NEW g \in Generation,
             StartTracking(k, c, g)
      PROVE  TablesKeepCategories /\ SeedsGoOn /\ SeedsShrink
  <2>1. PICK s \in Seeder : seeds[s].pc = "idle"
                            /\ seeds' = [seeds EXCEPT ![s] = [pc |-> "list", mv |-> k]]
    BY <1>1 DEF StartTracking
  <2>2. /\ seeds'[s].pc = "list" /\ seeds'[s].mv = k
        /\ \A t \in Seeder : t # s => seeds'[t] = seeds[t]
    BY <2>1 DEF ClusterInv, TypeInv, TypeOK
  <2>3. modelValidations' = Put(modelValidations, k, NewModelValidationInfo(c, g))
    BY <1>1 DEF StartTracking
  <2>4. GetAllPods(modelValidations'[k]) = {}
    BY <2>3 DEF Put, NewModelValidationInfo, EmptyMap, GetAllPods
  <2>5. \A j \in Tracked' : j # k => j \in Tracked /\ modelValidations'[j] = modelValidations[j]
    BY <2>3 DEF Put, Tracked
  <2>6. TablesKeepCategories
    BY <2>2, <2>4, <2>5 DEF TablesKeepCategories
  <2> QED
    BY <2>1, <2>2, <2>6 DEF SeedsGoOn, SeedsShrink
<1>2. ASSUME NEW k \in Key, NEW c \in Config, NEW g \in Generation,
             ContinueTracking(k, c, g)
      PROVE  TablesKeepCategories /\ SeedsGoOn /\ SeedsShrink
  <2>1. Tracked' = Tracked
    BY <1>2 DEF ContinueTracking, Tracked
  <2>2. ASSUME NEW j \in Tracked
        PROVE  /\ GetAllPods(modelValidations'[j]) \subseteq GetAllPods(modelValidations[j])
               /\ \A n \in DOMAIN pods :
                     Categorised(pods[n].obj, modelValidations[j])
                         => Categorised(pods[n].obj, modelValidations'[j])
    <3>1. \/ modelValidations'[j] = modelValidations[j]
          \/ modelValidations'[j] = UpdateConfig(modelValidations[j], c, g)
      BY <1>2 DEF ContinueTracking, Tracked
    <3>2. \A n \in DOMAIN pods : /\ pods[n].obj \in PodObject
             /\ \A p \in GetAllPods(modelValidations[j]) :
                   p.uid = pods[n].obj.uid => p.config = pods[n].obj.config
      BY PodUIDs DEF CategoryInv, AllFaithful, Faithful
    <3>3. CASE modelValidations'[j] = modelValidations[j]
      BY <3>3
    <3>4. CASE modelValidations'[j] = UpdateConfig(modelValidations[j], c, g)
      BY <3>2, <3>4, InfosKept, UpdateConfigCategories
    <3> QED
      BY <3>1, <3>3, <3>4
  <2> QED
    BY <1>2, <2>1, <2>2, SameSeeds DEF ContinueTracking, TablesKeepCategories, SeedsGoOn
<1>3. ASSUME NEW ks, modelValidations' = Drop(modelValidations, ks) PROVE TablesKeepCategories
  <2>1. \A j \in Tracked' : j \in Tracked /\ modelValidations'[j] = modelValidations[j]
    BY <1>3 DEF Drop, Tracked
  <2> QED
    BY <2>1 DEF TablesKeepCategories
<1>4. ASSUME NEW k \in Key, RemoveModelValidation(k)
      PROVE  TablesKeepCategories /\ SeedsGoOn /\ SeedsShrink /\ NamesMapped'
  <2>1. TablesKeepCategories
    <3>1. modelValidations' = modelValidations => TablesKeepCategories
      BY DEF TablesKeepCategories, Tracked
    <3> QED
      BY <1>3, <1>4, <3>1 DEF RemoveModelValidation, tables
  <2>2. NamesMapped'
    <3>1. podMapping' = podMapping => NamesMapped'
      BY DEF CategoryInv, NamesMapped
    <3> QED
      BY <1>4, <3>1, NamesDropped DEF RemoveModelValidation, tables, CategoryInv
  <2> QED
    BY <1>4, <2>1, <2>2, SameSeeds DEF RemoveModelValidation, SeedsGoOn
<1>5. Forget => TablesKeepCategories
  BY <1>3 DEF Forget
<1> QED
  BY <1>1, <1>2, <1>4, <1>5 DEF AddModelValidation

LEMMA MVStepsKeepCategories ==
    ASSUME ClusterInv, OneCategory, CategoryInv
    PROVE  /\ MVReconcile => CategoryInv'
           /\ MVEnqueue => CategoryInv'
           /\ WorkerStep => CategoryInv'
           /\ \A k \in Key : SyncMV(k) \/ MVRead(k) => CategoryInv'
           /\ UNCHANGED vars => CategoryInv'
<1>1. podMapping' = podMapping => NamesMapped'
  BY DEF CategoryInv, NamesMapped
<1>2. ASSUME UNCHANGED <<pods, usedUIDs, podCache, podQueue, podWorker>> PROVE SameTurn
  BY <1>2 DEF SameTurn, SameView
<1>3. UNCHANGED modelValidations => TablesKeepCategories
  BY DEF TablesKeepCategories, Tracked
<1>4. UNCHANGED seeds => SeedsGoOn /\ SeedsShrink
  BY SameSeeds DEF SeedsGoOn
<1>5. ASSUME MVReconcile PROVE CategoryInv'
  <2>1. SameTurn /\ UNCHANGED raced
    BY <1>2, <1>5 DEF MVReconcile, apiVars, cacheVars
  <2>2. TablesKeepCategories /\ SeedsGoOn /\ SeedsShrink /\ NamesMapped'
    <3>1. \/ \E k \in Key, c \in Config, g \in Generation : AddModelValidation(k, c, g)
          \/ \E k \in Key : RemoveModelValidation(k)
      BY <1>5 DEF MVReconcile, ClusterInv, WorkerTypes, Idle, MVObject
    <3> QED
      BY <1>1, <3>1, MVHandlersKeepTables DEF AddModelValidation
  <2> QED
    BY <2>1, <2>2, TablesStayCategorised
<1>6. ASSUME UNCHANGED <<pods, usedUIDs, podCache, podQueue, podWorker, raced, tables, seeds>>
      PROVE  CategoryInv'
  <2>1. SameTurn /\ UNCHANGED <<raced, modelValidations, seeds>> /\ NamesMapped'
    BY <1>1, <1>2, <1>6 DEF tables
  <2> QED
    BY <1>3, <1>4, <2>1, TablesStayCategorised
<1>7. MVEnqueue => CategoryInv'
  BY <1>6 DEF MVEnqueue, EnqueueAdded, apiVars, cacheVars
<1>8. \A k \in Key : SyncMV(k) \/ MVRead(k) => CategoryInv'
  BY <1>6 DEF SyncMV, MVRead, apiVars, trackerVars
<1>9. UNCHANGED vars => CategoryInv'
  BY <1>6 DEF vars, trackerVars, apiVars, cacheVars
<1>10. ASSUME WorkerForget PROVE CategoryInv'
  <2>1. SameTurn /\ UNCHANGED <<raced, seeds>> /\ NamesMapped' /\ Forget
    BY <1>1, <1>2, <1>10 DEF WorkerForget, WorkerOnly, Forget, cacheVars
  <2> QED
    BY <1>4, <2>1, MVHandlersKeepTables, TablesStayCategorised
<1>11. ASSUME WorkerStep, ~WorkerForget PROVE CategoryInv'
  <2>1. UNCHANGED <<pods, usedUIDs, podCache, podQueue, podWorker, raced, tables, seeds>>
    BY <1>11
       DEF WorkerStep, WorkerTake, WorkerRead, WorkerCompare, WorkerWrite, WorkerFinish, WorkerOnly,
           cacheVars, WorkerGet, ReadFound, ReadMissing, ReadError, Compare, WriteDone,
           WriteFailed, WorkerDone
  <2> QED
    BY <1>6, <2>1
<1> QED
  BY <1>5, <1>7, <1>8, <1>9, <1>10, <1>11

LEMMA SeedListKeepsCategories ==
    ASSUME ClusterInv, CategoryInv, NEW s \in Seeder, SeedStep(s), seeds[s].pc = "list", ~SeedFail(s)
    PROVE  CategoryInv'
<1> PICK k : k = seeds[s].mv
  OBVIOUS
<1>1. /\ SameTurn /\ UNCHANGED <<modelValidations, podMapping>>
      /\ seeds' = [seeds EXCEPT ![s] = [pc |-> "process", mv |-> k, pods |-> LabelledCached(k)]]
      /\ raced \subseteq raced'
  BY DEF SeedStep, SeedList, SeedFail, SeedPod, SeedDone, apiVars, cacheVars, tables, SameTurn, SameView
<1>2. /\ seeds'[s].pc = "process" /\ seeds'[s].mv = k /\ seeds'[s].pods = LabelledCached(k)
      /\ \A t \in Seeder : t # s => seeds'[t] = seeds[t]
      /\ k \in Key
  BY <1>1 DEF ClusterInv, TypeInv, TypeOK, SeederState, IdleSeeder
<1>3. /\ PodsNamed' /\ VersionsAscend' /\ UntrackDue' /\ ReadCurrent' /\ UpdatesLeaving'
      /\ SameView /\ SameCopy
      /\ \A n : Turned(n)' <=> Turned(n)
      /\ \A n : Untracking(n)' <=> Untracking(n)
      /\ \A n : EventDue(n)' <=> EventDue(n)
      /\ \A p : FinalizerAsIn(p)' <=> FinalizerAsIn(p)
      /\ \A p : Faithful(p)' <=> Faithful(p)
  BY <1>1, TurnKept, ViewKept
<1>4. \A p \in LabelledCached(k) : Faithful(p) /\ FinalizerAsIn(p)
  BY <1>2, TrackerAssumption DEF LabelledCached, CategoryInv, AllFaithful, FinalizersSeen
<1>5. AllFaithful'
  <2>1. ASSUME NEW t \in Seeder, seeds'[t].pc = "process", NEW p \in seeds'[t].pods PROVE Faithful(p)
    <3>1. CASE t = s
      BY <1>2, <1>4, <2>1, <3>1
    <3>2. CASE t # s
      BY <1>2, <2>1, <3>2 DEF CategoryInv, AllFaithful
    <3> QED
      BY <3>1, <3>2
  <2> QED
    BY <1>1, <1>3, <2>1 DEF CategoryInv, AllFaithful, SameView, SameCopy, Tracked
<1>6. FinalizersSeen'
  <2>1. ASSUME NEW t \in Seeder, seeds'[t].pc = "process", NEW p \in seeds'[t].pods
        PROVE  p.uid \in raced' \/ FinalizerAsIn(p) \/ Untracking(p.name)
    <3>1. CASE t = s
      BY <1>2, <1>4, <2>1, <3>1
    <3>2. CASE t # s
      BY <1>1, <1>2, <2>1, <3>2 DEF CategoryInv, FinalizersSeen
    <3> QED
      BY <3>1, <3>2
  <2> QED
    BY <1>3, <2>1 DEF CategoryInv, FinalizersSeen, SameView
<1>7. ASSUME NEW n \in DOMAIN pods PROVE Covered(n)'
  <2>1. Covered(n)
    BY DEF CategoryInv, AllCovered
  <2>2. ASSUME WillBeSeeded(pods[n].obj), ~EventDue(n) PROVE WillBeSeeded(pods[n].obj)'
    <3> DEFINE pod == pods[n].obj
    <3>1. PICK t \in Seeder : \/ seeds[t].pc = "list" /\ seeds[t].mv = pod.label
                              \/ /\ seeds[t].pc = "process" /\ seeds[t].mv = pod.label
                                 /\ \E p \in seeds[t].pods : p.uid = pod.uid
      BY <2>2 DEF WillBeSeeded
    <3>2. CASE t = s
      <4>1. k = pod.label
        BY <3>1, <3>2
      <4>2. n \in DOMAIN podCache /\ podCache[n].obj = pod
        BY <2>2 DEF EventDue, Same
      <4>3. pod \in LabelledCached(k)
        BY <4>1, <4>2 DEF LabelledCached
      <4> QED
        BY <1>2, <1>3, <4>1, <4>3 DEF WillBeSeeded, SameView
    <3>3. CASE t # s
      BY <1>2, <1>3, <3>1, <3>3 DEF WillBeSeeded, SameView
    <3> QED
      BY <3>2, <3>3
  <2> QED
    BY <1>1, <1>3, <2>1, <2>2 DEF Covered, SameView, Tracked
<1>8. AllCovered' /\ NamesMapped'
  BY <1>1, <1>3, <1>7 DEF AllCovered, SameView, CategoryInv, NamesMapped
<1> QED
  BY <1>3, <1>5, <1>6, <1>8 DEF CategoryInv

LEMMA SeedPodKeepsCategories ==
    ASSUME ClusterInv, OneCategory, CategoryInv, NEW s \in Seeder, SameTurn, UNCHANGED raced,
           seeds[s].pc = "process", NEW pod \in seeds[s].pods, TrackPod(pod, seeds[s].mv),
           seeds' = [seeds EXCEPT ![s].pods = @ \ {pod}]
    PROVE  CategoryInv'
<1> PICK k : k = seeds[s].mv
  OBVIOUS
<1>1. /\ seeds[s] \in [pc : {"process"}, mv : Key, pods : SUBSET Pods] /\ seeds \in [Seeder -> SeederState]
      /\ pod \in Pods /\ pod \in PodObject /\ pod.name = NameOf[pod.uid]
  BY TrackerAssumption, OperatorAssumption DEF ClusterInv, TypeInv, TypeOK, SeederState, IdleSeeder
<1>2. /\ seeds'[s].pc = "process" /\ seeds'[s].mv = k /\ seeds'[s].pods = seeds[s].pods \ {pod}
      /\ \A t \in Seeder : t # s => seeds'[t] = seeds[t]
  BY <1>1
<1>3. SeedsShrink
  BY <1>2 DEF SeedsShrink
<1>4. /\ PodsNamed' /\ VersionsAscend' /\ UntrackDue' /\ ReadCurrent' /\ UpdatesLeaving'
      /\ SameView /\ SameCopy
      /\ \A n : Turned(n)' <=> Turned(n)
      /\ \A n : Untracking(n)' <=> Untracking(n)
      /\ \A n : EventDue(n)' <=> EventDue(n)
      /\ \A p : FinalizerAsIn(p)' <=> FinalizerAsIn(p)
  BY TurnKept, ViewKept
<1>5. Faithful(pod) /\ (pod.uid \in raced \/ FinalizerAsIn(pod) \/ Untracking(pod.name))
  BY DEF CategoryInv, AllFaithful, FinalizersSeen
<1>6. AllFaithful'
  <2>1. Faithful([name |-> pod.name, uid |-> pod.uid, config |-> pod.config])
    BY <1>5 DEF Faithful
  <2>2. \A j \in Tracked' : \A p \in GetAllPods(modelValidations'[j]) : Faithful(p)
    BY <1>1, <2>1, TrackPodCategories DEF CategoryInv, AllFaithful
  <2> QED
    BY <1>3, <1>4, <2>2, StaysFaithful
<1>7. FinalizersSeen'
  BY <1>3, <1>4 DEF CategoryInv, FinalizersSeen, SameView, SeedsShrink
<1>8. NamesMapped'
  BY <1>1, TrackPodMapped DEF CategoryInv
<1>9. /\ Tracked' = Tracked
      /\ \A j \in Tracked :
            /\ \A q \in PodObject : q.uid # pod.uid /\ Categorised(q, modelValidations[j])
                                       => Categorised(q, modelValidations'[j])
            /\ j # k => modelValidations'[j] = modelValidations[j]
            /\ j = k => \A q \in PodObject :
                   q.uid = pod.uid /\ q.finalizer = pod.finalizer /\ q.config = pod.config
                       => Categorised(q, modelValidations'[j])
  BY <1>1, TrackPodCategories
<1>10. ASSUME NEW n \in DOMAIN pods PROVE Covered(n)'
  <2>1. Covered(n) /\ pods[n].obj \in PodObject /\ NameOf[pods[n].obj.uid] = n
    BY PodUIDs DEF CategoryInv, AllCovered
  <2>2. SUFFICES ASSUME ~EventDue(n), ~Turned(n), ~pods[n].deleting, pods[n].obj.label \in Tracked,
                        pods[n].obj.uid \notin raced
                 PROVE  \/ Categorised(pods[n].obj, modelValidations'[pods[n].obj.label])
                        \/ WillBeSeeded(pods[n].obj)'
    BY <1>4, <1>9 DEF Covered, SameView
  <2>3. CASE pods[n].obj.label = k /\ pods[n].obj.uid = pod.uid
    <3>1. ~Untracking(pod.name)
      BY <1>1, <2>1, <2>2, <2>3 DEF Turned, Untracking, Idle
    <3>2. pods[n].obj.finalizer = pod.finalizer /\ pods[n].obj.config = pod.config
      BY <1>5, <2>2, <2>3, <3>1 DEF Faithful, FinalizerAsIn
    <3> QED
      BY <1>9, <2>1, <2>2, <2>3, <3>2
  <2>4. CASE pods[n].obj.label # k \/ pods[n].obj.uid # pod.uid
    <3>1. Categorised(pods[n].obj, modelValidations[pods[n].obj.label])
             => Categorised(pods[n].obj, modelValidations'[pods[n].obj.label])
      BY <1>9, <2>1, <2>2, <2>4
    <3>2. WillBeSeeded(pods[n].obj) => WillBeSeeded(pods[n].obj)'
      <4>1. ASSUME seeds[s].mv = pods[n].obj.label, NEW p \in seeds[s].pods, p.uid = pods[n].obj.uid
            PROVE  p \in seeds'[s].pods
        BY <1>2, <2>4, <4>1
      <4> QED
        BY <1>2, <1>4, <4>1 DEF WillBeSeeded, SameView
    <3> QED
      BY <2>1, <2>2, <3>1, <3>2 DEF Covered
  <2> QED
    BY <2>3, <2>4
<1>11. AllCovered'
  BY <1>4, <1>10 DEF AllCovered, SameView
<1> QED
  BY <1>4, <1>6, <1>7, <1>8, <1>11 DEF CategoryInv

LEMMA SeedKeepsCategories ==
    ASSUME ClusterInv, OneCategory, CategoryInv, NEW s \in Seeder, SeedStep(s), ~SeedFail(s)
    PROVE  CategoryInv'
<1>1. SameTurn
  BY DEF SeedStep, apiVars, cacheVars, SameTurn, SameView
<1>2. CASE seeds[s].pc = "list"
  BY <1>2, SeedListKeepsCategories
<1>3. CASE SeedPod(s) /\ UNCHANGED raced
  <2>1. seeds[s].pc = "process" /\ UNCHANGED raced
    BY <1>3 DEF SeedPod
  <2>2. PICK pod \in seeds[s].pods : /\ TrackPod(pod, seeds[s].mv)
                                     /\ seeds' = [seeds EXCEPT ![s].pods = @ \ {pod}]
    BY <1>3 DEF SeedPod
  <2> QED
    BY <1>1, <2>1, <2>2, SeedPodKeepsCategories
<1>4. CASE SeedDone(s) /\ UNCHANGED raced
  <2>1. /\ UNCHANGED <<raced, modelValidations, podMapping>> /\ seeds[s].pc = "process" /\ seeds[s].pods = {}
        /\ seeds' = [seeds EXCEPT ![s] = IdleSeeder]
    BY <1>4 DEF SeedDone, tables
  <2>2. /\ seeds'[s].pc = "idle" /\ \A t \in Seeder : t # s => seeds'[t] = seeds[t]
    BY <2>1 DEF ClusterInv, TypeInv, TypeOK, IdleSeeder
  <2>3. /\ PodsNamed' /\ VersionsAscend' /\ UntrackDue' /\ ReadCurrent' /\ UpdatesLeaving'
        /\ SameView /\ SameCopy /\ SeedsShrink
        /\ \A n : Turned(n)' <=> Turned(n)
        /\ \A n : Untracking(n)' <=> Untracking(n)
        /\ \A n : EventDue(n)' <=> EventDue(n)
        /\ \A p : FinalizerAsIn(p)' <=> FinalizerAsIn(p)
    BY <1>1, <2>2, TurnKept, ViewKept DEF SeedsShrink
  <2>4. AllFaithful'
    <3>1. \A j \in Tracked' : \A p \in GetAllPods(modelValidations'[j]) : Faithful(p)
      BY <2>1 DEF CategoryInv, AllFaithful, Tracked
    <3> QED
      BY <2>3, <3>1, StaysFaithful
  <2>5. FinalizersSeen' /\ NamesMapped'
    BY <2>1, <2>3 DEF CategoryInv, FinalizersSeen, SameView, SeedsShrink, NamesMapped
  <2>6. \A pod : WillBeSeeded(pod) => WillBeSeeded(pod)'
    BY <2>1, <2>2 DEF WillBeSeeded
  <2>7. AllCovered'
    BY <2>1, <2>3, <2>6 DEF CategoryInv, AllCovered, Covered, SameView, Tracked
  <2> QED
    BY <2>3, <2>4, <2>5, <2>7 DEF CategoryInv
<1> QED
  BY <1>2, <1>3, <1>4 DEF SeedStep, SeedList

-----------------------------------------------------------------------------
(* The theorems *)

(* A new process: every pod is in the cache and on the queue.               *)
Fresh ==
    /\ podCache = pods /\ podQueue = DOMAIN pods /\ podWorker = Idle
    /\ modelValidations = EmptyMap /\ podMapping = NewPodMapping
    /\ seeds = [s \in Seeder |-> IdleSeeder]
    /\ \A n \in DOMAIN pods : /\ pods[n].obj.name = n /\ pods[n].obj.uid \in usedUIDs
                              /\ NameOf[pods[n].obj.uid] = n

LEMMA FreshCategories == Fresh => CategoryInv
<1> SUFFICES ASSUME Fresh PROVE CategoryInv
  OBVIOUS
<1>1. /\ ~HasPod /\ podWorker.pc = "idle" /\ Tracked = {} /\ \A n : ~Untracking(n)
      /\ \A s \in Seeder : seeds[s].pc = "idle"
  BY DEF Fresh, HasPod, Idle, Tracked, EmptyMap, Untracking, IdleSeeder
<1>2. PodsNamed /\ VersionsAscend
  BY <1>1 DEF Fresh, PodsNamed, VersionsAscend, EarlierOrSame
<1>3. \A n, m \in DOMAIN pods : pods[n].obj.uid = pods[m].obj.uid => n = m
  BY DEF Fresh
<1>4. AllFaithful /\ FinalizersSeen
  BY <1>1, <1>3 DEF Fresh, AllFaithful, Faithful, FinalizersSeen, FinalizerAsIn
<1>5. NamesMapped
  BY DEF Fresh, NamesMapped, NewPodMapping, EmptyMap
<1>6. ReadCurrent /\ UntrackDue /\ UpdatesLeaving
  BY <1>1 DEF ReadCurrent, UntrackDue, UpdatesLeaving
<1>7. AllCovered
  BY DEF Fresh, AllCovered, Covered, EventDue
<1> QED
  BY <1>2, <1>4, <1>5, <1>6, <1>7 DEF CategoryInv

LEMMA InitFresh == Init => Fresh
<1> SUFFICES ASSUME Init PROVE Fresh
  OBVIOUS
<1>1. ClusterInv
  BY InitClusterTypes
<1>2. \A n \in DOMAIN pods : pods[n].obj.name = n /\ pods[n].obj.uid \in usedUIDs
  BY InitFinalizers DEF FinalizerInv, PodsWellKept
<1>3. \A n \in DOMAIN pods : NameOf[pods[n].obj.uid] = n
  BY <1>1, <1>2, CopyIsPod, NameOfPod
<1> QED
  BY <1>2, <1>3 DEF Init, TrackerInit, Fresh

LEMMA RestartIsFresh ==
    ASSUME ClusterInv, CategoryInv, Restart
    PROVE  Fresh'
<1>1. \A n \in DOMAIN pods : /\ pods[n].obj.name = n /\ pods[n].obj.uid \in usedUIDs
                             /\ NameOf[pods[n].obj.uid] = n
  BY PodUIDs DEF CategoryInv, PodsNamed
<1> QED
  BY <1>1 DEF Restart, NewStatusTracker, Fresh, apiVars

LEMMA StepsKeepCategories ==
    ASSUME ClusterInv, OneCategory, CategoryInv, [Next]_vars, ~Restart,
           \A s \in Seeder : ~(SeedStep(s) /\ SeedFail(s)) \/ UNCHANGED vars
    PROVE  CategoryInv'
<1>1. CASE UNCHANGED vars
  BY <1>1, MVStepsKeepCategories
<1>2. CASE Users \/ (\E k \in Key : MVGone(k)) \/ (\E n \in PodName : PodGone(n))
  BY <1>2, UsersEdit, EditsKeepCategories
<1>3. CASE \/ MVReconcile \/ MVEnqueue \/ WorkerStep
           \/ \E k \in Key : SyncMV(k) \/ MVRead(k)
  BY <1>3, MVStepsKeepCategories
<1>4. CASE \E n \in PodName : SyncPod(n) \/ PodRead(n)
  BY <1>4, SyncKeepsCategories, ReadKeepsCategories
<1>5. CASE PodReconcile \/ PodUpdate
  BY <1>5, PodStepsKeepCategories
<1>6. CASE \E s \in Seeder : SeedStep(s)
  BY <1>1, <1>6, SeedKeepsCategories
<1> QED
  BY <1>1, <1>2, <1>3, <1>4, <1>5, <1>6 DEF Next, System

(* No call of a seeding goroutine to list pods fails.                       *)
ListsSucceed == [][\A s \in Seeder : ~(SeedStep(s) /\ SeedFail(s))]_vars

(* However the seeding goroutines, the pod controller, users and restarts   *)
(* interleave, whatever happens to labels and whichever writes fail, every  *)
(* labelled pod of a tracked ModelValidation ends up in the category its    *)
(* finalizer and annotations put it in, as long as the lists succeed.       *)
THEOREM SeedingCategorises == Spec /\ ListsSucceed => []PodsCategorised
<1>1. ClusterInv /\ CategoryInv => PodsCategorised
  <2> SUFFICES ASSUME ClusterInv, CategoryInv, Quiescent, NEW n \in DOMAIN pods, ~pods[n].deleting,
                      pods[n].obj.label \in Tracked, pods[n].obj.uid \notin raced
               PROVE  Categorised(pods[n].obj, modelValidations[pods[n].obj.label])
    BY DEF PodsCategorised, Categorised
  <2>1. ~Turned(n) /\ ~WillBeSeeded(pods[n].obj)
    BY DEF Quiescent, Turned, WillBeSeeded, IdleSeeder
  <2>2. ~EventDue(n)
    BY DEF Quiescent, EventDue, ClusterInv, APITypes, IsMap
  <2> QED
    BY <2>1, <2>2 DEF CategoryInv, AllCovered, Covered
<1>2. /\ ClusterInv /\ OneCategory /\ CategoryInv /\ [Next]_vars
      /\ [\A s \in Seeder : ~(SeedStep(s) /\ SeedFail(s))]_vars
      => CategoryInv' \/ Fresh'
  BY StepsKeepCategories, RestartIsFresh
<1>3. Init => CategoryInv
  BY InitFresh, FreshCategories
<1>4. Spec => []OneCategory
  BY TrackerInCluster, PTL
<1> QED
  BY <1>1, <1>2, <1>3, <1>4, FreshCategories, ClusterAlways, PTL DEF Spec, ListsSucceed

(* In particular when no call to the API server fails.                      *)
THEOREM PodsCategorisedAlways ==
    ASSUME ~Faults
    PROVE  Spec => []PodsCategorised
<1>1. ClusterInv => [\A s \in Seeder : ~(SeedStep(s) /\ SeedFail(s))]_vars
  <2>1. ASSUME ClusterInv, NEW s \in Seeder, SeedStep(s), SeedFail(s) PROVE FALSE
    <3>1. seeds[s].pc = "list" /\ seeds'[s].pc = "idle"
      BY <2>1 DEF SeedFail, ClusterInv, TypeInv, TypeOK, IdleSeeder
    <3>2. SeedList(s, LabelledCached(seeds[s].mv))
      BY <2>1, <3>1 DEF SeedStep, SeedPod, SeedDone
    <3>3. seeds'[s].pc = "process"
      <4>1. seeds \in [Seeder -> SeederState]
        BY <2>1 DEF ClusterInv, TypeInv, TypeOK
      <4>2. seeds' = [seeds EXCEPT ![s] = [pc |-> "process", mv |-> seeds[s].mv,
                                           pods |-> LabelledCached(seeds[s].mv)]]
        BY <3>2 DEF SeedList
      <4> QED
        BY <4>1, <4>2
    <3> QED
      BY <3>1, <3>3
  <2> QED
    BY <2>1
<1> QED
  BY <1>1, SeedingCategorises, ClusterAlways, PTL DEF Spec, ListsSucceed
=============================================================================
