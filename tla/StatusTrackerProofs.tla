------------------------- MODULE StatusTrackerProofs -------------------------
(***************************************************************************)
(* Proofs about StatusTracker.tla, for every set of ModelValidations, pods, *)
(* configurations, generations and seeding goroutines.                      *)
(***************************************************************************)
EXTENDS StatusTracker, FiniteSetTheorems, TLAPS

-----------------------------------------------------------------------------
(* Maps *)

(* Putting an entry of the right type into a map leaves a map of the type.  *)
LEMMA PutMap ==
    ASSUME NEW K, NEW V, NEW m, IsMap(m, K, V), NEW k \in K, NEW v \in V
    PROVE  IsMap(Put(m, k, v), K, V)
BY DEF IsMap, Put

(* So does deleting entries.                                                *)
LEMMA DropMap ==
    ASSUME NEW K, NEW V, NEW m, IsMap(m, K, V), NEW ks
    PROVE  IsMap(Drop(m, ks), K, V)
BY DEF IsMap, Drop

(* The empty map is a map of every type: what NewStatusTracker makes.       *)
LEMMA EmptyIsMap ==
    ASSUME NEW K, NEW V
    PROVE  IsMap(EmptyMap, K, V)
BY DEF IsMap, EmptyMap

-----------------------------------------------------------------------------
(* What is kept for one ModelValidation *)

(* The pod tables keep every pod under its own UID.                         *)
LEMMA PutPod ==
    ASSUME NEW t, IsPodTable(t), NEW pod \in PodInfo
    PROVE  IsPodTable(Put(t, pod.uid, pod))
<1>1. pod.uid \in UID
  BY DEF PodInfo
<1>2. IsMap(Put(t, pod.uid, pod), UID, PodInfo)
  BY <1>1, PutMap DEF IsPodTable
<1> QED
  BY <1>2 DEF IsPodTable, Put

(* Deleting pods from a table leaves a table.                               *)
LEMMA DropPod ==
    ASSUME NEW t, IsPodTable(t), NEW us
    PROVE  IsPodTable(Drop(t, us))
<1>1. IsMap(Drop(t, us), UID, PodInfo)
  BY DropMap DEF IsPodTable
<1> QED
  BY <1>1 DEF IsPodTable, Drop

(* A new ModelValidationInfo has empty tables.                              *)
LEMMA EmptyPods == IsPodTable(EmptyMap)
BY EmptyIsMap DEF IsPodTable, EmptyMap

(* NewModelValidationInfo returns a ModelValidationInfo.                    *)
LEMMA NewInfo ==
    ASSUME NEW config \in Config, NEW generation \in Generation
    PROVE  IsInfo(NewModelValidationInfo(config, generation))
BY EmptyPods DEF IsInfo, NewModelValidationInfo

(* RemovePod returns a ModelValidationInfo.                                 *)
LEMMA RemovePodInfo ==
    ASSUME NEW info, IsInfo(info), NEW u
    PROVE  IsInfo(RemovePod(info, u))
BY DropPod DEF IsInfo, RemovePod

(* AddInjectedPod returns one, whichever table the pod goes to.             *)
LEMMA AddInjectedPodInfo ==
    ASSUME NEW info, IsInfo(info), NEW pod \in PodInfo
    PROVE  IsInfo(AddInjectedPod(info, pod))
BY RemovePodInfo, PutPod DEF IsInfo, AddInjectedPod

(* AddUninjectedPod returns one.                                            *)
LEMMA AddUninjectedPodInfo ==
    ASSUME NEW info, IsInfo(info), NEW pod \in PodInfo
    PROVE  IsInfo(AddUninjectedPod(info, pod))
BY RemovePodInfo, PutPod DEF IsInfo, AddUninjectedPod

(* UpdateConfig returns one: what it moves to the orphaned pods it keeps    *)
(* under their UIDs.                                                        *)
LEMMA UpdateConfigInfo ==
    ASSUME NEW info, IsInfo(info),
           NEW config \in Config, NEW generation \in Generation
    PROVE  IsInfo(UpdateConfig(info, config, generation))
<1> DEFINE left == DriftedPods(info, config)
           orphaned == [u \in DOMAIN info.orphaned \cup left |->
                           IF u \in left THEN info.injected[u] ELSE info.orphaned[u]]
<1>1. left \subseteq DOMAIN info.injected
  BY DEF DriftedPods
<1>2. IsPodTable(orphaned)
  BY <1>1 DEF IsInfo, IsPodTable, IsMap
<1>3. IsPodTable(Drop(info.injected, left))
  BY DropPod DEF IsInfo
<1> QED
  BY <1>2, <1>3 DEF IsInfo, UpdateConfig
-----------------------------------------------------------------------------
(* Name mappings and the queue *)

(* PodMapping.AddPod returns a mapping.                                     *)
LEMMA AddPodMapping ==
    ASSUME NEW m, IsPodMapping(m, PodName, UID), NEW name \in PodName, NEW uid \in UID
    PROVE  IsPodMapping(AddPod(m, name, uid), PodName, UID)
<1> DEFINE cleared == removePod(m, name, uid)
<1>1. /\ IsMap(Drop(m.uidOf, {name}), PodName, UID)
      /\ IsMap(Drop(m.nameOf, {uid}), UID, PodName)
  BY DropMap DEF IsPodMapping
<1>2. /\ IsMap(Put(cleared.uidOf, name, uid), PodName, UID)
      /\ IsMap(Put(cleared.nameOf, uid, name), UID, PodName)
  BY <1>1, PutMap DEF removePod
<1> QED
  BY <1>2 DEF IsPodMapping, AddPod

(* PodMapping.RemovePodsByName returns a mapping.                           *)
LEMMA RemovePodsMapping ==
    ASSUME NEW m, IsPodMapping(m, PodName, UID), NEW names
    PROVE  IsPodMapping(RemovePodsByName(m, names), PodName, UID)
BY DropMap DEF IsPodMapping, RemovePodsByName

(* Adding keys to the queue leaves keys in it, and the worker to its key.   *)
LEMMA AddKeys ==
    ASSUME NEW ks, ks \subseteq Key, pending \subseteq Key, Add(ks)
    PROVE  pending' \subseteq Key /\ active' = active /\ closed' = closed
BY DEF Add, AddAll

-----------------------------------------------------------------------------
(* Type correctness *)

(* The worker has a key in its hands exactly while it runs doUpdateStatus:  *)
(* a retry adds that key to the queue, which is a key therefore.            *)
WorkerHoldsKey == update.pc = "idle" <=> active = NoKey

TypeInv == TypeOK /\ WorkerHoldsKey

(* A new tracker has the types.                                             *)
LEMMA InitTypes == TrackerInit => TypeInv
<1> SUFFICES ASSUME TrackerInit PROVE TypeInv
  OBVIOUS
<1>1. IsTracking(modelValidations)
  BY DEF TrackerInit, IsTracking, EmptyMap
<1>2. IsMap(mvNamespaces, Namespace, Nat) /\ IsPodMapping(podMapping, PodName, UID)
  BY EmptyIsMap DEF TrackerInit, IsPodMapping, NewPodMapping
<1>3. /\ adding \in Key \cup {NoKey}
      /\ seeds \in [Seeder -> SeederState]
      /\ update \in UpdateState
      /\ QueueTypeOK
      /\ WorkerHoldsKey
  BY DEF TrackerInit, QueueInit, QueueTypeOK, IdleUpdate, WorkerHoldsKey,
         SeederState, UpdateState
<1> QED
  BY <1>1, <1>2, <1>3 DEF TypeInv, TypeOK

(* What TrackPod does to the tables for a pod the API server may show.      *)
LEMMA TrackPodTypes ==
    ASSUME TypeInv, NEW pod \in Pods, NEW k, TrackPod(pod, k)
    PROVE  /\ IsTracking(modelValidations')
           /\ IsPodMapping(podMapping', PodName, UID)
           /\ mvNamespaces' = mvNamespaces
           /\ QueueTypeOK' /\ active' = active
<1> USE DEF TypeInv, TypeOK
<1> DEFINE info == [name |-> pod.name, uid |-> pod.uid, config |-> pod.config]
<1>1. CASE k \notin Tracked
  BY <1>1 DEF TrackPod, tables, queueVars, QueueTypeOK
<1>2. CASE k \in Tracked
  <2>1. /\ pod.name \in PodName /\ pod.uid \in UID
        /\ info \in PodInfo
    BY TrackerAssumption DEF PodObject, PodInfo
  <2>2. k \in Key /\ IsInfo(modelValidations[k])
    BY <1>2 DEF IsTracking, Tracked
  <2>3. IsInfo(AddInjectedPod(modelValidations[k], info))
    BY <2>1, <2>2, AddInjectedPodInfo
  <2>4. IsInfo(AddUninjectedPod(modelValidations[k], info))
    BY <2>1, <2>2, AddUninjectedPodInfo
  <2>5. IsTracking(modelValidations')
    BY <1>2, <2>3, <2>4 DEF TrackPod, IsTracking, Tracked
  <2>6. IsPodMapping(podMapping', PodName, UID)
    BY <1>2, <2>1, AddPodMapping DEF TrackPod
  <2>7. mvNamespaces' = mvNamespaces /\ Add({k})
    BY <1>2 DEF TrackPod
  <2>8. QueueTypeOK' /\ active' = active
    BY <2>2, <2>7, AddKeys DEF QueueTypeOK
  <2> QED
    BY <2>5, <2>6, <2>7, <2>8
<1> QED
  BY <1>1, <1>2

(* What Untrack does to them.                                               *)
LEMMA UntrackTypes ==
    ASSUME TypeInv, NEW u, Untrack(u)
    PROVE  IsTracking(modelValidations') /\ QueueTypeOK' /\ active' = active
<1> USE DEF TypeInv, TypeOK
<1>1. IsTracking(modelValidations')
  BY RemovePodInfo DEF Untrack, IsTracking, Tracked
<1>2. {k \in Tracked : u \in PodsOf(modelValidations[k])} \subseteq Key
  BY DEF IsTracking, Tracked
<1>3. QueueTypeOK' /\ active' = active
  BY <1>2, AddKeys DEF Untrack, QueueTypeOK
<1> QED
  BY <1>1, <1>3

(* The handlers the controllers call keep the types.                        *)
LEMMA ControllersTypes == TypeInv /\ Controllers => TypeInv'
<1> SUFFICES ASSUME TypeInv, Controllers PROVE TypeInv'
  OBVIOUS
<1> USE DEF TypeInv, TypeOK
<1>1. CASE \E k \in Key, c \in Config, g \in Generation : AddModelValidation(k, c, g)
  <2> PICK k \in Key, c \in Config, g \in Generation : AddModelValidation(k, c, g)
    BY <1>1
  <2>1. adding' \in Key /\ podMapping' = podMapping /\ update' = update
    BY DEF AddModelValidation
  <2>2. QueueTypeOK' /\ WorkerHoldsKey'
    BY DEF AddModelValidation, queueVars, QueueTypeOK, WorkerHoldsKey
  <2>3. CASE StartTracking(k, c, g)
    <3>1. IsTracking(modelValidations')
      BY <2>3, NewInfo DEF StartTracking, IsTracking, Put
    <3>2. NamespaceOf[k] \in Namespace /\ CountOf(NamespaceOf[k]) + 1 \in Nat
      BY TrackerAssumption DEF CountOf, IsMap
    <3>3. IsMap(mvNamespaces', Namespace, Nat)
      BY <2>3, <3>2, PutMap DEF StartTracking
    <3>4. seeds' \in [Seeder -> SeederState]
      BY <2>3 DEF StartTracking, SeederState
    <3> QED
      BY <2>1, <2>2, <3>1, <3>3, <3>4
  <2>4. CASE ContinueTracking(k, c, g)
    <3>1. IsInfo(UpdateConfig(modelValidations[k], c, g))
      BY <2>4, UpdateConfigInfo DEF ContinueTracking, IsTracking, Tracked
    <3>2. IsTracking(modelValidations')
      BY <2>4, <3>1 DEF ContinueTracking, IsTracking, Tracked
    <3> QED
      BY <2>1, <2>2, <2>4, <3>2 DEF ContinueTracking
  <2> QED
    BY <2>3, <2>4 DEF AddModelValidation
<1>2. CASE \E k \in Key : RemoveModelValidation(k)
  <2> PICK k \in Key : RemoveModelValidation(k)
    BY <1>2
  <2>1. /\ adding' = adding /\ seeds' = seeds /\ update' = update
        /\ QueueTypeOK' /\ WorkerHoldsKey'
    BY DEF RemoveModelValidation, queueVars, QueueTypeOK, WorkerHoldsKey
  <2>2. CASE k \notin Tracked
    BY <2>1, <2>2 DEF RemoveModelValidation, tables
  <2>3. CASE k \in Tracked
    <3>1. IsTracking(modelValidations')
      BY <2>3 DEF RemoveModelValidation, IsTracking, Drop
    <3>2. NamespaceOf[k] \in Namespace /\ CountOf(NamespaceOf[k]) \in Nat
      BY TrackerAssumption DEF CountOf, IsMap
    <3>3. IsMap(Uncount(NamespaceOf[k]), Namespace, Nat)
      BY <3>2, PutMap, DropMap DEF Uncount
    <3>4. IsPodMapping(podMapping', PodName, UID)
      BY <2>3, RemovePodsMapping DEF RemoveModelValidation
    <3> QED
      BY <2>1, <2>3, <3>1, <3>3, <3>4 DEF RemoveModelValidation
  <2> QED
    BY <2>2, <2>3
<1>3. CASE EnqueueAdded
  <2>1. QueueTypeOK' /\ active' = active
    BY <1>3, AddKeys DEF EnqueueAdded, QueueTypeOK
  <2> QED
    BY <1>3, <2>1 DEF EnqueueAdded, tables, WorkerHoldsKey
<1>4. CASE \E pod \in Pods : ProcessPodEvent(pod)
  <2> PICK pod \in Pods : ProcessPodEvent(pod)
    BY <1>4
  <2>1. CASE pod.label = NoKey
    BY <2>1 DEF ProcessPodEvent, tables, queueVars, QueueTypeOK, WorkerHoldsKey
  <2>2. CASE pod.label # NoKey
    BY <2>2, TrackPodTypes DEF ProcessPodEvent, WorkerHoldsKey
  <2> QED
    BY <2>1, <2>2
<1>5. CASE \E u \in UID : RemovePodEvent(u)
  BY <1>5, UntrackTypes DEF RemovePodEvent, WorkerHoldsKey
<1>6. CASE \E n \in PodName : RemovePodByName(n)
  <2> PICK n \in PodName : RemovePodByName(n)
    BY <1>6
  <2>1. CASE n \notin DOMAIN podMapping.uidOf
    BY <2>1 DEF RemovePodByName, queueVars, QueueTypeOK, WorkerHoldsKey
  <2>2. CASE n \in DOMAIN podMapping.uidOf
    BY <2>2, UntrackTypes, RemovePodsMapping DEF RemovePodByName, WorkerHoldsKey
  <2> QED
    BY <2>1, <2>2
<1> QED
  BY <1>1, <1>2, <1>3, <1>4, <1>5, <1>6 DEF Controllers

(* So do the steps of the seeding goroutines, whose lists hold only pods    *)
(* the API server may show.                                                 *)
LEMMA SeedingTypes == TypeInv /\ Seeding => TypeInv'
<1> SUFFICES ASSUME TypeInv, NEW s \in Seeder,
                    \/ /\ seeds[s].pc = "list"
                       /\ \E pods \in SUBSET LabelledPods(seeds[s].mv) : SeedList(s, pods)
                    \/ SeedFail(s) \/ SeedPod(s) \/ SeedDone(s)
             PROVE  TypeInv'
  BY DEF Seeding
<1> USE DEF TypeInv, TypeOK
<1>1. CASE /\ seeds[s].pc = "list"
           /\ \E pods \in SUBSET LabelledPods(seeds[s].mv) : SeedList(s, pods)
  <2> PICK pods \in SUBSET LabelledPods(seeds[s].mv) : SeedList(s, pods)
    BY <1>1
  <2>1. seeds[s].mv \in Key /\ pods \in SUBSET Pods
    BY <1>1 DEF SeederState, IdleSeeder, LabelledPods
  <2>2. seeds' \in [Seeder -> SeederState]
    BY <2>1 DEF SeedList, SeederState
  <2> QED
    BY <2>2 DEF SeedList, tables, queueVars, QueueTypeOK, WorkerHoldsKey
<1>2. CASE SeedFail(s)
  BY <1>2 DEF SeedFail, SeederState, tables, queueVars, QueueTypeOK, WorkerHoldsKey
<1>3. CASE SeedPod(s)
  <2> PICK pod \in seeds[s].pods :
           /\ TrackPod(pod, seeds[s].mv)
           /\ seeds' = [seeds EXCEPT ![s].pods = @ \ {pod}]
    BY <1>3 DEF SeedPod
  <2>1. /\ seeds[s] \in [pc : {"process"}, mv : Key, pods : SUBSET Pods]
        /\ adding' = adding /\ update' = update
    BY <1>3 DEF SeedPod, SeederState, IdleSeeder
  <2>2. seeds' \in [Seeder -> SeederState]
    BY <2>1 DEF SeederState
  <2>3. pod \in Pods
    BY <2>1
  <2> QED
    BY <2>1, <2>2, <2>3, TrackPodTypes DEF WorkerHoldsKey
<1>4. CASE SeedDone(s)
  BY <1>4 DEF SeedDone, SeederState, tables, queueVars, QueueTypeOK, WorkerHoldsKey
<1> QED
  BY <1>1, <1>2, <1>3, <1>4

(* The status that is published of a ModelValidation is a Status.           *)
LEMMA StatusOfInfo ==
    ASSUME NEW info, IsInfo(info)
    PROVE  StatusOf(info) \in Status
BY DEF IsInfo, IsPodTable, IsMap, StatusOf, Status

(* The end of doUpdateStatus, with a retry or without.                      *)
LEMMA SucceedTypes ==
    ASSUME TypeInv, update.pc # "idle", Succeed
    PROVE  update' \in UpdateState /\ QueueTypeOK' /\ WorkerHoldsKey'
BY DEF TypeInv, TypeOK, WorkerHoldsKey, Succeed, queueVars, QueueTypeOK, UpdateState

(* An update that failed puts a key, the worker's, back on the queue.       *)
LEMMA RetryTypes ==
    ASSUME TypeInv, update.pc # "idle", Retry
    PROVE  update' \in UpdateState /\ QueueTypeOK' /\ WorkerHoldsKey'
<1>1. active \in Key
  BY DEF TypeInv, TypeOK, QueueTypeOK, WorkerHoldsKey
<1>2. QueueTypeOK' /\ active' = active
  BY <1>1, AddKeys DEF Retry, TypeInv, TypeOK, QueueTypeOK
<1> QED
  BY <1>2 DEF Retry, UpdateState, TypeInv, WorkerHoldsKey

(* The worker keeps the types.                                              *)
LEMMA PublishingTypes == TypeInv /\ Publishing => TypeInv'
<1> SUFFICES ASSUME TypeInv, Publishing PROVE TypeInv'
  OBVIOUS
<1> USE DEF TypeInv, TypeOK
<1>1. ASSUME NEW k \in Key, WorkerGet(k) PROVE TypeInv'
  BY <1>1, TrackerAssumption
     DEF WorkerGet, Get, tables, QueueTypeOK, UpdateState, WorkerHoldsKey
<1>2. CASE ReadError
  BY <1>2, RetryTypes DEF ReadError, tables
<1>3. CASE ReadMissing
  BY <1>3 DEF ReadMissing, tables, queueVars, QueueTypeOK, UpdateState, WorkerHoldsKey
<1>4. ASSUME NEW c \in Config, NEW st \in Statuses, ReadFound(c, st) PROVE TypeInv'
  BY <1>4, TrackerAssumption
     DEF ReadFound, tables, queueVars, QueueTypeOK, UpdateState, WorkerHoldsKey
<1>5. CASE Forget
  <2>1. IsTracking(modelValidations')
    BY <1>5 DEF Forget, IsTracking, Drop
  <2> QED
    BY <1>5, <2>1, SucceedTypes DEF Forget
<1>6. CASE Compare
  <2>1. /\ update.pc # "idle"
        /\ UNCHANGED <<modelValidations, mvNamespaces, podMapping, adding, seeds>>
    BY <1>6 DEF Compare, tables
  <2>2. \/ Succeed \/ Retry
        \/ /\ active \in Tracked
           /\ update' = [pc |-> "write", status |-> StatusOf(modelValidations[active])]
           /\ UNCHANGED queueVars
    BY <1>6 DEF Compare
  <2>3. CASE Succeed
    BY <2>1, <2>3, SucceedTypes
  <2>4. CASE Retry
    BY <2>1, <2>4, RetryTypes
  <2>5. CASE /\ active \in Tracked
             /\ update' = [pc |-> "write", status |-> StatusOf(modelValidations[active])]
             /\ UNCHANGED queueVars
    <3>1. StatusOf(modelValidations[active]) \in Status
      BY <2>5, StatusOfInfo DEF IsTracking, Tracked
    <3> QED
      BY <2>1, <2>5, <3>1 DEF queueVars, QueueTypeOK, UpdateState, WorkerHoldsKey
  <2> QED
    BY <2>2, <2>3, <2>4, <2>5
<1>7. CASE WriteDone
  BY <1>7, SucceedTypes DEF WriteDone, tables
<1>8. CASE WriteFailed
  BY <1>8, RetryTypes DEF WriteFailed, tables
<1>9. CASE WorkerDone
  BY <1>9 DEF WorkerDone, Done, tables, QueueTypeOK, UpdateState, IdleUpdate, WorkerHoldsKey
<1> QED
  BY <1>1, <1>2, <1>3, <1>4, <1>5, <1>6, <1>7, <1>8, <1>9 DEF Publishing

(* A restarted tracker has the types.                                       *)
LEMMA RestartTypes == NewStatusTracker => TypeInv'
<1> SUFFICES ASSUME NewStatusTracker PROVE TypeInv'
  OBVIOUS
<1>1. IsTracking(modelValidations')
  BY DEF NewStatusTracker, IsTracking, EmptyMap
<1>2. IsMap(mvNamespaces', Namespace, Nat) /\ IsPodMapping(podMapping', PodName, UID)
  BY EmptyIsMap DEF NewStatusTracker, IsPodMapping, NewPodMapping
<1>3. /\ (adding \in Key \cup {NoKey})'
      /\ (seeds \in [Seeder -> SeederState])'
      /\ (update \in UpdateState)'
      /\ QueueTypeOK' /\ WorkerHoldsKey'
  BY DEF NewStatusTracker, QueueTypeOK, IdleUpdate, WorkerHoldsKey, SeederState, UpdateState
<1> QED
  BY <1>1, <1>2, <1>3 DEF TypeInv, TypeOK

(* Every step of the tracker keeps the types.                               *)
LEMMA NextTypes == TypeInv /\ [TrackerNext]_trackerVars => TypeInv'
<1>1. TypeInv /\ UNCHANGED trackerVars => TypeInv'
  BY DEF TypeInv, TypeOK, WorkerHoldsKey, QueueTypeOK, trackerVars, tables, queueVars
<1> QED
  BY <1>1, ControllersTypes, SeedingTypes, PublishingTypes, RestartTypes DEF TrackerNext

(* The tracker's state has its types whatever pods, configurations and      *)
(* statuses the API server shows it, in whatever order: every table entry   *)
(* is filed under its own key, and a counter is never negative.             *)
THEOREM TypesCorrect == TrackerSpec => []TypeOK
<1>1. TypeInv => TypeOK
  BY DEF TypeInv
<1> QED
  BY <1>1, InitTypes, NextTypes, PTL DEF TrackerSpec
-----------------------------------------------------------------------------
(* What a step does to one ModelValidation *)

(* The entry that a step leaves for k comes from the one it had by one of   *)
(* the operations of ModelValidationInfo.tla, or is new.                    *)
InfoStep(k) ==
    \/ \E c \in Config, g \in Generation :
          modelValidations'[k] = NewModelValidationInfo(c, g)
    \/ /\ k \in Tracked
       /\ \/ modelValidations'[k] = modelValidations[k]
          \/ \E c \in Config, g \in Generation :
                modelValidations'[k] = UpdateConfig(modelValidations[k], c, g)
          \/ \E pod \in PodInfo :
                \/ modelValidations'[k] = AddInjectedPod(modelValidations[k], pod)
                \/ modelValidations'[k] = AddUninjectedPod(modelValidations[k], pod)
          \/ \E u \in UID : modelValidations'[k] = RemovePod(modelValidations[k], u)

(* TrackPod leaves what is kept for a ModelValidation alone or adds the pod *)
(* to it.                                                                   *)
LEMMA TrackPodStep ==
    ASSUME TypeInv, NEW pod \in Pods, NEW k0, TrackPod(pod, k0), NEW k \in Tracked'
    PROVE  InfoStep(k)
<1> DEFINE info == [name |-> pod.name, uid |-> pod.uid, config |-> pod.config]
<1>1. info \in PodInfo
  BY TrackerAssumption DEF PodObject, PodInfo
<1> QED
  BY <1>1 DEF TrackPod, tables, Tracked, InfoStep

(* Untrack removes the pod from what is kept for every ModelValidation.     *)
LEMMA UntrackStep ==
    ASSUME NEW u \in UID, Untrack(u), NEW k \in Tracked'
    PROVE  InfoStep(k)
BY DEF Untrack, Tracked, InfoStep

(* No step changes what is kept for a ModelValidation in another way than   *)
(* the operations of model_validation_info.go.                              *)
LEMMA InfoSteps ==
    ASSUME TypeInv, [TrackerNext]_trackerVars, NEW k \in Tracked'
    PROVE  InfoStep(k)
<1>1. ASSUME modelValidations' = modelValidations PROVE InfoStep(k)
  BY <1>1 DEF Tracked, InfoStep
<1>2. ASSUME NEW k0 \in Key, NEW c \in Config, NEW g \in Generation,
             AddModelValidation(k0, c, g)
      PROVE  InfoStep(k)
  <2>1. CASE StartTracking(k0, c, g)
    BY <2>1 DEF StartTracking, Put, Tracked, InfoStep
  <2>2. CASE ContinueTracking(k0, c, g)
    BY <2>2 DEF ContinueTracking, Tracked, InfoStep
  <2> QED
    BY <1>2, <2>1, <2>2 DEF AddModelValidation
<1>3. ASSUME NEW k0 \in Key, RemoveModelValidation(k0) PROVE InfoStep(k)
  BY <1>3 DEF RemoveModelValidation, tables, Drop, Tracked, InfoStep
<1>4. ASSUME NEW pod \in Pods, ProcessPodEvent(pod) PROVE InfoStep(k)
  BY <1>1, <1>4, TrackPodStep DEF ProcessPodEvent, tables
<1>5. ASSUME NEW u \in UID, RemovePodEvent(u) PROVE InfoStep(k)
  BY <1>5, UntrackStep DEF RemovePodEvent
<1>6. ASSUME NEW n \in PodName, RemovePodByName(n) PROVE InfoStep(k)
  <2>1. n \in DOMAIN podMapping.uidOf => podMapping.uidOf[n] \in UID
    BY DEF TypeInv, TypeOK, IsPodMapping, IsMap
  <2> QED
    BY <1>1, <1>6, <2>1, UntrackStep DEF RemovePodByName
<1>7. CASE Controllers
  BY <1>1, <1>2, <1>3, <1>4, <1>5, <1>6, <1>7 DEF Controllers, EnqueueAdded, tables
<1>8. CASE Seeding
  <2>1. ASSUME NEW s \in Seeder, SeedPod(s) PROVE InfoStep(k)
    <3> PICK pod \in seeds[s].pods : TrackPod(pod, seeds[s].mv)
      BY <2>1 DEF SeedPod
    <3>1. pod \in Pods
      BY <2>1 DEF SeedPod, TypeInv, TypeOK, SeederState, IdleSeeder
    <3> QED
      BY <3>1, TrackPodStep
  <2> QED
    BY <1>1, <1>8, <2>1 DEF Seeding, SeedList, SeedFail, SeedDone, tables
<1>9. CASE Publishing
  <2>1. CASE Forget
    BY <2>1 DEF Forget, Drop, Tracked, InfoStep
  <2> QED
    BY <1>1, <1>9, <2>1
       DEF Publishing, WorkerGet, ReadError, ReadMissing, ReadFound, Compare,
           WriteDone, WriteFailed, WorkerDone, tables
<1>10. CASE NewStatusTracker
  BY <1>10 DEF NewStatusTracker, EmptyMap, Tracked
<1>11. CASE UNCHANGED trackerVars
  BY <1>1, <1>11 DEF trackerVars, tables
<1> QED
  BY <1>7, <1>8, <1>9, <1>10, <1>11 DEF TrackerNext

-----------------------------------------------------------------------------
(* Pods are in one category, injected pods match *)

Exclusive(info) ==
    /\ DOMAIN info.injected \cap DOMAIN info.orphaned = {}
    /\ DOMAIN info.injected \cap DOMAIN info.uninjected = {}
    /\ DOMAIN info.orphaned \cap DOMAIN info.uninjected = {}

Matching(info) == \A u \in DOMAIN info.injected : ~Drifted(info.injected[u], info.config)

(* RemovePod stops at the first map that has the pod; when a pod is in one  *)
(* only, it removes it altogether, and it adds none to any map.             *)
LEMMA RemovePodGone ==
    ASSUME NEW info, IsInfo(info), Exclusive(info), NEW u
    PROVE  /\ Exclusive(RemovePod(info, u))
           /\ u \notin PodsOf(RemovePod(info, u))
BY DEF IsInfo, Exclusive, RemovePod, Drop, PodsOf

(* Each of these operations keeps a pod in one category.                    *)
LEMMA ExclusiveOperations ==
    ASSUME NEW info, IsInfo(info), Exclusive(info)
    PROVE  /\ \A pod \in PodInfo : /\ Exclusive(AddInjectedPod(info, pod))
                                   /\ Exclusive(AddUninjectedPod(info, pod))
           /\ \A c \in Config, g \in Generation : Exclusive(UpdateConfig(info, c, g))
<1>1. ASSUME NEW pod \in PodInfo
      PROVE  /\ Exclusive(AddInjectedPod(info, pod))
             /\ Exclusive(AddUninjectedPod(info, pod))
  <2> DEFINE removed == RemovePod(info, pod.uid)
  <2>1. IsInfo(removed) /\ Exclusive(removed) /\ pod.uid \notin PodsOf(removed)
    BY RemovePodInfo, RemovePodGone
  <2> HIDE DEF removed
  <2>2. /\ Exclusive([removed EXCEPT !.orphaned = Put(@, pod.uid, pod)])
        /\ Exclusive([removed EXCEPT !.injected = Put(@, pod.uid, pod)])
        /\ Exclusive([removed EXCEPT !.uninjected = Put(@, pod.uid, pod)])
    BY <2>1 DEF IsInfo, Exclusive, PodsOf, Put
  <2> QED
    BY <2>2 DEF AddInjectedPod, AddUninjectedPod, removed
<1>2. \A c \in Config, g \in Generation : Exclusive(UpdateConfig(info, c, g))
  BY DEF IsInfo, Exclusive, UpdateConfig, DriftedPods, Drop
<1> QED
  BY <1>1, <1>2

(* Each of them keeps drifted pods out of the injected ones.                *)
LEMMA MatchingOperations ==
    ASSUME NEW info, IsInfo(info), Matching(info)
    PROVE  /\ \A u : Matching(RemovePod(info, u))
           /\ \A pod \in PodInfo : /\ Matching(AddInjectedPod(info, pod))
                                   /\ Matching(AddUninjectedPod(info, pod))
           /\ \A c \in Config, g \in Generation : Matching(UpdateConfig(info, c, g))
<1>1. ASSUME NEW u PROVE /\ Matching(RemovePod(info, u))
                         /\ RemovePod(info, u).config = info.config
  BY DEF IsInfo, Matching, RemovePod, Drop
<1>2. ASSUME NEW pod \in PodInfo
      PROVE  /\ Matching(AddInjectedPod(info, pod))
             /\ Matching(AddUninjectedPod(info, pod))
  <2> DEFINE removed == RemovePod(info, pod.uid)
  <2>1. IsInfo(removed) /\ Matching(removed) /\ removed.config = info.config
    BY <1>1, RemovePodInfo
  <2> HIDE DEF removed
  <2>2. /\ Matching([removed EXCEPT !.orphaned = Put(@, pod.uid, pod)])
        /\ Matching([removed EXCEPT !.uninjected = Put(@, pod.uid, pod)])
    BY <2>1 DEF IsInfo, Matching
  <2>3. ~Drifted(pod, info.config) =>
            Matching([removed EXCEPT !.injected = Put(@, pod.uid, pod)])
    BY <2>1 DEF IsInfo, Matching, Put
  <2> QED
    BY <2>2, <2>3 DEF AddInjectedPod, AddUninjectedPod, removed
<1>3. \A c \in Config, g \in Generation : Matching(UpdateConfig(info, c, g))
  BY DEF IsInfo, Matching, UpdateConfig, DriftedPods, Drop
<1> QED
  BY <1>1, <1>2, <1>3

(* No pod is in two categories of a ModelValidation, whatever sequence of   *)
(* pod events, configuration changes and removals led here.                 *)
THEOREM OneCategoryAlways == TrackerSpec => []OneCategory
<1>1. TrackerInit => OneCategory
  BY DEF TrackerInit, OneCategory, Tracked, EmptyMap
<1>2. TypeInv /\ OneCategory /\ [TrackerNext]_trackerVars => OneCategory'
  <2> SUFFICES ASSUME TypeInv, OneCategory, [TrackerNext]_trackerVars, NEW k \in Tracked'
               PROVE  Exclusive(modelValidations'[k])
    BY DEF OneCategory, Exclusive, Tracked
  <2>1. InfoStep(k)
    BY InfoSteps
  <2>2. k \in Tracked => IsInfo(modelValidations[k]) /\ Exclusive(modelValidations[k])
    BY DEF TypeInv, TypeOK, IsTracking, OneCategory, Exclusive, Tracked
  <2>3. \A c \in Config, g \in Generation : Exclusive(NewModelValidationInfo(c, g))
    BY DEF Exclusive, NewModelValidationInfo, EmptyMap
  <2>4. CASE k \in Tracked
    BY <2>1, <2>2, <2>3, <2>4, RemovePodGone, ExclusiveOperations DEF InfoStep
  <2>5. CASE k \notin Tracked
    BY <2>1, <2>3, <2>5 DEF InfoStep
  <2> QED
    BY <2>4, <2>5
<1> QED
  BY <1>1, <1>2, InitTypes, NextTypes, PTL DEF TrackerSpec

(* No injected pod has an annotation that contradicts the configuration the *)
(* tracker has: such a pod is orphaned, by AddInjectedPod or UpdateConfig.  *)
THEOREM InjectedMatchAlways == TrackerSpec => []InjectedMatch
<1>1. TrackerInit => InjectedMatch
  BY DEF TrackerInit, InjectedMatch, Tracked, EmptyMap
<1>2. TypeInv /\ InjectedMatch /\ [TrackerNext]_trackerVars => InjectedMatch'
  <2> SUFFICES ASSUME TypeInv, InjectedMatch, [TrackerNext]_trackerVars, NEW k \in Tracked'
               PROVE  Matching(modelValidations'[k])
    BY DEF InjectedMatch, Matching, Tracked
  <2>1. InfoStep(k)
    BY InfoSteps
  <2>2. k \in Tracked => IsInfo(modelValidations[k]) /\ Matching(modelValidations[k])
    BY DEF TypeInv, TypeOK, IsTracking, InjectedMatch, Matching, Tracked
  <2>3. \A c \in Config, g \in Generation : Matching(NewModelValidationInfo(c, g))
    BY DEF Matching, NewModelValidationInfo, EmptyMap
  <2>4. CASE k \in Tracked
    BY <2>1, <2>2, <2>3, <2>4, MatchingOperations DEF InfoStep
  <2>5. CASE k \notin Tracked
    BY <2>1, <2>3, <2>5 DEF InfoStep
  <2> QED
    BY <2>4, <2>5
<1> QED
  BY <1>1, <1>2, InitTypes, NextTypes, PTL DEF TrackerSpec
-----------------------------------------------------------------------------
(* Namespace counters *)

CountedIn(ns, ks) == {k \in ks : NamespaceOf[k] = ns}

(* A step removes ModelValidations and leaves the counters, or it begins or *)
(* ends the tracking of one and counts it, or it starts from nothing.       *)
CountStep ==
    \/ Tracked' \subseteq Tracked /\ mvNamespaces' = mvNamespaces
    \/ \E k \in Key :
          /\ Tracked' = Tracked \cup {k}
          /\ mvNamespaces' = Put(mvNamespaces, NamespaceOf[k], CountOf(NamespaceOf[k]) + 1)
    \/ \E k \in Tracked :
          /\ Tracked' = Tracked \ {k}
          /\ mvNamespaces' = Uncount(NamespaceOf[k])
    \/ Tracked' = {} /\ mvNamespaces' = EmptyMap

(* Counters and the table of ModelValidations change together, except that  *)
(* Forget leaves the counter.                                               *)
LEMMA CountSteps == TypeInv /\ [TrackerNext]_trackerVars => CountStep
<1> SUFFICES ASSUME TypeInv, [TrackerNext]_trackerVars PROVE CountStep
  OBVIOUS
<1>1. ASSUME modelValidations' = modelValidations, mvNamespaces' = mvNamespaces
      PROVE  CountStep
  BY <1>1 DEF Tracked, CountStep
<1>2. ASSUME NEW pod, NEW k, TrackPod(pod, k) PROVE CountStep
  BY <1>2 DEF TrackPod, tables, Tracked, CountStep
<1>3. ASSUME NEW u, Untrack(u), mvNamespaces' = mvNamespaces PROVE CountStep
  BY <1>3 DEF Untrack, Tracked, CountStep
<1>4. ASSUME NEW k \in Key, NEW c \in Config, NEW g \in Generation, AddModelValidation(k, c, g)
      PROVE  CountStep
  BY <1>4 DEF AddModelValidation, StartTracking, ContinueTracking, Put, Tracked, CountStep
<1>5. ASSUME NEW k \in Key, RemoveModelValidation(k) PROVE CountStep
  BY <1>5 DEF RemoveModelValidation, tables, Drop, Tracked, CountStep
<1>6. CASE Controllers
  BY <1>1, <1>2, <1>3, <1>4, <1>5, <1>6
     DEF Controllers, EnqueueAdded, ProcessPodEvent, RemovePodEvent, RemovePodByName, tables
<1>7. CASE Seeding
  BY <1>1, <1>2, <1>7 DEF Seeding, SeedList, SeedFail, SeedPod, SeedDone, tables
<1>8. CASE Publishing
  <2>1. CASE Forget
    BY <2>1 DEF Forget, Drop, Tracked, CountStep
  <2> QED
    BY <1>1, <1>8, <2>1
       DEF Publishing, WorkerGet, ReadError, ReadMissing, ReadFound, Compare,
           WriteDone, WriteFailed, WorkerDone, tables
<1>9. CASE NewStatusTracker
  BY <1>9 DEF NewStatusTracker, EmptyMap, Tracked, CountStep
<1>10. CASE UNCHANGED trackerVars
  BY <1>1, <1>10 DEF trackerVars, tables
<1> QED
  BY <1>6, <1>7, <1>8, <1>9, <1>10 DEF TrackerNext

(* A namespace's counter is never below the number of its ModelValidations  *)
(* that are tracked: RemoveModelValidation counts down for no other.        *)
THEOREM CountsTrackedAlways == TrackerSpec => []CountsTracked
<1>1. TrackerInit => CountsTracked
  <2> SUFFICES ASSUME TrackerInit, NEW ns \in Namespace
               PROVE  Cardinality(CountedIn(ns, Tracked)) <= CountOf(ns)
    BY DEF CountsTracked, CountedIn
  <2>1. CountedIn(ns, Tracked) = {} /\ CountOf(ns) = 0
    BY DEF TrackerInit, CountedIn, Tracked, CountOf, EmptyMap
  <2> QED
    BY <2>1, FS_EmptySet
<1>2. TypeInv /\ CountsTracked /\ [TrackerNext]_trackerVars => CountsTracked'
  <2> SUFFICES ASSUME TypeInv, CountsTracked, [TrackerNext]_trackerVars,
                      NEW ns \in Namespace
               PROVE  Cardinality(CountedIn(ns, Tracked')) <= CountOf(ns)'
    BY DEF CountsTracked, CountedIn
  <2> DEFINE before == CountedIn(ns, Tracked)
             after  == CountedIn(ns, Tracked')
  <2>1. IsFiniteSet(before) /\ Cardinality(before) \in Nat
    <3>1. before \subseteq Key
      BY DEF TypeInv, TypeOK, IsTracking, Tracked, CountedIn
    <3> QED
      BY <3>1, TrackerAssumption, FS_Subset, FS_CardinalityType
  <2>2. Cardinality(before) <= CountOf(ns)
    BY DEF CountsTracked, CountedIn
  <2>3. \A n \in Namespace : CountOf(n) \in Nat
    BY DEF CountOf, TypeInv, TypeOK, IsMap
  <2>4. CountStep
    BY CountSteps
  <2>5. CASE Tracked' \subseteq Tracked /\ mvNamespaces' = mvNamespaces
    <3>1. after \subseteq before /\ CountOf(ns)' = CountOf(ns)
      BY <2>5 DEF CountedIn, CountOf
    <3>2. Cardinality(after) \in Nat /\ Cardinality(after) <= Cardinality(before)
      BY <2>1, <3>1, FS_Subset, FS_CardinalityType
    <3> QED
      BY <2>1, <2>2, <2>3, <3>1, <3>2
  <2>6. ASSUME NEW k \in Key,
               Tracked' = Tracked \cup {k},
               mvNamespaces' = Put(mvNamespaces, NamespaceOf[k], CountOf(NamespaceOf[k]) + 1)
        PROVE  Cardinality(after) <= CountOf(ns)'
    <3>1. CASE NamespaceOf[k] # ns
      <4>1. after = before /\ CountOf(ns)' = CountOf(ns)
        BY <2>6, <3>1 DEF CountedIn, CountOf, Put
      <4> QED
        BY <2>2, <4>1
    <3>2. CASE NamespaceOf[k] = ns
      <4>1. after = before \cup {k} /\ CountOf(ns)' = CountOf(ns) + 1
        BY <2>6, <3>2 DEF CountedIn, CountOf, Put
      <4>2. /\ Cardinality(after) \in Nat
            /\ Cardinality(after) <= Cardinality(before) + 1
        <5>1. /\ IsFiniteSet(after)
              /\ Cardinality(after) = IF k \in before THEN Cardinality(before)
                                                      ELSE Cardinality(before) + 1
          BY <2>1, <4>1, FS_AddElement
        <5>2. Cardinality(after) \in Nat
          BY <5>1, FS_CardinalityType
        <5> HIDE DEF before, after
        <5> QED
          BY <2>1, <5>1, <5>2
      <4> QED
        BY <2>1, <2>2, <2>3, <4>1, <4>2
    <3> QED
      BY <3>1, <3>2
  <2>7. ASSUME NEW k \in Tracked,
               Tracked' = Tracked \ {k},
               mvNamespaces' = Uncount(NamespaceOf[k])
        PROVE  Cardinality(after) <= CountOf(ns)'
    <3>1. CASE NamespaceOf[k] # ns
      <4>1. after = before /\ CountOf(ns)' = CountOf(ns)
        BY <2>7, <3>1 DEF CountedIn, CountOf, Uncount, Put, Drop
      <4> QED
        BY <2>2, <4>1
    <3>2. CASE NamespaceOf[k] = ns
      <4>1. after = before \ {k} /\ k \in before
        BY <2>7, <3>2 DEF CountedIn
      <4>2. /\ Cardinality(after) \in Nat
            /\ Cardinality(after) = Cardinality(before) - 1
        BY <2>1, <4>1, FS_RemoveElement, FS_CardinalityType
      <4>3. CountOf(ns)' >= CountOf(ns) - 1 /\ CountOf(ns)' \in Nat
        BY <2>3, <2>7, <3>2 DEF CountOf, Uncount, Put, Drop
      <4> QED
        BY <2>1, <2>2, <2>3, <4>2, <4>3
    <3> QED
      BY <3>1, <3>2
  <2>8. CASE Tracked' = {} /\ mvNamespaces' = EmptyMap
    <3>1. after = {} /\ CountOf(ns)' = 0
      BY <2>8 DEF CountedIn, CountOf, EmptyMap
    <3> QED
      BY <3>1, FS_EmptySet
  <2> QED
    BY <2>4, <2>5, <2>6, <2>7, <2>8 DEF CountStep
<1> QED
  BY <1>1, <1>2, InitTypes, NextTypes, PTL DEF TrackerSpec
-----------------------------------------------------------------------------
(* Pod names *)

(* Every entry of nameToUID comes from a pod object.                        *)
NamesSeen == \A n \in DOMAIN podMapping.uidOf :
                 \E pod \in Pods : pod.name = n /\ pod.uid = podMapping.uidOf[n]

MappingStep ==
    \/ podMapping' = podMapping
    \/ \E pod \in Pods : podMapping' = AddPod(podMapping, pod.name, pod.uid)
    \/ \E names : podMapping' = RemovePodsByName(podMapping, names)
    \/ podMapping' = NewPodMapping

(* No step changes the name mapping in another way than the operations of   *)
(* pod_mapping.go.                                                          *)
LEMMA MappingSteps == TypeInv /\ [TrackerNext]_trackerVars => MappingStep
<1> SUFFICES ASSUME TypeInv, [TrackerNext]_trackerVars PROVE MappingStep
  OBVIOUS
<1>1. ASSUME podMapping' = podMapping PROVE MappingStep
  BY <1>1 DEF MappingStep
<1>2. ASSUME NEW pod \in Pods, NEW k, TrackPod(pod, k) PROVE MappingStep
  BY <1>2 DEF TrackPod, tables, MappingStep
<1>3. CASE Controllers
  BY <1>1, <1>2, <1>3
     DEF Controllers, AddModelValidation, EnqueueAdded, RemoveModelValidation,
         ProcessPodEvent, RemovePodEvent, RemovePodByName, tables, MappingStep
<1>4. CASE Seeding
  <2>1. ASSUME NEW s \in Seeder, SeedPod(s) PROVE MappingStep
    <3> PICK pod \in seeds[s].pods : TrackPod(pod, seeds[s].mv)
      BY <2>1 DEF SeedPod
    <3>1. pod \in Pods
      BY <2>1 DEF SeedPod, TypeInv, TypeOK, SeederState, IdleSeeder
    <3> QED
      BY <3>1, <1>2
  <2> QED
    BY <1>1, <1>4, <2>1 DEF Seeding, SeedList, SeedFail, SeedDone, tables
<1>5. CASE Publishing
  BY <1>1, <1>5
     DEF Publishing, WorkerGet, ReadError, ReadMissing, ReadFound, Forget, Compare,
         WriteDone, WriteFailed, WorkerDone, tables
<1>6. CASE NewStatusTracker
  BY <1>6 DEF NewStatusTracker, MappingStep
<1>7. CASE UNCHANGED trackerVars
  BY <1>1, <1>7 DEF trackerVars, tables
<1> QED
  BY <1>3, <1>4, <1>5, <1>6, <1>7 DEF TrackerNext

(* The UID a name leads to leads back to that name, although AddPod does    *)
(* not clear the other entries of a name it maps again: no UID is ever      *)
(* given to pods of two names.                                              *)
THEOREM NamesLeadBackAlways == TrackerSpec => []NamesLeadBack
<1> DEFINE Inv == NamesLeadBack /\ NamesSeen
<1>1. TrackerInit => Inv
  BY DEF TrackerInit, NamesLeadBack, NamesSeen, NewPodMapping, EmptyMap
<1>2. TypeInv /\ Inv /\ [TrackerNext]_trackerVars => Inv'
  <2> SUFFICES ASSUME TypeInv, Inv, [TrackerNext]_trackerVars PROVE Inv'
    OBVIOUS
  <2>1. IsPodMapping(podMapping, PodName, UID)
    BY DEF TypeInv, TypeOK
  <2>2. CASE podMapping' = podMapping
    BY <2>2 DEF NamesLeadBack, NamesSeen
  <2>3. ASSUME NEW pod \in Pods, podMapping' = AddPod(podMapping, pod.name, pod.uid)
        PROVE  Inv'
    <3>1. /\ DOMAIN podMapping'.uidOf = DOMAIN podMapping.uidOf \cup {pod.name}
          /\ DOMAIN podMapping'.nameOf = DOMAIN podMapping.nameOf \cup {pod.uid}
          /\ podMapping'.uidOf[pod.name] = pod.uid
          /\ podMapping'.nameOf[pod.uid] = pod.name
      BY <2>3 DEF AddPod, removePod, Put, Drop
    <3>2. ASSUME NEW n \in DOMAIN podMapping.uidOf, n # pod.name
          PROVE  /\ podMapping'.uidOf[n] = podMapping.uidOf[n]
                 /\ podMapping.uidOf[n] # pod.uid
      BY <2>3, <3>2, TrackerAssumption DEF AddPod, removePod, Put, Drop, NamesSeen, UIDsUnique
    <3>3. ASSUME NEW u \in DOMAIN podMapping.nameOf, u # pod.uid
          PROVE  podMapping'.nameOf[u] = podMapping.nameOf[u]
      BY <2>3, <3>3 DEF AddPod, removePod, Put, Drop
    <3>4. NamesSeen'
      BY <3>1, <3>2 DEF NamesSeen
    <3>5. NamesLeadBack'
      BY <3>1, <3>2, <3>3 DEF NamesLeadBack
    <3> QED
      BY <3>4, <3>5
  <2>4. ASSUME NEW names, podMapping' = RemovePodsByName(podMapping, names)
        PROVE  Inv'
    <3> DEFINE uids == {podMapping.uidOf[n] : n \in names \cap DOMAIN podMapping.uidOf}
    <3>1. /\ podMapping'.uidOf = Drop(podMapping.uidOf, names)
          /\ podMapping'.nameOf = Drop(podMapping.nameOf, uids)
      BY <2>4 DEF RemovePodsByName
    <3>2. \A n \in DOMAIN podMapping.uidOf \ names : podMapping.uidOf[n] \notin uids
      BY DEF NamesLeadBack
    <3> QED
      BY <3>1, <3>2 DEF NamesLeadBack, NamesSeen, Drop
  <2>5. CASE podMapping' = NewPodMapping
    BY <2>5 DEF NamesLeadBack, NamesSeen, NewPodMapping, EmptyMap
  <2> QED
    BY <2>2, <2>3, <2>4, <2>5, MappingSteps DEF MappingStep
<1> QED
  BY <1>1, <1>2, InitTypes, NextTypes, PTL DEF TrackerSpec
-----------------------------------------------------------------------------
(* No change goes unpublished *)

(* Nothing in this specification closes the queue.                          *)
QueueOpen == closed = FALSE

Announced(k) == k \in pending' \cup {adding'}

PublishedStep(k) ==
    (k \in Tracked => StatusOf(modelValidations'[k]) # StatusOf(modelValidations[k]))
        => Announced(k)

(* Removing a pod that a ModelValidation does not list changes nothing.     *)
LEMMA RemoveOther ==
    ASSUME NEW info, IsInfo(info), NEW u, u \notin PodsOf(info)
    PROVE  StatusOf(RemovePod(info, u)) = StatusOf(info)
BY DEF IsInfo, PodsOf, RemovePod, Drop, StatusOf

(* A queue that is open takes what is added to it.                          *)
LEMMA AddAnnounces ==
    ASSUME QueueOpen, NEW ks, Add(ks)
    PROVE  ks \subseteq pending' /\ QueueOpen'
BY DEF QueueOpen, Add, AddAll

(* TrackPod leaves an update of the ModelValidation it changes pending.     *)
LEMMA TrackPodPublishes ==
    ASSUME QueueOpen, NEW pod, NEW k0, TrackPod(pod, k0), NEW k \in Tracked'
    PROVE  PublishedStep(k)
<1>1. CASE k0 \notin Tracked
  BY <1>1 DEF TrackPod, tables, Tracked, PublishedStep
<1>2. CASE k0 \in Tracked
  <2>1. k0 \in pending'
    BY <1>2, AddAnnounces DEF TrackPod
  <2>2. k # k0 => k \in Tracked /\ modelValidations'[k] = modelValidations[k]
    BY <1>2 DEF TrackPod, Tracked
  <2> QED
    BY <2>1, <2>2 DEF PublishedStep, Announced
<1> QED
  BY <1>1, <1>2

(* Untrack leaves an update pending of each ModelValidation that listed the *)
(* pod.                                                                     *)
LEMMA UntrackPublishes ==
    ASSUME TypeInv, QueueOpen, NEW u, Untrack(u), NEW k \in Tracked'
    PROVE  PublishedStep(k)
<1>1. k \in Tracked /\ modelValidations'[k] = RemovePod(modelValidations[k], u)
  BY DEF Untrack, Tracked
<1>2. IsInfo(modelValidations[k])
  BY <1>1 DEF TypeInv, TypeOK, IsTracking, Tracked
<1>3. u \in PodsOf(modelValidations[k]) => k \in pending'
  BY <1>1, AddAnnounces DEF Untrack
<1> QED
  BY <1>1, <1>2, <1>3, RemoveOther DEF PublishedStep, Announced

(* Every step keeps the queue open and announces what it changes.           *)
LEMMA StepsPublish ==
    ASSUME TypeInv, QueueOpen, [TrackerNext]_trackerVars
    PROVE  QueueOpen' /\ \A k \in Tracked' : PublishedStep(k)
<1>1. ASSUME modelValidations' = modelValidations, NEW k \in Tracked' PROVE PublishedStep(k)
  BY <1>1 DEF Tracked, PublishedStep
<1>2. ASSUME NEW ks, Add(ks) PROVE QueueOpen'
  BY <1>2, AddAnnounces
<1>3. ASSUME UNCHANGED queueVars PROVE QueueOpen'
  BY <1>3 DEF queueVars, QueueOpen
<1>4. ASSUME NEW pod, NEW k0, TrackPod(pod, k0) PROVE QueueOpen'
  BY <1>2, <1>3, <1>4 DEF TrackPod
<1>5. CASE Controllers
  <2>1. ASSUME NEW k0 \in Key, NEW c \in Config, NEW g \in Generation,
               AddModelValidation(k0, c, g), NEW k \in Tracked'
        PROVE  PublishedStep(k)
    <3>1. k # k0 => k \in Tracked /\ modelValidations'[k] = modelValidations[k]
      BY <2>1 DEF AddModelValidation, StartTracking, ContinueTracking, Put, Tracked
    <3>2. adding' = k0
      BY <2>1 DEF AddModelValidation
    <3> QED
      BY <3>1, <3>2 DEF PublishedStep, Announced
  <2>2. ASSUME NEW k0 \in Key, RemoveModelValidation(k0), NEW k \in Tracked'
        PROVE  PublishedStep(k)
    BY <2>2 DEF RemoveModelValidation, tables, Drop, Tracked, PublishedStep
  <2>3. \A k \in Tracked' : PublishedStep(k)
    BY <1>1, <1>5, <2>1, <2>2, TrackPodPublishes, UntrackPublishes
       DEF Controllers, EnqueueAdded, ProcessPodEvent, RemovePodEvent, RemovePodByName, tables
  <2>4. QueueOpen'
    BY <1>2, <1>3, <1>4, <1>5
       DEF Controllers, AddModelValidation, EnqueueAdded, RemoveModelValidation,
           ProcessPodEvent, RemovePodEvent, RemovePodByName, Untrack
  <2> QED
    BY <2>3, <2>4
<1>6. CASE Seeding
  BY <1>1, <1>3, <1>4, <1>6, TrackPodPublishes
     DEF Seeding, SeedList, SeedFail, SeedPod, SeedDone, tables
<1>7. CASE Publishing
  <2>1. ASSUME NEW k \in Tracked' PROVE PublishedStep(k)
    <3>1. CASE Forget
      BY <3>1 DEF Forget, Drop, Tracked, PublishedStep
    <3> QED
      BY <1>1, <1>7, <3>1
         DEF Publishing, WorkerGet, ReadError, ReadMissing, ReadFound, Compare,
             WriteDone, WriteFailed, WorkerDone, tables
  <2>2. QueueOpen'
    <3>1. ASSUME NEW k \in Key, WorkerGet(k) PROVE QueueOpen'
      BY <3>1 DEF WorkerGet, Get, QueueOpen
    <3>2. CASE WorkerDone
      BY <3>2 DEF WorkerDone, Done, QueueOpen
    <3> QED
      BY <1>2, <1>3, <1>7, <3>1, <3>2
         DEF Publishing, ReadError, ReadMissing, ReadFound, Forget, Compare,
             WriteDone, WriteFailed, Retry, Succeed
  <2> QED
    BY <2>1, <2>2
<1>8. CASE NewStatusTracker
  BY <1>8 DEF NewStatusTracker, EmptyMap, Tracked, QueueOpen
<1>9. CASE UNCHANGED trackerVars
  BY <1>1, <1>3, <1>9 DEF trackerVars, tables
<1> QED
  BY <1>5, <1>6, <1>7, <1>8, <1>9 DEF TrackerNext

(* No handler changes what would be published of a ModelValidation without  *)
(* an update of it being pending, or about to be added, after the step.     *)
THEOREM ChangesPublished == TrackerSpec => ChangesArePublished
<1>1. TrackerInit => QueueOpen
  BY DEF TrackerInit, QueueInit, QueueOpen
<1>2. TypeInv /\ QueueOpen /\ [TrackerNext]_trackerVars => QueueOpen'
  BY StepsPublish
<1>3. TypeInv /\ QueueOpen /\ [TrackerNext]_trackerVars
        => [\A k \in Tracked' :
              (k \in Tracked => StatusOf(modelValidations'[k]) # StatusOf(modelValidations[k]))
                 => k \in pending' \cup {adding'}]_trackerVars
  BY StepsPublish DEF PublishedStep, Announced
<1> QED
  BY <1>1, <1>2, <1>3, InitTypes, NextTypes, PTL DEF TrackerSpec, ChangesArePublished
-----------------------------------------------------------------------------
(* Names of tracked pods *)

(* RemovePod and UpdateConfig bring no pod into the tables, AddInjectedPod  *)
(* and AddUninjectedPod only theirs.                                        *)
LEMMA RemovePodPods ==
    ASSUME NEW info, IsInfo(info), NEW u
    PROVE  GetAllPods(RemovePod(info, u)) \subseteq GetAllPods(info)
BY DEF IsInfo, RemovePod, Drop, GetAllPods

LEMMA AddPodPods ==
    ASSUME NEW info, IsInfo(info), NEW pod \in PodInfo
    PROVE  /\ GetAllPods(AddInjectedPod(info, pod)) \subseteq GetAllPods(info) \cup {pod}
           /\ GetAllPods(AddUninjectedPod(info, pod)) \subseteq GetAllPods(info) \cup {pod}
<1> DEFINE removed == RemovePod(info, pod.uid)
<1>1. IsInfo(removed) /\ GetAllPods(removed) \subseteq GetAllPods(info)
  BY RemovePodInfo, RemovePodPods
<1> HIDE DEF removed
<1>2. /\ GetAllPods([removed EXCEPT !.orphaned = Put(@, pod.uid, pod)])
           \subseteq GetAllPods(removed) \cup {pod}
      /\ GetAllPods([removed EXCEPT !.injected = Put(@, pod.uid, pod)])
           \subseteq GetAllPods(removed) \cup {pod}
      /\ GetAllPods([removed EXCEPT !.uninjected = Put(@, pod.uid, pod)])
           \subseteq GetAllPods(removed) \cup {pod}
  BY <1>1 DEF IsInfo, GetAllPods, Put
<1> QED
  BY <1>1, <1>2 DEF AddInjectedPod, AddUninjectedPod, removed

LEMMA UpdateConfigPods ==
    ASSUME NEW info, IsInfo(info), NEW c \in Config, NEW g \in Generation
    PROVE  GetAllPods(UpdateConfig(info, c, g)) \subseteq GetAllPods(info)
BY DEF IsInfo, UpdateConfig, DriftedPods, Drop, GetAllPods

(* A pod in a table is there under its UID.                                 *)
LEMMA PodsByUID ==
    ASSUME NEW info, IsInfo(info), NEW pod \in GetAllPods(info)
    PROVE  pod.uid \in PodsOf(info)
BY DEF IsInfo, IsPodTable, GetAllPods, PodsOf

(* The lists of the seeding goroutines hold pods with the label they list.  *)
SeedsLabelled ==
    \A s \in Seeder : seeds[s].pc = "process" =>
                          seeds[s].pods \subseteq LabelledPods(seeds[s].mv)

(* A pod is tracked under k because it was reported with that label.        *)
Reported(pod, k) == \E p \in LabelledPods(k) : p.name = pod.name /\ p.uid = pod.uid

PodsReported ==
    \A k \in Tracked : \A pod \in GetAllPods(modelValidations[k]) : Reported(pod, k)

(* What becomes of the pods of the tables and of the name mapping together. *)
PodsStay == \A k \in Tracked' :
                /\ k \in Tracked
                /\ GetAllPods(modelValidations'[k]) \subseteq GetAllPods(modelValidations[k])

PodTracked(pod) ==
    /\ podMapping' = AddPod(podMapping, pod.name, pod.uid)
    /\ \A k \in Tracked' :
          /\ k \in Tracked
          /\ \A q \in GetAllPods(modelValidations'[k]) :
                \/ q \in GetAllPods(modelValidations[k])
                \/ q.name = pod.name /\ q.uid = pod.uid /\ k = pod.label

NewOrSamePods == /\ podMapping' = podMapping
                 /\ \A k \in Tracked' : \A q \in GetAllPods(modelValidations'[k]) :
                        k \in Tracked /\ q \in GetAllPods(modelValidations[k])

PodsOfRemoved(k0) ==
    /\ k0 \in Tracked /\ k0 \notin Tracked' /\ PodsStay
    /\ podMapping' = RemovePodsByName(podMapping,
                         {p.name : p \in GetAllPods(modelValidations[k0])})

NameUntracked(n) ==
    /\ n \in DOMAIN podMapping.uidOf /\ PodsStay
    /\ \A k \in Tracked' : podMapping.uidOf[n] \notin PodsOf(modelValidations'[k])
    /\ podMapping' = RemovePodsByName(podMapping, {n})

PodsStep == \/ NewOrSamePods
            \/ \E pod \in Pods : PodTracked(pod)
            \/ \E k0 \in Key : PodsOfRemoved(k0)
            \/ \E n \in PodName : NameUntracked(n)
            \/ Tracked' = {}

(* The lists keep their label.                                              *)
LEMMA SeedsKeepLabel ==
    TypeInv /\ SeedsLabelled /\ [TrackerNext]_trackerVars => SeedsLabelled'
<1> SUFFICES ASSUME TypeInv, SeedsLabelled, [TrackerNext]_trackerVars PROVE SeedsLabelled'
  OBVIOUS
<1>1. seeds' = seeds => SeedsLabelled'
  BY DEF SeedsLabelled
<1>2. ASSUME NEW k \in Key, NEW c \in Config, NEW g \in Generation, AddModelValidation(k, c, g)
      PROVE  SeedsLabelled'
  BY <1>1, <1>2
     DEF AddModelValidation, StartTracking, ContinueTracking, SeedsLabelled, TypeInv, TypeOK
<1>3. CASE Controllers
  <2>1. ASSUME NEW k \in Key, RemoveModelValidation(k) PROVE SeedsLabelled'
    BY <1>1, <2>1 DEF RemoveModelValidation
  <2>2. ASSUME NEW pod \in Pods, ProcessPodEvent(pod) PROVE SeedsLabelled'
    BY <1>1, <2>2 DEF ProcessPodEvent
  <2> QED
    BY <1>1, <1>2, <1>3, <2>1, <2>2
       DEF Controllers, EnqueueAdded, RemovePodEvent, RemovePodByName
<1>4. CASE Seeding
  <2> PICK s \in Seeder :
           \/ /\ seeds[s].pc = "list"
              /\ \E pods \in SUBSET LabelledPods(seeds[s].mv) : SeedList(s, pods)
           \/ SeedFail(s) \/ SeedPod(s) \/ SeedDone(s)
    BY <1>4 DEF Seeding
  <2>1. \/ seeds'[s] = IdleSeeder
        \/ /\ seeds'[s].mv = seeds[s].mv
           /\ \/ seeds'[s].pods \subseteq LabelledPods(seeds[s].mv)
              \/ seeds[s].pc = "process" /\ seeds'[s].pods \subseteq seeds[s].pods
    BY DEF SeedList, SeedFail, SeedPod, SeedDone, TypeInv, TypeOK, SeederState, IdleSeeder
  <2>2. \A t \in Seeder : t # s => seeds'[t] = seeds[t]
    BY DEF SeedList, SeedFail, SeedPod, SeedDone, TypeInv, TypeOK
  <2>3. seeds'[s].pc = "process" => seeds'[s].pods \subseteq LabelledPods(seeds'[s].mv)
    BY <2>1 DEF SeedsLabelled, IdleSeeder
  <2> QED
    BY <2>2, <2>3 DEF SeedsLabelled, LabelledPods
<1>5. CASE Publishing
  BY <1>1, <1>5
     DEF Publishing, WorkerGet, ReadError, ReadMissing, ReadFound, Forget, Compare,
         WriteDone, WriteFailed, WorkerDone
<1>6. CASE NewStatusTracker
  BY <1>6 DEF NewStatusTracker, IdleSeeder, SeedsLabelled
<1>7. CASE UNCHANGED trackerVars
  BY <1>1, <1>7 DEF trackerVars
<1> QED
  BY <1>3, <1>4, <1>5, <1>6, <1>7 DEF TrackerNext

(* TrackPod enters the pod it is given and maps its name.                   *)
LEMMA TrackPodPods ==
    ASSUME TypeInv, NEW k0, NEW pod \in LabelledPods(k0), TrackPod(pod, k0)
    PROVE  PodsStep
<1> DEFINE info == [name |-> pod.name, uid |-> pod.uid, config |-> pod.config]
<1>1. pod \in Pods /\ pod.label = k0 /\ info \in PodInfo
  BY TrackerAssumption DEF LabelledPods, PodObject, PodInfo
<1>2. CASE k0 \notin Tracked
  BY <1>2 DEF TrackPod, tables, Tracked, PodsStep, NewOrSamePods
<1>3. CASE k0 \in Tracked
  <2>1. Tracked' = Tracked /\ podMapping' = AddPod(podMapping, pod.name, pod.uid)
    BY <1>3 DEF TrackPod, Tracked
  <2>2. \A k \in Tracked : k # k0 => modelValidations'[k] = modelValidations[k]
    BY <1>3 DEF TrackPod, Tracked
  <2>3. \/ modelValidations'[k0] = AddInjectedPod(modelValidations[k0], info)
        \/ modelValidations'[k0] = AddUninjectedPod(modelValidations[k0], info)
    BY <1>3 DEF TrackPod, Tracked
  <2>4. IsInfo(modelValidations[k0])
    BY <1>3 DEF TypeInv, TypeOK, IsTracking, Tracked
  <2>5. GetAllPods(modelValidations'[k0]) \subseteq GetAllPods(modelValidations[k0]) \cup {info}
    BY <1>1, <2>3, <2>4, AddPodPods
  <2> QED
    BY <1>1, <2>1, <2>2, <2>5 DEF PodsStep, PodTracked
<1> QED
  BY <1>2, <1>3

(* Untrack removes the pod with the UID, once and for all.                  *)
LEMMA UntrackPods ==
    ASSUME TypeInv, OneCategory, NEW u, Untrack(u)
    PROVE  PodsStay /\ \A k \in Tracked' : u \notin PodsOf(modelValidations'[k])
<1>1. /\ Tracked' = Tracked
      /\ \A k \in Tracked : modelValidations'[k] = RemovePod(modelValidations[k], u)
  BY DEF Untrack, Tracked
<1>2. \A k \in Tracked : IsInfo(modelValidations[k]) /\ Exclusive(modelValidations[k])
  BY DEF TypeInv, TypeOK, IsTracking, OneCategory, Exclusive, Tracked
<1> QED
  BY <1>1, <1>2, RemovePodPods, RemovePodGone DEF PodsStay

(* No step changes pods and names in another way.                           *)
LEMMA PodsSteps ==
    ASSUME TypeInv, OneCategory, SeedsLabelled, [TrackerNext]_trackerVars
    PROVE  PodsStep
<1>1. ASSUME modelValidations' = modelValidations, podMapping' = podMapping PROVE PodsStep
  BY <1>1 DEF Tracked, PodsStep, NewOrSamePods
<1>2. ASSUME NEW k0 \in Key, NEW c \in Config, NEW g \in Generation, AddModelValidation(k0, c, g)
      PROVE  PodsStep
  <2>1. CASE StartTracking(k0, c, g)
    <3>1. \A k \in Tracked' : \/ k \in Tracked /\ modelValidations'[k] = modelValidations[k]
                              \/ GetAllPods(modelValidations'[k]) = {}
      BY <2>1 DEF StartTracking, Put, Tracked, NewModelValidationInfo, EmptyMap, GetAllPods
    <3> QED
      BY <1>2, <3>1 DEF AddModelValidation, PodsStep, NewOrSamePods
  <2>2. CASE ContinueTracking(k0, c, g)
    <3>1. \A k \in Tracked : IsInfo(modelValidations[k])
      BY DEF TypeInv, TypeOK, IsTracking, Tracked
    <3>2. Tracked' = Tracked
      BY <2>2 DEF ContinueTracking, Tracked
    <3>3. \A k \in Tracked :
             \/ modelValidations'[k] = modelValidations[k]
             \/ modelValidations'[k] = UpdateConfig(modelValidations[k], c, g)
      BY <2>2 DEF ContinueTracking, Tracked
    <3> QED
      BY <1>2, <3>1, <3>2, <3>3, UpdateConfigPods
         DEF AddModelValidation, PodsStep, NewOrSamePods
  <2> QED
    BY <1>2, <2>1, <2>2 DEF AddModelValidation
<1>3. ASSUME NEW k0 \in Key, RemoveModelValidation(k0) PROVE PodsStep
  <2>1. CASE k0 \notin Tracked
    BY <1>1, <1>3, <2>1 DEF RemoveModelValidation, tables
  <2>2. CASE k0 \in Tracked
    BY <1>3, <2>2 DEF RemoveModelValidation, Drop, Tracked, PodsStay, PodsOfRemoved, PodsStep
  <2> QED
    BY <2>1, <2>2
<1>4. ASSUME NEW pod \in Pods, ProcessPodEvent(pod) PROVE PodsStep
  <2>1. CASE pod.label = NoKey
    BY <1>1, <1>4, <2>1 DEF ProcessPodEvent, tables
  <2>2. CASE pod.label # NoKey
    BY <1>4, <2>2, TrackPodPods DEF ProcessPodEvent, LabelledPods
  <2> QED
    BY <2>1, <2>2
<1>5. ASSUME NEW u \in UID, RemovePodEvent(u) PROVE PodsStep
  BY <1>5, UntrackPods DEF RemovePodEvent, PodsStay, PodsStep, NewOrSamePods
<1>6. ASSUME NEW n \in PodName, RemovePodByName(n) PROVE PodsStep
  <2>1. CASE n \notin DOMAIN podMapping.uidOf
    BY <1>1, <1>6, <2>1 DEF RemovePodByName
  <2>2. CASE n \in DOMAIN podMapping.uidOf
    BY <1>6, <2>2, UntrackPods DEF RemovePodByName, NameUntracked, PodsStep
  <2> QED
    BY <2>1, <2>2
<1>7. CASE Controllers
  BY <1>1, <1>2, <1>3, <1>4, <1>5, <1>6, <1>7 DEF Controllers, EnqueueAdded, tables
<1>8. CASE Seeding
  <2>1. ASSUME NEW s \in Seeder, SeedPod(s) PROVE PodsStep
    <3>1. PICK pod \in seeds[s].pods : TrackPod(pod, seeds[s].mv)
      BY <2>1 DEF SeedPod
    <3>2. pod \in LabelledPods(seeds[s].mv)
      BY <2>1 DEF SeedPod, SeedsLabelled
    <3> QED
      BY <3>1, <3>2, TrackPodPods
  <2> QED
    BY <1>1, <1>8, <2>1 DEF Seeding, SeedList, SeedFail, SeedDone, tables
<1>9. CASE Publishing
  <2>1. CASE Forget
    BY <2>1 DEF Forget, Drop, Tracked, PodsStep, NewOrSamePods
  <2> QED
    BY <1>1, <1>9, <2>1
       DEF Publishing, WorkerGet, ReadError, ReadMissing, ReadFound, Compare,
           WriteDone, WriteFailed, WorkerDone, tables
<1>10. CASE NewStatusTracker
  BY <1>10 DEF NewStatusTracker, EmptyMap, Tracked, PodsStep
<1>11. CASE UNCHANGED trackerVars
  BY <1>1, <1>11 DEF trackerVars, tables
<1> QED
  BY <1>7, <1>8, <1>9, <1>10, <1>11 DEF TrackerNext

(* A tracked pod carried the label of the ModelValidation it is tracked     *)
(* under when it was reported.                                              *)
LEMMA PodsKeepReported == PodsReported /\ PodsStep => PodsReported'
<1> SUFFICES ASSUME PodsReported, PodsStep,
                    NEW k \in Tracked', NEW q \in GetAllPods(modelValidations'[k])
             PROVE  Reported(q, k)
  BY DEF PodsReported, Reported, LabelledPods
<1>1. CASE k \in Tracked /\ q \in GetAllPods(modelValidations[k])
  BY <1>1 DEF PodsReported
<1>2. ASSUME NEW pod \in Pods, q.name = pod.name, q.uid = pod.uid, k = pod.label
      PROVE  Reported(q, k)
  BY <1>2 DEF Reported, LabelledPods
<1> QED
  BY <1>1, <1>2 DEF PodsStep, PodsStay, NewOrSamePods, PodTracked, PodsOfRemoved, NameUntracked

LEMMA ReportedAlways == TrackerSpec => [](SeedsLabelled /\ PodsReported)
<1> DEFINE Inv == SeedsLabelled /\ PodsReported
<1>1. TrackerInit => Inv
  BY DEF TrackerInit, SeedsLabelled, IdleSeeder, PodsReported, Tracked, EmptyMap
<1>2. TypeInv /\ OneCategory /\ Inv /\ [TrackerNext]_trackerVars => Inv'
  BY PodsSteps, SeedsKeepLabel, PodsKeepReported
<1> QED
  BY <1>1, <1>2, OneCategoryAlways, InitTypes, NextTypes, PTL DEF TrackerSpec

(* A tracked pod that shares its name with no other and moves to no other   *)
(* ModelValidation can be found by its name: the handlers that clear names  *)
(* clear those of pods that they untrack, or of pods with another label.    *)
THEOREM TrackedPodsMappedAlways == TrackerSpec => []TrackedPodsMapped
<1> DEFINE Reports == SeedsLabelled /\ PodsReported
<1>1. TrackerInit => TrackedPodsMapped
  BY DEF TrackerInit, TrackedPodsMapped, Tracked, EmptyMap
<1>2. TypeInv /\ OneCategory /\ Reports /\ TrackedPodsMapped /\ [TrackerNext]_trackerVars
        => TrackedPodsMapped'
  <2> SUFFICES ASSUME TypeInv, OneCategory, Reports, TrackedPodsMapped, [TrackerNext]_trackerVars
               PROVE  TrackedPodsMapped'
    OBVIOUS
  <2>1. PodsStep
    BY PodsSteps
  <2>2. ASSUME NEW k \in Tracked', NEW q \in GetAllPods(modelValidations'[k]),
               KeepsNameAndLabel(q, k)
        PROVE  q.name \in DOMAIN podMapping'.uidOf /\ podMapping'.uidOf[q.name] = q.uid
    <3>1. k \in Tracked /\ q \in GetAllPods(modelValidations[k])
            => q.name \in DOMAIN podMapping.uidOf /\ podMapping.uidOf[q.name] = q.uid
      BY <2>2 DEF TrackedPodsMapped
    <3>2. CASE NewOrSamePods
      BY <3>1, <3>2 DEF NewOrSamePods
    <3>3. ASSUME NEW pod \in Pods, PodTracked(pod)
          PROVE  q.name \in DOMAIN podMapping'.uidOf /\ podMapping'.uidOf[q.name] = q.uid
      <4>1. CASE q.name = pod.name
        <5>1. q.uid = pod.uid
          BY <2>2, <4>1 DEF KeepsNameAndLabel
        <5> QED
          BY <3>3, <4>1, <5>1 DEF PodTracked, AddPod, removePod, Put, Drop
      <4>2. CASE q.name # pod.name
        BY <3>1, <3>3, <4>2 DEF PodTracked, AddPod, removePod, Put, Drop
      <4> QED
        BY <4>1, <4>2
    <3>4. ASSUME NEW k0 \in Key, PodsOfRemoved(k0)
          PROVE  q.name \in DOMAIN podMapping'.uidOf /\ podMapping'.uidOf[q.name] = q.uid
      <4>1. k \in Tracked /\ q \in GetAllPods(modelValidations[k]) /\ k # k0
        BY <3>4 DEF PodsOfRemoved, PodsStay
      <4>2. q.name \notin {r.name : r \in GetAllPods(modelValidations[k0])}
        <5> SUFFICES ASSUME NEW r \in GetAllPods(modelValidations[k0]), r.name = q.name
                     PROVE  FALSE
          OBVIOUS
        <5>1. PICK p \in LabelledPods(k0) : p.name = r.name
          BY <3>4 DEF PodsOfRemoved, PodsReported, Reported
        <5> QED
          BY <2>2, <4>1, <5>1, TrackerAssumption DEF KeepsNameAndLabel, LabelledPods
      <4> QED
        BY <3>1, <3>4, <4>1, <4>2 DEF PodsOfRemoved, RemovePodsByName, Drop
    <3>5. ASSUME NEW n \in PodName, NameUntracked(n)
          PROVE  q.name \in DOMAIN podMapping'.uidOf /\ podMapping'.uidOf[q.name] = q.uid
      <4>1. k \in Tracked /\ q \in GetAllPods(modelValidations[k])
        BY <3>5 DEF NameUntracked, PodsStay
      <4>2. IsInfo(modelValidations'[k])
        BY NextTypes DEF TypeInv, TypeOK, IsTracking, Tracked
      <4>3. q.uid \in PodsOf(modelValidations'[k])
        BY <4>2, PodsByUID
      <4>4. q.name # n
        BY <3>1, <3>5, <4>1, <4>3 DEF NameUntracked
      <4> QED
        BY <3>1, <3>5, <4>1, <4>4 DEF NameUntracked, RemovePodsByName, Drop
    <3> QED
      BY <2>1, <3>2, <3>3, <3>4, <3>5 DEF PodsStep
  <2> QED
    BY <2>2 DEF TrackedPodsMapped, KeepsNameAndLabel
<1> QED
  BY <1>1, <1>2, ReportedAlways, OneCategoryAlways, InitTypes, NextTypes, PTL DEF TrackerSpec
=============================================================================
