---------------------------- MODULE OperatorProofs ----------------------------
(***************************************************************************)
(* Proofs about Operator.tla, for every cluster and every set of edits: the *)
(* types, and that the tracker in its cluster is the one of                 *)
(* StatusTracker.tla, whose theorems then hold here; that no status update  *)
(* is lost and no ModelValidation stays untracked but for one cause.        *)
(***************************************************************************)
EXTENDS Operator, StatusTrackerProofs

-----------------------------------------------------------------------------
(* Steps of the tracker *)

(* What the controllers and goroutines hand to the tracker is of the kind   *)
(* StatusTracker.tla lets the environment report.                           *)
LEMMA TrackerSteps == ClusterTypeOK /\ [Next]_vars => [TrackerNext]_trackerVars
<1> SUFFICES ASSUME ClusterTypeOK, [Next]_vars PROVE [TrackerNext]_trackerVars
  OBVIOUS
<1> USE DEF ClusterTypeOK
<1>1. ASSUME UNCHANGED trackerVars PROVE [TrackerNext]_trackerVars
  BY <1>1
<1>2. CASE Users
  BY <1>2 DEF Users, CreateMV, EditMV, DeleteMV, CreatePod, Relabel, DeletePod, OperatorUnchanged
<1>3. ASSUME NEW k \in Key, SyncMV(k) \/ MVRead(k) \/ MVGone(k) PROVE [TrackerNext]_trackerVars
  BY <1>3 DEF SyncMV, MVRead, MVGone, OperatorUnchanged
<1>4. ASSUME NEW n \in PodName, SyncPod(n) \/ PodRead(n) \/ PodGone(n)
      PROVE  [TrackerNext]_trackerVars
  BY <1>4 DEF SyncPod, PodRead, PodGone, OperatorUnchanged
<1>5. CASE MVReconcile
  <2>1. CASE mvWorker.pc = "found"
    <3>1. /\ mvWorker.key \in Key
          /\ mvWorker.mv.config \in Config /\ mvWorker.mv.generation \in Generation
      BY <2>1 DEF Idle, MVObject
    <3> QED
      BY <1>5, <3>1 DEF MVReconcile, TrackerNext, Controllers
  <2>2. CASE mvWorker.pc = "missing"
    <3>1. mvWorker.key \in Key
      BY <2>2 DEF Idle, MVObject
    <3> QED
      BY <1>5, <2>2, <3>1 DEF MVReconcile, TrackerNext, Controllers
  <2> QED
    BY <1>5, <2>1, <2>2 DEF MVReconcile
<1>6. CASE MVEnqueue
  BY <1>6 DEF MVEnqueue, TrackerNext, Controllers
<1>7. CASE PodReconcile
  <2>1. CASE podWorker.pc = "found"
    <3>1. podWorker.pod.obj \in Pods /\ podWorker.pod.obj.uid \in UID
      BY <2>1, TrackerAssumption DEF Idle, PodInCluster, PodObject
    <3> QED
      BY <1>7, <2>1, <3>1
         DEF PodReconcile, PodDeleted, PodUnlabelled, PodLabelled, PodUntrack, TrackerNext, Controllers
  <2>2. CASE podWorker.pc = "untrack"
    <3>1. podWorker.name \in PodName
      BY <2>2 DEF Idle, PodInCluster
    <3> QED
      BY <1>7, <2>2, <3>1
         DEF PodReconcile, PodDeleted, PodUnlabelled, PodLabelled, PodUntrack, TrackerNext, Controllers
  <2> QED
    BY <1>7, <2>1, <2>2 DEF PodReconcile, PodDeleted, PodUnlabelled, PodLabelled, PodUntrack
<1>8. CASE PodUpdate
  BY <1>8 DEF PodUpdate
<1>9. ASSUME NEW s \in Seeder, SeedStep(s) PROVE [TrackerNext]_trackerVars
  <2>1. \A k : LabelledCached(k) \in SUBSET LabelledPods(k)
    BY DEF LabelledCached, LabelledPods, IsMap, PodInCluster
  <2>2. Seeding
    <3>1. CASE seeds[s].pc = "list" /\ SeedList(s, LabelledCached(seeds[s].mv))
      BY <2>1, <3>1 DEF Seeding
    <3> QED
      BY <1>9, <3>1 DEF SeedStep, Seeding
  <2> QED
    BY <2>2 DEF TrackerNext
<1>10. CASE WorkerStep
  <2>1. CASE WorkerRead
    <3>1. active \in DOMAIN mvCache
            => mvCache[active].config \in Config /\ mvCache[active].status \in Statuses
      BY OperatorAssumption DEF IsMap, MVObject
    <3> QED
      BY <2>1, <3>1 DEF WorkerRead, TrackerNext, Publishing
  <2> QED
    BY <1>10, <2>1
       DEF WorkerStep, WorkerTake, WorkerForget, WorkerCompare, WorkerWrite, WorkerFinish,
           TrackerNext, Publishing
<1>11. CASE Restart
  BY <1>11 DEF Restart, TrackerNext
<1>12. CASE UNCHANGED vars
  BY <1>12 DEF vars
<1> QED
  BY <1>2, <1>3, <1>4, <1>5, <1>6, <1>7, <1>8, <1>9, <1>10, <1>11, <1>12 DEF Next, System

-----------------------------------------------------------------------------
(* Types *)

(* The parts of ClusterTypeOK that are the cluster's and the controllers'.  *)
APITypes == IsMap(mvs, Key, MVObject) /\ IsMap(pods, PodName, PodInCluster) /\ usedUIDs \subseteq UID

CacheTypes == /\ IsMap(mvCache, Key, MVObject) /\ IsMap(podCache, PodName, PodInCluster)
              /\ mvQueue \subseteq Key /\ podQueue \subseteq PodName

WorkerTypes ==
    /\ mvWorker \in {Idle} \cup [pc : {"found"}, key : Key, mv : MVObject]
                           \cup [pc : {"missing"}, key : Key]
    /\ podWorker \in {Idle} \cup [pc : {"found", "update"}, name : PodName, pod : PodInCluster]
                            \cup [pc : {"untrack"}, name : PodName]
    /\ readMV \in {Idle} \cup MVObject
    /\ raced \subseteq UID

ClusterInv == /\ APITypes /\ CacheTypes /\ WorkerTypes
              /\ edits \in 0 .. MaxEdits
              /\ TypeInv

LEMMA ClusterInvTypes == ClusterInv => ClusterTypeOK
BY DEF ClusterInv, APITypes, CacheTypes, WorkerTypes, ClusterTypeOK, TypeInv

(* An informer's copy of a well-typed object.                               *)
LEMMA CopiedMap ==
    ASSUME NEW K, NEW V, NEW from, IsMap(from, K, V), NEW to, IsMap(to, K, V), NEW k \in K
    PROVE  IsMap(Copied(from, to, k), K, V)
<1>1. k \in DOMAIN from => from[k] \in V
  BY DEF IsMap
<1> QED
  BY <1>1, PutMap, DropMap DEF Copied

(* Changing one object of a map to another one of the type.                 *)
LEMMA ExceptMap ==
    ASSUME NEW K, NEW V, NEW m, IsMap(m, K, V), NEW k \in DOMAIN m, NEW v \in V
    PROVE  IsMap([m EXCEPT ![k] = v], K, V)
BY DEF IsMap

(* What users write, and what the webhook makes of it.                      *)
LEMMA ObjectTypes ==
    /\ \A c \in Config : \A uid \in 0 .. MaxEdits : NewMV(c, uid) \in MVObject
    /\ \A u \in UID : \A k \in Key : NewPod(u, k) \in Pods
    /\ \A pod \in Pods : /\ [pod EXCEPT !.finalizer = FALSE] \in Pods
                         /\ \A k \in Key \cup {NoKey} : [pod EXCEPT !.label = k] \in Pods
<1>1. NoStatus \in Status
  BY DEF NoStatus, Status
<1>2. \A c \in Config : \A uid \in 0 .. MaxEdits : NewMV(c, uid) \in MVObject
  BY <1>1, OperatorAssumption DEF NewMV, MVObject
<1>3. \A u \in UID : \A k \in Key : NewPod(u, k) \in Pods
  BY OperatorAssumption DEF NewPod, PodObject
<1>4. \A pod \in Pods : /\ [pod EXCEPT !.finalizer = FALSE] \in Pods
                        /\ \A k \in Key \cup {NoKey} : [pod EXCEPT !.label = k] \in Pods
  BY OperatorAssumption DEF PodObject
<1> QED
  BY <1>2, <1>3, <1>4

LEMMA WebhookTypes ==
    ASSUME NEW pod \in Pods, IsMap(mvCache, Key, MVObject), NEW ignored,
           Webhook!Handle(pod, mvCache, ignored).allowed
    PROVE  Webhook!Handle(pod, mvCache, ignored).pod \in Pods
<1>1. pod.label \in DOMAIN mvCache => mvCache[pod.label].config \in Note
  BY OperatorAssumption DEF IsMap, MVObject
<1>2. pod.label \in DOMAIN mvCache
        => [pod EXCEPT !.finalizer = TRUE, !.config = mvCache[pod.label].config] \in Pods
  BY <1>1, OperatorAssumption DEF PodObject
<1> QED
  BY <1>2 DEF Webhook!Handle, Webhook!Admitted, Webhook!Refused

(* A pod that is written has the new object and the next version.           *)
LEMMA UpdatedPods ==
    ASSUME NEW n \in DOMAIN pods, NEW obj, NEW deleting
    PROVE  /\ DOMAIN Updated(n, obj, deleting) = DOMAIN pods
           /\ \A m \in DOMAIN pods : m # n => Updated(n, obj, deleting)[m] = pods[m]
           /\ Updated(n, obj, deleting)[n].obj = obj
           /\ Updated(n, obj, deleting)[n].deleting = deleting
           /\ Updated(n, obj, deleting)[n].version = pods[n].version + 1
           /\ Updated(n, obj, deleting)[n]
                 = [obj |-> obj, deleting |-> deleting, version |-> pods[n].version + 1]
BY DEF Updated

LEMMA VersionTypes ==
    /\ \A obj \in Pods : Created(obj) \in PodInCluster
    /\ IsMap(pods, PodName, PodInCluster)
          => \A n \in DOMAIN pods, obj \in Pods, deleting \in BOOLEAN :
                 IsMap(Updated(n, obj, deleting), PodName, PodInCluster)
<1>1. \A obj \in Pods : Created(obj) \in PodInCluster
  BY DEF Created, PodInCluster
<1>2. ASSUME IsMap(pods, PodName, PodInCluster),
             NEW n \in DOMAIN pods, NEW obj \in Pods, NEW deleting \in BOOLEAN
      PROVE  IsMap(Updated(n, obj, deleting), PodName, PodInCluster)
  <2>1. \A m \in DOMAIN pods : pods[m] \in PodInCluster
    BY <1>2 DEF IsMap
  <2> DEFINE updated == Updated(n, obj, deleting)
  <2>2. updated[n] \in PodInCluster
    <3>1. updated[n] = [obj |-> obj, deleting |-> deleting, version |-> pods[n].version + 1]
      BY UpdatedPods
    <3>2. pods[n].version + 1 \in Nat
      BY <2>1 DEF PodInCluster
    <3> QED
      BY <3>1, <3>2 DEF PodInCluster
  <2>3. /\ DOMAIN updated = DOMAIN pods
        /\ \A m \in DOMAIN pods : m # n => updated[m] = pods[m]
    BY DEF Updated
  <2>4. updated = [m \in DOMAIN pods |-> updated[m]]
    BY DEF Updated
  <2> HIDE DEF updated
  <2>5. IsMap(updated, PodName, PodInCluster)
    BY <1>2, <2>1, <2>2, <2>3, <2>4 DEF IsMap
  <2> QED
    BY <2>5 DEF updated
<1> QED
  BY <1>1, <1>2

(* The edits of users keep the types.                                       *)
LEMMA UsersTypes == ClusterInv /\ Users => APITypes' /\ edits' \in 0 .. MaxEdits
<1> SUFFICES ASSUME ClusterInv, Users PROVE APITypes' /\ edits' \in 0 .. MaxEdits
  OBVIOUS
<1> USE DEF ClusterInv, APITypes
<1>1. edits' \in 0 .. MaxEdits
  <2>1. edits < MaxEdits /\ edits' = edits + 1
    BY DEF Users, CreateMV, EditMV, DeleteMV, CreatePod, Relabel, DeletePod, Edit
  <2> QED
    BY <2>1, OperatorAssumption
<1>2. ASSUME NEW k \in Key, NEW c \in Config, CreateMV(k, c) PROVE APITypes'
  BY <1>1, <1>2, ObjectTypes, PutMap DEF CreateMV
<1>3. ASSUME NEW k \in Key, NEW c \in Config, EditMV(k, c) PROVE APITypes'
  <2>1. mvs[k] \in MVObject
    BY <1>3 DEF EditMV, IsMap
  <2> DEFINE edited == [mvs[k] EXCEPT !.config = c, !.generation = mvs[k].generation + 1]
  <2>2. edited \in MVObject
    BY <1>3, <2>1 DEF EditMV, MVObject
  <2>3. k \in DOMAIN mvs /\ mvs' = [mvs EXCEPT ![k] = edited]
    BY <1>3, <2>1 DEF EditMV, MVObject, IsMap
  <2> HIDE DEF edited
  <2>4. IsMap(mvs', Key, MVObject)
    BY <2>2, <2>3, ExceptMap
  <2> QED
    BY <1>3, <2>4 DEF EditMV
<1>4. ASSUME NEW k \in Key, DeleteMV(k) PROVE APITypes'
  <2>1. mvs[k] \in MVObject
    BY <1>4 DEF DeleteMV, IsMap
  <2>2. [mvs[k] EXCEPT !.deleting = TRUE] \in MVObject
    BY <2>1 DEF MVObject
  <2>3. IsMap(Drop(mvs, {k}), Key, MVObject)
    BY DropMap
  <2>4. IsMap([mvs EXCEPT ![k].deleting = TRUE], Key, MVObject)
    <3>1. [mvs EXCEPT ![k].deleting = TRUE] = [mvs EXCEPT ![k] = [mvs[k] EXCEPT !.deleting = TRUE]]
      OBVIOUS
    <3> QED
      BY <1>4, <2>2, <3>1, ExceptMap DEF DeleteMV
  <2> QED
    BY <1>4, <2>3, <2>4 DEF DeleteMV
<1>5. ASSUME NEW u \in UID, NEW k \in Key, NEW i \in Bypass, CreatePod(u, k, i) PROVE APITypes'
  <2>1. Created(Webhook!Handle(NewPod(u, k), mvCache, i).pod) \in PodInCluster
    BY <1>5, ObjectTypes, WebhookTypes, VersionTypes DEF CreatePod, CacheTypes
  <2>2. NameOf[u] \in PodName
    BY OperatorAssumption
  <2> QED
    BY <1>5, <2>1, <2>2, PutMap DEF CreatePod
<1>6. ASSUME NEW n \in PodName, NEW k \in Key \cup {NoKey}, NEW i \in Bypass, Relabel(n, k, i)
      PROVE  APITypes'
  <2>1. n \in DOMAIN pods /\ pods[n] \in PodInCluster
    BY <1>6 DEF Relabel, IsMap
  <2>2. [pods[n].obj EXCEPT !.label = k] \in Pods
    BY <2>1, ObjectTypes DEF PodInCluster
  <2> QED
    BY <1>6, <2>1, <2>2, VersionTypes DEF Relabel
<1>7. ASSUME NEW n \in PodName, DeletePod(n) PROVE APITypes'
  <2>1. n \in DOMAIN pods /\ pods[n].obj \in Pods
    BY <1>7 DEF DeletePod, IsMap, PodInCluster
  <2>2. IsMap(Updated(n, pods[n].obj, TRUE), PodName, PodInCluster)
    BY <1>7, <2>1, VersionTypes
  <2>3. IsMap(Drop(pods, {n}), PodName, PodInCluster)
    BY DropMap
  <2> QED
    BY <1>7, <2>2, <2>3 DEF DeletePod
<1> QED
  BY <1>1, <1>2, <1>3, <1>4, <1>5, <1>6, <1>7 DEF Users

(* The informers copy objects and names.                                    *)
LEMMA SyncTypes ==
    ASSUME ClusterInv
    PROVE  /\ \A k \in Key : SyncMV(k) => CacheTypes'
           /\ \A n \in PodName : SyncPod(n) => CacheTypes'
BY CopiedMap DEF ClusterInv, APITypes, CacheTypes, SyncMV, SyncPod

(* The reads of the two controllers.                                        *)
LEMMA ReadTypes ==
    ASSUME ClusterInv
    PROVE  /\ \A k \in Key : MVRead(k) => CacheTypes' /\ WorkerTypes'
           /\ \A n \in PodName : PodRead(n) => CacheTypes' /\ WorkerTypes'
<1>1. ASSUME NEW k \in Key, MVRead(k) PROVE CacheTypes' /\ WorkerTypes'
  <2>1. k \in DOMAIN mvCache => mvCache[k] \in MVObject
    BY DEF ClusterInv, CacheTypes, IsMap
  <2> QED
    BY <1>1, <2>1 DEF MVRead, ClusterInv, CacheTypes, WorkerTypes
<1>2. ASSUME NEW n \in PodName, PodRead(n) PROVE CacheTypes' /\ WorkerTypes'
  <2>1. n \in DOMAIN podCache => podCache[n] \in PodInCluster
    BY DEF ClusterInv, CacheTypes, IsMap
  <2> QED
    BY <1>2, <2>1 DEF PodRead, ClusterInv, CacheTypes, WorkerTypes
<1> QED
  BY <1>1, <1>2

LEMMA SeedUIDsTypes == TypeInv => SeedUIDs \subseteq UID
BY TrackerAssumption DEF TypeInv, TypeOK, SeederState, IdleSeeder, SeedUIDs, PodObject

(* PodReconciler.                                                           *)
LEMMA PodReconcileTypes == ClusterInv /\ PodReconcile => WorkerTypes'
<1> SUFFICES ASSUME ClusterInv, PodReconcile PROVE WorkerTypes'
  OBVIOUS
<1>1. SeedUIDs \subseteq UID
  BY SeedUIDsTypes DEF ClusterInv
<1>2. raced' \subseteq UID
  BY <1>1, TrackerAssumption
     DEF PodReconcile, PodDeleted, PodUnlabelled, PodLabelled, PodUntrack,
         ClusterInv, WorkerTypes, Idle, PodInCluster, PodObject
<1>3. podWorker' \in {Idle} \cup [pc : {"found", "update"}, name : PodName, pod : PodInCluster]
                            \cup [pc : {"untrack"}, name : PodName]
  BY DEF PodReconcile, PodDeleted, PodUnlabelled, PodLabelled, PodUntrack,
         ClusterInv, WorkerTypes, Idle
<1> QED
  BY <1>2, <1>3 DEF PodReconcile, ClusterInv, WorkerTypes

LEMMA PodUpdateTypes == ClusterInv /\ PodUpdate => APITypes' /\ CacheTypes' /\ WorkerTypes'
<1> SUFFICES ASSUME ClusterInv, PodUpdate PROVE APITypes' /\ CacheTypes' /\ WorkerTypes'
  OBVIOUS
<1>1. podWorker \in [pc : {"found", "update"}, name : PodName, pod : PodInCluster]
  BY DEF PodUpdate, ClusterInv, WorkerTypes, Idle
<1>2. CASE FinalizerRemoved(podWorker.name)
  <2>1. podWorker.name \in DOMAIN pods /\ pods[podWorker.name] \in PodInCluster
    BY <1>2 DEF FinalizerRemoved, ClusterInv, APITypes, IsMap
  <2>2. /\ [pods[podWorker.name].obj EXCEPT !.finalizer = FALSE] \in Pods
        /\ pods[podWorker.name].deleting \in BOOLEAN
    BY <2>1, ObjectTypes DEF PodInCluster
  <2>3. IsMap(pods', PodName, PodInCluster)
    BY <1>2, <2>1, <2>2, VersionTypes DEF FinalizerRemoved, ClusterInv, APITypes
  <2> QED
    BY <1>1, <1>2, <2>3
       DEF PodUpdate, FinalizerRemoved, ClusterInv, APITypes, CacheTypes, WorkerTypes
<1>3. CASE FinalizerKept(podWorker.name)
  BY <1>1, <1>3 DEF PodUpdate, FinalizerKept, ClusterInv, APITypes, CacheTypes, WorkerTypes
<1> QED
  BY <1>2, <1>3 DEF PodUpdate

(* The seeding goroutines and the worker of the tracker.                    *)
LEMMA SeedStepTypes ==
    ASSUME ClusterInv, NEW s \in Seeder, SeedStep(s)
    PROVE  raced' \subseteq UID
<1>1. \A n \in DOMAIN podCache : podCache[n].obj.uid \in UID
  BY TrackerAssumption DEF ClusterInv, CacheTypes, IsMap, PodInCluster, PodObject
<1> QED
  BY <1>1 DEF SeedStep, ClusterInv, WorkerTypes

LEMMA WorkerStepTypes ==
    ClusterInv /\ WorkerStep => APITypes' /\ CacheTypes' /\ WorkerTypes'
<1> SUFFICES ASSUME ClusterInv, WorkerStep PROVE APITypes' /\ CacheTypes' /\ WorkerTypes'
  OBVIOUS
<1>1. CacheTypes'
  BY DEF WorkerStep, WorkerTake, WorkerRead, WorkerForget, WorkerCompare, WorkerWrite,
         WorkerFinish, WorkerOnly, ClusterInv, cacheVars, CacheTypes
<1>2. readMV' \in {Idle} \cup MVObject
  <2>1. active \in DOMAIN mvCache => mvCache[active] \in MVObject
    BY DEF ClusterInv, CacheTypes, IsMap
  <2> QED
    BY <2>1
       DEF WorkerStep, WorkerTake, WorkerRead, WorkerForget, WorkerCompare, WorkerWrite,
           WorkerFinish, ClusterInv, WorkerTypes
<1>3. WorkerTypes'
  BY <1>2
     DEF WorkerStep, WorkerTake, WorkerRead, WorkerForget, WorkerCompare, WorkerWrite,
         WorkerFinish, WorkerOnly, ClusterInv, WorkerTypes
<1>4. pods' = pods /\ usedUIDs' = usedUIDs
  BY DEF WorkerStep, WorkerTake, WorkerRead, WorkerForget, WorkerCompare, WorkerWrite,
         WorkerFinish, WorkerOnly
<1>5. mvs' = mvs => APITypes'
  BY <1>4 DEF ClusterInv, APITypes
<1>6. ASSUME UpToDate, WriteDone, mvs' = [mvs EXCEPT ![active].status = update.status]
      PROVE  APITypes'
  <2>1. active \in DOMAIN mvs /\ mvs[active] \in MVObject
    BY <1>6 DEF UpToDate, ClusterInv, APITypes, IsMap
  <2>2. update.status \in Status
    BY <1>6 DEF WriteDone, ClusterInv, TypeInv, TypeOK, UpdateState
  <2>3. [mvs[active] EXCEPT !.status = update.status] \in MVObject
    BY <2>1, <2>2 DEF MVObject
  <2>4. mvs' = [mvs EXCEPT ![active] = [mvs[active] EXCEPT !.status = update.status]]
    BY <1>6
  <2>5. IsMap(mvs', Key, MVObject)
    BY <2>1, <2>3, <2>4, ExceptMap DEF ClusterInv, APITypes
  <2> QED
    BY <1>4, <2>5 DEF ClusterInv, APITypes
<1>7. mvs' = mvs \/ (/\ UpToDate /\ WriteDone
                     /\ mvs' = [mvs EXCEPT ![active].status = update.status])
  BY DEF WorkerStep, WorkerTake, WorkerRead, WorkerForget, WorkerCompare, WorkerWrite,
         WorkerFinish
<1> QED
  BY <1>1, <1>3, <1>5, <1>6, <1>7

(* The cluster the operator finds.                                          *)
LEMMA InitClusterTypes == Init => ClusterInv
<1> SUFFICES ASSUME Init PROVE ClusterInv
  OBVIOUS
<1>1. TypeInv
  BY InitTypes DEF Init
<1>2. IsMap(mvs, Key, MVObject)
  <2> PICK ks \in SUBSET FirstMVs : \E c \in [ks -> Config] :
               mvs = [k \in ks |-> NewMV(c[k], 0)]
    BY DEF Init
  <2> PICK c \in [ks -> Config] : mvs = [k \in ks |-> NewMV(c[k], 0)]
    OBVIOUS
  <2>1. \A k \in ks : NewMV(c[k], 0) \in MVObject
    BY ObjectTypes, OperatorAssumption
  <2> QED
    BY <2>1, OperatorAssumption DEF IsMap
<1>3. IsMap(pods, PodName, PodInCluster) /\ usedUIDs \subseteq UID
  <2> PICK us \in SUBSET FirstPods : \E k \in [us -> Key] :
          /\ pods = [n \in {NameOf[u] : u \in us} |->
                       Created(LET u == CHOOSE u \in us : NameOf[u] = n
                               IN NewPod(u, k[u]))]
          /\ usedUIDs = us
    BY DEF Init
  <2> PICK k \in [us -> Key] :
          /\ pods = [n \in {NameOf[u] : u \in us} |->
                       Created(LET u == CHOOSE u \in us : NameOf[u] = n
                               IN NewPod(u, k[u]))]
          /\ usedUIDs = us
    OBVIOUS
  <2> DEFINE first(n) == CHOOSE u \in us : NameOf[u] = n
  <2>1. \A n \in {NameOf[u] : u \in us} : first(n) \in us
    OBVIOUS
  <2>2. \A n \in {NameOf[u] : u \in us} : NewPod(first(n), k[first(n)]) \in Pods
    BY <2>1, ObjectTypes, OperatorAssumption
  <2>3. \A n \in {NameOf[u] : u \in us} : pods[n] \in PodInCluster
    BY <2>2, VersionTypes
  <2>4. {NameOf[u] : u \in us} \subseteq PodName
    BY OperatorAssumption
  <2> QED
    BY <2>3, <2>4, OperatorAssumption DEF IsMap
<1>4. CacheTypes /\ WorkerTypes
  BY <1>2, <1>3 DEF Init, CacheTypes, WorkerTypes, IsMap
<1>5. edits \in 0 .. MaxEdits
  BY OperatorAssumption DEF Init
<1> QED
  BY <1>1, <1>2, <1>3, <1>4, <1>5 DEF ClusterInv, APITypes

(* Every step keeps the types.                                              *)
LEMMA ClusterSteps == ClusterInv /\ [Next]_vars => ClusterInv'
<1> SUFFICES ASSUME ClusterInv, [Next]_vars PROVE ClusterInv'
  OBVIOUS
<1>1. TypeInv'
  BY ClusterInvTypes, TrackerSteps, NextTypes DEF ClusterInv
<1>2. APITypes /\ CacheTypes /\ WorkerTypes /\ edits \in 0 .. MaxEdits
  BY DEF ClusterInv
<1>3. UNCHANGED apiVars => APITypes'
  BY <1>2 DEF APITypes, apiVars
<1>4. UNCHANGED cacheVars => CacheTypes'
  BY <1>2 DEF CacheTypes, cacheVars
<1>5. UNCHANGED <<mvWorker, podWorker, readMV, raced>> => WorkerTypes'
  BY <1>2 DEF WorkerTypes
<1>6. CASE Users
  BY <1>1, <1>4, <1>5, <1>6, UsersTypes
     DEF Users, CreateMV, EditMV, DeleteMV, CreatePod, Relabel, DeletePod, OperatorUnchanged,
         ClusterInv
<1>7. ASSUME NEW k \in Key, SyncMV(k) \/ MVRead(k) \/ MVGone(k) PROVE ClusterInv'
  <2>1. CASE MVGone(k)
    <3>1. APITypes'
      BY <1>2, <2>1, DropMap DEF MVGone, APITypes
    <3> QED
      BY <1>1, <1>2, <1>4, <1>5, <2>1, <3>1 DEF MVGone, OperatorUnchanged, ClusterInv
  <2> QED
    BY <1>1, <1>2, <1>3, <1>5, <1>7, <2>1, SyncTypes, ReadTypes
       DEF SyncMV, MVRead, boundVars, ClusterInv
<1>8. ASSUME NEW n \in PodName, SyncPod(n) \/ PodRead(n) \/ PodGone(n) PROVE ClusterInv'
  <2>1. CASE PodGone(n)
    <3>1. APITypes'
      BY <1>2, <2>1, DropMap DEF PodGone, APITypes
    <3> QED
      BY <1>1, <1>2, <1>4, <1>5, <2>1, <3>1 DEF PodGone, OperatorUnchanged, ClusterInv
  <2> QED
    BY <1>1, <1>2, <1>3, <1>5, <1>8, <2>1, SyncTypes, ReadTypes
       DEF SyncPod, PodRead, boundVars, ClusterInv
<1>9. CASE MVReconcile
  BY <1>1, <1>2, <1>3, <1>4, <1>9 DEF MVReconcile, boundVars, WorkerTypes, ClusterInv
<1>10. CASE MVEnqueue
  BY <1>1, <1>2, <1>3, <1>4, <1>5, <1>10 DEF MVEnqueue, boundVars, ClusterInv
<1>11. CASE PodReconcile
  BY <1>1, <1>2, <1>3, <1>4, <1>11, PodReconcileTypes DEF PodReconcile, boundVars, ClusterInv
<1>12. CASE PodUpdate
  BY <1>1, <1>2, <1>12, PodUpdateTypes DEF PodUpdate, boundVars, ClusterInv
<1>13. ASSUME NEW s \in Seeder, SeedStep(s) PROVE ClusterInv'
  BY <1>1, <1>2, <1>3, <1>4, <1>13, SeedStepTypes DEF SeedStep, boundVars, WorkerTypes, ClusterInv
<1>14. CASE WorkerStep
  <2>1. edits' = edits
    BY <1>14 DEF WorkerStep, WorkerTake, WorkerRead, WorkerForget, WorkerCompare, WorkerWrite,
                 WorkerFinish, WorkerOnly, boundVars
  <2> QED
    BY <1>1, <1>2, <1>14, <2>1, WorkerStepTypes DEF ClusterInv
<1>15. CASE Restart
  <2>1. CacheTypes' /\ WorkerTypes'
    BY <1>2, <1>15 DEF Restart, APITypes, CacheTypes, WorkerTypes, IsMap
  <2> QED
    BY <1>1, <1>2, <1>3, <1>15, <2>1 DEF Restart, ClusterInv
<1>16. CASE UNCHANGED vars
  BY <1>1, <1>2, <1>3, <1>4, <1>5, <1>16 DEF vars, boundVars, ClusterInv
<1> QED
  BY <1>6, <1>7, <1>8, <1>9, <1>10, <1>11, <1>12, <1>13, <1>14, <1>15, <1>16 DEF Next, System

LEMMA ClusterAlways == Spec => []ClusterInv
BY InitClusterTypes, ClusterSteps, PTL DEF Spec

(* The objects, their copies in the caches and what the two Reconcile calls *)
(* and the worker hold have their types, whatever users do.                 *)
THEOREM ClusterTypes == Spec => []ClusterTypeOK
BY ClusterAlways, ClusterInvTypes, PTL

-----------------------------------------------------------------------------
(* The tracker in its cluster *)

(* The controllers, informers and goroutines use the tracker in the ways    *)
(* StatusTracker.tla allows: every behaviour of the operator is one of it.  *)
THEOREM TrackerImplemented == Spec => ImplementsTracker
<1>1. Init => TrackerInit
  BY DEF Init
<1> QED
  BY <1>1, TrackerSteps, ClusterAlways, ClusterInvTypes, PTL DEF Spec, ImplementsTracker, TrackerSpec

(* What is proved of the tracker in any environment holds in the cluster:   *)
(* a pod is in one category, injected pods match, counters miss no tracked  *)
(* ModelValidation, names lead back and find the pods that keep theirs.     *)
THEOREM TrackerInCluster ==
    Spec => [](OneCategory /\ InjectedMatch /\ CountsTracked /\ NamesLeadBack /\ TrackedPodsMapped)
BY TrackerImplemented, OneCategoryAlways, InjectedMatchAlways, CountsTrackedAlways,
   NamesLeadBackAlways, TrackedPodsMappedAlways, PTL DEF ImplementsTracker

(* No handler of the operator changes what would be published without an    *)
(* update of it being pending, or about to be added.                        *)
THEOREM PublishedInCluster == Spec => ChangesArePublished
BY TrackerImplemented, ChangesPublished, PTL DEF ImplementsTracker

-----------------------------------------------------------------------------
(* Publication: the inductive invariant *)

(* Why no status update is lost (StatusPublished): whenever the published   *)
(* status differs from what the tracker knows, something is still under way *)
(* that leads the worker to the ModelValidation again.                      *)

(* A copy of k is an earlier version of the object, or of one of its name   *)
(* that was deleted: it never equals a version that is still to come.       *)
NotAhead(copy, k) ==
    /\ copy.uid <= edits
    /\ k \in DOMAIN mvs /\ mvs[k].uid = copy.uid =>
          /\ copy.generation <= mvs[k].generation
          /\ copy.deleting => mvs[k].deleting

CopiesBehind ==
    /\ \A k \in DOMAIN mvs : mvs[k].uid <= edits
    /\ \A k \in DOMAIN mvCache : NotAhead(mvCache[k], k)
    /\ readMV # Idle => NotAhead(readMV, active)

(* The worker has a copy from the read to the end of doUpdateStatus, and    *)
(* writes only a status that differs from the copy's.                       *)
CopyHeld ==
    /\ update.pc \in {"found", "write"} <=> readMV # Idle
    /\ update.pc = "found" => update.status = readMV.status
    /\ update.pc = "write" => update.status # readMV.status

(* As long as the worker's copy is the current object, so is the cached one.*)
CopyCached ==
    readMV # Idle /\ active \in DOMAIN mvs /\ mvs[active] = readMV
        => active \in DOMAIN mvCache /\ mvCache[active] = readMV

(* An event of k is on its way to the worker.                               *)
Signalled(k) ==
    \/ ~Same(mvs, mvCache, k)
    \/ k \in mvQueue
    \/ mvWorker # Idle /\ mvWorker.key = k
    \/ k \in pending \cup {adding}

(* The worker is about to publish k, or to see that it need not.            *)
InWork(k) ==
    /\ active = k
    /\ \/ update.pc \in {"read", "missing", "write"}
       \/ update.pc = "found" /\ update.status = mvs[k].status

UnderWay(k) == \/ Signalled(k)
               \/ InWork(k)
               \/ mvs[k].status = StatusOf(modelValidations[k])

PublishedOrUnderWay == \A k \in Tracked : Live(k) => UnderWay(k)

PublicationInv == QueueOpen /\ CopiesBehind /\ CopyHeld /\ CopyCached /\ PublishedOrUnderWay

-----------------------------------------------------------------------------
(* Changes of the objects *)

(* k is an object that was created, or marked or edited, since.             *)
Newer(k) ==
    \/ edits < mvs'[k].uid /\ mvs'[k].uid <= edits'
    \/ /\ k \in DOMAIN mvs /\ mvs'[k].uid = mvs[k].uid
       /\ mvs'[k].generation >= mvs[k].generation
       /\ mvs[k].deleting => mvs'[k].deleting
       /\ mvs'[k].generation > mvs[k].generation \/ mvs'[k].deleting # mvs[k].deleting

(* What users and garbage collection do to the ModelValidations.            *)
MVChange ==
    /\ UNCHANGED <<trackerVars, mvCache, mvQueue, mvWorker, readMV>>
    /\ edits' >= edits
    /\ \A k \in DOMAIN mvs' : \/ k \in DOMAIN mvs /\ mvs'[k] = mvs[k]
                              \/ Newer(k)

LEMMA MVChanges ==
    ASSUME ClusterInv,
           Users \/ (\E k \in Key : MVGone(k)) \/ (\E n \in PodName : PodGone(n))
    PROVE  MVChange
<1>1. UNCHANGED <<trackerVars, mvCache, mvQueue, mvWorker, readMV>>
  BY DEF Users, CreateMV, EditMV, DeleteMV, CreatePod, Relabel, DeletePod, MVGone, PodGone,
         OperatorUnchanged, cacheVars
<1>2. edits \in Nat /\ edits' \in Nat /\ edits' >= edits
  <2>1. edits' = edits + 1 \/ edits' = edits
    BY DEF Users, CreateMV, EditMV, DeleteMV, CreatePod, Relabel, DeletePod, MVGone, PodGone, Edit
  <2> QED
    BY <2>1, OperatorAssumption DEF ClusterInv
<1>3. \A k \in DOMAIN mvs : mvs[k] \in MVObject
  BY DEF ClusterInv, APITypes, IsMap
<1>4. CASE mvs' = mvs
  BY <1>1, <1>2, <1>4 DEF MVChange
<1>5. ASSUME NEW k \in Key, NEW c \in Config, CreateMV(k, c) PROVE MVChange
  <2>1. edits' = edits + 1 /\ mvs' = Put(mvs, k, NewMV(c, edits'))
    BY <1>5 DEF CreateMV, Edit
  <2>2. mvs'[k].uid = edits + 1 /\ \A j \in DOMAIN mvs' : j # k => j \in DOMAIN mvs /\ mvs'[j] = mvs[j]
    BY <2>1 DEF Put, NewMV
  <2> QED
    BY <1>1, <1>2, <2>1, <2>2 DEF MVChange, Newer
<1>6. ASSUME NEW k \in Key, NEW c \in Config, EditMV(k, c) PROVE MVChange
  <2>1. k \in DOMAIN mvs /\ mvs[k] \in MVObject
    BY <1>3, <1>6 DEF EditMV
  <2>2. /\ mvs'[k].uid = mvs[k].uid /\ mvs'[k].deleting = mvs[k].deleting
        /\ mvs'[k].generation = mvs[k].generation + 1
        /\ \A j \in DOMAIN mvs' : j # k => j \in DOMAIN mvs /\ mvs'[j] = mvs[j]
    BY <1>6, <2>1 DEF EditMV, MVObject
  <2>3. mvs[k].generation \in Nat
    BY <2>1, OperatorAssumption DEF MVObject
  <2>4. mvs'[k].generation > mvs[k].generation /\ mvs'[k].generation >= mvs[k].generation
    BY <2>2, <2>3
  <2>5. Newer(k)
    BY <2>1, <2>2, <2>4 DEF Newer
  <2> QED
    BY <1>1, <1>2, <2>2, <2>5 DEF MVChange
<1>7. ASSUME NEW k \in Key, mvs' = Drop(mvs, {k}) PROVE MVChange
  BY <1>1, <1>2, <1>7 DEF MVChange, Drop
<1>8. ASSUME NEW k \in Key, k \in DOMAIN mvs, ~mvs[k].deleting,
             mvs' = [mvs EXCEPT ![k].deleting = TRUE]
      PROVE  MVChange
  <2>1. /\ mvs'[k].uid = mvs[k].uid /\ mvs'[k].generation = mvs[k].generation
        /\ mvs'[k].deleting # mvs[k].deleting
        /\ \A j \in DOMAIN mvs' : j # k => j \in DOMAIN mvs /\ mvs'[j] = mvs[j]
    BY <1>3, <1>8 DEF MVObject
  <2>2. mvs[k].generation \in Nat
    BY <1>3, <1>8, OperatorAssumption DEF MVObject
  <2>3. Newer(k)
    BY <1>8, <2>1, <2>2 DEF Newer
  <2> QED
    BY <1>1, <1>2, <2>1, <2>3 DEF MVChange
<1> QED
  BY <1>4, <1>5, <1>6, <1>7, <1>8
     DEF Users, DeleteMV, CreatePod, Relabel, DeletePod, MVGone, PodGone

(* The numbers of an object.                                                *)
LEMMA MVNumbers ==
    ASSUME NEW mv \in MVObject
    PROVE  mv.uid \in Nat /\ mv.generation \in Nat /\ mv.deleting \in BOOLEAN
<1>1. 0 .. MaxEdits \subseteq Nat /\ Generation \subseteq Nat
  BY OperatorAssumption
<1>2. mv.uid \in 0 .. MaxEdits /\ mv.generation \in Generation
  BY DEF MVObject
<1>3. mv.uid \in Nat /\ mv.generation \in Nat
  BY <1>1, <1>2
<1>4. mv.deleting \in BOOLEAN
  BY DEF MVObject
<1> QED
  BY <1>3, <1>4

(* A copy taken before is behind a new version, and not equal to it.        *)
LEMMA NewerDiffers ==
    ASSUME edits \in Nat, edits' \in Nat, edits' >= edits,
           NEW k \in DOMAIN mvs', mvs'[k] \in MVObject, Newer(k),
           k \in DOMAIN mvs => mvs[k] \in MVObject,
           NEW copy \in MVObject, NotAhead(copy, k)
    PROVE  mvs'[k] # copy /\ NotAhead(copy, k)'
<1>1. /\ copy.uid \in Nat /\ copy.generation \in Nat /\ copy.deleting \in BOOLEAN
      /\ mvs'[k].uid \in Nat /\ mvs'[k].generation \in Nat /\ mvs'[k].deleting \in BOOLEAN
      /\ k \in DOMAIN mvs => mvs[k].generation \in Nat /\ mvs[k].deleting \in BOOLEAN
  BY MVNumbers
<1>2. CASE edits < mvs'[k].uid
  <2>1. copy.uid <= edits' /\ mvs'[k].uid # copy.uid
    BY <1>1, <1>2 DEF NotAhead
  <2> QED
    BY <2>1 DEF NotAhead
<1>3. CASE mvs'[k].uid # copy.uid
  <2>1. copy.uid <= edits'
    BY <1>1 DEF NotAhead
  <2> QED
    BY <1>3, <2>1 DEF NotAhead
<1>4. CASE ~(edits < mvs'[k].uid) /\ mvs'[k].uid = copy.uid
  <2>1. /\ k \in DOMAIN mvs /\ mvs'[k].uid = mvs[k].uid
        /\ mvs'[k].generation >= mvs[k].generation
        /\ mvs[k].deleting => mvs'[k].deleting
        /\ mvs'[k].generation > mvs[k].generation \/ mvs'[k].deleting # mvs[k].deleting
    BY <1>4 DEF Newer
  <2>2. /\ copy.uid <= edits /\ copy.generation <= mvs[k].generation
        /\ copy.deleting => mvs[k].deleting
    BY <1>4, <2>1 DEF NotAhead
  <2>3. /\ copy.uid <= edits' /\ copy.generation <= mvs'[k].generation
        /\ copy.deleting => mvs'[k].deleting
    BY <1>1, <2>1, <2>2
  <2>4. mvs'[k].generation # copy.generation \/ mvs'[k].deleting # copy.deleting
    <3>1. CASE mvs'[k].generation > mvs[k].generation
      BY <1>1, <2>1, <2>2, <3>1
    <3>2. CASE mvs'[k].deleting # mvs[k].deleting
      BY <1>1, <2>1, <2>2, <3>2
    <3> QED
      BY <2>1, <3>1, <3>2
  <2> QED
    BY <2>3, <2>4 DEF NotAhead
<1> QED
  BY <1>2, <1>3, <1>4

(* A copy of another version stays behind.                                  *)
LEMMA NotAheadKept ==
    ASSUME ClusterInv, ClusterInv', MVChange, NEW k, NEW copy \in MVObject, NotAhead(copy, k)
    PROVE  /\ NotAhead(copy, k)'
           /\ k \in DOMAIN mvs' /\ mvs'[k] = copy => k \in DOMAIN mvs /\ mvs[k] = copy
<1>1. edits \in Nat /\ edits' \in Nat /\ edits' >= edits /\ copy.uid \in Nat
  BY OperatorAssumption DEF ClusterInv, MVChange, MVObject
<1>2. CASE k \notin DOMAIN mvs'
  <2>1. copy.uid <= edits'
    BY <1>1 DEF NotAhead
  <2> QED
    BY <1>2, <2>1 DEF NotAhead
<1>3. CASE k \in DOMAIN mvs' /\ k \in DOMAIN mvs /\ mvs'[k] = mvs[k]
  <2>1. copy.uid <= edits'
    BY <1>1 DEF NotAhead
  <2> QED
    BY <1>3, <2>1 DEF NotAhead
<1>4. CASE k \in DOMAIN mvs' /\ Newer(k)
  <2>1. mvs'[k] \in MVObject /\ (k \in DOMAIN mvs => mvs[k] \in MVObject)
    BY <1>4 DEF ClusterInv, APITypes, IsMap
  <2> QED
    BY <1>1, <1>4, <2>1, NewerDiffers
<1> QED
  BY <1>2, <1>3, <1>4 DEF MVChange

(* A change of the object is an event that is still to be observed.         *)
LEMMA MVChangePublication ==
    ASSUME ClusterInv, ClusterInv', MVChange, PublicationInv
    PROVE  PublicationInv'
<1> USE DEF PublicationInv
<1>0. /\ UNCHANGED <<mvCache, mvQueue, mvWorker, readMV>>
      /\ UNCHANGED <<modelValidations, adding, update, pending, active, closed>>
  BY DEF MVChange, trackerVars, tables, queueVars
<1>1. \A k \in DOMAIN mvCache : mvCache[k] \in MVObject
  BY DEF ClusterInv, CacheTypes, IsMap
<1>2. readMV # Idle => readMV \in MVObject
  BY DEF ClusterInv, WorkerTypes
<1>3. CopiesBehind'
  <2>1. \A k \in DOMAIN mvs' : mvs'[k].uid <= edits'
    <3> SUFFICES ASSUME NEW k \in DOMAIN mvs' PROVE mvs'[k].uid <= edits'
      OBVIOUS
    <3>1. /\ edits \in Nat /\ edits' \in Nat /\ edits' >= edits
          /\ mvs'[k].uid \in Nat
      BY OperatorAssumption DEF ClusterInv, MVChange, APITypes, IsMap, MVObject
    <3>2. \/ k \in DOMAIN mvs /\ mvs'[k].uid = mvs[k].uid
          \/ mvs'[k].uid <= edits'
      BY DEF MVChange, Newer
    <3> QED
      BY <3>1, <3>2 DEF CopiesBehind
  <2>2. \A k \in DOMAIN mvCache : NotAhead(mvCache[k], k)'
    <3> SUFFICES ASSUME NEW k \in DOMAIN mvCache PROVE NotAhead(mvCache[k], k)'
      OBVIOUS
    <3> DEFINE copy == mvCache[k]
    <3>1. copy \in MVObject /\ NotAhead(copy, k) /\ copy' = copy
      BY <1>0, <1>1 DEF CopiesBehind
    <3> QED
      BY <1>0, <3>1, NotAheadKept DEF NotAhead
  <2>3. readMV # Idle => NotAhead(readMV, active)'
    BY <1>0, <1>2, NotAheadKept DEF CopiesBehind, NotAhead
  <2> QED
    BY <1>0, <2>1, <2>2, <2>3 DEF CopiesBehind
<1>4. CopyHeld'
  BY <1>0 DEF CopyHeld
<1>5. CopyCached'
  BY <1>0, <1>2, NotAheadKept DEF CopiesBehind, CopyCached
<1>6. ASSUME NEW k \in Tracked, k \in DOMAIN mvs', ~mvs'[k].deleting
      PROVE  UnderWay(k)'
  <2>1. CASE k \in DOMAIN mvs /\ mvs'[k] = mvs[k]
    <3>1. UnderWay(k)
      BY <1>6, <2>1 DEF PublishedOrUnderWay, Live
    <3>2. Same(mvs, mvCache, k)' = Same(mvs, mvCache, k)
      BY <1>0, <1>6, <2>1 DEF Same
    <3> QED
      BY <1>0, <2>1, <3>1, <3>2 DEF UnderWay, Signalled, InWork
  <2>2. CASE k \in DOMAIN mvs => mvs'[k] # mvs[k]
    <3>1. k \in DOMAIN mvCache => mvCache[k] # mvs'[k]
      BY <1>1, <1>6, <2>2, NotAheadKept, NewerDiffers DEF CopiesBehind
    <3> QED
      BY <1>0, <1>6, <3>1 DEF UnderWay, Signalled, Same
  <2> QED
    BY <2>1, <2>2
<1>7. PublishedOrUnderWay'
  BY <1>0, <1>6 DEF PublishedOrUnderWay, Live, Tracked
<1> QED
  BY <1>0, <1>3, <1>4, <1>5, <1>7 DEF QueueOpen

-----------------------------------------------------------------------------
(* Steps of the operator *)

(* What is under way stays under way in a step that leaves k's object alone *)
(* and loses no event of it: a handler that changes what is to be published *)
(* announces it.                                                            *)
LEMMA StaysUnderWay ==
    ASSUME ClusterInv, PublicationInv, [Next]_vars,
           NEW k \in Tracked', Live(k)', Live(k), mvs'[k] = mvs[k],
           k \in Tracked => (Signalled(k) => UnderWay(k)'),
           k \in Tracked => (InWork(k) => UnderWay(k)')
    PROVE  UnderWay(k)'
<1>1. PublishedStep(k)
  BY StepsPublish, TrackerSteps, ClusterInvTypes DEF ClusterInv, PublicationInv
<1>2. CASE Announced(k)
  BY <1>2 DEF Announced, UnderWay, Signalled
<1>3. CASE k \in Tracked /\ StatusOf(modelValidations'[k]) = StatusOf(modelValidations[k])
  <2>1. UnderWay(k)
    BY <1>3 DEF PublicationInv, PublishedOrUnderWay
  <2>2. mvs[k].status = StatusOf(modelValidations[k]) => UnderWay(k)'
    BY <1>3 DEF UnderWay
  <2> QED
    BY <1>3, <2>1, <2>2 DEF UnderWay
<1> QED
  BY <1>1, <1>2, <1>3 DEF PublishedStep

(* An open queue loses no key that is added.                                *)
LEMMA AddKeeps ==
    ASSUME QueueOpen, NEW ks, Add(ks)
    PROVE  pending' = pending \cup ks /\ active' = active
BY DEF QueueOpen, Add, AddAll

(* Steps that leave the objects and the worker alone and lose no event.     *)
LEMMA QuietStep ==
    ASSUME ClusterInv, PublicationInv, [Next]_vars,
           UNCHANGED <<mvs, readMV, edits, active, update>>,
           \A k \in DOMAIN mvCache' : \/ k \in DOMAIN mvCache /\ mvCache'[k] = mvCache[k]
                                      \/ k \in DOMAIN mvs /\ mvCache'[k] = mvs[k],
           \A k \in DOMAIN mvCache : \/ k \in DOMAIN mvCache' /\ mvCache'[k] = mvCache[k]
                                     \/ k \notin DOMAIN mvs
                                     \/ k \in DOMAIN mvCache' /\ mvCache'[k] = mvs[k],
           \A k \in Tracked' : k \in Tracked /\ Signalled(k) => Signalled(k)'
    PROVE  PublicationInv'
<1>1. QueueOpen'
  BY StepsPublish, TrackerSteps, ClusterInvTypes DEF ClusterInv, PublicationInv
<1>2. CopiesBehind'
  <2>1. \A k \in DOMAIN mvs : mvs'[k].uid <= edits'
    BY DEF PublicationInv, CopiesBehind
  <2>2. ASSUME NEW k \in DOMAIN mvs PROVE NotAhead(mvs[k], k)
    <3>1. mvs[k].generation \in Nat
      BY MVNumbers DEF ClusterInv, APITypes, IsMap
    <3> QED
      BY <2>1, <3>1 DEF NotAhead
  <2>3. ASSUME NEW k \in DOMAIN mvCache' PROVE NotAhead(mvCache[k], k)'
    <3> DEFINE copy == mvCache'[k]
    <3>1. NotAhead(copy, k)
      BY <2>2 DEF PublicationInv, CopiesBehind
    <3> QED
      BY <3>1 DEF NotAhead
  <2>4. readMV # Idle => NotAhead(readMV, active)'
    BY DEF PublicationInv, CopiesBehind, NotAhead
  <2> QED
    BY <2>1, <2>3, <2>4 DEF CopiesBehind
<1>3. CopyHeld'
  BY DEF PublicationInv, CopyHeld
<1>4. CopyCached'
  BY DEF PublicationInv, CopyCached
<1>5. PublishedOrUnderWay'
  <2> SUFFICES ASSUME NEW k \in Tracked', Live(k)' PROVE UnderWay(k)'
    BY DEF PublishedOrUnderWay
  <2>1. Live(k) /\ mvs'[k] = mvs[k]
    BY DEF Live
  <2>2. InWork(k) => InWork(k)'
    BY DEF InWork
  <2> QED
    BY <2>1, <2>2, StaysUnderWay DEF UnderWay
<1> QED
  BY <1>1, <1>2, <1>3, <1>4, <1>5 DEF PublicationInv

(* The informer of ModelValidations and their controller pass the event on: *)
(* from the cache to the controller's queue, to Reconcile, to the tracker's *)
(* queue.                                                                   *)
LEMMA MVStepPublication ==
    ASSUME ClusterInv, PublicationInv, [Next]_vars,
           \/ \E k \in Key : SyncMV(k) \/ MVRead(k)
           \/ MVReconcile \/ MVEnqueue
    PROVE  PublicationInv'
<1>1. ASSUME NEW j \in Key, SyncMV(j) PROVE PublicationInv'
  <2>1. UNCHANGED <<mvs, readMV, edits, active, update, pending, adding, mvWorker>>
    BY <1>1 DEF SyncMV, trackerVars, tables, queueVars, apiVars, boundVars
  <2>2. \A k \in Tracked' : Signalled(k) => Signalled(k)'
    BY <1>1, <2>1 DEF SyncMV, Signalled, Same, Copied, Put, Drop
  <2> QED
    BY <1>1, <2>1, <2>2, QuietStep DEF SyncMV, Copied, Put, Drop
<1>2. ASSUME NEW j \in Key, MVRead(j) PROVE PublicationInv'
  <2>1. UNCHANGED <<mvs, mvCache, readMV, edits, active, update, pending, adding>>
    BY <1>2 DEF MVRead, trackerVars, tables, queueVars, apiVars, boundVars
  <2>2. mvWorker = Idle /\ mvWorker' # Idle /\ mvWorker'.key = j /\ mvQueue' = mvQueue \ {j}
    BY <1>2 DEF MVRead, Idle
  <2>3. \A k \in Tracked' : Signalled(k) => Signalled(k)'
    BY <2>1, <2>2 DEF Signalled, Same
  <2> QED
    BY <2>1, <2>3, QuietStep
<1>3. CASE MVReconcile
  <2>1. UNCHANGED <<mvs, mvCache, mvQueue, readMV, edits, active, update, pending>>
    BY <1>3 DEF MVReconcile, AddModelValidation, RemoveModelValidation, queueVars, apiVars,
                cacheVars, boundVars
  <2>2. \/ adding = NoKey /\ adding' = mvWorker.key
        \/ adding' = adding /\ mvWorker.key \notin Tracked'
    BY <1>3 DEF MVReconcile, AddModelValidation, RemoveModelValidation, Drop, tables, Tracked
  <2>3. \A k \in Tracked' : k \in Tracked /\ Signalled(k) => Signalled(k)'
    <3>1. \A k \in Tracked : k # NoKey
      BY TrackerAssumption DEF ClusterInv, TypeInv, TypeOK, IsTracking, Tracked
    <3> QED
      BY <2>1, <2>2, <3>1 DEF Signalled, Same
  <2> QED
    BY <2>1, <2>3, QuietStep
<1>4. CASE MVEnqueue
  <2>1. UNCHANGED <<mvs, mvCache, mvQueue, mvWorker, readMV, edits, update>>
    BY <1>4 DEF MVEnqueue, EnqueueAdded, apiVars, cacheVars, boundVars
  <2>2. pending' = pending \cup {adding} /\ active' = active
    BY <1>4, AddKeeps DEF MVEnqueue, EnqueueAdded, PublicationInv
  <2>3. \A k \in Tracked' : Signalled(k) => Signalled(k)'
    BY <2>1, <2>2 DEF Signalled, Same
  <2> QED
    BY <2>1, <2>2, <2>3, QuietStep
<1> QED
  BY <1>1, <1>2, <1>3, <1>4

(* Pods, their controller and the seeding goroutines only add to the        *)
(* tracker's queue.                                                         *)
LEMMA PodStepPublication ==
    ASSUME ClusterInv, PublicationInv, [Next]_vars,
           \/ \E n \in PodName : SyncPod(n) \/ PodRead(n)
           \/ PodReconcile \/ PodUpdate
           \/ \E s \in Seeder : SeedStep(s)
           \/ UNCHANGED vars
    PROVE  PublicationInv'
<1>1. UNCHANGED <<mvs, mvCache, mvQueue, mvWorker, readMV, edits>>
  BY DEF SyncPod, PodRead, PodReconcile, PodUpdate, SeedStep, apiVars, cacheVars, boundVars, vars
<1>2. ASSUME UNCHANGED trackerVars
      PROVE  adding' = adding /\ update' = update /\ active' = active /\ pending \subseteq pending'
  BY <1>2 DEF trackerVars, queueVars
<1>3. ASSUME NEW u, RemovePodEvent(u)
      PROVE  adding' = adding /\ update' = update /\ active' = active /\ pending \subseteq pending'
  BY <1>3, AddKeeps DEF RemovePodEvent, Untrack, PublicationInv
<1>4. ASSUME NEW n, RemovePodByName(n)
      PROVE  adding' = adding /\ update' = update /\ active' = active /\ pending \subseteq pending'
  BY <1>4, AddKeeps DEF RemovePodByName, Untrack, queueVars, PublicationInv
<1>5. ASSUME NEW pod, NEW k, TrackPod(pod, k)
      PROVE  active' = active /\ pending \subseteq pending'
  BY <1>5, AddKeeps DEF TrackPod, queueVars, PublicationInv
<1>6. ASSUME NEW pod, ProcessPodEvent(pod)
      PROVE  adding' = adding /\ update' = update /\ active' = active /\ pending \subseteq pending'
  BY <1>5, <1>6 DEF ProcessPodEvent, queueVars
<1>7. ASSUME NEW s \in Seeder, SeedStep(s)
      PROVE  adding' = adding /\ update' = update /\ active' = active /\ pending \subseteq pending'
  BY <1>5, <1>7 DEF SeedStep, SeedList, SeedFail, SeedPod, SeedDone, queueVars
<1>8. adding' = adding /\ update' = update /\ active' = active /\ pending \subseteq pending'
  BY <1>2, <1>3, <1>4, <1>6, <1>7
     DEF SyncPod, PodRead, PodReconcile, PodDeleted, PodUnlabelled, PodLabelled, PodUntrack,
         PodUpdate, vars
<1>9. \A k \in Tracked' : Signalled(k) => Signalled(k)'
  BY <1>1, <1>8 DEF Signalled, Same
<1> QED
  BY <1>1, <1>8, <1>9, QuietStep

-----------------------------------------------------------------------------
(* Steps of the worker *)

(* What remains to be shown of a step of the worker that leaves the objects *)
(* alone.                                                                   *)
LEMMA WorkerQuiet ==
    ASSUME ClusterInv, PublicationInv, [Next]_vars, WorkerOnly, mvs' = mvs,
           \/ readMV' = Idle
           \/ readMV' = readMV /\ active' = active
           \/ /\ active \in DOMAIN mvCache
              /\ readMV' = mvCache[active] /\ active' = active,
           CopyHeld',
           \A k \in Tracked : k \in Tracked' => (Signalled(k) => UnderWay(k)'),
           \A k \in Tracked : k \in Tracked' /\ Live(k) => (InWork(k) => UnderWay(k)')
    PROVE  PublicationInv'
<1>1. QueueOpen'
  BY StepsPublish, TrackerSteps, ClusterInvTypes DEF ClusterInv, PublicationInv
<1>2. mvCache' = mvCache /\ edits' = edits
  BY DEF WorkerOnly, cacheVars, boundVars
<1>3. CopiesBehind'
  BY <1>2 DEF PublicationInv, CopiesBehind, NotAhead
<1>4. CopyCached'
  BY <1>2 DEF PublicationInv, CopyCached
<1>5. PublishedOrUnderWay'
  <2> SUFFICES ASSUME NEW k \in Tracked', Live(k)' PROVE UnderWay(k)'
    BY DEF PublishedOrUnderWay
  <2>1. Live(k) /\ mvs'[k] = mvs[k]
    BY DEF Live
  <2> QED
    BY <2>1, StaysUnderWay
<1> QED
  BY <1>1, <1>3, <1>4, <1>5 DEF PublicationInv

(* The worker takes a key: it is no longer pending but in work.             *)
LEMMA WorkerTakePublication ==
    ASSUME ClusterInv, PublicationInv, [Next]_vars, WorkerTake
    PROVE  PublicationInv'
<1> PICK j \in Key : WorkerGet(j)
  BY DEF WorkerTake
<1>1. /\ update.pc = "idle" /\ active = NoKey
      /\ active' = j /\ update' = [pc |-> "read"]
      /\ pending \subseteq pending' \cup {j} /\ adding' = adding
      /\ UNCHANGED <<mvs, mvCache, mvQueue, mvWorker, readMV>>
  BY DEF WorkerTake, WorkerGet, Get, WorkerOnly, cacheVars
<1>2. readMV' = Idle
  BY <1>1 DEF PublicationInv, CopyHeld
<1>3. CopyHeld'
  BY <1>1, <1>2 DEF CopyHeld
<1>4. \A k : Signalled(k) => Signalled(k)' \/ InWork(k)'
  BY <1>1 DEF Signalled, Same, InWork
<1>5. \A k \in Tracked : ~InWork(k)
  BY <1>1 DEF InWork
<1> QED
  BY <1>1, <1>2, <1>3, <1>4, <1>5, WorkerQuiet DEF WorkerTake, UnderWay

(* A retry puts the key back on the queue.                                  *)
LEMMA RetrySignals ==
    ASSUME QueueOpen, Retry, WorkerOnly, mvs' = mvs, adding' = adding
    PROVE  /\ \A k : Signalled(k) => Signalled(k)'
           /\ Signalled(active)' /\ active' = active /\ update'.pc = "done"
<1>1. pending' = pending \cup {active} /\ active' = active /\ update' = [pc |-> "done"]
  BY AddKeeps DEF Retry
<1> QED
  BY <1>1 DEF WorkerOnly, cacheVars, Signalled, Same

(* The worker's read of the cache.                                          *)
LEMMA WorkerReadPublication ==
    ASSUME ClusterInv, PublicationInv, [Next]_vars, WorkerRead
    PROVE  PublicationInv'
<1>1. update.pc = "read" /\ readMV = Idle /\ QueueOpen /\ WorkerOnly /\ mvs' = mvs
  BY DEF WorkerRead, ReadFound, ReadMissing, ReadError, PublicationInv, CopyHeld
<1>2. CASE /\ active \in DOMAIN mvCache
           /\ ReadFound(mvCache[active].config, mvCache[active].status)
           /\ readMV' = mvCache[active]
  <2>1. /\ update'.pc = "found" /\ update'.status = mvCache[active].status
        /\ active' = active /\ pending' = pending /\ adding' = adding
    BY <1>2 DEF ReadFound, queueVars
  <2>2. mvCache[active] # Idle
    BY <1>2 DEF ClusterInv, CacheTypes, IsMap, MVObject, Idle
  <2>3. CopyHeld'
    BY <1>2, <2>1, <2>2 DEF CopyHeld
  <2>4. \A k : Signalled(k) => Signalled(k)'
    BY <1>1, <2>1 DEF WorkerOnly, cacheVars, Signalled, Same
  <2>5. \A k : Live(k) /\ InWork(k) => Signalled(k)' \/ InWork(k)'
    BY <1>1, <1>2, <2>1 DEF WorkerOnly, cacheVars, Live, InWork, Signalled, Same
  <2> QED
    BY <1>1, <1>2, <2>1, <2>3, <2>4, <2>5, WorkerQuiet DEF UnderWay
<1>3. CASE ReadMissing /\ UNCHANGED readMV
  <2>1. update'.pc = "missing" /\ active' = active /\ pending' = pending /\ adding' = adding
    BY <1>3 DEF ReadMissing, queueVars
  <2>2. CopyHeld'
    BY <1>1, <1>3, <2>1 DEF CopyHeld
  <2>3. \A k : (Signalled(k) => Signalled(k)') /\ (InWork(k) => InWork(k)')
    BY <1>1, <2>1 DEF WorkerOnly, cacheVars, InWork, Signalled, Same
  <2> QED
    BY <1>1, <1>3, <2>2, <2>3, WorkerQuiet DEF UnderWay
<1>4. CASE ReadError /\ UNCHANGED readMV
  <2>1. Retry /\ adding' = adding
    BY <1>4 DEF ReadError
  <2>2. /\ \A k : Signalled(k) => Signalled(k)'
        /\ Signalled(active)' /\ active' = active /\ update'.pc = "done"
    BY <1>1, <2>1, RetrySignals
  <2>3. CopyHeld'
    BY <1>1, <1>4, <2>2 DEF CopyHeld
  <2> QED
    BY <1>1, <1>4, <2>2, <2>3, WorkerQuiet DEF UnderWay, InWork
<1> QED
  BY <1>2, <1>3, <1>4 DEF WorkerRead

(* The ModelValidation is not in the cache and is forgotten.                *)
LEMMA WorkerForgetPublication ==
    ASSUME ClusterInv, PublicationInv, [Next]_vars, WorkerForget
    PROVE  PublicationInv'
<1>1. /\ update'.pc = "done" /\ active' = active /\ pending' = pending /\ adding' = adding
      /\ WorkerOnly /\ mvs' = mvs /\ readMV' = readMV
      /\ update.pc = "missing" /\ active \notin Tracked'
  BY DEF WorkerForget, Forget, Succeed, queueVars, Drop, Tracked
<1>2. readMV' = Idle
  BY <1>1 DEF PublicationInv, CopyHeld
<1>3. CopyHeld'
  BY <1>1, <1>2 DEF CopyHeld
<1>4. \A k : Signalled(k) => Signalled(k)'
  BY <1>1 DEF WorkerOnly, cacheVars, Signalled, Same
<1>5. \A k \in Tracked' : ~InWork(k)
  BY <1>1 DEF InWork
<1> QED
  BY <1>1, <1>2, <1>3, <1>4, <1>5, WorkerQuiet DEF UnderWay

(* What the worker has read is compared with what the tracker knows.        *)
LEMMA WorkerComparePublication ==
    ASSUME ClusterInv, PublicationInv, [Next]_vars, WorkerCompare
    PROVE  PublicationInv'
<1>1. /\ update.pc = "found" /\ WorkerOnly /\ mvs' = mvs
      /\ adding' = adding /\ modelValidations' = modelValidations
      /\ readMV' = IF update'.pc = "write" THEN readMV ELSE Idle
      /\ QueueOpen
  BY DEF WorkerCompare, Compare, tables, PublicationInv
<1>2. \/ /\ Succeed
         /\ active \in Tracked => StatusOf(modelValidations[active]) = update.status
      \/ Retry
      \/ /\ update' = [pc |-> "write", status |-> StatusOf(modelValidations[active])]
         /\ StatusOf(modelValidations[active]) # update.status
         /\ UNCHANGED queueVars
  BY DEF WorkerCompare, Compare
<1>3. CASE /\ Succeed
           /\ active \in Tracked => StatusOf(modelValidations[active]) = update.status
  <2>1. update'.pc = "done" /\ active' = active /\ pending' = pending
    BY <1>3 DEF Succeed, queueVars
  <2>2. CopyHeld' /\ readMV' = Idle
    BY <1>1, <2>1 DEF CopyHeld
  <2>3. \A k : Signalled(k) => Signalled(k)'
    BY <1>1, <2>1 DEF WorkerOnly, cacheVars, Signalled, Same
  <2>4. \A k \in Tracked : InWork(k) => mvs'[k].status = StatusOf(modelValidations'[k])
    BY <1>1, <1>3 DEF InWork
  <2> QED
    BY <1>1, <2>2, <2>3, <2>4, WorkerQuiet DEF UnderWay
<1>4. CASE Retry
  <2>1. /\ \A k : Signalled(k) => Signalled(k)'
        /\ Signalled(active)' /\ active' = active /\ update'.pc = "done"
    BY <1>1, <1>4, RetrySignals
  <2>2. CopyHeld' /\ readMV' = Idle
    BY <1>1, <2>1 DEF CopyHeld
  <2> QED
    BY <1>1, <2>1, <2>2, WorkerQuiet DEF UnderWay, InWork
<1>5. CASE /\ update' = [pc |-> "write", status |-> StatusOf(modelValidations[active])]
           /\ StatusOf(modelValidations[active]) # update.status
           /\ UNCHANGED queueVars
  <2>1. active' = active /\ pending' = pending
    BY <1>5 DEF queueVars
  <2>2. readMV' = readMV /\ readMV # Idle /\ update.status = readMV.status
    BY <1>1, <1>5 DEF PublicationInv, CopyHeld
  <2>3. CopyHeld'
    BY <1>5, <2>2 DEF CopyHeld
  <2>4. \A k : (Signalled(k) => Signalled(k)') /\ (InWork(k) => InWork(k)')
    BY <1>1, <1>5, <2>1 DEF WorkerOnly, cacheVars, Signalled, Same, InWork
  <2> QED
    BY <1>1, <2>1, <2>2, <2>3, <2>4, WorkerQuiet DEF UnderWay
<1> QED
  BY <1>2, <1>3, <1>4, <1>5

(* A status that is written differs from the one in the cache: the informer *)
(* will bring the event of it.  A conflict or a fault is retried.           *)
LEMMA WorkerWritePublication ==
    ASSUME ClusterInv, PublicationInv, [Next]_vars, WorkerWrite
    PROVE  PublicationInv'
<1>1. WorkerOnly /\ readMV' = Idle /\ QueueOpen /\ update.pc = "write" /\ readMV # Idle
  BY DEF WorkerWrite, WriteDone, WriteFailed, PublicationInv, CopyHeld
<1>2. CASE UpToDate /\ WriteDone /\ mvs' = [mvs EXCEPT ![active].status = update.status]
  <2>1. /\ update'.pc = "done" /\ active' = active /\ pending' = pending /\ adding' = adding
        /\ modelValidations' = modelValidations
        /\ UNCHANGED <<mvCache, mvQueue, mvWorker, edits>>
        /\ QueueOpen'
    BY <1>1, <1>2 DEF WriteDone, Succeed, queueVars, tables, WorkerOnly, cacheVars, boundVars, QueueOpen
  <2>2. active \in DOMAIN mvs /\ mvs[active] = readMV /\ readMV \in MVObject
    BY <1>1, <1>2 DEF UpToDate, ClusterInv, WorkerTypes
  <2>3. /\ DOMAIN mvs' = DOMAIN mvs
        /\ \A k \in DOMAIN mvs : k # active => mvs'[k] = mvs[k]
        /\ \A k \in DOMAIN mvs : /\ mvs'[k].uid = mvs[k].uid
                                 /\ mvs'[k].generation = mvs[k].generation
                                 /\ mvs'[k].deleting = mvs[k].deleting
        /\ mvs'[active].status = update.status
    BY <1>2, <2>2 DEF MVObject
  <2>4. CopiesBehind'
    BY <1>1, <2>1, <2>3 DEF PublicationInv, CopiesBehind, NotAhead
  <2>5. CopyHeld' /\ CopyCached'
    BY <1>1, <2>1 DEF CopyHeld, CopyCached
  <2>6. mvCache[active].status # update.status
    BY <1>1, <2>2 DEF PublicationInv, CopyCached, CopyHeld
  <2>7. ASSUME NEW k, k = active PROVE Signalled(k)'
    BY <2>1, <2>2, <2>3, <2>6, <2>7 DEF Signalled, Same
  <2>8. ASSUME NEW k \in Tracked', Live(k)' PROVE UnderWay(k)'
    <3>1. CASE k = active
      BY <2>7, <3>1 DEF UnderWay
    <3>2. CASE k # active
      <4>1. k \in Tracked /\ Live(k) /\ mvs'[k] = mvs[k]
        BY <2>1, <2>3, <2>8, <3>2 DEF Live, Tracked
      <4>2. Signalled(k) => Signalled(k)'
        BY <2>1, <2>3, <3>2, <4>1 DEF Signalled, Same, Live
      <4>3. ~InWork(k)
        BY <3>2 DEF InWork
      <4> QED
        BY <2>8, <4>1, <4>2, <4>3, StaysUnderWay DEF UnderWay
    <3> QED
      BY <3>1, <3>2
  <2>9. PublishedOrUnderWay'
    BY <2>8 DEF PublishedOrUnderWay
  <2> QED
    BY <2>1, <2>4, <2>5, <2>9 DEF PublicationInv
<1>3. CASE WriteFailed /\ UNCHANGED mvs
  <2>1. Retry /\ adding' = adding
    BY <1>3 DEF WriteFailed
  <2>2. /\ \A k : Signalled(k) => Signalled(k)'
        /\ Signalled(active)' /\ active' = active /\ update'.pc = "done"
    BY <1>1, <1>3, <2>1, RetrySignals
  <2>3. CopyHeld'
    BY <1>1, <2>2 DEF CopyHeld
  <2> QED
    BY <1>1, <1>3, <2>2, <2>3, WorkerQuiet DEF UnderWay, InWork
<1> QED
  BY <1>2, <1>3 DEF WorkerWrite

(* The worker is done with a key.                                           *)
LEMMA WorkerFinishPublication ==
    ASSUME ClusterInv, PublicationInv, [Next]_vars, WorkerFinish
    PROVE  PublicationInv'
<1>1. /\ update.pc = "done" /\ update'.pc = "idle" /\ pending' = pending /\ adding' = adding
      /\ WorkerOnly /\ mvs' = mvs /\ readMV' = readMV
  BY DEF WorkerFinish, WorkerDone, Done, IdleUpdate
<1>2. CopyHeld' /\ readMV' = Idle
  BY <1>1 DEF PublicationInv, CopyHeld
<1>3. \A k : Signalled(k) => Signalled(k)'
  BY <1>1 DEF WorkerOnly, cacheVars, Signalled, Same
<1>4. \A k : ~InWork(k)
  BY <1>1 DEF InWork
<1> QED
  BY <1>1, <1>2, <1>3, <1>4, WorkerQuiet DEF UnderWay

(* A restarted operator tracks nothing and finds every object queued.       *)
LEMMA RestartPublication ==
    ASSUME ClusterInv, PublicationInv, Restart
    PROVE  PublicationInv'
<1>1. /\ closed' = FALSE /\ mvCache' = mvs /\ mvs' = mvs /\ edits' = edits
      /\ readMV' = Idle /\ update'.pc = "idle" /\ Tracked' = {}
  BY DEF Restart, NewStatusTracker, apiVars, IdleUpdate, EmptyMap, Tracked
<1>2. \A k \in DOMAIN mvs : mvs[k].generation \in Nat
  BY MVNumbers DEF ClusterInv, APITypes, IsMap
<1>3. CopiesBehind'
  BY <1>1, <1>2 DEF PublicationInv, CopiesBehind, NotAhead
<1>4. CopyHeld' /\ CopyCached' /\ PublishedOrUnderWay' /\ QueueOpen'
  BY <1>1 DEF CopyHeld, CopyCached, PublishedOrUnderWay, QueueOpen
<1> QED
  BY <1>3, <1>4 DEF PublicationInv

-----------------------------------------------------------------------------
(* The theorem *)

LEMMA InitPublication == Init => PublicationInv
<1> SUFFICES ASSUME Init PROVE PublicationInv
  OBVIOUS
<1>1. /\ mvCache = mvs /\ readMV = Idle /\ edits = 0 /\ closed = FALSE
      /\ update.pc = "idle" /\ Tracked = {}
  BY DEF Init, TrackerInit, QueueInit, IdleUpdate, EmptyMap, Tracked
<1>2. \A k \in DOMAIN mvs : mvs[k].uid = 0 /\ mvs[k].generation \in Nat
  BY DEF Init, NewMV
<1>3. CopiesBehind
  BY <1>1, <1>2 DEF CopiesBehind, NotAhead
<1>4. CopyHeld /\ CopyCached /\ PublishedOrUnderWay /\ QueueOpen
  BY <1>1 DEF CopyHeld, CopyCached, PublishedOrUnderWay, QueueOpen
<1> QED
  BY <1>3, <1>4 DEF PublicationInv

LEMMA NextPublication ==
    ClusterInv /\ PublicationInv /\ [Next]_vars => PublicationInv'
<1> SUFFICES ASSUME ClusterInv, PublicationInv, [Next]_vars PROVE PublicationInv'
  OBVIOUS
<1>1. CASE Users \/ (\E k \in Key : MVGone(k)) \/ (\E n \in PodName : PodGone(n))
  BY <1>1, ClusterSteps, MVChanges, MVChangePublication
<1>2. CASE (\E k \in Key : SyncMV(k) \/ MVRead(k)) \/ MVReconcile \/ MVEnqueue
  BY <1>2, MVStepPublication
<1>3. CASE \/ \E n \in PodName : SyncPod(n) \/ PodRead(n)
           \/ PodReconcile \/ PodUpdate
           \/ \E s \in Seeder : SeedStep(s)
           \/ UNCHANGED vars
  BY <1>3, PodStepPublication
<1>4. CASE WorkerStep
  BY <1>4, WorkerTakePublication, WorkerReadPublication, WorkerForgetPublication,
     WorkerComparePublication, WorkerWritePublication, WorkerFinishPublication DEF WorkerStep
<1>5. CASE Restart
  BY <1>5, RestartPublication
<1> QED
  BY <1>1, <1>2, <1>3, <1>4, <1>5 DEF Next, System

(* No update of a status is lost, to a stale cached copy, a conflict, a     *)
(* fault, a debounced event or a restart, whatever users do: once           *)
(* everything has been observed, the status users read is the tracker's.    *)
THEOREM StatusPublishedAlways == Spec => []StatusPublished
<1>1. ClusterInv /\ PublicationInv => StatusPublished
  <2> SUFFICES ASSUME ClusterInv, PublicationInv, Quiescent, NEW k \in Tracked, Live(k)
               PROVE  mvs[k].status = StatusOf(modelValidations[k])
    BY DEF StatusPublished
  <2>1. k \in Key /\ k # NoKey
    BY TrackerAssumption DEF ClusterInv, TypeInv, TypeOK, IsTracking, Tracked
  <2>2. ~Signalled(k) /\ ~InWork(k)
    BY <2>1 DEF Quiescent, Signalled, InWork
  <2> QED
    BY <2>2 DEF PublicationInv, PublishedOrUnderWay, UnderWay
<1> QED
  BY <1>1, InitPublication, NextPublication, ClusterAlways, PTL DEF Spec

-----------------------------------------------------------------------------
(* Which ModelValidations are tracked                                       *)

CachedLive(k) == k \in DOMAIN mvCache /\ ~mvCache[k].deleting

Reconciling(k) == k \in mvQueue \/ (mvWorker # Idle /\ mvWorker.key = k)

(* What a Reconcile call has found out is what the cache says, or the key   *)
(* is queued for another call.                                              *)
ReconcileFresh ==
    mvWorker # Idle /\ mvWorker.key \notin mvQueue =>
        ((mvWorker.pc = "found" /\ ~mvWorker.mv.deleting) <=> CachedLive(mvWorker.key))

TrackedCached == \A k \in Tracked : CachedLive(k) \/ Reconciling(k)
CachedTracked == \A k \in DOMAIN mvCache : CachedLive(k) => k \in Tracked \/ Reconciling(k)

LEMMA InitTracking == Init => ReconcileFresh /\ TrackedCached /\ CachedTracked
BY DEF Init, TrackerInit, EmptyMap, Tracked, ReconcileFresh, TrackedCached, CachedTracked,
       Reconciling, CachedLive

(* The informer, and the read of Reconcile.                                 *)
LEMMA ObserveTracking ==
    ASSUME ReconcileFresh, NEW j \in Key, SyncMV(j) \/ MVRead(j)
    PROVE  /\ ReconcileFresh'
           /\ TrackedCached => TrackedCached'
           /\ CachedTracked => CachedTracked'
<1>1. Tracked' = Tracked
  BY DEF SyncMV, MVRead, trackerVars, tables, Tracked
<1>2. CASE SyncMV(j)
  <2>1. mvWorker' = mvWorker /\ mvQueue' = mvQueue \cup {j} /\ mvCache' = Copied(mvs, mvCache, j)
    BY <1>2 DEF SyncMV
  <2>2. \A k : k # j => CachedLive(k)' = CachedLive(k)
    BY <2>1 DEF Copied, Put, Drop, CachedLive
  <2>3. /\ \A k : k # j => Reconciling(k)' = Reconciling(k)
        /\ Reconciling(j)'
    BY <2>1 DEF Reconciling
  <2>4. ReconcileFresh'
    BY <2>1, <2>2 DEF ReconcileFresh
  <2>5. \A k \in DOMAIN mvCache' : k # j => k \in DOMAIN mvCache
    BY <2>1 DEF Copied, Put, Drop
  <2> QED
    BY <1>1, <2>2, <2>3, <2>4, <2>5 DEF TrackedCached, CachedTracked
<1>3. CASE MVRead(j)
  <2>1. /\ mvCache' = mvCache /\ mvWorker = Idle /\ mvQueue' = mvQueue \ {j}
        /\ \/ j \in DOMAIN mvCache /\ mvWorker' = [pc |-> "found", key |-> j, mv |-> mvCache[j]]
           \/ j \notin DOMAIN mvCache /\ mvWorker' = [pc |-> "missing", key |-> j]
    BY <1>3 DEF MVRead
  <2>2. mvWorker' # Idle /\ mvWorker'.key = j
    BY <2>1 DEF Idle
  <2>3. ReconcileFresh'
    BY <2>1 DEF ReconcileFresh, CachedLive
  <2>4. \A k : Reconciling(k) => Reconciling(k)'
    BY <2>1, <2>2 DEF Reconciling
  <2> QED
    BY <1>1, <2>1, <2>3, <2>4 DEF TrackedCached, CachedTracked, CachedLive
<1> QED
  BY <1>2, <1>3

(* Reconcile tracks what lives and untracks what does not.                  *)
LEMMA ReconcileTracking ==
    ASSUME ReconcileFresh, MVReconcile
    PROVE  /\ ReconcileFresh'
           /\ TrackedCached => TrackedCached'
           /\ CachedTracked => CachedTracked'
<1> PICK k : k = mvWorker.key
  OBVIOUS
<1>1. UNCHANGED <<mvCache, mvQueue>> /\ mvWorker # Idle /\ mvWorker' = Idle
  BY DEF MVReconcile, cacheVars, Idle
<1>2. \/ mvWorker.pc = "found" /\ ~mvWorker.mv.deleting /\ Tracked' = Tracked \cup {k}
      \/ /\ mvWorker.pc = "missing" \/ (mvWorker.pc = "found" /\ mvWorker.mv.deleting)
         /\ Tracked' = Tracked \ {k}
  BY DEF MVReconcile, AddModelValidation, StartTracking, ContinueTracking, RemoveModelValidation,
         tables, Tracked, Put, Drop
<1>3. \A j : CachedLive(j)' = CachedLive(j)
  BY <1>1 DEF CachedLive
<1>4. k \in mvQueue \/ (k \in Tracked' <=> CachedLive(k))
  BY <1>1, <1>2 DEF ReconcileFresh
<1>5. \A j : j # k => /\ j \in Tracked' <=> j \in Tracked
                      /\ Reconciling(j)' = Reconciling(j)
  BY <1>1, <1>2 DEF Reconciling
<1>6. k \in mvQueue => Reconciling(k)'
  BY <1>1 DEF Reconciling
<1> QED
  BY <1>1, <1>3, <1>4, <1>5, <1>6 DEF ReconcileFresh, TrackedCached, CachedTracked

(* Nobody else touches the controller, and of the others only the worker    *)
(* untracks a ModelValidation: the one it has not found.                    *)
LEMMA OthersTracking ==
    ASSUME Next \/ UNCHANGED vars,
           ~(\E k \in Key : SyncMV(k) \/ MVRead(k)), ~MVReconcile, ~Restart
    PROVE  /\ UNCHANGED <<mvCache, mvQueue, mvWorker>>
           /\ Tracked' = Tracked \/ (WorkerForget /\ Tracked' = Tracked \ {active})
<1>1. UNCHANGED <<mvCache, mvQueue, mvWorker>>
  BY DEF Next, Users, System, CreateMV, EditMV, DeleteMV, CreatePod, Relabel, DeletePod,
         OperatorUnchanged, MVGone, PodGone, MVEnqueue, SyncPod, PodRead, PodReconcile, PodUpdate,
         SeedStep, WorkerStep, WorkerTake, WorkerRead, WorkerForget, WorkerCompare, WorkerWrite,
         WorkerFinish, WorkerOnly, apiVars, cacheVars, vars
<1>2. ASSUME NEW u, RemovePodEvent(u) \/ RemovePodByName(u) PROVE Tracked' = Tracked
  BY <1>2 DEF RemovePodEvent, RemovePodByName, Untrack, Tracked
<1>3. ASSUME NEW pod, NEW k, TrackPod(pod, k) PROVE Tracked' = Tracked
  BY <1>3 DEF TrackPod, tables, Tracked
<1>4. ASSUME NEW pod, ProcessPodEvent(pod) PROVE Tracked' = Tracked
  BY <1>3, <1>4 DEF ProcessPodEvent, tables, Tracked
<1>5. ASSUME UNCHANGED trackerVars PROVE Tracked' = Tracked
  BY <1>5 DEF trackerVars, tables, Tracked
<1>6. CASE Users \/ (\E k \in Key : MVGone(k)) \/ (\E n \in PodName : PodGone(n)) \/ UNCHANGED vars
  BY <1>1, <1>5, <1>6
     DEF Users, CreateMV, EditMV, DeleteMV, CreatePod, Relabel, DeletePod, OperatorUnchanged,
         MVGone, PodGone, vars
<1>7. CASE \/ \E n \in PodName : SyncPod(n) \/ PodRead(n)
           \/ PodReconcile \/ PodUpdate
  BY <1>1, <1>2, <1>4, <1>5, <1>7
     DEF SyncPod, PodRead, PodReconcile, PodDeleted, PodUnlabelled, PodLabelled, PodUntrack, PodUpdate
<1>8. CASE MVEnqueue \/ \E s \in Seeder : SeedStep(s)
  BY <1>1, <1>3, <1>8
     DEF MVEnqueue, EnqueueAdded, SeedStep, SeedList, SeedFail, SeedPod, SeedDone, tables, Tracked
<1>9. CASE WorkerStep
  BY <1>1, <1>9 DEF WorkerStep, WorkerTake, WorkerRead, WorkerForget, WorkerCompare, WorkerWrite,
     WorkerFinish, WorkerGet, ReadFound, ReadMissing, ReadError, Forget, Compare, WriteDone,
     WriteFailed, WorkerDone, tables, Drop, Tracked
<1> QED
  BY <1>6, <1>7, <1>8, <1>9 DEF Next, System

(* The worker's removal is harmless as long as the object is still missing. *)
LEMMA NextTracking ==
    ASSUME [Next]_vars, ReconcileFresh
    PROVE  /\ ReconcileFresh'
           /\ TrackedCached => TrackedCached'
           /\ CachedTracked /\ (WorkerForget => active \notin DOMAIN mvCache) => CachedTracked'
<1>1. CASE \E k \in Key : SyncMV(k) \/ MVRead(k)
  BY <1>1, ObserveTracking
<1>2. CASE MVReconcile
  BY <1>2, ReconcileTracking
<1>3. CASE Restart
  BY <1>3 DEF Restart, NewStatusTracker, EmptyMap, Tracked, ReconcileFresh, TrackedCached,
     CachedTracked, Reconciling, CachedLive
<1>4. CASE ~((\E k \in Key : SyncMV(k) \/ MVRead(k)) \/ MVReconcile \/ Restart)
  <2>1. /\ UNCHANGED <<mvCache, mvQueue, mvWorker>>
        /\ Tracked' = Tracked \/ (WorkerForget /\ Tracked' = Tracked \ {active})
    BY <1>4, OthersTracking
  <2>2. \A k : CachedLive(k)' = CachedLive(k) /\ Reconciling(k)' = Reconciling(k)
    BY <2>1 DEF CachedLive, Reconciling
  <2> QED
    BY <2>1, <2>2 DEF ReconcileFresh, TrackedCached, CachedTracked
<1> QED
  BY <1>1, <1>2, <1>3, <1>4

(* What the cluster looks like when everything has been observed.           *)
LEMMA TrackedWhenQuiescent ==
    ASSUME ClusterInv, Quiescent
    PROVE  /\ TrackedCached => Tracked \subseteq {k \in Key : Live(k)}
           /\ CachedTracked => {k \in Key : Live(k)} \subseteq Tracked
<1>1. Tracked \subseteq Key
  BY DEF ClusterInv, TypeInv, TypeOK, IsTracking, Tracked
<1>2. \A k \in Key : CachedLive(k) = Live(k)
  BY DEF Quiescent, Same, CachedLive, Live
<1> QED
  BY <1>1, <1>2 DEF Quiescent, TrackedCached, CachedTracked, Reconciling, Live, CachedLive

(* No deleted ModelValidation stays in the tracker, whatever users do: once *)
(* everything has been observed, those that are tracked exist.              *)
THEOREM TracksNoDeleted == Spec => [](Quiescent => Tracked \subseteq {k \in Key : Live(k)})
<1>1. ClusterInv /\ TrackedCached => (Quiescent => Tracked \subseteq {k \in Key : Live(k)})
  BY TrackedWhenQuiescent
<1> QED
  BY <1>1, InitTracking, NextTracking, ClusterAlways, PTL DEF Spec

(* doUpdateStatus reads the cache and only later, under st.mu, removes what *)
(* it has not found: in between, the object may have come into the cache.   *)
ForgetsTheMissing == [][WorkerForget => active \notin DOMAIN mvCache]_vars

(* That is the only way a ModelValidation that exists is lost: in every     *)
(* behaviour without it exactly those that exist are tracked.               *)
THEOREM OnlyForgettingLoses == Spec /\ ForgetsTheMissing => []TracksExisting
<1>1. ClusterInv /\ TrackedCached /\ CachedTracked => TracksExisting
  BY TrackedWhenQuiescent DEF TracksExisting
<1>2. /\ ReconcileFresh /\ TrackedCached /\ CachedTracked
      /\ [Next]_vars /\ [WorkerForget => active \notin DOMAIN mvCache]_vars
      => (ReconcileFresh /\ TrackedCached /\ CachedTracked)'
  <2> SUFFICES ASSUME ReconcileFresh, TrackedCached, CachedTracked, [Next]_vars,
                      [WorkerForget => active \notin DOMAIN mvCache]_vars
               PROVE  (ReconcileFresh /\ TrackedCached /\ CachedTracked)'
    OBVIOUS
  <2>1. WorkerForget => vars' # vars
    BY DEF WorkerForget, Forget, Succeed, vars, trackerVars
  <2> QED
    BY <2>1, NextTracking
<1> QED
  BY <1>1, <1>2, InitTracking, ClusterAlways, PTL DEF Spec, ForgetsTheMissing

-----------------------------------------------------------------------------
(* When nothing is created after the operator has started, what is missing  *)
(* stays missing.                                                           *)

StaysMissing == /\ DOMAIN mvs \subseteq DOMAIN mvCache
                /\ update.pc = "missing" => active \notin DOMAIN mvCache

(* Only the worker and a restart touch what the worker has read.            *)
LEMMA OthersKeepUpdate ==
    ASSUME [Next]_vars, ~WorkerStep, ~Restart
    PROVE  update' = update /\ active' = active
<1>1. ASSUME NEW u, RemovePodEvent(u) \/ RemovePodByName(u)
      PROVE  update' = update /\ active' = active
  BY <1>1 DEF RemovePodEvent, RemovePodByName, Untrack, Add, queueVars
<1>2. ASSUME NEW pod, NEW k, TrackPod(pod, k) PROVE active' = active
  BY <1>2 DEF TrackPod, Add, queueVars
<1>3. ASSUME NEW pod, ProcessPodEvent(pod) PROVE update' = update /\ active' = active
  BY <1>2, <1>3 DEF ProcessPodEvent, queueVars
<1>4. ASSUME UNCHANGED trackerVars PROVE update' = update /\ active' = active
  BY <1>4 DEF trackerVars, queueVars
<1>5. CASE Users \/ (\E k \in Key : MVGone(k)) \/ (\E n \in PodName : PodGone(n)) \/ UNCHANGED vars
  BY <1>4, <1>5
     DEF Users, CreateMV, EditMV, DeleteMV, CreatePod, Relabel, DeletePod, OperatorUnchanged,
         MVGone, PodGone, vars
<1>6. CASE \/ \E n \in PodName : SyncPod(n) \/ PodRead(n)
           \/ \E k \in Key : SyncMV(k) \/ MVRead(k)
           \/ PodReconcile \/ PodUpdate
  BY <1>1, <1>3, <1>4, <1>6
     DEF SyncPod, PodRead, SyncMV, MVRead, PodReconcile, PodDeleted, PodUnlabelled, PodLabelled,
         PodUntrack, PodUpdate
<1>7. CASE MVReconcile \/ MVEnqueue \/ \E s \in Seeder : SeedStep(s)
  BY <1>2, <1>7
     DEF MVReconcile, AddModelValidation, RemoveModelValidation, MVEnqueue, EnqueueAdded, SeedStep,
         SeedList, SeedFail, SeedPod, SeedDone, Add, queueVars
<1> QED
  BY <1>5, <1>6, <1>7 DEF Next, System

LEMMA NextMissing ==
    ASSUME "createMV" \notin Edits
    PROVE  StaysMissing /\ [Next]_vars => StaysMissing'
<1> SUFFICES ASSUME StaysMissing, [Next]_vars PROVE StaysMissing'
  OBVIOUS
<1>1. CASE Restart
  BY <1>1 DEF Restart, NewStatusTracker, apiVars, IdleUpdate, StaysMissing
<1>2. CASE ~Restart
  <2>1. DOMAIN mvs' \subseteq DOMAIN mvs
    BY <1>2 DEF Next, Users, System, CreateMV, Edit, EditMV, DeleteMV, CreatePod, Relabel, DeletePod,
       MVGone, PodGone, SyncMV, MVRead, MVReconcile, MVEnqueue, SyncPod, PodRead, PodReconcile,
       PodUpdate, SeedStep, WorkerStep, WorkerTake, WorkerRead, WorkerForget, WorkerCompare,
       WorkerWrite, WorkerFinish, Drop, apiVars, vars
  <2>2. /\ DOMAIN mvs \subseteq DOMAIN mvCache'
        /\ DOMAIN mvCache' \subseteq DOMAIN mvCache
    <3>1. ASSUME NEW k \in Key, SyncMV(k)
          PROVE  DOMAIN mvs \subseteq DOMAIN mvCache' /\ DOMAIN mvCache' \subseteq DOMAIN mvCache
      BY <3>1 DEF SyncMV, Copied, Put, Drop, StaysMissing
    <3>2. CASE ~(\E k \in Key : SyncMV(k)) 
      <4>1. mvCache' = mvCache
        BY <1>2, <3>2 DEF Next, Users, System, CreateMV, EditMV, DeleteMV, CreatePod, Relabel,
           DeletePod, OperatorUnchanged, MVGone, PodGone, MVRead, MVReconcile, MVEnqueue, SyncPod,
           PodRead, PodReconcile, PodUpdate, SeedStep, WorkerStep, WorkerTake, WorkerRead,
           WorkerForget, WorkerCompare, WorkerWrite, WorkerFinish, WorkerOnly, cacheVars, vars
      <4> QED
        BY <4>1 DEF StaysMissing
    <3> QED
      BY <3>1, <3>2
  <2>3. update'.pc = "missing" => \/ update.pc = "missing" /\ active' = active
                                  \/ active' = active /\ active \notin DOMAIN mvCache
    <3>1. CASE WorkerStep
      BY <3>1 DEF WorkerStep, WorkerTake, WorkerRead, WorkerForget, WorkerCompare, WorkerWrite,
         WorkerFinish, WorkerGet, ReadFound, ReadMissing, ReadError, Forget, Compare, WriteDone,
         WriteFailed, WorkerDone, Retry, Succeed, IdleUpdate, queueVars
    <3>2. CASE ~WorkerStep
      BY <1>2, <3>2, OthersKeepUpdate
    <3> QED
      BY <3>1, <3>2
  <2> QED
    BY <2>1, <2>2, <2>3 DEF StaysMissing
<1> QED
  BY <1>1, <1>2

(* Once everything has been observed, exactly the ModelValidations that     *)
(* exist are tracked, whatever is edited, deleted, restarted or fails and   *)
(* however the worker's removal races with Reconcile; provided that no      *)
(* ModelValidation is created while the operator runs.                      *)
THEOREM TracksExistingAlways ==
    ASSUME "createMV" \notin Edits
    PROVE  Spec => []TracksExisting
<1>1. Init => StaysMissing
  BY DEF Init, TrackerInit, IdleUpdate, StaysMissing
<1>2. StaysMissing /\ [Next]_vars => [WorkerForget => active \notin DOMAIN mvCache]_vars
  BY DEF StaysMissing, WorkerForget, Forget
<1> QED
  BY <1>1, <1>2, NextMissing, OnlyForgettingLoses, PTL DEF Spec, ForgetsTheMissing
=============================================================================
