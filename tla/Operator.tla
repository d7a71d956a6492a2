------------------------------ MODULE Operator ------------------------------
(***************************************************************************)
(* The operator in its cluster: the API server's objects, the informer      *)
(* caches and event queues of the two controllers, ModelValidationReconciler*)
(* and PodReconciler (internal/controller), the pod webhook, and the status *)
(* tracker they share.                                                      *)
(*                                                                          *)
(* A cache holds an earlier version of an object and at some time jumps to  *)
(* the current one, which puts the object's key on its controller's queue.  *)
(* Every read of the operator goes to a cache.  A write succeeds only when  *)
(* the copy it is based on is still the current object: the two are equal.  *)
(* A pod has a version (resourceVersion) for that, because what is done to  *)
(* its label may be undone; of a ModelValidation the generation is enough.  *)
(* Users edit the cluster at most MaxEdits times, in the ways of Edits.     *)
(***************************************************************************)
EXTENDS StatusTracker

CONSTANTS Unannotated,
          NameOf,       \* the name each pod UID will be created under
          Edits,        \* what users do: a subset of EditKinds
          MaxEdits,     \* bound: how often
          MaxRestarts,  \* bound: restarts of the operator
          Bypass,       \* whether the namespace may carry the ignore label
          Faults,       \* whether calls to the API server may fail
          FirstMVs,     \* the ModelValidations, and the labelled pods, that
          FirstPods     \* may be there when the operator is started

EditKinds == {"createMV", "editMV", "deleteMV", "createPod", "deletePod", "relabel"}

Webhook == INSTANCE PodWebhook WITH NoLabel <- NoKey

ASSUME OperatorAssumption ==
    /\ Edits \subseteq EditKinds /\ MaxEdits \in Nat /\ MaxRestarts \in Nat
    /\ NameOf \in [UID -> PodName]
    /\ Pods = {p \in PodObject : p.name = NameOf[p.uid]}
    /\ Statuses = Status
    /\ Config \subseteq Note /\ Unannotated \in Note
    /\ Bypass \subseteq BOOLEAN
    /\ Faults \in BOOLEAN
    /\ FirstMVs \subseteq Key /\ FirstPods \subseteq UID
    /\ 1 \in Generation /\ Generation \subseteq Nat

VARIABLES mvs, pods,           \* the API server's objects
          mvCache, podCache,   \* the informers' copies
          mvQueue, podQueue,   \* keys waiting for their controller
          mvWorker, podWorker, \* the two Reconcile calls
          readMV,              \* the copy doUpdateStatus works on
          usedUIDs,            \* UIDs the API server has given out
          raced,               \* history: pods whose removal a seeding
                               \* goroutine's list may undo
          edits, restarts      \* what the bounds count

apiVars == <<mvs, pods, usedUIDs>>
cacheVars == <<mvCache, podCache, mvQueue, podQueue>>
boundVars == <<edits, restarts>>
vars == <<trackerVars, apiVars, cacheVars, mvWorker, podWorker, readMV, raced,
          boundVars>>

Idle == [pc |-> "idle"]

(* Two objects of one name differ in their uid.                             *)
NewMV(config, uid) == [uid |-> uid, config |-> config, generation |-> 1,
                       status |-> NoStatus, deleting |-> FALSE]

NewPod(u, k) == [name |-> NameOf[u], uid |-> u, label |-> k,
                 finalizer |-> FALSE, config |-> Unannotated]

Created(obj) == [obj |-> obj, deleting |-> FALSE, version |-> 1]

(* The cluster the operator finds, and a start with synced caches, which    *)
(* queue every object.                                                      *)
Init ==
    /\ TrackerInit
    /\ \E ks \in SUBSET FirstMVs : \E c \in [ks -> Config] :
          mvs = [k \in ks |-> NewMV(c[k], 0)]
    /\ \E us \in SUBSET FirstPods : \E k \in [us -> Key] :
          /\ \A u, v \in us : NameOf[u] = NameOf[v] => u = v
          /\ pods = [n \in {NameOf[u] : u \in us} |->
                       Created(LET u == CHOOSE u \in us : NameOf[u] = n
                               IN NewPod(u, k[u]))]
          /\ usedUIDs = us
    /\ mvCache = mvs /\ podCache = pods
    /\ mvQueue = DOMAIN mvs /\ podQueue = DOMAIN pods
    /\ mvWorker = Idle /\ podWorker = Idle /\ readMV = Idle
    /\ raced = {} /\ edits = 0 /\ restarts = 0

-----------------------------------------------------------------------------
(* Users and the kubelet *)

Edit(kind) == /\ kind \in Edits
              /\ edits < MaxEdits
              /\ edits' = edits + 1

OperatorUnchanged == UNCHANGED <<trackerVars, cacheVars, mvWorker, podWorker,
                                 readMV, raced, restarts>>

CreateMV(k, c) == /\ Edit("createMV")
                  /\ k \notin DOMAIN mvs
                  /\ mvs' = Put(mvs, k, NewMV(c, edits'))
                  /\ UNCHANGED <<pods, usedUIDs>> /\ OperatorUnchanged

EditMV(k, c) == /\ Edit("editMV")
                /\ k \in DOMAIN mvs /\ mvs[k].config # c
                /\ mvs[k].generation + 1 \in Generation
                /\ mvs' = [mvs EXCEPT ![k].config = c, ![k].generation = @ + 1]
                /\ UNCHANGED <<pods, usedUIDs>> /\ OperatorUnchanged

(* At once, or in the foreground: marked first and removed later.           *)
DeleteMV(k) == /\ Edit("deleteMV")
               /\ k \in DOMAIN mvs /\ ~mvs[k].deleting
               /\ \/ mvs' = Drop(mvs, {k})
                  \/ mvs' = [mvs EXCEPT ![k].deleting = TRUE]
               /\ UNCHANGED <<pods, usedUIDs>> /\ OperatorUnchanged

MVGone(k) == /\ k \in DOMAIN mvs /\ mvs[k].deleting
             /\ mvs' = Drop(mvs, {k})
             /\ UNCHANGED <<pods, usedUIDs, edits>> /\ OperatorUnchanged

(* The pod passes through the webhook.                                      *)
CreatePod(u, k, ignored) ==
    LET verdict == Webhook!Handle(NewPod(u, k), mvCache, ignored) IN
    /\ Edit("createPod")
    /\ u \notin usedUIDs /\ NameOf[u] \notin DOMAIN pods
    /\ verdict.allowed
    /\ pods' = Put(pods, NameOf[u], Created(verdict.pod))
    /\ usedUIDs' = usedUIDs \cup {u}
    /\ UNCHANGED mvs /\ OperatorUnchanged

Updated(n, obj, deleting) ==
    [pods EXCEPT ![n] = [obj |-> obj, deleting |-> deleting, version |-> @.version + 1]]

(* An update that the webhook refuses, or to which it would add containers, *)
(* which the API server does not allow on a pod that exists, fails.         *)
UpdateAccepted(pod, ignored) ==
    Webhook!Handle(pod, mvCache, ignored) = Webhook!Admitted(pod)

Relabel(n, k, ignored) ==
    /\ Edit("relabel")
    /\ n \in DOMAIN pods /\ ~pods[n].deleting /\ pods[n].obj.label # k
    /\ UpdateAccepted([pods[n].obj EXCEPT !.label = k], ignored)
    /\ pods' = Updated(n, [pods[n].obj EXCEPT !.label = k], FALSE)
    /\ UNCHANGED <<mvs, usedUIDs>> /\ OperatorUnchanged

DeletePod(n) == /\ Edit("deletePod")
                /\ n \in DOMAIN pods /\ ~pods[n].deleting
                /\ pods' = Updated(n, pods[n].obj, TRUE)
                /\ UNCHANGED <<mvs, usedUIDs>> /\ OperatorUnchanged

(* A terminated pod without our finalizer disappears.                       *)
PodGone(n) == /\ n \in DOMAIN pods
              /\ pods[n].deleting /\ ~pods[n].obj.finalizer
              /\ pods' = Drop(pods, {n})
              /\ UNCHANGED <<mvs, usedUIDs, edits>> /\ OperatorUnchanged

Users == \/ \E k \in Key, c \in Config : CreateMV(k, c) \/ EditMV(k, c)
         \/ \E k \in Key : DeleteMV(k)
         \/ \E u \in UID, k \in Key, i \in Bypass : CreatePod(u, k, i)
         \/ \E n \in PodName, k \in Key \cup {NoKey}, i \in Bypass : Relabel(n, k, i)
         \/ \E n \in PodName : DeletePod(n)

-----------------------------------------------------------------------------
(* Informers *)

Same(m1, m2, k) == \/ k \notin DOMAIN m1 \cup DOMAIN m2
                   \/ k \in DOMAIN m1 \cap DOMAIN m2 /\ m1[k] = m2[k]

Copied(from, to, k) == IF k \in DOMAIN from THEN Put(to, k, from[k])
                                            ELSE Drop(to, {k})

SyncMV(k) == /\ ~Same(mvs, mvCache, k)
             /\ mvCache' = Copied(mvs, mvCache, k)
             /\ mvQueue' = mvQueue \cup {k}
             /\ UNCHANGED <<trackerVars, apiVars, podCache, podQueue, mvWorker,
                            podWorker, readMV, raced, boundVars>>

SyncPod(n) == /\ ~Same(pods, podCache, n)
              /\ podCache' = Copied(pods, podCache, n)
              /\ podQueue' = podQueue \cup {n}
              /\ UNCHANGED <<trackerVars, apiVars, mvCache, mvQueue, mvWorker,
                             podWorker, readMV, raced, boundVars>>

-----------------------------------------------------------------------------
(* ModelValidationReconciler.Reconcile: the read, then a call of the        *)
(* tracker; the next Reconcile starts when AddModelValidation has returned. *)

MVRead(k) == /\ mvWorker = Idle /\ adding = NoKey
             /\ k \in mvQueue
             /\ mvQueue' = mvQueue \ {k}
             /\ mvWorker' = IF k \in DOMAIN mvCache
                            THEN [pc |-> "found", key |-> k, mv |-> mvCache[k]]
                            ELSE [pc |-> "missing", key |-> k]
             /\ UNCHANGED <<trackerVars, apiVars, mvCache, podCache, podQueue,
                            podWorker, readMV, raced, boundVars>>

MVReconcile_AddsDeleting ==
    /\ \/ /\ mvWorker.pc = "found"
          /\ AddModelValidation(mvWorker.key, mvWorker.mv.config, mvWorker.mv.generation)
       \/ /\ mvWorker.pc = "missing"
          /\ RemoveModelValidation(mvWorker.key)
    /\ mvWorker' = Idle
    /\ UNCHANGED <<apiVars, cacheVars, podWorker, readMV, raced, boundVars>>

MVReconcile ==
    /\ \/ /\ mvWorker.pc = "found" /\ ~mvWorker.mv.deleting
          /\ AddModelValidation(mvWorker.key, mvWorker.mv.config, mvWorker.mv.generation)
       \/ /\ mvWorker.pc = "missing" \/ (mvWorker.pc = "found" /\ mvWorker.mv.deleting)
          /\ RemoveModelValidation(mvWorker.key)
    /\ mvWorker' = Idle
    /\ UNCHANGED <<apiVars, cacheVars, podWorker, readMV, raced, boundVars>>

MVEnqueue == EnqueueAdded
             /\ UNCHANGED <<apiVars, cacheVars, mvWorker, podWorker, readMV, raced, boundVars>>

-----------------------------------------------------------------------------
(* PodReconciler.Reconcile *)

PodRead(n) == /\ podWorker = Idle
              /\ n \in podQueue
              /\ podQueue' = podQueue \ {n}
              /\ podWorker' = IF n \in DOMAIN podCache
                              THEN [pc |-> "found", name |-> n, pod |-> podCache[n]]
                              ELSE [pc |-> "untrack", name |-> n]
              /\ UNCHANGED <<trackerVars, apiVars, mvCache, mvQueue, podCache,
                             mvWorker, readMV, raced, boundVars>>

(* The pods on the lists of the seeding goroutines.                         *)
SeedUIDs == {pod.uid : pod \in UNION {seeds[s].pods : s \in {t \in Seeder :
                                          seeds[t].pc = "process"}}}

PodDeleted_UntracksLater == LET pod == podWorker.pod IN
    /\ podWorker.pc = "found" /\ pod.deleting
    /\ IF pod.obj.finalizer THEN UNCHANGED trackerVars ELSE RemovePodEvent(pod.obj.uid)
    /\ podWorker' = IF pod.obj.finalizer THEN [podWorker EXCEPT !.pc = "update"] ELSE Idle
    /\ raced' = raced \cup ({pod.obj.uid} \cap SeedUIDs)

PodDeleted_KeepsFinalizer == LET pod == podWorker.pod IN
    /\ podWorker.pc = "found" /\ pod.deleting
    /\ RemovePodEvent(pod.obj.uid)
    /\ podWorker' = Idle
    /\ raced' = raced \cup ({pod.obj.uid} \cap SeedUIDs)

(* A deleted pod is untracked by UID, then loses its finalizer.             *)
PodDeleted == LET pod == podWorker.pod IN
    /\ podWorker.pc = "found" /\ pod.deleting
    /\ RemovePodEvent(pod.obj.uid)
    /\ podWorker' = IF pod.obj.finalizer THEN [podWorker EXCEPT !.pc = "update"] ELSE Idle
    /\ raced' = raced \cup ({pod.obj.uid} \cap SeedUIDs)

(* A pod without the label loses its finalizer, then is untracked by name.  *)
PodUnlabelled == LET pod == podWorker.pod IN
    /\ podWorker.pc = "found" /\ ~pod.deleting /\ pod.obj.label = NoKey
    /\ podWorker' = IF pod.obj.finalizer
                    THEN [podWorker EXCEPT !.pc = "update"]
                    ELSE [pc |-> "untrack", name |-> podWorker.name]
    /\ UNCHANGED <<trackerVars, raced>>

PodLabelled == LET pod == podWorker.pod IN
    /\ podWorker.pc = "found" /\ ~pod.deleting /\ pod.obj.label # NoKey
    /\ ProcessPodEvent(pod.obj)
    /\ podWorker' = Idle
    /\ UNCHANGED raced

PodUntrack_Ignored == /\ podWorker.pc = "untrack"
                      /\ podWorker' = Idle
                      /\ UNCHANGED <<trackerVars, raced>>

PodUntrack == /\ podWorker.pc = "untrack"
              /\ RemovePodByName(podWorker.name)
              /\ podWorker' = Idle
              /\ raced' = raced \cup {u \in SeedUIDs : NameOf[u] = podWorker.name}

PodReconcile == /\ PodDeleted \/ PodUnlabelled \/ PodLabelled \/ PodUntrack
                /\ UNCHANGED <<apiVars, cacheVars, mvWorker, readMV, boundVars>>

(* Update without the finalizer: an admission request like any other.  A    *)
(* refusal, a conflict or a fault puts the name back on the queue.          *)
FinalizerRemoved(n) ==
    /\ \E ignored \in Bypass :
          UpdateAccepted([podWorker.pod.obj EXCEPT !.finalizer = FALSE], ignored)
    /\ n \in DOMAIN pods /\ pods[n] = podWorker.pod
    /\ pods' = Updated(n, [pods[n].obj EXCEPT !.finalizer = FALSE], pods[n].deleting)
    /\ podWorker' = IF podWorker.pod.deleting THEN Idle
                    ELSE [pc |-> "untrack", name |-> n]
    /\ UNCHANGED podQueue

FinalizerKept(n) ==
    /\ \/ Faults
       \/ \E ignored \in Bypass :
             ~UpdateAccepted([podWorker.pod.obj EXCEPT !.finalizer = FALSE], ignored)
       \/ n \notin DOMAIN pods
       \/ n \in DOMAIN pods /\ pods[n] # podWorker.pod
    /\ podQueue' = podQueue \cup {n}
    /\ podWorker' = Idle
    /\ UNCHANGED pods

PodUpdate == /\ podWorker.pc = "update"
             /\ FinalizerRemoved(podWorker.name) \/ FinalizerKept(podWorker.name)
             /\ UNCHANGED <<trackerVars, mvs, usedUIDs, mvCache, mvQueue, podCache,
                            mvWorker, readMV, raced, boundVars>>

-----------------------------------------------------------------------------
(* The tracker's goroutines *)

LabelledCached_AnyLabel(k) == {podCache[n].obj : n \in DOMAIN podCache}

LabelledCached(k) == {podCache[n].obj : n \in {m \in DOMAIN podCache :
                                               podCache[m].obj.label = k}}

(* The list comes from the cache, pods under deletion included.             *)
SeedStep(s) == /\ \/ /\ seeds[s].pc = "list"
                     /\ SeedList(s, LabelledCached(seeds[s].mv))
                     /\ raced' = raced \cup {podCache[n].obj.uid :
                                               n \in {m \in DOMAIN podCache : podCache[m].deleting}}
                  \/ Faults /\ SeedFail(s) /\ UNCHANGED raced
                  \/ SeedPod(s) /\ UNCHANGED raced
                  \/ SeedDone(s) /\ UNCHANGED raced
               /\ UNCHANGED <<apiVars, cacheVars, mvWorker, podWorker, readMV, boundVars>>

(* The worker leaves everything but the status of the object to others.     *)
WorkerOnly == UNCHANGED <<pods, usedUIDs, cacheVars, mvWorker, podWorker, raced,
                          boundVars>>

WorkerTake == (\E k \in Key : WorkerGet(k)) /\ WorkerOnly /\ UNCHANGED <<mvs, readMV>>

(* client.Get of doUpdateStatus reads the cache.                            *)
WorkerRead == /\ \/ /\ active \in DOMAIN mvCache
                    /\ ReadFound(mvCache[active].config, mvCache[active].status)
                    /\ readMV' = mvCache[active]
                 \/ /\ active \notin DOMAIN mvCache
                    /\ ReadMissing
                    /\ UNCHANGED readMV
                 \/ /\ Faults
                    /\ ReadError
                    /\ UNCHANGED readMV
              /\ WorkerOnly /\ UNCHANGED mvs

WorkerForget == Forget /\ WorkerOnly /\ UNCHANGED <<mvs, readMV>>

WorkerCompare == /\ Compare
                 /\ readMV' = IF update'.pc = "write" THEN readMV ELSE Idle
                 /\ WorkerOnly /\ UNCHANGED mvs

UpToDate == active \in DOMAIN mvs /\ mvs[active] = readMV

WorkerWrite == /\ \/ /\ UpToDate
                     /\ WriteDone
                     /\ mvs' = [mvs EXCEPT ![active].status = update.status]
                  \/ /\ Faults \/ ~UpToDate
                     /\ WriteFailed
                     /\ UNCHANGED mvs
               /\ readMV' = Idle
               /\ WorkerOnly

WorkerFinish == WorkerDone /\ WorkerOnly /\ UNCHANGED <<mvs, readMV>>

WorkerStep == \/ WorkerTake \/ WorkerRead \/ WorkerForget \/ WorkerCompare
              \/ WorkerWrite \/ WorkerFinish

(* The process dies and another one starts: the cluster keeps its objects,  *)
(* the new caches hold them and every object is queued.                     *)
Restart == /\ restarts < MaxRestarts
           /\ restarts' = restarts + 1
           /\ NewStatusTracker
           /\ mvCache' = mvs /\ podCache' = pods
           /\ mvQueue' = DOMAIN mvs /\ podQueue' = DOMAIN pods
           /\ mvWorker' = Idle /\ podWorker' = Idle /\ readMV' = Idle /\ raced' = {}
           /\ UNCHANGED <<apiVars, edits>>

-----------------------------------------------------------------------------
System == \/ \E k \in Key : SyncMV(k) \/ MVRead(k) \/ MVGone(k)
          \/ \E n \in PodName : SyncPod(n) \/ PodRead(n) \/ PodGone(n)
          \/ MVReconcile \/ MVEnqueue
          \/ PodReconcile \/ PodUpdate
          \/ \E s \in Seeder : SeedStep(s)
          \/ WorkerStep

Next == Users \/ System \/ Restart

(* Controllers, informers, goroutines, the kubelet and a foreground deletion*)
(* go on; users and crashes need not happen.  The queue hands out what was  *)
(* added finitely often only finitely often (Drains of DebouncedQueue), so  *)
(* a key that is taken again and again is at some time taken for the last.  *)
WorkerTakeLast(k) == WorkerTake /\ active' = k /\ k \notin pending'

Fairness == /\ \A k \in Key : WF_vars(SyncMV(k)) /\ WF_vars(MVRead(k)) /\ WF_vars(MVGone(k))
            /\ \A n \in PodName : WF_vars(SyncPod(n)) /\ WF_vars(PodRead(n)) /\ WF_vars(PodGone(n))
            /\ WF_vars(MVReconcile) /\ WF_vars(MVEnqueue)
            /\ WF_vars(PodReconcile) /\ WF_vars(PodUpdate)
            /\ \A s \in Seeder : WF_vars(SeedStep(s))
            /\ WF_vars(WorkerStep)
            /\ \A k \in Key : SF_vars(WorkerTakeLast(k))

Spec == Init /\ [][Next]_vars /\ Fairness

-----------------------------------------------------------------------------
(* Properties *)

(* The types of the cluster's and the controllers' state.                   *)
MVObject == [uid : 0 .. MaxEdits, config : Config, generation : Generation,
             status : Status, deleting : BOOLEAN]
PodInCluster == [obj : Pods, deleting : BOOLEAN, version : Nat]

ClusterTypeOK ==
    /\ IsMap(mvs, Key, MVObject) /\ IsMap(mvCache, Key, MVObject)
    /\ IsMap(pods, PodName, PodInCluster) /\ IsMap(podCache, PodName, PodInCluster)
    /\ mvQueue \subseteq Key /\ podQueue \subseteq PodName
    /\ mvWorker \in {Idle} \cup [pc : {"found"}, key : Key, mv : MVObject]
                           \cup [pc : {"missing"}, key : Key]
    /\ podWorker \in {Idle} \cup [pc : {"found", "update"}, name : PodName, pod : PodInCluster]
                            \cup [pc : {"untrack"}, name : PodName]
    /\ readMV \in {Idle} \cup MVObject
    /\ usedUIDs \subseteq UID /\ raced \subseteq UID
    /\ TypeOK

(* Every change has been observed and acted upon.                           *)
Quiescent ==
    /\ \A k \in Key : Same(mvs, mvCache, k)
    /\ \A n \in PodName : Same(pods, podCache, n)
    /\ mvQueue = {} /\ podQueue = {}
    /\ mvWorker = Idle /\ podWorker = Idle /\ adding = NoKey
    /\ pending = {} /\ active = NoKey
    /\ \A s \in Seeder : seeds[s] = IdleSeeder

Live(k) == k \in DOMAIN mvs /\ ~mvs[k].deleting

(* modelvalidation_controller.go: a ModelValidation that is created is      *)
(* tracked, one that is deleted is not, once everything has been observed.  *)
TracksExisting == Quiescent => Tracked = {k \in Key : Live(k)}

(* The status users read is what the tracker knows, once everything has     *)
(* been observed: no update was lost to a stale cached status, a conflict,  *)
(* a debounced event or a restart.                                          *)
StatusPublished ==
    Quiescent => \A k \in Tracked : Live(k) =>
                     mvs[k].status = StatusOf(modelValidations[k])

Categorised(pod, info) ==
    IF ~pod.finalizer THEN pod.uid \in DOMAIN info.uninjected
    ELSE IF Drifted(pod, info.config) THEN pod.uid \in DOMAIN info.orphaned
    ELSE pod.uid \in DOMAIN info.injected \cup DOMAIN info.orphaned

(* Every labelled pod of a tracked ModelValidation is in the category its   *)
(* finalizer and annotations put it in, however the seeding goroutine and   *)
(* the pod controller raced for it; unless the list of the goroutine is     *)
(* older than a removal of the pod.                                         *)
PodsCategorised ==
    Quiescent =>
        \A n \in DOMAIN pods : LET pod == pods[n].obj IN
            ~pods[n].deleting /\ pod.label \in Tracked /\ pod.uid \notin raced =>
                Categorised(pod, modelValidations[pod.label])

Exists(u) == NameOf[u] \in DOMAIN pods /\ pods[NameOf[u]].obj.uid = u

(* status_tracker.go:522: "RemovePodEvent removes a pod from tracking when  *)
(* it's deleted": once everything has been observed, every pod a status     *)
(* lists exists and carries the label.                                      *)
ListsExistingPods ==
    Quiescent =>
        \A k \in Tracked : \A u \in PodsOf(modelValidations[k]) :
            /\ Exists(u)
            /\ pods[NameOf[u]].obj.label = k
            /\ ~pods[NameOf[u]].deleting

(* The same for the pods no seeding goroutine brought back: neither a lost  *)
(* event nor a restart leaves a pod behind.                                 *)
ListsNoOtherGhosts ==
    Quiescent =>
        \A k \in Tracked : \A u \in PodsOf(modelValidations[k]) \ raced :
            /\ Exists(u)
            /\ pods[NameOf[u]].obj.label = k
            /\ ~pods[NameOf[u]].deleting

(* model_validation_info.go:34: the orphaned pods are "Pods with finalizer    *)
(* but configuration drift".                                                *)
OrphansDrifted ==
    Quiescent =>
        \A k \in Tracked : LET info == modelValidations[k] IN
            \A u \in DOMAIN info.orphaned : Drifted(info.orphaned[u], info.config)

(* status_tracker.go:30: mvNamespaces is the "Count of ModelValidation      *)
(* resources per namespace".                                                *)
CountsExactly ==
    Quiescent => \A ns \in Namespace :
        CountOf(ns) = Cardinality({k \in Key : Live(k) /\ NamespaceOf[k] = ns})

(* The finalizer is there so that the deletion of an injected pod is never  *)
(* missed: such a pod is gone from the API server only after it is gone     *)
(* from the tracker (or a seeding goroutine brought it back). Only for pods *)
(* that keep their label: PodUnlabelled takes the finalizer first.          *)
FinalizerHolds ==
    \A k \in Tracked :
        LET info == modelValidations[k] IN
        \A u \in (DOMAIN info.injected \cup DOMAIN info.orphaned) \ raced : Exists(u)

(* The tracker does in the cluster what StatusTracker allows it to do in    *)
(* any environment: what is proved of that specification holds here.        *)
ImplementsTracker == TrackerSpec

(* Once users stop, the operator comes to rest: the events its own status   *)
(* writes cause, conflicts and retries die out.                             *)
Settles == <>[]Quiescent

(* model_validation_info.go:28: the observed generation is there "for       *)
(* detecting spec changes": the tracker's configuration becomes that of the *)
(* ModelValidation.                                                         *)
Stale(k) == k \in Tracked /\ Live(k) /\ modelValidations[k].config # mvs[k].config

SpecChangesDetected == \A k \in Key : Stale(k) ~> ~Stale(k)

(* pod_controller_test.go:122: "should handle pod deletion by removing      *)
(* finalizer": a deleted pod goes away.                                     *)
Terminating(u) == Exists(u) /\ pods[NameOf[u]].deleting

TerminatingPodsGo == \A u \in UID : Terminating(u) ~> ~Exists(u)
=============================================================================
