---------------------------- MODULE StatusTracker ----------------------------
(***************************************************************************)
(* internal/tracker/status_tracker.go: the tables of the StatusTracker, the *)
(* handlers the controllers call, the goroutines that seed existing pods,   *)
(* and the worker that publishes the status of a ModelValidation.           *)
(*                                                                          *)
(* One action is what happens under st.mu, or one API call of the worker or *)
(* of a seeding goroutine; between two of them everything else may happen.  *)
(* The environment is open: any pod of Pods may be reported at any time and *)
(* the API server answers a call with anything.  Operator.tla closes it.    *)
(*                                                                          *)
(* Left out: logging, metrics, timestamps, the order of pods in a status,   *)
(* and Stop, which is in DebouncedQueue.tla.                                *)
(***************************************************************************)
EXTENDS Integers, FiniteSets, ModelValidationInfo, PodMapping, UpdateQueue

CONSTANTS Namespace,
          NamespaceOf,  \* the namespace of each ModelValidation
          Pods,         \* the pod objects the API server may show
          Statuses,     \* the statuses it may show
          Seeder,       \* bound: seeding goroutines that can run at a time
          MaxCount      \* bound: the value a namespace counter can reach

(* What the tracker reads of a pod.  A label names a ModelValidation of the *)
(* pod's namespace; NoKey is a pod without the label.                       *)
PodObject == [name : PodName, uid : UID, label : Key \cup {NoKey},
              finalizer : BOOLEAN, config : Note]

(* The status of a ModelValidation: the method and the three pod lists,     *)
(* whose counts and names follow from the UIDs.                             *)
Status == [auth : {c.auth : c \in Config} \cup {NoAuth},
           injected : SUBSET UID, uninjected : SUBSET UID, orphaned : SUBSET UID]

NoStatus == [auth |-> NoAuth,
             injected |-> {}, uninjected |-> {}, orphaned |-> {}]

(* A UID is never given to pods of two names.                               *)
UIDsUnique == \A p, q \in Pods : p.uid = q.uid => p.name = q.name

ASSUME TrackerAssumption ==
    /\ IsFiniteSet(Key) /\ NoKey \notin Key /\ MaxCount \in Nat
    /\ NamespaceOf \in [Key -> Namespace]
    /\ Pods \subseteq PodObject
    /\ Statuses \subseteq Status
    /\ UIDsUnique

VARIABLES modelValidations, \* the tracked ModelValidations and their Info
          mvNamespaces,     \* how many are counted in each namespace
          podMapping,       \* name <-> UID
          adding,           \* AddModelValidation has unlocked st.mu and still
                            \* has to add this key to the queue, or NoKey
          seeds,            \* the seeding goroutines
          update            \* the worker's doUpdateStatus

tables == <<modelValidations, mvNamespaces, podMapping>>
trackerVars == <<tables, adding, seeds, update, queueVars>>

Tracked == DOMAIN modelValidations

IdleSeeder == [pc |-> "idle"]
IdleUpdate == [pc |-> "idle"]

TrackerInit == /\ modelValidations = EmptyMap
               /\ mvNamespaces = EmptyMap
               /\ podMapping = NewPodMapping
               /\ adding = NoKey
               /\ seeds = [s \in Seeder |-> IdleSeeder]
               /\ update = IdleUpdate
               /\ QueueInit

-----------------------------------------------------------------------------
(* AddModelValidation, called by the ModelValidation controller *)

CountOf(ns) == IF ns \in DOMAIN mvNamespaces THEN mvNamespaces[ns] ELSE 0

StartTracking(k, config, generation) ==
    /\ k \notin Tracked
    /\ CountOf(NamespaceOf[k]) < MaxCount
    /\ modelValidations' = Put(modelValidations, k,
                               NewModelValidationInfo(config, generation))
    /\ mvNamespaces' = Put(mvNamespaces, NamespaceOf[k], CountOf(NamespaceOf[k]) + 1)
    /\ \E s \in Seeder : /\ seeds[s].pc = "idle"
                         /\ seeds' = [seeds EXCEPT ![s] = [pc |-> "list", mv |-> k]]

ContinueTracking_SameOnly(k, config, generation) ==
    /\ k \in Tracked
    /\ modelValidations' =
          IF modelValidations[k].generation # generation
          THEN modelValidations
          ELSE [modelValidations EXCEPT ![k] = UpdateConfig(@, config, generation)]
    /\ UNCHANGED <<mvNamespaces, seeds>>

(* Only a generation that differs from the observed one is looked into.     *)
ContinueTracking(k, config, generation) ==
    /\ k \in Tracked
    /\ modelValidations' =
          IF modelValidations[k].generation = generation
          THEN modelValidations
          ELSE [modelValidations EXCEPT ![k] = UpdateConfig(@, config, generation)]
    /\ UNCHANGED <<mvNamespaces, seeds>>

AddModelValidation(k, config, generation) ==
    /\ adding = NoKey
    /\ \/ StartTracking(k, config, generation)
       \/ ContinueTracking(k, config, generation)
    /\ adding' = k
    /\ UNCHANGED <<podMapping, update, queueVars>>

(* Its last statement, after st.mu is unlocked.                             *)
EnqueueAdded ==
    /\ adding # NoKey
    /\ Add({adding})
    /\ adding' = NoKey
    /\ UNCHANGED <<tables, seeds, update>>

Uncount_Early(ns) == IF CountOf(ns) - 1 <= 1 THEN Drop(mvNamespaces, {ns})
                                             ELSE Put(mvNamespaces, ns, CountOf(ns) - 1)

(* A counter that reaches zero is deleted.                                  *)
Uncount(ns) == IF CountOf(ns) - 1 <= 0 THEN Drop(mvNamespaces, {ns})
                                       ELSE Put(mvNamespaces, ns, CountOf(ns) - 1)

RemoveModelValidation(k) ==
    /\ IF k \in Tracked
       THEN /\ modelValidations' = Drop(modelValidations, {k})
            /\ mvNamespaces' = Uncount(NamespaceOf[k])
            /\ podMapping' = RemovePodsByName(podMapping,
                                {p.name : p \in GetAllPods(modelValidations[k])})
       ELSE UNCHANGED tables
    /\ UNCHANGED <<adding, seeds, update, queueVars>>

-----------------------------------------------------------------------------
(* Pod events, from the pod controller and from seeding *)

(* processPodEventCommon for a pod of the ModelValidation k.                *)
TrackPod(pod, k) ==
    LET info == [name |-> pod.name, uid |-> pod.uid, config |-> pod.config] IN
    IF k \in Tracked
    THEN /\ podMapping' = AddPod(podMapping, pod.name, pod.uid)
         /\ modelValidations' =
               [modelValidations EXCEPT ![k] = IF pod.finalizer
                                               THEN AddInjectedPod(@, info)
                                               ELSE AddUninjectedPod(@, info)]
         /\ Add({k})
         /\ UNCHANGED mvNamespaces
    ELSE UNCHANGED <<tables, queueVars>>

ProcessPodEvent(pod) ==
    /\ IF pod.label = NoKey THEN UNCHANGED <<tables, queueVars>>
                            ELSE TrackPod(pod, pod.label)
    /\ UNCHANGED <<adding, seeds, update>>

Untrack_Silent(u) ==
    /\ modelValidations' = [k \in Tracked |-> RemovePod(modelValidations[k], u)]
    /\ UNCHANGED queueVars

(* removePodFromTrackingMapsUnsafe, and the updates it calls for.           *)
Untrack(u) ==
    LET holders == {k \in Tracked : u \in PodsOf(modelValidations[k])} IN
    /\ modelValidations' = [k \in Tracked |-> RemovePod(modelValidations[k], u)]
    /\ Add(holders)

RemovePodEvent(u) ==
    /\ Untrack(u)
    /\ UNCHANGED <<mvNamespaces, podMapping, adding, seeds, update>>

RemovePodByName(name) ==
    /\ IF name \in DOMAIN podMapping.uidOf
       THEN /\ Untrack(podMapping.uidOf[name])
            /\ podMapping' = RemovePodsByName(podMapping, {name})
       ELSE UNCHANGED <<modelValidations, podMapping, queueVars>>
    /\ UNCHANGED <<mvNamespaces, adding, seeds, update>>

(* seedExistingPods: the list, or its failure, then one pod after another.  *)
SeedList(s, pods) ==
    /\ seeds[s].pc = "list"
    /\ seeds' = [seeds EXCEPT ![s] = [pc |-> "process", mv |-> seeds[s].mv,
                                      pods |-> pods]]
    /\ UNCHANGED <<tables, adding, update, queueVars>>

SeedFail(s) ==
    /\ seeds[s].pc = "list"
    /\ seeds' = [seeds EXCEPT ![s] = IdleSeeder]
    /\ UNCHANGED <<tables, adding, update, queueVars>>

SeedPod(s) ==
    /\ seeds[s].pc = "process"
    /\ \E pod \in seeds[s].pods :
          /\ TrackPod(pod, seeds[s].mv)
          /\ seeds' = [seeds EXCEPT ![s].pods = @ \ {pod}]
    /\ UNCHANGED <<adding, update>>

SeedDone(s) ==
    /\ seeds[s].pc = "process"
    /\ seeds[s].pods = {}
    /\ seeds' = [seeds EXCEPT ![s] = IdleSeeder]
    /\ UNCHANGED <<tables, adding, update, queueVars>>

-----------------------------------------------------------------------------
(* The worker: processNextUpdate and doUpdateStatus *)

StatusOf(info) == [auth       |-> info.config.auth,
                   injected   |-> DOMAIN info.injected,
                   uninjected |-> DOMAIN info.uninjected,
                   orphaned   |-> DOMAIN info.orphaned]

WorkerGet(k) ==
    /\ update.pc = "idle"
    /\ Get(k)
    /\ update' = [pc |-> "read"]
    /\ UNCHANGED <<tables, adding, seeds>>

(* doUpdateStatus returned an error: AddWithRetry.                          *)
Retry == /\ update' = [pc |-> "done"]
         /\ Add({active})

Succeed == /\ update' = [pc |-> "done"]
           /\ UNCHANGED queueVars

(* client.Get fails, finds no object, or returns one.                       *)
ReadError ==
    /\ update.pc = "read"
    /\ Retry
    /\ UNCHANGED <<tables, adding, seeds>>

ReadMissing ==
    /\ update.pc = "read"
    /\ update' = [pc |-> "missing"]
    /\ UNCHANGED <<tables, adding, seeds, queueVars>>

ReadFound(config, status) ==
    /\ update.pc = "read"
    /\ update' = [pc |-> "found", config |-> config, status |-> status]
    /\ UNCHANGED <<tables, adding, seeds, queueVars>>

(* The object is gone: only the table of ModelValidations is cleaned up.    *)
Forget ==
    /\ update.pc = "missing"
    /\ modelValidations' = Drop(modelValidations, {active})
    /\ Succeed
    /\ UNCHANGED <<mvNamespaces, podMapping, adding, seeds>>

Compare_EqualFails ==
    /\ update.pc = "found"
    /\ IF active \notin Tracked THEN Succeed
       ELSE LET info == modelValidations[active] IN
            IF info.config # update.config \/ StatusOf(info) = update.status THEN Retry
            ELSE /\ update' = [pc |-> "write", status |-> StatusOf(info)]
                 /\ UNCHANGED queueVars
    /\ UNCHANGED <<tables, adding, seeds>>

(* The snapshot taken under the read lock, and what follows from it.        *)
Compare ==
    /\ update.pc = "found"
    /\ IF active \notin Tracked THEN Succeed
       ELSE LET info == modelValidations[active] IN
            IF info.config # update.config THEN Retry
            ELSE IF StatusOf(info) = update.status THEN Succeed
            ELSE /\ update' = [pc |-> "write", status |-> StatusOf(info)]
                 /\ UNCHANGED queueVars
    /\ UNCHANGED <<tables, adding, seeds>>

(* Status().Update                                                          *)
WriteDone ==
    /\ update.pc = "write"
    /\ Succeed
    /\ UNCHANGED <<tables, adding, seeds>>

WriteFailed_NoRetry ==
    /\ update.pc = "write"
    /\ Succeed
    /\ UNCHANGED <<tables, adding, seeds>>

WriteFailed ==
    /\ update.pc = "write"
    /\ Retry
    /\ UNCHANGED <<tables, adding, seeds>>

WorkerDone ==
    /\ update.pc = "done"
    /\ update' = IdleUpdate
    /\ Done
    /\ UNCHANGED <<tables, adding, seeds>>

-----------------------------------------------------------------------------
(* The process was restarted: NewStatusTracker, and nothing is remembered.  *)
NewStatusTracker ==
    /\ modelValidations' = EmptyMap
    /\ mvNamespaces' = EmptyMap
    /\ podMapping' = NewPodMapping
    /\ adding' = NoKey
    /\ seeds' = [s \in Seeder |-> IdleSeeder]
    /\ update' = IdleUpdate
    /\ pending' = {} /\ active' = NoKey /\ closed' = FALSE

-----------------------------------------------------------------------------
Controllers ==
    \/ \E k \in Key : \/ \E c \in Config, g \in Generation : AddModelValidation(k, c, g)
                      \/ RemoveModelValidation(k)
    \/ EnqueueAdded
    \/ \E pod \in Pods : ProcessPodEvent(pod)
    \/ \E u \in UID : RemovePodEvent(u)
    \/ \E n \in PodName : RemovePodByName(n)

LabelledPods(k) == {pod \in Pods : pod.label = k}

Seeding == \E s \in Seeder :
    \/ seeds[s].pc = "list" /\ \E pods \in SUBSET LabelledPods(seeds[s].mv) : SeedList(s, pods)
    \/ SeedFail(s)
    \/ SeedPod(s)
    \/ SeedDone(s)

Publishing ==
    \/ \E k \in Key : WorkerGet(k)
    \/ ReadError \/ ReadMissing
    \/ \E c \in Config, st \in Statuses : ReadFound(c, st)
    \/ Forget \/ Compare \/ WriteDone \/ WriteFailed \/ WorkerDone

TrackerNext == Controllers \/ Seeding \/ Publishing \/ NewStatusTracker

TrackerSpec == TrackerInit /\ [][TrackerNext]_trackerVars

-----------------------------------------------------------------------------
(* Properties *)

SeederState == {IdleSeeder}
               \cup [pc : {"list"}, mv : Key]
               \cup [pc : {"process"}, mv : Key, pods : SUBSET Pods]

UpdateState == [pc : {"idle", "read", "missing", "done"}]
               \cup [pc : {"found"}, config : Config, status : Status]
               \cup [pc : {"write"}, status : Status]

IsTracking(mvs) == /\ DOMAIN mvs \subseteq Key
                   /\ mvs = [k \in DOMAIN mvs |-> mvs[k]]
                   /\ \A k \in DOMAIN mvs : IsInfo(mvs[k])

(* The types of the tracker's state; every table entry is about the key it  *)
(* is filed under.                                                          *)
TypeOK ==
    /\ IsTracking(modelValidations)
    /\ IsMap(mvNamespaces, Namespace, Nat)
    /\ IsPodMapping(podMapping, PodName, UID)
    /\ adding \in Key \cup {NoKey}
    /\ seeds \in [Seeder -> SeederState]
    /\ update \in UpdateState
    /\ QueueTypeOK

(* model_validation_info.go:97: "A pod should only exist in one of these    *)
(* maps".  RemovePod stops at the first map that has the pod, so a pod in   *)
(* two of them would stay in the second for good.                           *)
OneCategory ==
    \A k \in Tracked : LET info == modelValidations[k] IN
        /\ DOMAIN info.injected \cap DOMAIN info.orphaned = {}
        /\ DOMAIN info.injected \cap DOMAIN info.uninjected = {}
        /\ DOMAIN info.orphaned \cap DOMAIN info.uninjected = {}

(* model_validation_info.go:30: the injected pods are "Pods with finalizer  *)
(* and matching configuration", whatever sequence of configuration changes  *)
(* and late pod events led here.                                            *)
InjectedMatch ==
    \A k \in Tracked : LET info == modelValidations[k] IN
        \A u \in DOMAIN info.injected : ~Drifted(info.injected[u], info.config)

(* The namespace counter never misses a tracked ModelValidation: it is not  *)
(* decremented, or its entry deleted, for one that was not counted.  (That  *)
(* it never counts too many does not hold, see Operator.)                   *)
CountsTracked ==
    \A ns \in Namespace :
        Cardinality({k \in Tracked : NamespaceOf[k] = ns}) <= CountOf(ns)

(* The UID a name leads to leads back to the name: RemovePodByName removes  *)
(* the mapping of the pod it untracks and of no other.                      *)
NamesLeadBack ==
    \A n \in DOMAIN podMapping.uidOf :
        /\ podMapping.uidOf[n] \in DOMAIN podMapping.nameOf
        /\ podMapping.nameOf[podMapping.uidOf[n]] = n

(* A tracked pod that shares its name with no other pod and moves to no      *)
(* other ModelValidation is found by its name, so RemovePodByName, which is *)
(* all that is left for a pod that lost its label or is gone, can remove it.*)
KeepsNameAndLabel(pod, k) ==
    \A p \in Pods : p.name = pod.name => p.uid = pod.uid /\ p.label \in {k, NoKey}

TrackedPodsMapped ==
    \A k \in Tracked : \A pod \in GetAllPods(modelValidations[k]) :
        KeepsNameAndLabel(pod, k) =>
            /\ pod.name \in DOMAIN podMapping.uidOf
            /\ podMapping.uidOf[pod.name] = pod.uid

(* A step that changes what would be published of a tracked ModelValidation *)
(* leaves an update of it pending, or about to be added: no handler forgets *)
(* to call the queue.                                                       *)
ChangesArePublished ==
    [][\A k \in Tracked' :
         (k \in Tracked => StatusOf(modelValidations'[k]) # StatusOf(modelValidations[k]))
            => k \in pending' \cup {adding'}]_trackerVars
=============================================================================
