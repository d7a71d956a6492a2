-------------------------- MODULE TelemetryConfig --------------------------
(***************************************************************************)
(* TelemetryConfigReconciler (internal/controller) among the objects it     *)
(* counts: users create, edit and delete TelemetryConfigs and label or      *)
(* remove namespaces and ModelValidations; each kind has an informer cache  *)
(* that follows the API server; a change in a cache is then handed to the   *)
(* controller, whose one worker reads only caches and writes a status.      *)
(*                                                                          *)
(* The API server refuses a write based on a copy that is not the current   *)
(* object, and a write that changes nothing causes no event.                *)
(***************************************************************************)
EXTENDS TelemetrySelection, Maps

CONSTANTS ModelValidation,
          Labellings,  \* the sets of labels users give
          Specs,       \* the specs users write
          FirstSpecs,  \* what the operator finds in the cluster
          FirstNamespaces, FirstMVs,
          MaxEdits,    \* bound: what users do
          MaxFaults,   \* bound: failed writes and restarts
          NoConfig     \* the key of no TelemetryConfig

ASSUME TelemetryAssumption ==
    /\ Labellings \subseteq SUBSET Label
    /\ Specs \subseteq TracingSpec
    /\ \A first \in FirstSpecs : IsMap(first, Config, TracingSpec)
    /\ \A first \in FirstNamespaces : IsMap(first, Namespace, Labellings)
    /\ \A first \in FirstMVs : IsMap(first, ModelValidation, Labellings)
    /\ MaxEdits \in Nat /\ MaxFaults \in Nat
    /\ IsFiniteSet(Namespace) /\ IsFiniteSet(ModelValidation)
    /\ NoConfig \notin Config

VARIABLES tcs, namespaces, mvs,             \* the API server's objects
          tcCache, namespaceCache, mvCache, \* the informers' copies
          undelivered, \* kinds whose handler has not seen the cache's last change
          queue,       \* keys waiting for the worker
          worker,      \* the Reconcile call
          edits, faults \* what the bounds count

apiVars == <<tcs, namespaces, mvs>>
cacheVars == <<tcCache, namespaceCache, mvCache>>
vars == <<apiVars, cacheVars, undelivered, queue, worker, edits, faults>>

(* applied: LastApplied and the condition's time, of which only matters     *)
(* whether a write changes them.                                            *)
Status == [namespaces : Nat, mvs : Nat, observed : Nat, applied : {0, 1}]

NoStatus == [namespaces |-> 0, mvs |-> 0, observed |-> 0, applied |-> 0]

TCObject == [uid : Nat, spec : TracingSpec, generation : Nat, deleting : BOOLEAN,
             status : Status]

NewTC(spec, uid) == [uid |-> uid, spec |-> spec, generation |-> 1, deleting |-> FALSE,
                     status |-> NoStatus]

(* pc: about to count namespaces, to count ModelValidations, to write.      *)
Idle == [pc |-> "idle", key |-> NoConfig]

(* A start of the operator in a cluster that has never had it.              *)
Init == /\ \E first \in FirstSpecs : tcs = [k \in DOMAIN first |-> NewTC(first[k], 0)]
        /\ namespaces \in FirstNamespaces /\ mvs \in FirstMVs
        /\ tcCache = tcs /\ namespaceCache = namespaces /\ mvCache = mvs
        /\ undelivered = {} /\ queue = DOMAIN tcs /\ worker = Idle
        /\ edits = 0 /\ faults = 0

-----------------------------------------------------------------------------
(* Users *)

Edit == /\ edits < MaxEdits
        /\ edits' = edits + 1
        /\ UNCHANGED <<cacheVars, undelivered, queue, worker, faults>>

CreateTC(k, spec) == /\ Edit
                     /\ k \notin DOMAIN tcs
                     /\ tcs' = Put(tcs, k, NewTC(spec, edits'))
                     /\ UNCHANGED <<namespaces, mvs>>

Edited(tc, spec) == [tc EXCEPT !.spec = spec, !.generation = @ + 1]

EditTC(k, spec) == /\ Edit
                   /\ k \in DOMAIN tcs /\ tcs[k].spec # spec
                   /\ tcs' = Put(tcs, k, Edited(tcs[k], spec))
                   /\ UNCHANGED <<namespaces, mvs>>

(* At once, or in the foreground: marked first.                             *)
DeleteTC(k) == /\ Edit
               /\ k \in DOMAIN tcs
               /\ \/ tcs' = Drop(tcs, {k})
                  \/ tcs' = Put(tcs, k, [tcs[k] EXCEPT !.deleting = TRUE])
               /\ UNCHANGED <<namespaces, mvs>>

SetNamespace(n, labels) == /\ Edit
                           /\ namespaces' = Put(namespaces, n, labels)
                           /\ UNCHANGED <<tcs, mvs>>

DeleteNamespace(n) == /\ Edit
                      /\ n \in DOMAIN namespaces
                      /\ namespaces' = Drop(namespaces, {n})
                      /\ UNCHANGED <<tcs, mvs>>

SetMV(m, labels) == /\ Edit
                    /\ mvs' = Put(mvs, m, labels)
                    /\ UNCHANGED <<tcs, namespaces>>

DeleteMV(m) == /\ Edit
               /\ m \in DOMAIN mvs
               /\ mvs' = Drop(mvs, {m})
               /\ UNCHANGED <<tcs, namespaces>>

Users == \/ \E k \in Config : DeleteTC(k) \/ \E s \in Specs : CreateTC(k, s) \/ EditTC(k, s)
         \/ \E n \in Namespace : DeleteNamespace(n) \/ \E l \in Labellings : SetNamespace(n, l)
         \/ \E m \in ModelValidation : DeleteMV(m) \/ \E l \in Labellings : SetMV(m, l)

-----------------------------------------------------------------------------
(* Informers and event handlers *)

Same(m1, m2, k) == /\ k \in DOMAIN m1 <=> k \in DOMAIN m2
                   /\ k \in DOMAIN m1 => m1[k] = m2[k]

(* Of a changed TelemetryConfig the key itself is queued.                   *)
SyncTC(k) == /\ ~Same(tcs, tcCache, k)
             /\ tcCache' = IF k \in DOMAIN tcs THEN Put(tcCache, k, tcs[k])
                                               ELSE Drop(tcCache, {k})
             /\ queue' = queue \cup {k}
             /\ UNCHANGED <<apiVars, namespaceCache, mvCache, undelivered, worker, edits, faults>>

SyncNamespaces == /\ namespaceCache # namespaces
                  /\ namespaceCache' = namespaces
                  /\ undelivered' = undelivered \cup {"namespace"}
                  /\ UNCHANGED <<apiVars, tcCache, mvCache, queue, worker, edits, faults>>

SyncMVs == /\ mvCache # mvs
           /\ mvCache' = mvs
           /\ undelivered' = undelivered \cup {"mv"}
           /\ UNCHANGED <<apiVars, tcCache, namespaceCache, queue, worker, edits, faults>>

Deliver_NamespacesOnly(kind) ==
    /\ kind \in undelivered
    /\ undelivered' = undelivered \ {kind}
    /\ queue' = IF kind = "namespace" THEN queue \cup DOMAIN tcCache ELSE queue
    /\ UNCHANGED <<apiVars, cacheVars, worker, edits, faults>>

(* The map functions of the two watches: every TelemetryConfig of the cache *)
(* is queued.                                                               *)
Deliver(kind) == /\ kind \in undelivered
                 /\ undelivered' = undelivered \ {kind}
                 /\ queue' = queue \cup DOMAIN tcCache
                 /\ UNCHANGED <<apiVars, cacheVars, worker, edits, faults>>

-----------------------------------------------------------------------------
(* Reconcile *)

Take_Deleting(k) ==
    /\ worker.pc = "idle" /\ k \in queue
    /\ queue' = queue \ {k}
    /\ worker' = IF k \in DOMAIN tcCache
                 THEN [pc |-> "namespaces", key |-> k, tc |-> tcCache[k]]
                 ELSE Idle
    /\ UNCHANGED <<apiVars, cacheVars, undelivered, edits, faults>>

(* Nothing to do for a TelemetryConfig that is gone or going.               *)
Take(k) == /\ worker.pc = "idle" /\ k \in queue
           /\ queue' = queue \ {k}
           /\ worker' = IF k \in DOMAIN tcCache /\ ~tcCache[k].deleting
                        THEN [pc |-> "namespaces", key |-> k, tc |-> tcCache[k]]
                        ELSE Idle
           /\ UNCHANGED <<apiVars, cacheVars, undelivered, edits, faults>>

(* An error puts the key back on the queue.                                 *)
Retry == /\ worker' = Idle
         /\ queue' = queue \cup {worker.key}

Count(objects, sel) == Cardinality({x \in DOMAIN objects : Matches(sel, objects[x])})

countMatchedNamespaces ==
    /\ worker.pc = "namespaces"
    /\ IF Valid(worker.tc.spec.namespaceSelector)
       THEN /\ worker' = [pc |-> "mvs", key |-> worker.key, tc |-> worker.tc,
                          namespaces |-> Count(namespaceCache, worker.tc.spec.namespaceSelector)]
            /\ UNCHANGED queue
       ELSE Retry
    /\ UNCHANGED <<apiVars, cacheVars, undelivered, edits, faults>>

countMatchedModelValidations ==
    /\ worker.pc = "mvs"
    /\ IF Valid(worker.tc.spec.selector)
       THEN /\ worker' = [pc |-> "write", key |-> worker.key, tc |-> worker.tc,
                          namespaces |-> worker.namespaces,
                          mvs |-> Count(mvCache, worker.tc.spec.selector)]
            /\ UNCHANGED queue
       ELSE Retry
    /\ UNCHANGED <<apiVars, cacheVars, undelivered, edits, faults>>

(* later: the clock, in whole seconds, shows another time than the one      *)
(* the copy holds.                                                          *)
NewStatus(later) == [namespaces |-> worker.namespaces, mvs |-> worker.mvs,
                     observed |-> worker.tc.generation,
                     applied |-> IF later THEN 1 - worker.tc.status.applied
                                          ELSE worker.tc.status.applied]

Current == worker.key \in DOMAIN tcs /\ tcs[worker.key] = worker.tc

StatusUpdate_AlwaysLater(later) ==
    /\ worker.pc = "write"
    /\ IF Current
       THEN /\ tcs' = Put(tcs, worker.key, [worker.tc EXCEPT !.status = NewStatus(TRUE)])
            /\ worker' = Idle
            /\ UNCHANGED queue
       ELSE Retry /\ UNCHANGED tcs
    /\ UNCHANGED <<namespaces, mvs, cacheVars, undelivered, edits, faults>>

StatusUpdate(later) ==
    /\ worker.pc = "write"
    /\ IF Current
       THEN /\ tcs' = Put(tcs, worker.key, [worker.tc EXCEPT !.status = NewStatus(later)])
            /\ worker' = Idle
            /\ UNCHANGED queue
       ELSE Retry /\ UNCHANGED tcs
    /\ UNCHANGED <<namespaces, mvs, cacheVars, undelivered, edits, faults>>

(* The API server does not answer.                                          *)
StatusUpdateFails == /\ worker.pc = "write"
                     /\ faults < MaxFaults /\ faults' = faults + 1
                     /\ Retry
                     /\ UNCHANGED <<apiVars, cacheVars, undelivered, edits>>

(* Caches are filled before the controllers start, and every object is an   *)
(* event.                                                                   *)
Restart == /\ faults < MaxFaults /\ faults' = faults + 1
           /\ tcCache' = tcs /\ namespaceCache' = namespaces /\ mvCache' = mvs
           /\ queue' = DOMAIN tcs /\ undelivered' = {} /\ worker' = Idle
           /\ UNCHANGED <<apiVars, edits>>

Next == \/ Users
        \/ \E k \in Config : SyncTC(k) \/ Take(k)
        \/ SyncNamespaces \/ SyncMVs
        \/ \E kind \in {"namespace", "mv"} : Deliver(kind)
        \/ countMatchedNamespaces \/ countMatchedModelValidations
        \/ \E later \in BOOLEAN : StatusUpdate(later)
        \/ StatusUpdateFails \/ Restart

(* The operator's steps are taken; the queue is first in first out, so no   *)
(* key waits for ever; and now and then a write's event is back before the  *)
(* clock shows another second.                                              *)
Fairness == /\ \A k \in Config : WF_vars(SyncTC(k)) /\ SF_vars(Take(k))
            /\ WF_vars(SyncNamespaces) /\ WF_vars(SyncMVs)
            /\ \A kind \in {"namespace", "mv"} : WF_vars(Deliver(kind))
            /\ WF_vars(countMatchedNamespaces)
            /\ WF_vars(countMatchedModelValidations)
            /\ WF_vars(\E later \in BOOLEAN : StatusUpdate(later))
            /\ SF_vars(StatusUpdate(FALSE))

Spec == Init /\ [][Next]_vars /\ Fairness

-----------------------------------------------------------------------------
(* Properties *)

(* A reconcile works on a copy of a TelemetryConfig that is not going.      *)
LiveCopy == {tc \in TCObject : ~tc.deleting}

WorkerType == \/ worker = Idle
              \/ worker \in [pc : {"namespaces"}, key : Config, tc : LiveCopy]
              \/ worker \in [pc : {"mvs"}, key : Config, tc : LiveCopy, namespaces : Nat]
              \/ worker \in [pc : {"write"}, key : Config, tc : LiveCopy,
                             namespaces : Nat, mvs : Nat]

(* The maps hold what their kinds do, the queue holds keys.                 *)
TCTypeOK == /\ IsMap(tcs, Config, TCObject) /\ IsMap(tcCache, Config, TCObject)
            /\ IsMap(namespaces, Namespace, Labellings)
            /\ IsMap(namespaceCache, Namespace, Labellings)
            /\ IsMap(mvs, ModelValidation, Labellings)
            /\ IsMap(mvCache, ModelValidation, Labellings)
            /\ undelivered \subseteq {"namespace", "mv"}
            /\ queue \subseteq Config
            /\ WorkerType
            /\ edits \in 0 .. MaxEdits /\ faults \in 0 .. MaxFaults

CacheCurrent(k) == Same(tcs, tcCache, k)

Countable(tc) == /\ ~tc.deleting
                 /\ Valid(tc.spec.namespaceSelector) /\ Valid(tc.spec.selector)

(* A reconcile of k is queued, under way or on its way to the queue.        *)
Pending(k) == \/ k \in queue \/ worker.key = k
              \/ undelivered # {} \/ ~CacheCurrent(k)

(* The status of tc tells what the two collections hold.                    *)
Tells(tc, ns, ms) == /\ tc.status.observed = tc.generation
                     /\ tc.status.namespaces = Count(ns, tc.spec.namespaceSelector)
                     /\ tc.status.mvs = Count(ms, tc.spec.selector)

(* telemetryconfig_types.go:75: MatchedNamespaceCount "is the number of     *)
(* namespaces matched by namespaceSelector", and so for ModelValidations.   *)
(* However edits fall between the two lists, the conflicting writes and the *)
(* events, no wrong status is left without a reconcile to come.             *)
NothingForgotten ==
    \A k \in DOMAIN tcs :
        Countable(tcs[k]) => \/ Tells(tcs[k], namespaces, mvs)
                             \/ namespaces # namespaceCache \/ mvs # mvCache
                             \/ Pending(k)

(* What NothingForgotten rests on.  Copies are never ahead of the object:   *)
NotAhead(copy, tc) == \/ copy.uid < tc.uid
                      \/ copy.uid = tc.uid /\ copy.generation <= tc.generation

Older == /\ \A k \in DOMAIN tcs : tcs[k].uid <= edits
         /\ \A k \in DOMAIN tcCache :
               /\ tcCache[k].uid <= edits
               /\ k \in DOMAIN tcs => NotAhead(tcCache[k], tcs[k])
         /\ worker.pc # "idle" =>
               /\ worker.tc.uid <= edits
               /\ worker.key \in DOMAIN tcs => NotAhead(worker.tc, tcs[worker.key])

(* a write that will be accepted is based on what the cache still holds;    *)
CopyCached == worker.pc # "idle" /\ Current => CacheCurrent(worker.key)

(* its counts are those of the caches, or the key is queued again;          *)
CountsFresh ==
    worker.pc # "idle" /\ Current /\ undelivered = {} /\ worker.key \notin queue =>
        /\ worker.pc \in {"mvs", "write"} =>
              worker.namespaces = Count(namespaceCache, worker.tc.spec.namespaceSelector)
        /\ worker.pc = "write" => worker.mvs = Count(mvCache, worker.tc.spec.selector)

(* and a status that does not tell what the caches hold is pending.         *)
ToldOrPending ==
    \A k \in DOMAIN tcs :
        Countable(tcs[k]) => Tells(tcs[k], namespaceCache, mvCache) \/ Pending(k)

(* A status write is an event of its own that calls for the next one; this  *)
(* ends, because a reconcile within the second of the last one changes      *)
(* nothing.  One whose selector cannot be converted is retried for ever.    *)
AtRest(k) == k \in DOMAIN tcs => (Countable(tcs[k]) => ~Pending(k))

Rests == \A k \in Config : <>[]AtRest(k)

ListedSpecs == [k \in DOMAIN tcCache |-> tcCache[k].spec]

WinnersIn(n, m) == Winners(ListedSpecs, n, namespaceCache[n], mvCache[m])

(* telemetry.go:97: "most specific first, then same-namespace preferred,    *)
(* then alphabetical": which TelemetryConfig a pod gets does not depend on  *)
(* the order in which they are listed or on the sort.                       *)
OneWinner ==
    \A n \in DOMAIN namespaceCache, m \in DOMAIN mvCache :
        \A v, w \in WinnersIn(n, m) : v = w

(* A TelemetryConfig that is created, edited, broken or deleted moves pods  *)
(* to itself or away from itself, never from one of the others to another   *)
(* or to none.                                                              *)
OthersUndisturbed ==
    [][ \A k \in Config :
            (tcCache' # tcCache /\ \A j \in Config \ {k} : Same(tcCache, tcCache', j))
            => \A n \in DOMAIN namespaceCache, m \in DOMAIN mvCache :
                   (namespaceCache' = namespaceCache /\ mvCache' = mvCache)
                   => \/ k \in WinnersIn(n, m) \cup WinnersIn(n, m)'
                      \/ WinnersIn(n, m)' = WinnersIn(n, m) ]_vars
=============================================================================
