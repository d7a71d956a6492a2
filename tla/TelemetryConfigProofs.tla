----------------------- MODULE TelemetryConfigProofs -----------------------
(***************************************************************************)
(* Theorems about TelemetryConfig.tla, for any number of TelemetryConfigs,  *)
(* namespaces and ModelValidations and any number of edits and faults.      *)
(***************************************************************************)
EXTENDS TelemetryConfig, FiniteSetTheorems, TLAPS

-----------------------------------------------------------------------------
(* Maps *)

LEMMA PutIs ==
    ASSUME NEW m, NEW k, NEW v
    PROVE  /\ DOMAIN Put(m, k, v) = DOMAIN m \cup {k}
           /\ Put(m, k, v)[k] = v
           /\ \A x \in DOMAIN m \ {k} : Put(m, k, v)[x] = m[x]
  BY DEF Put

LEMMA DropIs ==
    ASSUME NEW m, NEW k
    PROVE  /\ DOMAIN Drop(m, {k}) = DOMAIN m \ {k}
           /\ \A x \in DOMAIN m \ {k} : Drop(m, {k})[x] = m[x]
  BY DEF Drop

LEMMA PutMap ==
    ASSUME NEW K, NEW V, NEW m, IsMap(m, K, V), NEW k \in K, NEW v \in V
    PROVE  IsMap(Put(m, k, v), K, V)
  BY DEF IsMap, Put

LEMMA DropMap ==
    ASSUME NEW K, NEW V, NEW m, IsMap(m, K, V), NEW k
    PROVE  IsMap(Drop(m, {k}), K, V)
  BY DEF IsMap, Drop

(* A Put or a Drop under one key leaves the other keys the same.            *)
LEMMA SameElsewhere ==
    ASSUME NEW m, NEW k, NEW v, NEW j, j # k
    PROVE  /\ Same(m, Put(m, k, v), j)
           /\ Same(m, Drop(m, {k}), j)
  BY DEF Same, Put, Drop

-----------------------------------------------------------------------------
(* The order of the candidates *)

LEMMA SpecificityNat ==
    ASSUME NEW spec \in TracingSpec
    PROVE  Specificity(spec) \in Nat
  <1>1. /\ IsFiniteSet(spec.namespaceSelector)
        /\ IsFiniteSet(spec.selector)
    BY DEF TracingSpec, Selector
  <1>2. /\ Cardinality(spec.namespaceSelector) \in Nat
        /\ Cardinality(spec.selector) \in Nat
    BY <1>1, FS_CardinalityType
  <1> QED BY <1>2 DEF Specificity, selectorSpecificity

LEMMA BeforeTotal ==
    ASSUME NEW list, IsMap(list, Config, TracingSpec), NEW ns,
           NEW j \in DOMAIN list, NEW k \in DOMAIN list, j # k
    PROVE  Before(list, ns, j, k) \/ Before(list, ns, k, j)
  <1>1. j \in Config /\ k \in Config
    BY DEF IsMap
  <1>2. Rank[j] \in Nat /\ Rank[k] \in Nat /\ Rank[j] # Rank[k]
    BY <1>1, SelectionAssumption
  <1>3. Specificity(list[j]) \in Nat /\ Specificity(list[k]) \in Nat
    BY SpecificityNat DEF IsMap
  <1>4. CASE Specificity(list[j]) # Specificity(list[k])
    BY <1>3, <1>4 DEF Before
  <1>5. CASE Specificity(list[j]) = Specificity(list[k])
    BY <1>2, <1>5 DEF Before
  <1> QED BY <1>4, <1>5

LEMMA BeforeTransitive ==
    ASSUME NEW list, IsMap(list, Config, TracingSpec), NEW ns,
           NEW i \in DOMAIN list, NEW j \in DOMAIN list, NEW k \in DOMAIN list,
           Before(list, ns, i, j), Before(list, ns, j, k)
    PROVE  Before(list, ns, i, k)
  <1>1. i \in Config /\ j \in Config /\ k \in Config
    BY DEF IsMap
  <1>2. Rank[i] \in Nat /\ Rank[j] \in Nat /\ Rank[k] \in Nat
    BY <1>1, SelectionAssumption
  <1>3. /\ Specificity(list[i]) \in Nat
        /\ Specificity(list[j]) \in Nat
        /\ Specificity(list[k]) \in Nat
    BY SpecificityNat DEF IsMap
  <1>4. CASE /\ Specificity(list[i]) = Specificity(list[j])
             /\ Specificity(list[j]) = Specificity(list[k])
    BY <1>2, <1>3, <1>4 DEF Before
  <1>5. CASE ~(/\ Specificity(list[i]) = Specificity(list[j])
               /\ Specificity(list[j]) = Specificity(list[k]))
    BY <1>3, <1>5 DEF Before
  <1> QED BY <1>4, <1>5

(* Whatever the list and its order, no two TelemetryConfigs can both come   *)
(* first (telemetry.go:97).                                                 *)
LEMMA WinnersAgree ==
    ASSUME NEW list, IsMap(list, Config, TracingSpec), NEW ns, NEW L, NEW M,
           NEW v \in Winners(list, ns, L, M), NEW w \in Winners(list, ns, L, M)
    PROVE  v = w
  <1>1. /\ v \in DOMAIN list /\ w \in DOMAIN list
        /\ ~Before(list, ns, v, w) /\ ~Before(list, ns, w, v)
    BY DEF Winners, Candidates
  <1> QED BY <1>1, BeforeTotal

(* Two lists that differ in k only have the same winners, unless k wins in  *)
(* one of them.                                                             *)
LEMMA OneWay ==
    ASSUME NEW list, NEW list2,
           IsMap(list, Config, TracingSpec), IsMap(list2, Config, TracingSpec),
           NEW k, \A j \in Config \ {k} : Same(list, list2, j),
           NEW ns, NEW L, NEW M,
           k \notin Winners(list2, ns, L, M),
           NEW w \in Winners(list, ns, L, M), w # k
    PROVE  w \in Winners(list2, ns, L, M)
  <1>1. /\ w \in Candidates(list, L, M) /\ w \in Config
        /\ w \in DOMAIN list2 /\ list2[w] = list[w]
    BY DEF Winners, Candidates, IsMap, Same
  <1>2. w \in Candidates(list2, L, M)
    BY <1>1 DEF Candidates
  <1>3. ASSUME NEW c \in Candidates(list2, L, M), c # k
        PROVE  ~Before(list2, ns, c, w)
    <2>1. c \in Config /\ c \in DOMAIN list /\ list2[c] = list[c]
      BY <1>3 DEF Candidates, IsMap, Same
    <2>2. c \in Candidates(list, L, M)
      BY <1>3, <2>1 DEF Candidates
    <2>3. ~Before(list, ns, c, w)
      BY <2>2 DEF Winners
    <2> QED BY <1>1, <2>1, <2>3 DEF Before
  <1>4. ASSUME k \in Candidates(list2, L, M)
        PROVE  ~Before(list2, ns, k, w)
    <2>1. PICK c \in Candidates(list2, L, M) : Before(list2, ns, c, k)
      BY <1>4 DEF Winners
    <2>2. k \in DOMAIN list2 /\ c \in DOMAIN list2 /\ w \in DOMAIN list2
      BY <1>1, <1>4 DEF Candidates
    <2>3. SUFFICES ASSUME Before(list2, ns, k, w) PROVE FALSE
      OBVIOUS
    <2>4. Before(list2, ns, c, w)
      BY <2>1, <2>2, <2>3, BeforeTransitive
    <2>5. c = k
      BY <1>3, <2>4
    <2>6. /\ k \in Config
          /\ Rank[k] \in Nat /\ Specificity(list2[k]) \in Nat
      BY <2>2, SelectionAssumption, SpecificityNat DEF IsMap
    <2> QED BY <2>1, <2>5, <2>6 DEF Before
  <1> QED BY <1>2, <1>3, <1>4 DEF Winners

-----------------------------------------------------------------------------
(* Types *)

LEMMA CountNat ==
    ASSUME NEW objects, NEW S, IsFiniteSet(S), DOMAIN objects \subseteq S, NEW sel
    PROVE  Count(objects, sel) \in Nat
  <1>1. IsFiniteSet({x \in DOMAIN objects : Matches(sel, objects[x])})
    BY FS_Subset
  <1> QED BY <1>1, FS_CardinalityType DEF Count

LEMMA NewStatusType ==
    ASSUME NEW later \in BOOLEAN, WorkerType, worker.pc = "write"
    PROVE  /\ worker.key \in Config
           /\ [worker.tc EXCEPT !.status = NewStatus(later)] \in TCObject
  <1>1. worker \in [pc : {"write"}, key : Config, tc : LiveCopy,
                    namespaces : Nat, mvs : Nat]
    BY DEF WorkerType, Idle
  <1>2. /\ worker.key \in Config /\ worker.tc \in TCObject
        /\ worker.namespaces \in Nat /\ worker.mvs \in Nat
    BY <1>1 DEF LiveCopy
  <1>3. worker.tc.status.applied \in {0, 1} /\ worker.tc.generation \in Nat
    BY <1>2 DEF TCObject, Status
  <1>4. NewStatus(later) \in Status
    BY <1>2, <1>3 DEF NewStatus, Status
  <1> QED BY <1>2, <1>4 DEF TCObject

LEMMA EditedTC ==
    ASSUME NEW tc \in TCObject, NEW s \in TracingSpec
    PROVE  /\ Edited(tc, s) \in TCObject
           /\ Edited(tc, s).uid = tc.uid
           /\ Edited(tc, s).generation = tc.generation + 1
  <1>1. [tc EXCEPT !.spec = s] \in TCObject
    BY DEF TCObject
  <1>2. tc.generation + 1 \in Nat
    BY DEF TCObject
  <1> QED BY <1>1, <1>2 DEF TCObject, Edited

LEMMA TypeInit == Init => TCTypeOK
  <1> SUFFICES ASSUME Init PROVE TCTypeOK
    OBVIOUS
  <1>1. \A s \in TracingSpec : NewTC(s, 0) \in TCObject
    BY DEF NewTC, TCObject, NoStatus, Status
  <1>2. IsMap(tcs, Config, TCObject)
    <2>1. PICK first \in FirstSpecs : tcs = [k \in DOMAIN first |-> NewTC(first[k], 0)]
      BY DEF Init
    <2>2. IsMap(first, Config, TracingSpec)
      BY TelemetryAssumption
    <2> QED BY <1>1, <2>1, <2>2 DEF IsMap
  <1>3. /\ IsMap(namespaces, Namespace, Labellings)
        /\ IsMap(mvs, ModelValidation, Labellings)
    BY TelemetryAssumption DEF Init
  <1>4. queue \subseteq Config
    BY <1>2 DEF Init, IsMap
  <1>5. edits \in 0 .. MaxEdits /\ faults \in 0 .. MaxFaults
    BY TelemetryAssumption DEF Init
  <1> QED BY <1>2, <1>3, <1>4, <1>5 DEF Init, TCTypeOK, WorkerType

LEMMA TypeUsers ==
    ASSUME TCTypeOK, Users
    PROVE  TCTypeOK'
  <1>1. /\ edits' \in 0 .. MaxEdits
        /\ UNCHANGED <<cacheVars, undelivered, queue, worker, faults>>
    <2>1. Edit
      BY DEF Users, CreateTC, EditTC, DeleteTC, SetNamespace, DeleteNamespace, SetMV,
             DeleteMV
    <2> QED BY <2>1, TelemetryAssumption DEF Edit, TCTypeOK
  <1>2. IsMap(tcs', Config, TCObject)
    <2>1. ASSUME NEW k \in Config, NEW s \in Specs, CreateTC(k, s)
          PROVE  IsMap(tcs', Config, TCObject)
      <3>1. NewTC(s, edits') \in TCObject
        BY <1>1, TelemetryAssumption DEF NewTC, TCObject, NoStatus, Status
      <3> QED BY <2>1, <3>1, PutMap DEF CreateTC, TCTypeOK
    <2>2. ASSUME NEW k \in Config, NEW s \in Specs, EditTC(k, s)
          PROVE  IsMap(tcs', Config, TCObject)
      <3>1. k \in DOMAIN tcs /\ tcs[k] \in TCObject
        BY <2>2 DEF EditTC, TCTypeOK, IsMap
      <3>2. Edited(tcs[k], s) \in TCObject
        BY <3>1, EditedTC, TelemetryAssumption
      <3> QED BY <2>2, <3>2, PutMap DEF EditTC, TCTypeOK
    <2>3. ASSUME NEW k \in Config, DeleteTC(k)
          PROVE  IsMap(tcs', Config, TCObject)
      <3>1. k \in DOMAIN tcs /\ tcs[k] \in TCObject
        BY <2>3 DEF DeleteTC, TCTypeOK, IsMap
      <3>2. [tcs[k] EXCEPT !.deleting = TRUE] \in TCObject
        BY <3>1 DEF TCObject
      <3> QED BY <2>3, <3>2, PutMap, DropMap DEF DeleteTC, TCTypeOK
    <2> QED BY <2>1, <2>2, <2>3 DEF Users, SetNamespace, DeleteNamespace, SetMV,
               DeleteMV, TCTypeOK
  <1>3. IsMap(namespaces', Namespace, Labellings)
    BY PutMap, DropMap DEF Users, CreateTC, EditTC, DeleteTC, SetNamespace,
       DeleteNamespace, SetMV, DeleteMV, TCTypeOK
  <1>4. IsMap(mvs', ModelValidation, Labellings)
    BY PutMap, DropMap DEF Users, CreateTC, EditTC, DeleteTC, SetNamespace,
       DeleteNamespace, SetMV, DeleteMV, TCTypeOK
  <1> QED BY <1>1, <1>2, <1>3, <1>4 DEF TCTypeOK, cacheVars, WorkerType

LEMMA TypeNext == TCTypeOK /\ [Next]_vars => TCTypeOK'
  <1> SUFFICES ASSUME TCTypeOK, [Next]_vars PROVE TCTypeOK'
    OBVIOUS
  <1>1. CASE Users
    BY <1>1, TypeUsers
  <1>2. ASSUME NEW k \in Config, SyncTC(k) PROVE TCTypeOK'
    <2>1. IsMap(tcCache', Config, TCObject)
      <3>1. CASE k \in DOMAIN tcs
        <4>1. tcs[k] \in TCObject
          BY <3>1 DEF TCTypeOK, IsMap
        <4> QED BY <1>2, <3>1, <4>1, PutMap DEF SyncTC, TCTypeOK
      <3>2. CASE k \notin DOMAIN tcs
        BY <1>2, <3>2, DropMap DEF SyncTC, TCTypeOK
      <3> QED BY <3>1, <3>2
    <2> QED BY <1>2, <2>1 DEF SyncTC, TCTypeOK, apiVars, WorkerType
  <1>3. ASSUME NEW k \in Config, Take(k) PROVE TCTypeOK'
    <2>1. WorkerType'
      <3>1. CASE k \in DOMAIN tcCache /\ ~tcCache[k].deleting
        <4>1. tcCache[k] \in LiveCopy
          BY <3>1 DEF TCTypeOK, IsMap, LiveCopy
        <4> QED BY <1>3, <3>1, <4>1 DEF Take, WorkerType
      <3>2. CASE ~(k \in DOMAIN tcCache /\ ~tcCache[k].deleting)
        BY <1>3, <3>2 DEF Take, WorkerType
      <3> QED BY <3>1, <3>2
    <2> QED BY <1>3, <2>1 DEF Take, TCTypeOK, apiVars, cacheVars
  <1>4. CASE SyncNamespaces \/ SyncMVs
    BY <1>4 DEF SyncNamespaces, SyncMVs, TCTypeOK, apiVars, WorkerType
  <1>5. ASSUME NEW kind \in {"namespace", "mv"}, Deliver(kind) PROVE TCTypeOK'
    BY <1>5 DEF Deliver, TCTypeOK, IsMap, apiVars, cacheVars, WorkerType
  <1>6. CASE countMatchedNamespaces
    <2>1. worker \in [pc : {"namespaces"}, key : Config, tc : LiveCopy]
      BY <1>6 DEF countMatchedNamespaces, TCTypeOK, WorkerType, Idle
    <2>2. Count(namespaceCache, worker.tc.spec.namespaceSelector) \in Nat
      BY CountNat, TelemetryAssumption DEF TCTypeOK, IsMap
    <2>3. WorkerType' /\ queue' \subseteq Config
      BY <1>6, <2>1, <2>2 DEF countMatchedNamespaces, Retry, TCTypeOK, WorkerType
    <2> QED BY <1>6, <2>3 DEF countMatchedNamespaces, TCTypeOK, apiVars, cacheVars
  <1>7. CASE countMatchedModelValidations
    <2>1. worker \in [pc : {"mvs"}, key : Config, tc : LiveCopy, namespaces : Nat]
      BY <1>7 DEF countMatchedModelValidations, TCTypeOK, WorkerType, Idle
    <2>2. Count(mvCache, worker.tc.spec.selector) \in Nat
      BY CountNat, TelemetryAssumption DEF TCTypeOK, IsMap
    <2>3. WorkerType' /\ queue' \subseteq Config
      BY <1>7, <2>1, <2>2 DEF countMatchedModelValidations, Retry, TCTypeOK, WorkerType
    <2> QED BY <1>7, <2>3 DEF countMatchedModelValidations, TCTypeOK, apiVars, cacheVars
  <1>8. ASSUME NEW later \in BOOLEAN, StatusUpdate(later) PROVE TCTypeOK'
    <2>1. /\ worker.key \in Config
          /\ [worker.tc EXCEPT !.status = NewStatus(later)] \in TCObject
      BY <1>8, NewStatusType DEF StatusUpdate, TCTypeOK
    <2>2. IsMap(tcs', Config, TCObject)
      BY <1>8, <2>1, PutMap DEF StatusUpdate, TCTypeOK
    <2>3. WorkerType' /\ queue' \subseteq Config
      BY <1>8, <2>1 DEF StatusUpdate, Retry, TCTypeOK, WorkerType
    <2> QED BY <1>8, <2>2, <2>3 DEF StatusUpdate, TCTypeOK, cacheVars
  <1>9. CASE StatusUpdateFails
    <2>1. worker.key \in Config
      BY <1>9 DEF StatusUpdateFails, TCTypeOK, WorkerType, Idle
    <2> QED BY <1>9, <2>1, TelemetryAssumption
            DEF StatusUpdateFails, Retry, TCTypeOK, apiVars, cacheVars, WorkerType
  <1>10. CASE Restart
    BY <1>10, TelemetryAssumption DEF Restart, TCTypeOK, IsMap, apiVars, WorkerType
  <1>11. CASE UNCHANGED vars
    BY <1>11 DEF vars, apiVars, cacheVars, TCTypeOK, WorkerType
  <1> QED BY <1>1, <1>2, <1>3, <1>4, <1>5, <1>6, <1>7, <1>8, <1>9, <1>10, <1>11 DEF Next

(* The operator works on objects of their kinds, whatever users do and      *)
(* whenever it is restarted.                                                *)
THEOREM TelemetryTypes == Spec => []TCTypeOK
  BY TypeInit, TypeNext, PTL DEF Spec

-----------------------------------------------------------------------------
(* Copies are never ahead of their objects *)

LEMMA Busy ==
    ASSUME TCTypeOK, worker.pc # "idle"
    PROVE  /\ worker.key \in Config /\ worker.tc \in TCObject
           /\ ~worker.tc.deleting
  <1>1. \/ worker \in [pc : {"namespaces"}, key : Config, tc : LiveCopy]
        \/ worker \in [pc : {"mvs"}, key : Config, tc : LiveCopy, namespaces : Nat]
        \/ worker \in [pc : {"write"}, key : Config, tc : LiveCopy,
                       namespaces : Nat, mvs : Nat]
    BY DEF TCTypeOK, WorkerType, Idle
  <1>2. worker.key \in Config /\ worker.tc \in LiveCopy
    BY <1>1
  <1> QED BY <1>2 DEF LiveCopy

(* What users do to the object of a key leaves every copy behind it, and    *)
(* different from it where it is another one.                               *)
LEMMA UsersLeaveBehind ==
    ASSUME TCTypeOK, Older, Users,
           NEW k \in DOMAIN tcs', NEW copy \in TCObject,
           copy.uid <= edits, k \in DOMAIN tcs => NotAhead(copy, tcs[k])
    PROVE  /\ tcs'[k].uid <= edits'
           /\ NotAhead(copy, tcs'[k])
           /\ \/ k \in DOMAIN tcs /\ tcs'[k] = tcs[k]
              \/ tcs'[k].deleting
              \/ tcs'[k] # copy
  <1>1. /\ edits \in Nat /\ edits' = edits + 1
        /\ copy.uid \in Nat /\ copy.generation \in Nat
        /\ k \in DOMAIN tcs => tcs[k] \in TCObject /\ tcs[k].uid <= edits
    <2>1. Edit
      BY DEF Users, CreateTC, EditTC, DeleteTC, SetNamespace, DeleteNamespace, SetMV,
             DeleteMV
    <2> QED BY <2>1, TelemetryAssumption DEF Edit, TCTypeOK, IsMap, TCObject, Older
  <1>2. CASE k \in DOMAIN tcs /\ tcs'[k] = tcs[k]
    BY <1>1, <1>2 DEF TCObject, NotAhead
  <1>3. CASE \E s \in Specs : CreateTC(k, s)
    <2>1. PICK s \in Specs : CreateTC(k, s)
      BY <1>3
    <2>2. tcs'[k] = NewTC(s, edits')
      BY <2>1 DEF CreateTC, Put
    <2>3. tcs'[k].uid = edits + 1
      BY <1>1, <2>2 DEF NewTC
    <2> QED BY <1>1, <2>3 DEF NotAhead
  <1>4. CASE \E s \in Specs : EditTC(k, s)
    <2>1. PICK s \in Specs : EditTC(k, s)
      BY <1>4
    <2>2. /\ k \in DOMAIN tcs
          /\ tcs'[k] = Edited(tcs[k], s)
      BY <2>1 DEF EditTC, Put
    <2>3. tcs'[k].uid = tcs[k].uid /\ tcs'[k].generation = tcs[k].generation + 1
      BY <1>1, <2>2, EditedTC, TelemetryAssumption
    <2>4. /\ tcs[k].uid \in Nat /\ tcs[k].generation \in Nat
          /\ NotAhead(copy, tcs[k])
      BY <1>1, <2>2 DEF TCObject
    <2>5. /\ tcs'[k].uid <= edits'
          /\ NotAhead(copy, tcs'[k])
      BY <1>1, <2>2, <2>3, <2>4 DEF NotAhead
    <2>6. tcs'[k].uid # copy.uid \/ tcs'[k].generation # copy.generation
      BY <1>1, <2>3, <2>4 DEF NotAhead
    <2> QED BY <2>5, <2>6
  <1>5. CASE DeleteTC(k)
    <2>1. k \in DOMAIN tcs /\ tcs'[k] = [tcs[k] EXCEPT !.deleting = TRUE]
      BY <1>5 DEF DeleteTC, Put, Drop
    <2>2. /\ tcs'[k].uid = tcs[k].uid /\ tcs'[k].generation = tcs[k].generation
          /\ tcs'[k].deleting
      BY <1>1, <2>1 DEF TCObject
    <2>3. tcs[k].uid \in Nat
      BY <1>1, <2>1 DEF TCObject
    <2> QED BY <1>1, <2>1, <2>2, <2>3 DEF NotAhead
  <1>6. \/ k \in DOMAIN tcs /\ tcs'[k] = tcs[k]
        \/ \E s \in Specs : CreateTC(k, s) \/ EditTC(k, s)
        \/ DeleteTC(k)
    <2>1. ASSUME NEW j \in Config, NEW s \in Specs, j # k, CreateTC(j, s)
          PROVE  k \in DOMAIN tcs /\ tcs'[k] = tcs[k]
      BY <2>1 DEF CreateTC, Put
    <2>2. ASSUME NEW j \in Config, NEW s \in Specs, j # k, EditTC(j, s)
          PROVE  k \in DOMAIN tcs /\ tcs'[k] = tcs[k]
      BY <2>2 DEF EditTC, Put
    <2>3. ASSUME NEW j \in Config, j # k, DeleteTC(j)
          PROVE  k \in DOMAIN tcs /\ tcs'[k] = tcs[k]
      BY <2>3 DEF DeleteTC, Put, Drop
    <2>4. \/ \E j \in Config, s \in Specs : CreateTC(j, s) \/ EditTC(j, s)
          \/ \E j \in Config : DeleteTC(j)
          \/ UNCHANGED tcs
      BY DEF Users, SetNamespace, DeleteNamespace, SetMV, DeleteMV
    <2> QED BY <2>1, <2>2, <2>3, <2>4
  <1> QED BY <1>2, <1>3, <1>4, <1>5, <1>6

LEMMA WritesEnd ==
    ASSUME (\E later \in BOOLEAN : StatusUpdate(later)) \/ StatusUpdateFails \/ Restart
    PROVE  worker'.pc = "idle"
  <1>1. ASSUME NEW later \in BOOLEAN, StatusUpdate(later) PROVE worker'.pc = "idle"
    BY <1>1 DEF StatusUpdate, Retry, Idle
  <1>2. CASE StatusUpdateFails \/ Restart
    BY <1>2 DEF StatusUpdateFails, Restart, Retry, Idle
  <1> QED BY <1>1, <1>2

LEMMA WrittenTC ==
    ASSUME TCTypeOK, NEW later \in BOOLEAN, StatusUpdate(later), Current
    PROVE  LET written == [worker.tc EXCEPT !.status = NewStatus(later)] IN
           /\ tcs' = Put(tcs, worker.key, written) /\ worker.key \in DOMAIN tcs
           /\ written.uid = tcs[worker.key].uid
           /\ written.generation = tcs[worker.key].generation
           /\ written.spec = tcs[worker.key].spec
           /\ written.status = NewStatus(later)
  <1>1. /\ worker.pc # "idle"
        /\ tcs' = Put(tcs, worker.key, [worker.tc EXCEPT !.status = NewStatus(later)])
    BY DEF StatusUpdate
  <1>2. worker.tc \in TCObject
    BY <1>1, Busy
  <1>3. worker.key \in DOMAIN tcs /\ tcs[worker.key] = worker.tc
    BY DEF Current
  <1> QED BY <1>1, <1>2, <1>3 DEF TCObject

(* No edit makes a write possible that was not.                             *)
LEMMA UsersMakeNothingCurrent ==
    ASSUME TCTypeOK, Older, Users, worker.pc # "idle", Current'
    PROVE  Current /\ tcs'[worker.key] = tcs[worker.key]
  <1>1. worker' = worker
    BY DEF Users, CreateTC, EditTC, DeleteTC, SetNamespace, DeleteNamespace, SetMV,
           DeleteMV, Edit
  <1>2. worker.key \in DOMAIN tcs' /\ tcs'[worker.key] = worker.tc
    BY <1>1 DEF Current
  <1>3. /\ worker.tc \in TCObject /\ ~worker.tc.deleting
        /\ worker.tc.uid <= edits
        /\ worker.key \in DOMAIN tcs => NotAhead(worker.tc, tcs[worker.key])
    BY Busy DEF Older
  <1>4. worker.key \in DOMAIN tcs /\ tcs'[worker.key] = tcs[worker.key]
    BY <1>2, <1>3, UsersLeaveBehind
  <1> QED BY <1>2, <1>4 DEF Current

LEMMA UsersUid ==
    ASSUME TCTypeOK, Older, Users, NEW k \in DOMAIN tcs'
    PROVE  tcs'[k].uid <= edits'
  <1>1. CASE k \in DOMAIN tcs
    <2>1. tcs[k] \in TCObject /\ tcs[k].uid <= edits
      BY <1>1 DEF TCTypeOK, IsMap, Older
    <2>2. NotAhead(tcs[k], tcs[k])
      BY <2>1 DEF TCObject, NotAhead
    <2> QED BY <1>1, <2>1, <2>2, UsersLeaveBehind
  <1>2. CASE k \notin DOMAIN tcs
    <2>1. PICK e \in TracingSpec : e = [enabled |-> TRUE, namespaceSelector |-> {},
                                        selector |-> {}]
      BY FS_EmptySet DEF TracingSpec, Selector
    <2>2. NewTC(e, 0) \in TCObject /\ NewTC(e, 0).uid = 0
      BY DEF NewTC, TCObject, NoStatus, Status
    <2>3. 0 <= edits
      BY TelemetryAssumption DEF TCTypeOK
    <2> QED BY <1>2, <2>2, <2>3, UsersLeaveBehind
  <1> QED BY <1>1, <1>2

LEMMA OlderInit == Init => Older
  <1> SUFFICES ASSUME Init PROVE Older
    OBVIOUS
  <1>1. \A k \in DOMAIN tcs : tcs[k].uid = 0 /\ tcs[k].generation = 1
    BY DEF Init, NewTC
  <1> QED BY <1>1 DEF Init, Older, NotAhead, Idle

LEMMA OlderNext == TCTypeOK /\ Older /\ [Next]_vars => Older'
  <1> SUFFICES ASSUME TCTypeOK, Older, [Next]_vars PROVE Older'
    OBVIOUS
  <1>1. CASE Users
    <2>1. /\ edits \in Nat /\ edits' = edits + 1
          /\ UNCHANGED <<tcCache, worker>>
      <3>1. Edit
        BY <1>1 DEF Users, CreateTC, EditTC, DeleteTC, SetNamespace, DeleteNamespace,
                    SetMV, DeleteMV
      <3> QED BY <3>1, TelemetryAssumption DEF Edit, cacheVars, TCTypeOK
    <2>2. \A k \in DOMAIN tcs' : tcs'[k].uid <= edits'
      BY <1>1, UsersUid
    <2>3. ASSUME NEW k, NEW copy \in TCObject, copy.uid <= edits,
                 k \in DOMAIN tcs => NotAhead(copy, tcs[k])
          PROVE  /\ copy.uid <= edits'
                 /\ k \in DOMAIN tcs' => NotAhead(copy, tcs'[k])
      <3>1. copy.uid \in Nat
        BY <2>3 DEF TCObject
      <3> QED BY <1>1, <2>1, <2>3, <3>1, UsersLeaveBehind
    <2>4. \A k \in DOMAIN tcCache : tcCache[k] \in TCObject
      BY DEF TCTypeOK, IsMap
    <2>5. worker.pc # "idle" => worker.tc \in TCObject
      BY Busy
    <2> QED BY <2>1, <2>2, <2>3, <2>4, <2>5 DEF Older
  <1>2. ASSUME NEW k \in Config, SyncTC(k) PROVE Older'
    <2>1. UNCHANGED <<tcs, worker, edits>>
      BY <1>2 DEF SyncTC, apiVars
    <2>2. ASSUME NEW j \in DOMAIN tcCache'
          PROVE  \/ j \in DOMAIN tcCache /\ tcCache'[j] = tcCache[j]
                 \/ j \in DOMAIN tcs /\ tcCache'[j] = tcs[j]
      BY <1>2 DEF SyncTC, Put, Drop
    <2>3. \A j \in DOMAIN tcs : NotAhead(tcs[j], tcs[j])
      BY DEF NotAhead, TCTypeOK, IsMap, TCObject
    <2> QED BY <2>1, <2>2, <2>3 DEF Older
  <1>3. ASSUME NEW k \in Config, Take(k) PROVE Older'
    BY <1>3 DEF Take, Older, Idle, apiVars, cacheVars
  <1>4. CASE SyncNamespaces \/ SyncMVs \/ \E kind \in {"namespace", "mv"} : Deliver(kind)
    BY <1>4 DEF SyncNamespaces, SyncMVs, Deliver, Older, apiVars, cacheVars
  <1>5. CASE countMatchedNamespaces \/ countMatchedModelValidations
    BY <1>5 DEF countMatchedNamespaces, countMatchedModelValidations, Retry, Idle, Older,
                apiVars, cacheVars
  <1>6. ASSUME NEW later \in BOOLEAN, StatusUpdate(later) PROVE Older'
    <2>1. worker'.pc = "idle" /\ UNCHANGED <<tcCache, edits>>
      BY <1>6 DEF StatusUpdate, Retry, Idle, cacheVars
    <2>2. /\ DOMAIN tcs' = DOMAIN tcs
          /\ \A j \in DOMAIN tcs : /\ tcs'[j].uid = tcs[j].uid
                                   /\ tcs'[j].generation = tcs[j].generation
      <3>1. CASE Current
        BY <1>6, <3>1, WrittenTC DEF Put
      <3>2. CASE ~Current
        BY <1>6, <3>2 DEF StatusUpdate
      <3> QED BY <3>1, <3>2
    <2> QED BY <2>1, <2>2 DEF Older, NotAhead
  <1>7. CASE StatusUpdateFails
    BY <1>7 DEF StatusUpdateFails, Retry, Idle, Older, apiVars, cacheVars
  <1>8. CASE Restart
    <2>1. \A j \in DOMAIN tcs : NotAhead(tcs[j], tcs[j])
      BY DEF NotAhead, TCTypeOK, IsMap, TCObject
    <2> QED BY <1>8, <2>1 DEF Restart, Idle, Older, apiVars
  <1>9. CASE UNCHANGED vars
    BY <1>9 DEF vars, apiVars, cacheVars, Older
  <1> QED BY <1>1, <1>2, <1>3, <1>4, <1>5, <1>6, <1>7, <1>8, <1>9 DEF Next

-----------------------------------------------------------------------------
(* An accepted write is based on the cache's copy *)

LEMMA CopyCachedNext == TCTypeOK /\ Older /\ CopyCached /\ [Next]_vars => CopyCached'
  <1> SUFFICES ASSUME TCTypeOK, Older, CopyCached, [Next]_vars,
                      (worker.pc # "idle" /\ Current)'
               PROVE  CacheCurrent(worker.key)'
    BY DEF CopyCached
  <1>1. CASE Users
    <2>1. worker' = worker /\ tcCache' = tcCache
      BY <1>1 DEF Users, CreateTC, EditTC, DeleteTC, SetNamespace, DeleteNamespace,
                  SetMV, DeleteMV, Edit, cacheVars
    <2>2. Current /\ tcs'[worker.key] = tcs[worker.key]
      BY <1>1, <2>1, UsersMakeNothingCurrent
    <2>3. worker.key \in DOMAIN tcs /\ worker.key \in DOMAIN tcs'
      BY <2>1, <2>2 DEF Current
    <2>4. CacheCurrent(worker.key)
      BY <2>1, <2>2 DEF CopyCached
    <2> QED BY <2>1, <2>2, <2>3, <2>4 DEF CacheCurrent, Same
  <1>2. ASSUME NEW k \in Config, SyncTC(k) PROVE CacheCurrent(worker.key)'
    <2>1. tcs' = tcs /\ worker' = worker
      BY <1>2 DEF SyncTC, apiVars
    <2>2. CASE worker.key = k
      BY <1>2, <2>1, <2>2 DEF SyncTC, CacheCurrent, Same, Put, Drop
    <2>3. CASE worker.key # k
      <3>1. CacheCurrent(worker.key)
        BY <2>1 DEF CopyCached, Current
      <3>2. Same(tcCache, tcCache', worker.key)
        BY <1>2, <2>3, SameElsewhere DEF SyncTC
      <3> QED BY <2>1, <3>1, <3>2 DEF CacheCurrent, Same
    <2> QED BY <2>2, <2>3
  <1>3. ASSUME NEW k \in Config, Take(k) PROVE CacheCurrent(worker.key)'
    BY <1>3 DEF Take, Idle, Current, CacheCurrent, Same, apiVars, cacheVars
  <1>4. CASE SyncNamespaces \/ SyncMVs \/ \E kind \in {"namespace", "mv"} : Deliver(kind)
    BY <1>4 DEF SyncNamespaces, SyncMVs, Deliver, apiVars, cacheVars, CopyCached, Current,
                CacheCurrent
  <1>5. CASE countMatchedNamespaces \/ countMatchedModelValidations
    BY <1>5 DEF countMatchedNamespaces, countMatchedModelValidations, Retry, Idle,
                apiVars, cacheVars, CopyCached, Current, CacheCurrent
  <1>6. CASE \/ \E later \in BOOLEAN : StatusUpdate(later)
             \/ StatusUpdateFails \/ Restart
    BY <1>6, WritesEnd
  <1>7. CASE UNCHANGED vars
    BY <1>7 DEF vars, apiVars, cacheVars, CopyCached, Current, CacheCurrent
  <1> QED BY <1>1, <1>2, <1>3, <1>4, <1>5, <1>6, <1>7 DEF Next

-----------------------------------------------------------------------------
(* Its counts are the caches', or the key is queued again *)

LEMMA CountsFreshNext ==
    TCTypeOK /\ Older /\ CopyCached /\ CountsFresh /\ [Next]_vars => CountsFresh'
  <1> SUFFICES ASSUME TCTypeOK, Older, CopyCached, CountsFresh, [Next]_vars,
                      (worker.pc # "idle" /\ Current)',
                      undelivered' = {}, worker'.key \notin queue'
               PROVE  (/\ worker.pc \in {"mvs", "write"} =>
                             worker.namespaces
                             = Count(namespaceCache, worker.tc.spec.namespaceSelector)
                       /\ worker.pc = "write" =>
                             worker.mvs = Count(mvCache, worker.tc.spec.selector))'
    BY DEF CountsFresh
  <1>1. CASE Users
    <2>1. UNCHANGED <<cacheVars, undelivered, queue, worker>>
      BY <1>1 DEF Users, CreateTC, EditTC, DeleteTC, SetNamespace, DeleteNamespace,
                  SetMV, DeleteMV, Edit
    <2>2. Current
      BY <1>1, <2>1, UsersMakeNothingCurrent
    <2> QED BY <2>1, <2>2 DEF CountsFresh, cacheVars
  <1>2. CASE \/ \E k \in Config : SyncTC(k)
             \/ UNCHANGED vars
    <2>1. /\ UNCHANGED <<tcs, worker, undelivered, namespaceCache, mvCache>>
          /\ queue \subseteq queue'
      BY <1>2 DEF SyncTC, vars, apiVars, cacheVars
    <2>2. Current
      BY <2>1 DEF Current
    <2> QED BY <2>1, <2>2 DEF CountsFresh
  <1>3. CASE SyncNamespaces \/ SyncMVs
    BY <1>3 DEF SyncNamespaces, SyncMVs
  <1>4. CASE \E kind \in {"namespace", "mv"} : Deliver(kind)
    <2>1. /\ UNCHANGED <<tcs, tcCache, worker>>
          /\ queue' = queue \cup DOMAIN tcCache
      BY <1>4 DEF Deliver, apiVars, cacheVars
    <2>2. Current /\ CacheCurrent(worker.key)
      BY <2>1 DEF CopyCached, Current
    <2>3. worker.key \in DOMAIN tcCache
      BY <2>2 DEF Current, CacheCurrent, Same
    <2> QED BY <2>1, <2>3
  <1>5. CASE \E k \in Config : Take(k)
    BY <1>5 DEF Take, Idle
  <1>6. CASE countMatchedNamespaces
    BY <1>6 DEF countMatchedNamespaces, Retry, Idle, cacheVars
  <1>7. CASE countMatchedModelValidations
    <2>1. /\ worker.pc = "mvs" /\ UNCHANGED <<tcs, undelivered, cacheVars>>
          /\ queue' = queue
          /\ worker' = [pc |-> "write", key |-> worker.key, tc |-> worker.tc,
                        namespaces |-> worker.namespaces,
                        mvs |-> Count(mvCache, worker.tc.spec.selector)]
      BY <1>7 DEF countMatchedModelValidations, Retry, Idle, apiVars
    <2>2. Current /\ worker.key \notin queue /\ undelivered = {}
      BY <2>1 DEF Current
    <2>3. worker.namespaces = Count(namespaceCache, worker.tc.spec.namespaceSelector)
      BY <2>1, <2>2 DEF CountsFresh
    <2> QED BY <2>1, <2>3 DEF cacheVars
  <1>8. CASE \/ \E later \in BOOLEAN : StatusUpdate(later)
             \/ StatusUpdateFails \/ Restart
    BY <1>8, WritesEnd
  <1> QED BY <1>1, <1>2, <1>3, <1>4, <1>5, <1>6, <1>7, <1>8 DEF Next

-----------------------------------------------------------------------------
(* What is not told is pending *)

(* An accepted write tells what the caches hold, or the key is pending.     *)
LEMMA WriteTells ==
    ASSUME TCTypeOK, CountsFresh, NEW later \in BOOLEAN, StatusUpdate(later), Current,
           NEW k \in Config, k = worker.key
    PROVE  Tells(tcs'[k], namespaceCache, mvCache) \/ Pending(k)'
  <1> DEFINE written == [worker.tc EXCEPT !.status = NewStatus(later)]
  <1>1. /\ worker.pc = "write" /\ worker.key \in DOMAIN tcs /\ tcs[worker.key] = worker.tc
        /\ UNCHANGED <<undelivered, queue>>
    BY DEF StatusUpdate, Current
  <1>2. /\ tcs'[k] = written
        /\ written.generation = worker.tc.generation
        /\ written.spec = worker.tc.spec
        /\ written.status = NewStatus(later)
    BY <1>1, WrittenTC DEF Put
  <1>3. CASE undelivered = {} /\ worker.key \notin queue
    <2>1. /\ worker.namespaces = Count(namespaceCache, worker.tc.spec.namespaceSelector)
          /\ worker.mvs = Count(mvCache, worker.tc.spec.selector)
      BY <1>1, <1>3 DEF CountsFresh
    <2> QED BY <1>2, <2>1 DEF Tells, NewStatus
  <1>4. CASE undelivered # {}
    BY <1>1, <1>4 DEF Pending
  <1>5. CASE k \in queue
    BY <1>1, <1>5 DEF Pending
  <1> QED BY <1>3, <1>4, <1>5

LEMMA ToldOrPendingNext ==
    TCTypeOK /\ Older /\ CountsFresh /\ ToldOrPending /\ [Next]_vars => ToldOrPending'
  <1> SUFFICES ASSUME TCTypeOK, Older, CountsFresh, ToldOrPending, [Next]_vars,
                      NEW k \in DOMAIN tcs', Countable(tcs'[k])
               PROVE  Tells(tcs'[k], namespaceCache', mvCache') \/ Pending(k)'
    BY DEF ToldOrPending
  <1> DEFINE Goal == Tells(tcs'[k], namespaceCache', mvCache') \/ Pending(k)'
  <1>1. k \in DOMAIN tcs /\ Countable(tcs[k])
        => Tells(tcs[k], namespaceCache, mvCache) \/ Pending(k)
    BY DEF ToldOrPending
  <1>2. k \in Config
    BY TypeNext DEF TCTypeOK, IsMap
  <1>3. CASE Users
    <2>1. UNCHANGED <<tcCache, namespaceCache, mvCache, undelivered, queue, worker>>
      BY <1>3 DEF Users, CreateTC, EditTC, DeleteTC, SetNamespace, DeleteNamespace,
                  SetMV, DeleteMV, Edit, cacheVars
    <2>2. CASE k \in DOMAIN tcs /\ tcs'[k] = tcs[k]
      BY <1>1, <2>1, <2>2 DEF Pending, CacheCurrent, Same
    <2>3. CASE ~(k \in DOMAIN tcs /\ tcs'[k] = tcs[k])
      <3>1. SUFFICES ASSUME k \in DOMAIN tcCache PROVE tcs'[k] # tcCache[k]
        BY <2>1 DEF Pending, CacheCurrent, Same
      <3>2. /\ tcCache[k] \in TCObject /\ tcCache[k].uid <= edits
            /\ k \in DOMAIN tcs => NotAhead(tcCache[k], tcs[k])
        BY <3>1 DEF TCTypeOK, IsMap, Older
      <3>3. tcs'[k].deleting \/ tcs'[k] # tcCache[k]
        BY <1>3, <2>3, <3>2, UsersLeaveBehind
      <3> QED BY <3>3 DEF Countable
    <2> QED BY <2>2, <2>3
  <1>4. ASSUME NEW j \in Config, SyncTC(j) PROVE Goal
    <2>1. /\ UNCHANGED <<tcs, namespaceCache, mvCache, undelivered, worker>>
          /\ queue' = queue \cup {j}
      BY <1>4 DEF SyncTC, apiVars
    <2>2. CASE j = k
      BY <2>1, <2>2 DEF Pending
    <2>3. CASE j # k
      <3>1. Same(tcCache, tcCache', k)
        BY <1>4, <2>3, SameElsewhere DEF SyncTC
      <3> QED BY <1>1, <2>1, <3>1 DEF Pending, CacheCurrent, Same
    <2> QED BY <2>2, <2>3
  <1>5. CASE SyncNamespaces \/ SyncMVs
    BY <1>5 DEF SyncNamespaces, SyncMVs, Pending
  <1>6. CASE \E kind \in {"namespace", "mv"} : Deliver(kind)
    BY <1>6 DEF Deliver, Pending, CacheCurrent, Same, apiVars, cacheVars
  <1>7. ASSUME NEW j \in Config, Take(j) PROVE Goal
    <2>1. /\ worker.pc = "idle"
          /\ UNCHANGED <<tcs, tcCache, namespaceCache, mvCache, undelivered>>
          /\ queue' = queue \ {j}
      BY <1>7 DEF Take, apiVars, cacheVars
    <2>2. CASE j # k
      <3>1. worker.key # k
        <4>1. worker = Idle
          BY <2>1 DEF TCTypeOK, WorkerType
        <4> QED BY <1>2, <4>1, TelemetryAssumption DEF Idle
      <3> QED BY <1>1, <2>1, <2>2, <3>1 DEF Pending, CacheCurrent
    <2>3. CASE j = k
      <3>1. CASE k \in DOMAIN tcCache /\ ~tcCache[k].deleting
        BY <1>7, <2>3, <3>1 DEF Take, Pending
      <3>2. CASE ~(k \in DOMAIN tcCache /\ ~tcCache[k].deleting)
        BY <2>1, <3>2 DEF Pending, CacheCurrent, Same, Countable
      <3> QED BY <3>1, <3>2
    <2> QED BY <2>2, <2>3
  <1>8. CASE countMatchedNamespaces \/ countMatchedModelValidations
    <2>1. /\ UNCHANGED <<tcs, tcCache, namespaceCache, mvCache, undelivered>>
          /\ queue \subseteq queue'
          /\ worker'.key = worker.key \/ worker.key \in queue'
      BY <1>8 DEF countMatchedNamespaces, countMatchedModelValidations, Retry, apiVars,
                  cacheVars
    <2> QED BY <1>1, <2>1 DEF Pending, CacheCurrent
  <1>9. ASSUME NEW later \in BOOLEAN, StatusUpdate(later) PROVE Goal
    <2>1. UNCHANGED <<tcCache, namespaceCache, mvCache, undelivered>>
      BY <1>9 DEF StatusUpdate, cacheVars
    <2>2. CASE ~Current
      <3>1. tcs' = tcs /\ queue' = queue \cup {worker.key}
        BY <1>9, <2>2 DEF StatusUpdate, Retry
      <3> QED BY <1>1, <2>1, <3>1 DEF Pending, CacheCurrent
    <2>3. CASE Current /\ k = worker.key
      BY <1>2, <1>9, <2>1, <2>3, WriteTells
    <2>4. CASE Current /\ k # worker.key
      <3>1. k \in DOMAIN tcs /\ tcs'[k] = tcs[k] /\ queue' = queue
        BY <1>9, <2>4 DEF StatusUpdate, Put
      <3> QED BY <1>1, <2>1, <2>4, <3>1 DEF Pending, CacheCurrent, Same
    <2> QED BY <2>2, <2>3, <2>4
  <1>10. CASE StatusUpdateFails
    <2>1. /\ UNCHANGED <<tcs, tcCache, namespaceCache, mvCache, undelivered>>
          /\ queue' = queue \cup {worker.key}
      BY <1>10 DEF StatusUpdateFails, Retry, apiVars, cacheVars
    <2> QED BY <1>1, <2>1 DEF Pending, CacheCurrent
  <1>11. CASE Restart
    BY <1>11 DEF Restart, Pending, apiVars
  <1>12. CASE UNCHANGED vars
    BY <1>1, <1>12 DEF vars, apiVars, cacheVars, Pending, CacheCurrent
  <1> QED BY <1>3, <1>4, <1>5, <1>6, <1>7, <1>8, <1>9, <1>10, <1>11, <1>12 DEF Next

-----------------------------------------------------------------------------

IInv == TCTypeOK /\ Older /\ CopyCached /\ CountsFresh /\ ToldOrPending

LEMMA InvInit == Init => IInv
  <1> SUFFICES ASSUME Init PROVE IInv
    OBVIOUS
  <1>1. worker.pc = "idle" /\ queue = DOMAIN tcs
    BY DEF Init, Idle
  <1>2. CopyCached /\ CountsFresh
    BY <1>1 DEF CopyCached, CountsFresh
  <1>3. ToldOrPending
    BY <1>1 DEF ToldOrPending, Pending
  <1> QED BY <1>2, <1>3, TypeInit, OlderInit DEF IInv

LEMMA InvNext == IInv /\ [Next]_vars => IInv'
  BY TypeNext, OlderNext, CopyCachedNext, CountsFreshNext, ToldOrPendingNext DEF IInv

(* However edits, the two lists, conflicting writes, events and restarts    *)
(* interleave, a TelemetryConfig whose status does not tell how many        *)
(* namespaces and ModelValidations match is going to be reconciled again    *)
(* (telemetryconfig_controller.go).                                         *)
THEOREM NoCountForgotten == Spec => []NothingForgotten
  <1>1. IInv => NothingForgotten
    BY DEF IInv, ToldOrPending, NothingForgotten
  <1> QED BY <1>1, InvInit, InvNext, PTL DEF Spec

LEMMA ListedType ==
    ASSUME TCTypeOK
    PROVE  IsMap(ListedSpecs, Config, TracingSpec)
  BY DEF TCTypeOK, IsMap, ListedSpecs, TCObject

(* In every state the order of selectTelemetryConfig has one first          *)
(* candidate for a pod, so that the unstable sort and the order of the list *)
(* do not matter (telemetry.go:99).                                         *)
THEOREM PodsGetOneConfig == Spec => []OneWinner
  <1>1. TCTypeOK => OneWinner
    <2> SUFFICES ASSUME TCTypeOK,
                        NEW n \in DOMAIN namespaceCache, NEW m \in DOMAIN mvCache,
                        NEW v \in WinnersIn(n, m), NEW w \in WinnersIn(n, m)
                 PROVE  v = w
      BY DEF OneWinner
    <2> QED BY ListedType, WinnersAgree DEF WinnersIn
  <1> QED BY <1>1, TelemetryTypes, PTL

(* One TelemetryConfig moves pods to itself or away from itself only.       *)
THEOREM ConfigsKeepTheirPods == Spec => OthersUndisturbed
  <1> DEFINE Undisturbed ==
        \A k \in Config :
            (tcCache' # tcCache /\ \A j \in Config \ {k} : Same(tcCache, tcCache', j))
            => \A n \in DOMAIN namespaceCache, m \in DOMAIN mvCache :
                   (namespaceCache' = namespaceCache /\ mvCache' = mvCache)
                   => \/ k \in WinnersIn(n, m) \cup WinnersIn(n, m)'
                      \/ WinnersIn(n, m)' = WinnersIn(n, m)
  <1>1. TCTypeOK /\ TCTypeOK' => Undisturbed
    <2> SUFFICES ASSUME TCTypeOK, TCTypeOK', NEW k \in Config,
                        \A j \in Config \ {k} : Same(tcCache, tcCache', j),
                        NEW n \in DOMAIN namespaceCache, NEW m \in DOMAIN mvCache,
                        namespaceCache' = namespaceCache, mvCache' = mvCache,
                        k \notin WinnersIn(n, m), k \notin WinnersIn(n, m)'
                 PROVE  WinnersIn(n, m)' = WinnersIn(n, m)
      OBVIOUS
    <2> DEFINE before == ListedSpecs
               after  == ListedSpecs'
               Won(list) == Winners(list, n, namespaceCache[n], mvCache[m])
    <2>1. /\ IsMap(before, Config, TracingSpec)
          /\ IsMap(after, Config, TracingSpec)
      BY DEF TCTypeOK, IsMap, ListedSpecs, TCObject
    <2>2. \A j \in Config \ {k} : Same(before, after, j) /\ Same(after, before, j)
      BY DEF ListedSpecs, Same
    <2>3. WinnersIn(n, m) = Won(before) /\ WinnersIn(n, m)' = Won(after)
      BY DEF WinnersIn
    <2> HIDE DEF before, after
    <2>4. ASSUME NEW w \in Won(before) PROVE w \in Won(after)
      BY <2>1, <2>2, <2>3, <2>4, OneWay
    <2>5. ASSUME NEW w \in Won(after) PROVE w \in Won(before)
      BY <2>1, <2>2, <2>3, <2>5, OneWay
    <2> QED BY <2>3, <2>4, <2>5
  <1> QED BY <1>1, TelemetryTypes, PTL DEF OthersUndisturbed
=============================================================================
