---------------------------- MODULE UpdateQueue ----------------------------
(***************************************************************************)
(* What the tracker is promised by its update queue (the DebouncedQueue     *)
(* interface of internal/tracker/debounced_queue.go): a key that was added  *)
(* stays pending until it is handed to the worker, no key is handed out     *)
(* that nobody added, and only closing the queue may drop one.  How the     *)
(* timers and the workqueue keep the promise is DebouncedQueue.tla.         *)
(***************************************************************************)

CONSTANTS Key,      \* the NamespacedNames of ModelValidations
          NoKey     \* the worker processes nothing

VARIABLES pending,  \* keys whose update has still to be handed to the worker
          active,   \* the key the worker processes, or NoKey
          closed    \* ShutDown has begun

queueVars == <<pending, active, closed>>

QueueTypeOK == /\ pending \subseteq Key
               /\ active \in Key \cup {NoKey}
               /\ closed \in BOOLEAN

QueueInit == /\ pending = {}
             /\ active = NoKey
             /\ closed = FALSE

(* Adding every key of ks.  A queue that is being closed accepts or ignores *)
(* each of them: the callers do not hold the lock ShutDown holds.           *)
AddAll(ks) == IF closed
              THEN \E accepted \in SUBSET ks : pending' = pending \cup accepted
              ELSE pending' = pending \cup ks

Add(ks) == /\ AddAll(ks)
           /\ UNCHANGED <<active, closed>>

(* The worker takes a key.  The same key may be debouncing again while an   *)
(* earlier addition of it is handed out: then it also stays pending.        *)
Get(k) == /\ active = NoKey
          /\ k \in pending
          /\ active' = k
          /\ pending' \in {pending \ {k}, pending}
          /\ UNCHANGED closed

Done == /\ active # NoKey
        /\ active' = NoKey
        /\ UNCHANGED <<pending, closed>>

Close == /\ closed' = TRUE
         /\ pending' \in SUBSET pending
         /\ UNCHANGED active

QueueNext == \/ \E ks \in SUBSET Key : Add(ks)
             \/ \E k \in Key : Get(k)
             \/ Done
             \/ Close

QueueSpec == QueueInit /\ [][QueueNext]_queueVars
=============================================================================
