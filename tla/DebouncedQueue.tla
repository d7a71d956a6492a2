--------------------------- MODULE DebouncedQueue ---------------------------
(***************************************************************************)
(* The debounced queue of internal/tracker/debounced_queue.go with its      *)
(* clients in status_tracker.go: callers of Add, the single update worker,  *)
(* Stop, and a caller of WaitForCompletion.                                 *)
(*                                                                          *)
(* Adding a key arms a timer (time.AfterFunc) or resets the one in          *)
(* debounceTimers.  A timer that fires starts a goroutine, the callback,    *)
(* which puts the key on the client-go workqueue.  Resetting a timer that   *)
(* has already fired arms it again, so several callbacks of one key can     *)
(* run; a callback removes whatever entry the map then has for its key, so  *)
(* a timer can be armed and no longer in the map (an orphan).               *)
(*                                                                          *)
(* The timer durations and the order of keys in the workqueue are not       *)
(* modelled: an armed timer fires at any time, Get takes any queued key.    *)
(***************************************************************************)
EXTENDS Integers, FiniteSets

CONSTANTS Key,       \* ModelValidation keys
          NoKey,     \* no key
          MaxAdds,   \* bound: calls of Add
          MaxErrors, \* bound: status updates that fail and are retried
          Waits      \* whether somebody calls WaitForCompletion (tests do)

ASSUME QueueAssumption == /\ IsFiniteSet(Key)
                          /\ NoKey \notin Key
                          /\ MaxAdds \in Nat
                          /\ MaxErrors \in Nat
                          /\ Waits \in BOOLEAN

VARIABLES timer,      \* debounceTimers[k]: "none" no entry, "armed", or "fired"
          orphans,    \* armed timers of k that the map no longer holds
          callbacks,  \* callback goroutines of k at each of their stages
          debounceWg, \* the WaitGroup's counter; below zero it panics
          dirty,      \* workqueue: keys to be processed (queued, or re-added)
          processing, \* workqueue: keys handed out and not Done
          delayed,    \* workqueue: keys AddRateLimited holds back
          draining,   \* workqueue: ShutDown was called
          stopCh,     \* the queue's stopCh is closed
          metricMu,   \* the queue length read by the lock's holder, or Unlocked
          queueSize,  \* the queue size gauge
          worker,     \* the update worker: [pc, key]
          stopper,    \* where the tracker's Stop is
          waiter,     \* where a WaitForCompletion call is
          owed,       \* history: what a caller of "wait" (WaitForCompletion)
                      \* or "stop" (Stop) found pending or in processing and
                      \* the worker has not finished since
          adds, errors \* what the bounds count

timerVars  == <<timer, orphans, callbacks, debounceWg>>
workVars   == <<dirty, processing, delayed, draining>>
metricVars == <<metricMu, queueSize>>
countVars  == <<adds, errors>>
vars == <<timerVars, workVars, stopCh, metricVars, worker, stopper, waiter,
          owed, countVars>>

Stage    == {"check", "enqueue", "size", "sizing", "unmap", "finish"}
WorkerPC == {"check", "get", "work", "retry", "requeue", "requeueSize",
             "requeueSizing", "done", "doneSize", "doneSizing", "exited"}
StopPC   == {"running", "wait", "signal", "stopTimers", "closeCh",
             "closeQueue", "zeroMetric", "join", "stopped"}
Unlocked == -1

Len == Cardinality(dirty \ processing)      \* queue.Len()

(* A negative WaitGroup panics in a goroutine, which ends the process.      *)
alive == debounceWg >= 0

(* ShutDown holds dq.mu from the moment it has stopped the timers.          *)
muFree == stopper \notin {"closeCh", "closeQueue", "zeroMetric"}

(* st.stopCh, which Stop closes before it shuts the queue down.             *)
trackerStopped == stopper \in StopPC \ {"running", "wait", "signal"}

Init == /\ timer = [k \in Key |-> "none"]
        /\ orphans = [k \in Key |-> 0]
        /\ callbacks = [k \in Key |-> [s \in Stage |-> 0]]
        /\ debounceWg = 0
        /\ dirty = {} /\ processing = {} /\ delayed = {} /\ draining = FALSE
        /\ stopCh = FALSE
        /\ metricMu = Unlocked /\ queueSize = 0
        /\ worker = [pc |-> "check", key |-> NoKey]
        /\ stopper = "running"
        /\ waiter = "idle"
        /\ owed = [wait |-> {}, stop |-> {}]
        /\ adds = 0 /\ errors = 0

-----------------------------------------------------------------------------
(* The client-go workqueue *)

QueueAdd(k) == dirty' = IF draining THEN dirty ELSE dirty \cup {k}

(* A retry whose back-off is over.                                          *)
DelayOver(k) == /\ alive
                /\ k \in delayed
                /\ delayed' = delayed \ {k}
                /\ QueueAdd(k)
                /\ UNCHANGED <<timerVars, processing, draining, stopCh,
                               metricVars, worker, stopper, waiter, owed, countVars>>

-----------------------------------------------------------------------------
(* Add and the timers *)

ResetTimer(k) ==
    /\ timer[k] # "none"
    /\ timer' = [timer EXCEPT ![k] = "armed"]
    /\ UNCHANGED debounceWg

NewTimer(k) ==
    /\ timer[k] = "none"
    /\ timer' = [timer EXCEPT ![k] = "armed"]
    /\ debounceWg' = debounceWg + 1

Add(k) ==
    /\ alive
    /\ adds < MaxAdds
    /\ adds' = adds + 1
    /\ muFree
    /\ IF stopCh THEN UNCHANGED <<timer, debounceWg>>
                 ELSE ResetTimer(k) \/ NewTimer(k)
    /\ UNCHANGED <<orphans, callbacks, workVars, stopCh, metricVars, worker,
                   stopper, waiter, owed, errors>>

(* An armed timer fires: its callback starts.                               *)
Fire(k) ==
    /\ alive
    /\ \/ /\ timer[k] = "armed"
          /\ timer' = [timer EXCEPT ![k] = "fired"]
          /\ UNCHANGED orphans
       \/ /\ orphans[k] > 0
          /\ orphans' = [orphans EXCEPT ![k] = @ - 1]
          /\ UNCHANGED timer
    /\ callbacks' = [callbacks EXCEPT ![k]["check"] = @ + 1]
    /\ UNCHANGED <<debounceWg, workVars, stopCh, metricVars, worker, stopper,
                   waiter, owed, countVars>>

-----------------------------------------------------------------------------
(* The callback's stages *)

(* One callback of k goes from stage s to stage t.                          *)
Advance(k, s, t) ==
    /\ alive
    /\ callbacks[k][s] > 0
    /\ callbacks' = [callbacks EXCEPT ![k][s] = @ - 1, ![k][t] = @ + 1]

CallbackCheck(k) ==
    /\ Advance(k, "check", IF stopCh THEN "finish" ELSE "enqueue")
    /\ UNCHANGED <<timer, orphans, debounceWg, workVars, stopCh, metricVars,
                   worker, stopper, waiter, owed, countVars>>

CallbackEnqueue(k) ==
    /\ Advance(k, "enqueue", "size")
    /\ QueueAdd(k)
    /\ UNCHANGED <<timer, orphans, debounceWg, processing, delayed, draining,
                   stopCh, metricVars, worker, stopper, waiter, owed, countVars>>

(* updateQueueSizeMetric in two steps: under metricMu it looks at stopCh    *)
(* and reads the length, then it sets the gauge and unlocks.                *)
ReadLen_NoLock ==
    /\ metricMu' = IF stopCh THEN Unlocked ELSE Len
    /\ UNCHANGED queueSize

ReadLen ==
    /\ metricMu = Unlocked
    /\ metricMu' = IF stopCh THEN Unlocked ELSE Len
    /\ UNCHANGED queueSize

SetQueueSize ==
    /\ queueSize' = metricMu
    /\ metricMu' = Unlocked

CallbackSize(k) ==
    /\ \/ /\ Advance(k, "size", IF stopCh THEN "unmap" ELSE "sizing")
          /\ ReadLen
       \/ /\ Advance(k, "sizing", "unmap")
          /\ SetQueueSize
    /\ UNCHANGED <<timer, orphans, debounceWg, workVars, stopCh, worker,
                   stopper, waiter, owed, countVars>>

CallbackUnmap_StopsTimer(k) ==
    /\ muFree
    /\ Advance(k, "unmap", "finish")
    /\ timer' = [timer EXCEPT ![k] = "none"]
    /\ UNCHANGED <<orphans, debounceWg, workVars, stopCh, metricVars, worker,
                   stopper, waiter, owed, countVars>>

(* delete(dq.debounceTimers, item): whatever timer is there, armed or not.  *)
CallbackUnmap(k) ==
    /\ muFree
    /\ Advance(k, "unmap", "finish")
    /\ timer' = [timer EXCEPT ![k] = "none"]
    /\ orphans' = [orphans EXCEPT ![k] = @ + (IF timer[k] = "armed" THEN 1 ELSE 0)]
    /\ UNCHANGED <<debounceWg, workVars, stopCh, metricVars, worker, stopper,
                   waiter, owed, countVars>>

CallbackFinish_NoDone(k) ==
    /\ Advance(k, "finish", "finish")
    /\ UNCHANGED <<timer, orphans, debounceWg, workVars, stopCh, metricVars,
                   worker, stopper, waiter, owed, countVars>>

(* The deferred debounceWg.Done.                                            *)
CallbackFinish(k) ==
    /\ alive
    /\ callbacks[k]["finish"] > 0
    /\ callbacks' = [callbacks EXCEPT ![k]["finish"] = @ - 1]
    /\ debounceWg' = debounceWg - 1
    /\ UNCHANGED <<timer, orphans, workVars, stopCh, metricVars, worker,
                   stopper, waiter, owed, countVars>>

Callback(k) == \/ CallbackCheck(k) \/ CallbackEnqueue(k) \/ CallbackSize(k)
               \/ CallbackUnmap(k) \/ CallbackFinish(k)

-----------------------------------------------------------------------------
(* The worker: asyncUpdateWorker and processNextUpdate *)

Goto(from, to) == /\ alive
                  /\ worker.pc = from
                  /\ worker' = [worker EXCEPT !.pc = to]

WorkerCheck ==
    /\ Goto("check", IF trackerStopped THEN "exited" ELSE "get")
    /\ UNCHANGED <<timerVars, workVars, stopCh, metricVars, stopper, waiter, owed,
                   countVars>>

(* Get blocks until a key is queued, or the queue is shut down and empty.   *)
WorkerGet ==
    /\ alive
    /\ worker.pc = "get"
    /\ \/ \E k \in dirty \ processing :
             /\ worker' = [pc |-> "work", key |-> k]
             /\ dirty' = dirty \ {k}
             /\ processing' = processing \cup {k}
       \/ /\ draining
          /\ dirty \subseteq processing
          /\ Goto("get", "check")
          /\ UNCHANGED <<dirty, processing>>
    /\ UNCHANGED <<timerVars, delayed, draining, stopCh, metricVars, stopper,
                   waiter, owed, countVars>>

WorkerWork_RetriesSuccess ==
    /\ Goto("work", "retry")
    /\ UNCHANGED <<timerVars, workVars, stopCh, metricVars, stopper, waiter, owed,
                   countVars>>

(* doUpdateStatus returns nil (the retries are forgotten) or an error.      *)
WorkerWork ==
    /\ \/ /\ Goto("work", "done")
          /\ UNCHANGED errors
       \/ /\ errors < MaxErrors
          /\ errors' = errors + 1
          /\ Goto("work", "retry")
    /\ UNCHANGED <<timerVars, workVars, stopCh, metricVars, stopper, waiter, owed,
                   adds>>

(* AddWithRetry: the look at stopCh, then AddRateLimited, then the metric.  *)
WorkerRetry ==
    /\ \/ /\ Goto("retry", IF stopCh THEN "done" ELSE "requeue")
          /\ UNCHANGED delayed
       \/ /\ Goto("requeue", "requeueSize")
          /\ delayed' = IF draining THEN delayed ELSE delayed \cup {worker.key}
    /\ UNCHANGED <<timerVars, dirty, processing, draining, stopCh, metricVars,
                   stopper, waiter, owed, countVars>>

WorkerDone_NoMetric ==
    /\ alive
    /\ worker.pc = "done"
    /\ worker' = [pc |-> "check", key |-> NoKey]
    /\ processing' = processing \ {worker.key}
    /\ owed' = [who \in DOMAIN owed |-> owed[who] \ {worker.key}]
    /\ UNCHANGED <<timerVars, dirty, delayed, draining, stopCh, metricVars,
                   stopper, waiter, countVars>>

WorkerDone_NotTold ==
    /\ alive
    /\ worker.pc = "done"
    /\ worker' = [pc |-> "doneSize", key |-> NoKey]
    /\ UNCHANGED <<timerVars, workVars, stopCh, metricVars, stopper, waiter, owed,
                   countVars>>

WorkerDone ==
    /\ alive
    /\ worker.pc = "done"
    /\ worker' = [pc |-> "doneSize", key |-> NoKey]
    /\ processing' = processing \ {worker.key}
    /\ owed' = [who \in DOMAIN owed |-> owed[who] \ {worker.key}]
    /\ UNCHANGED <<timerVars, dirty, delayed, draining, stopCh, metricVars,
                   stopper, waiter, countVars>>

WorkerSize ==
    /\ \/ /\ Goto("requeueSize", IF stopCh THEN "done" ELSE "requeueSizing")
          /\ ReadLen
       \/ /\ Goto("requeueSizing", "done")
          /\ SetQueueSize
       \/ /\ Goto("doneSize", IF stopCh THEN "check" ELSE "doneSizing")
          /\ ReadLen
       \/ /\ Goto("doneSizing", "check")
          /\ SetQueueSize
    /\ UNCHANGED <<timerVars, workVars, stopCh, stopper, waiter, owed, countVars>>

Worker == \/ WorkerCheck \/ WorkerGet \/ WorkerWork \/ WorkerRetry
          \/ WorkerDone \/ WorkerSize

-----------------------------------------------------------------------------
(* Keys an Add has put in and the worker has not been given.                *)
Debouncing(k) == \/ timer[k] = "armed"
                 \/ orphans[k] > 0
                 \/ callbacks[k]["check"] > 0
                 \/ callbacks[k]["enqueue"] > 0

Pending == {k \in Key : Debouncing(k)} \cup dirty \cup delayed

-----------------------------------------------------------------------------
(* Stop of the tracker, with ShutDown of the queue inside *)

Stop(from, to) == alive /\ stopper = from /\ stopper' = to

StopCall == /\ Stop("running", "wait")
            /\ owed' = [owed EXCEPT !.stop = Pending \cup processing]
            /\ UNCHANGED <<timerVars, workVars, stopCh, metricVars, worker,
                           waiter, countVars>>

StopWait == /\ \/ debounceWg = 0 /\ Stop("wait", "signal")
               \/ Stop("signal", "stopTimers")
            /\ UNCHANGED <<timerVars, workVars, stopCh, metricVars, worker,
                           waiter, owed, countVars>>

ShutDownTimers ==
    /\ Stop("stopTimers", "closeCh")
    /\ timer' = [k \in Key |-> "none"]
    /\ UNCHANGED <<orphans, callbacks, debounceWg, workVars, stopCh,
                   metricVars, worker, waiter, owed, countVars>>

ShutDownStopCh ==
    /\ Stop("closeCh", "closeQueue")
    /\ stopCh' = TRUE
    /\ UNCHANGED <<timerVars, workVars, metricVars, worker, waiter, owed, countVars>>

ShutDownQueue_Skipped ==
    /\ Stop("closeQueue", "zeroMetric")
    /\ UNCHANGED <<timerVars, workVars, stopCh, metricVars, worker, waiter, owed,
                   countVars>>

ShutDownQueue ==
    /\ Stop("closeQueue", "zeroMetric")
    /\ draining' = TRUE
    /\ delayed' = {}
    /\ UNCHANGED <<timerVars, dirty, processing, stopCh, metricVars, worker,
                   waiter, owed, countVars>>

(* SetQueueSize(0), which does not take metricMu.                           *)
ShutDownMetric ==
    /\ Stop("zeroMetric", "join")
    /\ queueSize' = 0
    /\ UNCHANGED <<timerVars, workVars, stopCh, metricMu, worker, waiter, owed,
                   countVars>>

StopJoin == /\ worker.pc = "exited"
            /\ Stop("join", "stopped")
            /\ UNCHANGED <<timerVars, workVars, stopCh, metricVars, worker,
                           waiter, owed, countVars>>

Stopping == \/ StopWait \/ ShutDownTimers \/ ShutDownStopCh \/ ShutDownQueue
            \/ ShutDownMetric \/ StopJoin

-----------------------------------------------------------------------------
(* WaitForCompletion *)

Wait(from, to) == alive /\ waiter = from /\ waiter' = to

WaitCall == /\ Waits
            /\ Wait("idle", "wait")
            /\ owed' = [owed EXCEPT !.wait = Pending \cup processing]
            /\ UNCHANGED <<timerVars, workVars, stopCh, metricVars, worker,
                           stopper, countVars>>

WaitUpdates == /\ debounceWg = 0
               /\ Wait("wait", "poll")
               /\ UNCHANGED <<timerVars, workVars, stopCh, metricVars, worker,
                              stopper, owed, countVars>>

WaitPoll == /\ \/ Len = 0 /\ Wait("poll", "drained")
               \/ stopCh /\ Wait("poll", "aborted")
            /\ UNCHANGED <<timerVars, workVars, stopCh, metricVars, worker,
                           stopper, owed, countVars>>

Waiting == WaitUpdates \/ WaitPoll

-----------------------------------------------------------------------------
System == \/ \E k \in Key : DelayOver(k) \/ Fire(k) \/ Callback(k)
          \/ Worker
          \/ Stopping
          \/ Waiting

Next == \/ \E k \in Key : Add(k)
        \/ StopCall
        \/ WaitCall
        \/ System

(* Timers fire, goroutines run on and network calls end (they carry a       *)
(* timeout).  Nobody has to call Add, Stop or WaitForCompletion.            *)
Fairness == /\ \A k \in Key : /\ WF_vars(DelayOver(k))
                              /\ WF_vars(Fire(k))
                              /\ WF_vars(Callback(k))
            /\ WF_vars(Worker)
            /\ WF_vars(Stopping)
            /\ WF_vars(Waiting)

Spec == Init /\ [][Next]_vars /\ Fairness

-----------------------------------------------------------------------------
(* Properties *)

(* The types of the queue's fields, and that a key's map entry is a state   *)
(* of a timer whose callback is running or still to start.                  *)
QTypeOK ==
    /\ timer \in [Key -> {"none", "armed", "fired"}]
    /\ orphans \in [Key -> Nat]
    /\ callbacks \in [Key -> [Stage -> Nat]]
    /\ debounceWg \in Int
    /\ dirty \subseteq Key /\ processing \subseteq Key /\ delayed \subseteq Key
    /\ draining \in BOOLEAN /\ stopCh \in BOOLEAN
    /\ metricMu \in Nat \cup {Unlocked} /\ queueSize \in Nat
    /\ worker \in [pc : WorkerPC, key : Key \cup {NoKey}]
    /\ stopper \in StopPC
    /\ waiter \in {"idle", "wait", "poll", "drained", "aborted"}
    /\ owed \in [wait : SUBSET Key, stop : SUBSET Key]
    /\ adds \in 0 .. MaxAdds /\ errors \in 0 .. MaxErrors

(* The queue keeps the promise of UpdateQueue: no Add or retry is lost and  *)
(* no key is handed out twice for nothing, through every race of a timer's  *)
(* Reset with its callback, until ShutDown stops the timers.                *)
Abstract == INSTANCE UpdateQueue
                WITH pending <- Pending,
                     active  <- worker.key,
                     closed  <- stopper \in {"closeCh", "closeQueue",
                                             "zeroMetric", "join", "stopped"}

KeepsPromise == Abstract!QueueSpec

(* updateQueueSizeMetric keeps the gauge "consistent with queue state":     *)
(* when nobody is between a change of the queue and its metric update and   *)
(* nothing is queued, the gauge says so.  Get changes the length without    *)
(* touching the gauge; the Done that follows makes up for it.               *)
MetricSettles ==
    (/\ stopper = "running"
     /\ dirty = {}
     /\ worker.pc \in {"check", "get"}
     /\ \A k \in Key : callbacks[k]["size"] = 0 /\ callbacks[k]["sizing"] = 0)
        => queueSize = 0

(* Every added key is eventually handed to the worker unless the tracker is *)
(* stopped: a delayed retry, a timer that was reset and a key re-added      *)
(* while the worker processes it are all delivered.                         *)
PendingIsProcessed ==
    \A k \in Key : k \in Pending ~> \/ worker.key = k
                                    \/ stopper # "running"
                                    \/ ~alive

(* Additions die out: when nobody adds a key any more, no timer, callback   *)
(* or retry of it goes round for ever.                                      *)
Drains == <>[](Pending = {} \/ stopper # "running" \/ ~alive)

(* Stop returns: no callback, worker or lock it waits for is stuck, however *)
(* Add, retries and fired timers race with it.                              *)
StopReturns == stopper = "wait" ~> stopper = "stopped" \/ ~alive

(* debounced_queue.go:38: "WaitForUpdates waits for all pending debounced   *)
(* updates to complete": its WaitGroup is not at zero while one debounces.  *)
WaitGroupCoversPending ==
    stopper = "running" /\ debounceWg <= 0 => \A k \in Key : ~Debouncing(k)

(* debounced_queue.go:41-42: WaitForCompletion waits "for the queue to be   *)
(* fully drained (all items processed)": when it returns because the queue  *)
(* is drained, every key owed when it was called has been processed.        *)
CompletionMeansProcessed ==
    waiter = "drained" /\ stopper = "running" => owed.wait = {}

(* WaitForCompletion returns as long as the tracker runs: the polls for an  *)
(* empty queue that are interleaved with the worker and the timers do not   *)
(* miss it.                                                                 *)
CompletionReturns ==
    waiter = "wait" ~> \/ waiter \in {"drained", "aborted"}
                       \/ stopper # "running"
                       \/ ~alive

(* debounced_queue_test.go:232: "Shut down the queue - this should cause    *)
(* WaitForCompletion to return".                                            *)
ShutDownEndsWait ==
    waiter = "wait" /\ stopper = "stopped" ~> waiter \in {"drained", "aborted"} \/ ~alive

(* status_tracker.go:109: Stop is to "Wait for pending updates before       *)
(* stopping": no update that was pending when it was called is left undone. *)
StopWaitsForUpdates == stopper = "stopped" => owed.stop = {}

(* debounced_queue.go:217: "Update metrics to reflect shutdown": once the   *)
(* tracker has stopped the gauge is zero and stays there.                   *)
MetricZeroAfterShutDown == stopper = "stopped" => queueSize = 0

=============================================================================
