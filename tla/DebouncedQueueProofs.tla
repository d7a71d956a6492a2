------------------------- MODULE DebouncedQueueProofs -------------------------
(***************************************************************************)
(* Proofs about DebouncedQueue.tla: the types, that the gauge settles, and  *)
(* that the timers and the workqueue keep the promise of UpdateQueue.tla.   *)
(***************************************************************************)
EXTENDS DebouncedQueue, FiniteSetTheorems, TLAPS

-----------------------------------------------------------------------------
(* The inductive invariant *)

Holding == {"work", "retry", "requeue", "requeueSize", "requeueSizing", "done"}
Sizing  == {"requeueSizing", "doneSizing"}

(* The worker has a key from Get to Done.                                   *)
WorkerHolds == worker.key # NoKey <=> worker.pc \in Holding

(* metricMu is held by the one that has read the length and not yet set the *)
(* gauge: the worker or one callback.                                       *)
OneSizer ==
    /\ metricMu = Unlocked \/ worker.pc \in Sizing
          => \A k \in Key : callbacks[k]["sizing"] = 0
    /\ metricMu = Unlocked => worker.pc \notin Sizing
    /\ \A k \in Key : callbacks[k]["sizing"] <= 1
    /\ \A j, k \in Key : callbacks[j]["sizing"] > 0 /\ callbacks[k]["sizing"] > 0 => j = k

(* How far ShutDown has come.                                               *)
ShutDownStages ==
    /\ stopCh   <=> stopper \in {"closeQueue", "zeroMetric", "join", "stopped"}
    /\ draining <=> stopper \in {"zeroMetric", "join", "stopped"}

(* Nothing is queued: the gauge says so as soon as the worker, which took   *)
(* the last key, has updated it after Done, and no update that comes late   *)
(* has read another length.                                                 *)
GaugeFollows ==
    stopper = "running" /\ dirty = {} =>
        /\ worker.pc \in {"check", "get"} => queueSize = 0 /\ metricMu \in {Unlocked, 0}
        /\ worker.pc = "doneSizing" => metricMu = 0

QueueInv == QTypeOK /\ WorkerHolds /\ OneSizer /\ ShutDownStages /\ GaugeFollows

-----------------------------------------------------------------------------
(* Lemmas about operators *)

(* The length of the workqueue is a number, and zero when nothing is queued.*)
LEMMA LenNumber ==
    ASSUME dirty \subseteq Key
    PROVE  Len \in Nat /\ (dirty = {} => Len = 0)
<1>1. IsFiniteSet(dirty \ processing)
  BY QueueAssumption, FS_Subset
<1>2. dirty = {} => dirty \ processing = {}
  OBVIOUS
<1> QED
  BY <1>1, <1>2, FS_CardinalityType, FS_EmptySet DEF Len

(* A callback goes from one stage to another; every other one stays.        *)
LEMMA AdvanceCounts ==
    ASSUME callbacks \in [Key -> [Stage -> Nat]],
           NEW k \in Key, NEW s \in Stage, NEW t \in Stage, s # t, Advance(k, s, t)
    PROVE  /\ callbacks' \in [Key -> [Stage -> Nat]]
           /\ callbacks[k][s] > 0
           /\ callbacks'[k][s] = callbacks[k][s] - 1
           /\ callbacks'[k][t] = callbacks[k][t] + 1
           /\ \A j \in Key, r \in Stage : ~(j = k /\ r \in {s, t}) =>
                 callbacks'[j][r] = callbacks[j][r]
<1> DEFINE f == callbacks[k]
           g == [[f EXCEPT ![s] = @ - 1] EXCEPT ![t] = @ + 1]
<1>1. f \in [Stage -> Nat] /\ f[s] > 0 /\ f[s] - 1 \in Nat /\ f[t] + 1 \in Nat
  BY DEF Advance
<1>2. callbacks' = [callbacks EXCEPT ![k] = g]
  BY DEF Advance
<1>3. g \in [Stage -> Nat] /\ g[s] = f[s] - 1 /\ g[t] = f[t] + 1
  BY <1>1
<1>4. \A r \in Stage : r \notin {s, t} => g[r] = f[r]
  BY <1>1
<1> HIDE DEF g
<1> QED
  BY <1>1, <1>2, <1>3, <1>4

-----------------------------------------------------------------------------
(* Types *)

(* The timers, their callbacks and the WaitGroup.                           *)
LEMMA TimerTypes ==
    ASSUME QTypeOK, [Next]_vars
    PROVE  /\ timer' \in [Key -> {"none", "armed", "fired"}]
           /\ orphans' \in [Key -> Nat]
           /\ callbacks' \in [Key -> [Stage -> Nat]]
           /\ debounceWg' \in Int
<1> DEFINE Goal == /\ timer' \in [Key -> {"none", "armed", "fired"}]
                   /\ orphans' \in [Key -> Nat]
                   /\ callbacks' \in [Key -> [Stage -> Nat]]
                   /\ debounceWg' \in Int
<1>1. /\ timer \in [Key -> {"none", "armed", "fired"}]
      /\ orphans \in [Key -> Nat]
      /\ callbacks \in [Key -> [Stage -> Nat]]
      /\ debounceWg \in Int
  BY DEF QTypeOK
<1>2. CASE UNCHANGED timerVars
  BY <1>1, <1>2 DEF timerVars
<1>3. ASSUME NEW k \in Key, Add(k) PROVE Goal
  BY <1>1, <1>3 DEF Add, ResetTimer, NewTimer
<1>4. ASSUME NEW k \in Key, Fire(k) PROVE Goal
  <2>1. timer' \in [Key -> {"none", "armed", "fired"}] /\ debounceWg' \in Int
    BY <1>1, <1>4 DEF Fire
  <2>2. orphans' \in [Key -> Nat]
    BY <1>1, <1>4 DEF Fire
  <2>3. callbacks' \in [Key -> [Stage -> Nat]]
    <3>1. [callbacks[k] EXCEPT !["check"] = @ + 1] \in [Stage -> Nat]
      BY <1>1 DEF Stage
    <3> QED
      BY <1>1, <1>4, <3>1 DEF Fire
  <2> QED
    BY <2>1, <2>2, <2>3
<1>5. ASSUME NEW k \in Key, Callback(k) PROVE Goal
  <2>1. ASSUME NEW s \in Stage, NEW t \in Stage, s # t, Advance(k, s, t)
        PROVE  callbacks' \in [Key -> [Stage -> Nat]]
    BY <1>1, <2>1, AdvanceCounts
  <2>2. CASE CallbackCheck(k)
    <3>1. callbacks' \in [Key -> [Stage -> Nat]]
      BY <2>1, <2>2 DEF CallbackCheck, Stage
    <3> QED
      BY <1>1, <2>2, <3>1 DEF CallbackCheck
  <2>3. CASE CallbackEnqueue(k)
    <3>1. callbacks' \in [Key -> [Stage -> Nat]]
      BY <2>1, <2>3 DEF CallbackEnqueue, Stage
    <3> QED
      BY <1>1, <2>3, <3>1 DEF CallbackEnqueue
  <2>4. CASE CallbackSize(k)
    <3>1. callbacks' \in [Key -> [Stage -> Nat]]
      BY <2>1, <2>4 DEF CallbackSize, Stage
    <3> QED
      BY <1>1, <2>4, <3>1 DEF CallbackSize
  <2>5. CASE CallbackUnmap(k)
    <3>1. callbacks' \in [Key -> [Stage -> Nat]]
      BY <2>1, <2>5 DEF CallbackUnmap, Stage
    <3>2. orphans[k] + (IF timer[k] = "armed" THEN 1 ELSE 0) \in Nat
      BY <1>1
    <3> QED
      BY <1>1, <2>5, <3>1, <3>2 DEF CallbackUnmap
  <2>6. CASE CallbackFinish(k)
    <3>1. [callbacks[k] EXCEPT !["finish"] = @ - 1] \in [Stage -> Nat]
      BY <1>1, <2>6 DEF CallbackFinish, Stage
    <3> QED
      BY <1>1, <2>6, <3>1 DEF CallbackFinish
  <2> QED
    BY <1>5, <2>2, <2>3, <2>4, <2>5, <2>6 DEF Callback
<1>6. CASE ShutDownTimers
  BY <1>1, <1>6 DEF ShutDownTimers
<1> QED
  BY <1>2, <1>3, <1>4, <1>5, <1>6
     DEF Next, System, DelayOver, Worker, WorkerCheck, WorkerGet, WorkerWork, WorkerRetry,
         WorkerDone, WorkerSize, StopCall, Stopping, StopWait, ShutDownStopCh, ShutDownQueue,
         ShutDownMetric, StopJoin, WaitCall, Waiting, WaitUpdates, WaitPoll, vars

(* The workqueue, and who waits for what.                                   *)
LEMMA WorkTypes ==
    ASSUME QTypeOK, WorkerHolds, [Next]_vars
    PROVE  /\ dirty' \subseteq Key /\ processing' \subseteq Key /\ delayed' \subseteq Key
           /\ draining' \in BOOLEAN /\ stopCh' \in BOOLEAN
<1>1. worker.pc = "requeue" => worker.key \in Key
  BY DEF QTypeOK, WorkerHolds, Holding
<1>2. CASE \E k \in Key : DelayOver(k) \/ Fire(k) \/ Callback(k) \/ Add(k)
  BY <1>2 DEF QTypeOK, DelayOver, Fire, Callback, CallbackCheck, CallbackEnqueue, CallbackSize,
     CallbackUnmap, CallbackFinish, Add, QueueAdd, workVars
<1>3. CASE Worker
  BY <1>1, <1>3 DEF QTypeOK, Worker, WorkerCheck, WorkerGet, WorkerWork, WorkerRetry, WorkerDone,
     WorkerSize, Goto, workVars
<1>4. CASE Stopping \/ Waiting \/ StopCall \/ WaitCall \/ UNCHANGED vars
  BY <1>4 DEF QTypeOK, Stopping, StopWait, ShutDownTimers, ShutDownStopCh, ShutDownQueue,
     ShutDownMetric, StopJoin, Waiting, WaitUpdates, WaitPoll, StopCall, WaitCall, workVars, vars
<1> QED
  BY <1>2, <1>3, <1>4 DEF Next, System

LEMMA ControlTypes ==
    ASSUME QTypeOK, [Next]_vars
    PROVE  /\ worker' \in [pc : WorkerPC, key : Key \cup {NoKey}]
           /\ stopper' \in StopPC
           /\ waiter' \in {"idle", "wait", "poll", "drained", "aborted"}
           /\ owed' \in [wait : SUBSET Key, stop : SUBSET Key]
           /\ adds' \in 0 .. MaxAdds /\ errors' \in 0 .. MaxErrors
<1> DEFINE Goal == /\ worker' \in [pc : WorkerPC, key : Key \cup {NoKey}]
                   /\ stopper' \in StopPC
                   /\ waiter' \in {"idle", "wait", "poll", "drained", "aborted"}
                   /\ owed' \in [wait : SUBSET Key, stop : SUBSET Key]
                   /\ adds' \in 0 .. MaxAdds /\ errors' \in 0 .. MaxErrors
<1>1. Pending \subseteq Key /\ processing \subseteq Key
  BY DEF QTypeOK, Pending
<1>2. CASE \E k \in Key : DelayOver(k) \/ Fire(k) \/ Callback(k)
  BY <1>2 DEF QTypeOK, DelayOver, Fire, Callback, CallbackCheck, CallbackEnqueue, CallbackSize,
     CallbackUnmap, CallbackFinish, countVars
<1>3. ASSUME NEW k \in Key, Add(k) PROVE Goal
  <2>1. adds' \in 0 .. MaxAdds
    BY <1>3, QueueAssumption DEF QTypeOK, Add
  <2> QED
    BY <1>3, <2>1 DEF QTypeOK, Add
<1>4. CASE WorkerCheck \/ WorkerRetry \/ WorkerSize
  BY <1>4 DEF QTypeOK, WorkerCheck, WorkerRetry, WorkerSize, Goto, WorkerPC, countVars
<1>5. CASE WorkerGet
  <2>1. worker' \in [pc : WorkerPC, key : Key \cup {NoKey}]
    BY <1>5 DEF QTypeOK, WorkerGet, Goto, WorkerPC
  <2> QED
    BY <1>5, <2>1 DEF QTypeOK, WorkerGet, countVars
<1>6. CASE WorkerWork
  <2>1. errors' \in 0 .. MaxErrors
    BY <1>6, QueueAssumption DEF QTypeOK, WorkerWork
  <2> QED
    BY <1>6, <2>1 DEF QTypeOK, WorkerWork, Goto, WorkerPC
<1>7. CASE WorkerDone
  <2>1. owed' \in [wait : SUBSET Key, stop : SUBSET Key]
    BY <1>7 DEF QTypeOK, WorkerDone
  <2> QED
    BY <1>7, <2>1 DEF QTypeOK, WorkerDone, WorkerPC, countVars
<1>8. CASE Stopping \/ Waiting \/ UNCHANGED vars
  BY <1>8 DEF QTypeOK, Stopping, StopWait, ShutDownTimers, ShutDownStopCh, ShutDownQueue,
     ShutDownMetric, StopJoin, Stop, StopPC, Waiting, WaitUpdates, WaitPoll, Wait, countVars, vars
<1>9. CASE StopCall \/ WaitCall
  BY <1>1, <1>9 DEF QTypeOK, StopCall, Stop, StopPC, WaitCall, Wait, countVars
<1> QED
  BY <1>2, <1>3, <1>4, <1>5, <1>6, <1>7, <1>8, <1>9 DEF Next, System, Worker

-----------------------------------------------------------------------------
(* The metric's lock *)

LEMMA SizerKept ==
    ASSUME OneSizer, metricMu' = metricMu,
           \A k \in Key : callbacks'[k]["sizing"] = callbacks[k]["sizing"],
           worker'.pc \in Sizing <=> worker.pc \in Sizing
    PROVE  OneSizer'
BY DEF OneSizer

(* A callback updates the gauge.                                            *)
LEMMA CallbackSizer ==
    ASSUME QTypeOK, OneSizer, NEW k \in Key, CallbackSize(k)
    PROVE  /\ metricMu' \in Nat \cup {Unlocked} /\ queueSize' \in Nat
           /\ OneSizer'
<1>1. /\ callbacks \in [Key -> [Stage -> Nat]]
      /\ metricMu \in Nat \cup {Unlocked} /\ queueSize \in Nat
      /\ Len \in Nat /\ worker' = worker /\ Unlocked \notin Nat
  BY LenNumber DEF QTypeOK, CallbackSize, Unlocked
<1>2. CASE stopCh /\ Advance(k, "size", "unmap") /\ ReadLen
  <2>1. metricMu' = metricMu /\ queueSize' = queueSize
    BY <1>2 DEF ReadLen
  <2>2. \A j \in Key : callbacks'[j]["sizing"] = callbacks[j]["sizing"]
    BY <1>1, <1>2, AdvanceCounts DEF Stage
  <2> QED
    BY <1>1, <2>1, <2>2, SizerKept
<1>3. CASE ~stopCh /\ Advance(k, "size", "sizing") /\ ReadLen
  <2>1. metricMu = Unlocked /\ metricMu' = Len /\ queueSize' = queueSize
    BY <1>3 DEF ReadLen
  <2>2. /\ callbacks'[k]["sizing"] = callbacks[k]["sizing"] + 1
        /\ \A j \in Key : j # k => callbacks'[j]["sizing"] = callbacks[j]["sizing"]
    BY <1>1, <1>3, AdvanceCounts DEF Stage
  <2>3. worker.pc \notin Sizing /\ \A j \in Key : callbacks[j]["sizing"] = 0
    BY <2>1 DEF OneSizer
  <2>4. callbacks'[k]["sizing"] = 1 /\ \A j \in Key : j # k => callbacks'[j]["sizing"] = 0
    BY <2>2, <2>3
  <2> QED
    BY <1>1, <2>1, <2>3, <2>4 DEF OneSizer
<1>4. CASE Advance(k, "sizing", "unmap") /\ SetQueueSize
  <2>1. metricMu' = Unlocked /\ queueSize' = metricMu
    BY <1>4 DEF SetQueueSize
  <2>2. /\ callbacks[k]["sizing"] > 0
        /\ callbacks'[k]["sizing"] = callbacks[k]["sizing"] - 1
        /\ \A j \in Key : j # k => callbacks'[j]["sizing"] = callbacks[j]["sizing"]
    BY <1>1, <1>4, AdvanceCounts DEF Stage
  <2>3. \A j \in Key : callbacks[j]["sizing"] \in Nat
    BY <1>1 DEF Stage
  <2>4. /\ metricMu # Unlocked /\ worker.pc \notin Sizing
        /\ callbacks[k]["sizing"] = 1
        /\ \A j \in Key : j # k => callbacks[j]["sizing"] = 0
    BY <2>2, <2>3 DEF OneSizer
  <2>5. \A j \in Key : callbacks'[j]["sizing"] = 0
    BY <2>2, <2>4
  <2>6. queueSize' \in Nat
    BY <1>1, <2>1, <2>4
  <2> QED
    BY <1>1, <2>1, <2>4, <2>5, <2>6 DEF OneSizer
<1> QED
  BY <1>2, <1>3, <1>4 DEF CallbackSize

(* The worker updates the gauge.                                            *)
LEMMA WorkerSizer ==
    ASSUME QTypeOK, OneSizer, WorkerSize
    PROVE  /\ metricMu' \in Nat \cup {Unlocked} /\ queueSize' \in Nat
           /\ OneSizer'
<1>1. /\ metricMu \in Nat \cup {Unlocked} /\ queueSize \in Nat
      /\ Len \in Nat /\ callbacks' = callbacks /\ Unlocked \notin Nat
      /\ \A k \in Key : callbacks[k]["sizing"] \in Nat
  BY LenNumber DEF QTypeOK, WorkerSize, Unlocked, timerVars, Stage
<1>2. worker \in [pc : WorkerPC, key : Key \cup {NoKey}]
  BY DEF QTypeOK
<1>3. CASE stopCh /\ metricMu' = metricMu /\ queueSize' = queueSize
           /\ worker.pc \notin Sizing /\ worker'.pc \notin Sizing
  BY <1>1, <1>3, SizerKept
<1>4. CASE metricMu = Unlocked /\ metricMu' = Len /\ queueSize' = queueSize /\ worker'.pc \in Sizing
  <2>1. \A k \in Key : callbacks'[k]["sizing"] = 0
    BY <1>1, <1>4 DEF OneSizer
  <2> QED
    BY <1>1, <1>4, <2>1 DEF OneSizer
<1>5. CASE worker.pc \in Sizing /\ SetQueueSize /\ worker'.pc \notin Sizing
  <2>1. metricMu # Unlocked /\ \A k \in Key : callbacks'[k]["sizing"] = 0
    BY <1>1, <1>5 DEF OneSizer
  <2> QED
    BY <1>1, <1>5, <2>1 DEF OneSizer, SetQueueSize
<1> QED
  BY <1>2, <1>3, <1>4, <1>5 DEF WorkerSize, Goto, ReadLen, Sizing, WorkerPC

LEMMA MetricSteps ==
    ASSUME QTypeOK, OneSizer, [Next]_vars
    PROVE  /\ metricMu' \in Nat \cup {Unlocked} /\ queueSize' \in Nat
           /\ OneSizer'
<1>1. /\ callbacks \in [Key -> [Stage -> Nat]]
      /\ metricMu \in Nat \cup {Unlocked} /\ queueSize \in Nat
      /\ worker \in [pc : WorkerPC, key : Key \cup {NoKey}]
  BY DEF QTypeOK
<1> DEFINE Sized == \A j \in Key : callbacks'[j]["sizing"] = callbacks[j]["sizing"]
<1>2. CASE (\E k \in Key : CallbackSize(k)) \/ WorkerSize
  BY <1>2, CallbackSizer, WorkerSizer
<1>3. CASE \E k \in Key : Add(k) \/ DelayOver(k) \/ Fire(k) \/ CallbackCheck(k)
                          \/ CallbackEnqueue(k) \/ CallbackUnmap(k) \/ CallbackFinish(k)
  <2> PICK k \in Key : \/ Add(k) \/ DelayOver(k) \/ Fire(k) \/ CallbackCheck(k)
                       \/ CallbackEnqueue(k) \/ CallbackUnmap(k) \/ CallbackFinish(k)
    BY <1>3
  <2>1. metricMu' = metricMu /\ queueSize' = queueSize /\ worker' = worker
    BY DEF Add, DelayOver, Fire, CallbackCheck, CallbackEnqueue, CallbackUnmap, CallbackFinish,
           metricVars
  <2>2. ASSUME Add(k) \/ DelayOver(k) PROVE Sized
    BY <2>2 DEF Add, DelayOver, timerVars
  <2>3. ASSUME NEW s \in Stage \ {"sizing"}, NEW t \in Stage \ {"sizing"}, s # t, Advance(k, s, t)
        PROVE  Sized
    BY <1>1, <2>3, AdvanceCounts DEF Stage
  <2>4. ASSUME CallbackCheck(k) \/ CallbackEnqueue(k) \/ CallbackUnmap(k) PROVE Sized
    BY <2>3, <2>4 DEF CallbackCheck, CallbackEnqueue, CallbackUnmap, Stage
  <2>5. ASSUME Fire(k) PROVE Sized
    BY <1>1, <2>5 DEF Fire, Stage
  <2>6. ASSUME CallbackFinish(k) PROVE Sized
    BY <1>1, <2>6 DEF CallbackFinish, Stage
  <2>7. Sized
    BY <2>2, <2>4, <2>5, <2>6
  <2> QED
    BY <1>1, <2>1, <2>7, SizerKept
<1>4. CASE WorkerCheck \/ WorkerGet \/ WorkerWork \/ WorkerRetry \/ WorkerDone
  <2>1. metricMu' = metricMu /\ queueSize' = queueSize /\ callbacks' = callbacks
    BY <1>4 DEF WorkerCheck, WorkerGet, WorkerWork, WorkerRetry, WorkerDone, metricVars, timerVars
  <2>2. worker.pc \notin Sizing /\ worker'.pc \notin Sizing
    BY <1>1, <1>4 DEF WorkerCheck, WorkerGet, WorkerWork, WorkerRetry, WorkerDone, Goto, Sizing, WorkerPC
  <2> QED
    BY <1>1, <2>1, <2>2, SizerKept
<1>5. CASE Stopping \/ Waiting \/ StopCall \/ WaitCall \/ UNCHANGED vars
  <2>1. metricMu' = metricMu /\ queueSize' \in {queueSize, 0} /\ callbacks' = callbacks /\ worker' = worker
    BY <1>5 DEF Stopping, StopWait, ShutDownTimers, ShutDownStopCh, ShutDownQueue,
       ShutDownMetric, StopJoin, Waiting, WaitUpdates, WaitPoll, StopCall, WaitCall, timerVars,
       metricVars, vars
  <2> QED
    BY <1>1, <2>1, SizerKept
<1> QED
  BY <1>2, <1>3, <1>4, <1>5 DEF Next, System, Callback, Worker

-----------------------------------------------------------------------------
(* The worker, ShutDown and the gauge *)

LEMMA HoldingSteps ==
    ASSUME QTypeOK, WorkerHolds, [Next]_vars
    PROVE  WorkerHolds'
<1>1. worker \in [pc : WorkerPC, key : Key \cup {NoKey}] /\ dirty \subseteq Key
  BY DEF QTypeOK
<1>2. CASE WorkerCheck \/ WorkerWork \/ WorkerRetry \/ WorkerDone \/ WorkerSize
  BY <1>1, <1>2 DEF WorkerHolds, Holding, WorkerCheck, WorkerWork, WorkerRetry, WorkerDone,
     WorkerSize, Goto
<1>3. CASE WorkerGet
  BY <1>1, <1>3, QueueAssumption DEF WorkerHolds, Holding, WorkerGet, Goto
<1>4. CASE worker' = worker
  BY <1>4 DEF WorkerHolds
<1> QED
  BY <1>2, <1>3, <1>4
     DEF Next, System, Worker, DelayOver, Fire, Add, Callback, CallbackCheck, CallbackEnqueue,
         CallbackSize, CallbackUnmap, CallbackFinish, Stopping, StopWait, ShutDownTimers,
         ShutDownStopCh, ShutDownQueue, ShutDownMetric, StopJoin, Waiting, WaitUpdates, WaitPoll,
         StopCall, WaitCall, vars

LEMMA ShutDownSteps ==
    ASSUME ShutDownStages, [Next]_vars
    PROVE  ShutDownStages' /\ (stopper' = "running" => stopper = "running")
<1>1. CASE stopper' = stopper /\ stopCh' = stopCh /\ draining' = draining
  BY <1>1 DEF ShutDownStages
<1>2. CASE Stopping \/ StopCall
  BY <1>2 DEF ShutDownStages, Stopping, StopCall, StopWait, ShutDownTimers, ShutDownStopCh,
     ShutDownQueue, ShutDownMetric, StopJoin, Stop, workVars
<1> QED
  BY <1>1, <1>2
     DEF Next, System, DelayOver, Fire, Add, Callback, CallbackCheck, CallbackEnqueue,
         CallbackSize, CallbackUnmap, CallbackFinish, Worker, WorkerCheck, WorkerGet, WorkerWork,
         WorkerRetry, WorkerDone, WorkerSize, Waiting, WaitUpdates, WaitPoll, WaitCall, workVars, vars

(* The worker takes the last key before the gauge is wrong about it, and    *)
(* its update after Done sees that nothing is queued.                       *)
LEMMA GaugeSteps ==
    ASSUME QueueInv, [Next]_vars
    PROVE  GaugeFollows'
<1> SUFFICES ASSUME stopper' = "running", dirty' = {}
             PROVE  /\ worker'.pc \in {"check", "get"} => queueSize' = 0 /\ metricMu' \in {Unlocked, 0}
                    /\ worker'.pc = "doneSizing" => metricMu' = 0
  BY DEF GaugeFollows
<1>1. /\ stopper = "running" /\ ~stopCh /\ ~draining
      /\ worker \in [pc : WorkerPC, key : Key \cup {NoKey}] /\ dirty \subseteq Key
  BY ShutDownSteps DEF QueueInv, ShutDownStages, QTypeOK
<1>2. dirty = {} => Len = 0
  BY <1>1, LenNumber
<1>3. dirty = {} => /\ worker.pc \in {"check", "get"} => queueSize = 0 /\ metricMu \in {Unlocked, 0}
                    /\ worker.pc = "doneSizing" => metricMu = 0
  BY <1>1 DEF QueueInv, GaugeFollows
<1>4. CASE dirty = {} /\ worker' = worker /\ metricMu' = metricMu /\ queueSize' = queueSize
  BY <1>3, <1>4
<1>5. CASE \E k \in Key : CallbackSize(k)
  <2>1. dirty = {} /\ worker' = worker
    BY <1>5 DEF CallbackSize, workVars
  <2>2. CASE ReadLen
    <3>1. metricMu = Unlocked /\ metricMu' = 0 /\ queueSize' = queueSize
      BY <1>1, <1>2, <2>1, <2>2 DEF ReadLen
    <3> QED
      BY <1>3, <2>1, <3>1
  <2>3. CASE \E k \in Key : Advance(k, "sizing", "unmap") /\ SetQueueSize
    <3>1. metricMu # Unlocked /\ worker.pc \notin Sizing
      <4>1. PICK k \in Key : callbacks[k]["sizing"] > 0
        BY <2>3 DEF Advance
      <4>2. ~(callbacks[k]["sizing"] = 0)
        BY <4>1
      <4> QED
        BY <4>2 DEF QueueInv, OneSizer
    <3>2. metricMu' = Unlocked /\ queueSize' = metricMu
      BY <2>3 DEF SetQueueSize
    <3> QED
      BY <1>3, <2>1, <3>1, <3>2 DEF Sizing
  <2> QED
    BY <1>5, <2>2, <2>3 DEF CallbackSize
<1>6. CASE WorkerCheck \/ WorkerWork \/ WorkerRetry
  <2>1. dirty = {} /\ metricMu' = metricMu /\ queueSize' = queueSize
    BY <1>6 DEF WorkerCheck, WorkerWork, WorkerRetry, workVars, metricVars
  <2>2. \/ worker.pc = "check"
        \/ worker'.pc \notin {"check", "get", "doneSizing"}
    BY <1>1, <1>6 DEF WorkerCheck, WorkerWork, WorkerRetry, Goto
  <2>3. worker.pc = "check" => worker'.pc # "doneSizing"
    BY <1>1, <1>6 DEF WorkerCheck, WorkerWork, WorkerRetry, Goto
  <2> QED
    BY <1>3, <2>1, <2>2, <2>3
<1>7. CASE WorkerGet \/ WorkerDone
  BY <1>1, <1>7 DEF WorkerGet, WorkerDone
<1>8. CASE WorkerSize
  <2>1. dirty = {}
    BY <1>8 DEF WorkerSize, workVars
  <2> QED
    BY <1>1, <1>2, <1>3, <1>8, <2>1 DEF WorkerSize, Goto, ReadLen, SetQueueSize
<1> QED
  BY <1>4, <1>5, <1>6, <1>7, <1>8
     DEF Next, System, DelayOver, QueueAdd, Fire, Add, Callback, CallbackCheck, CallbackEnqueue,
         CallbackUnmap, CallbackFinish, Worker, Stopping, StopWait, ShutDownTimers,
         ShutDownStopCh, ShutDownQueue, ShutDownMetric, StopJoin, Stop, Waiting, WaitUpdates,
         WaitPoll, StopCall, WaitCall, workVars, metricVars, vars

-----------------------------------------------------------------------------
(* The invariant holds *)

LEMMA InitQueueInv == Init => QueueInv
<1> SUFFICES ASSUME Init PROVE QueueInv
  OBVIOUS
<1>1. QTypeOK
  <2>1. callbacks \in [Key -> [Stage -> Nat]] /\ orphans \in [Key -> Nat]
        /\ timer \in [Key -> {"none", "armed", "fired"}] /\ debounceWg \in Int
    BY DEF Init
  <2>2. adds \in 0 .. MaxAdds /\ errors \in 0 .. MaxErrors
    BY QueueAssumption DEF Init
  <2>3. /\ metricMu \in Nat \cup {Unlocked} /\ queueSize \in Nat
        /\ dirty \subseteq Key /\ processing \subseteq Key /\ delayed \subseteq Key
        /\ draining \in BOOLEAN /\ stopCh \in BOOLEAN
    BY DEF Init
  <2>4. /\ worker \in [pc : WorkerPC, key : Key \cup {NoKey}] /\ stopper \in StopPC
        /\ waiter \in {"idle", "wait", "poll", "drained", "aborted"}
        /\ owed \in [wait : SUBSET Key, stop : SUBSET Key]
    BY DEF Init, WorkerPC, StopPC
  <2> QED
    BY <2>1, <2>2, <2>3, <2>4 DEF QTypeOK
<1>2. WorkerHolds /\ ShutDownStages /\ GaugeFollows
  BY DEF Init, WorkerHolds, Holding, ShutDownStages, GaugeFollows
<1>3. OneSizer
  BY DEF Init, OneSizer, Stage, Sizing
<1> QED
  BY <1>1, <1>2, <1>3 DEF QueueInv

LEMMA NextQueueInv == QueueInv /\ [Next]_vars => QueueInv'
<1> SUFFICES ASSUME QueueInv, [Next]_vars PROVE QueueInv'
  OBVIOUS
<1>1. QTypeOK /\ WorkerHolds /\ OneSizer /\ ShutDownStages
  BY DEF QueueInv
<1>2. QTypeOK'
  BY <1>1, TimerTypes, WorkTypes, ControlTypes, MetricSteps DEF QTypeOK
<1> QED
  BY <1>1, <1>2, HoldingSteps, MetricSteps, ShutDownSteps, GaugeSteps DEF QueueInv

LEMMA QueueAlways == Spec => []QueueInv
BY InitQueueInv, NextQueueInv, PTL DEF Spec

(* The types of the queue's fields: a callback that runs twice, or one of   *)
(* an orphaned timer, takes no counter below zero, the gauge is set only by *)
(* who has read a length, and only a key is retried.                        *)
THEOREM QueueTypes == Spec => []QTypeOK
BY QueueAlways, PTL DEF QueueInv

(* The gauge is zero whenever nothing is queued and the worker is waiting,  *)
(* in whatever order the updates of callbacks, retries and the worker take  *)
(* metricMu.                                                                *)
THEOREM MetricSettlesAlways == Spec => []MetricSettles
<1>1. QueueInv => MetricSettles
  BY DEF QueueInv, GaugeFollows, MetricSettles
<1> QED
  BY <1>1, QueueAlways, PTL

-----------------------------------------------------------------------------
(* The promise of UpdateQueue *)

(* ShutDown has begun.                                                      *)
ShuttingDown == stopper \in {"closeCh", "closeQueue", "zeroMetric", "join", "stopped"}

(* The steps that hand over a key inside the queue.                         *)
LEMMA TimersKeepPending ==
    ASSUME QueueInv, NEW k \in Key,
           Fire(k) \/ CallbackSize(k) \/ CallbackUnmap(k) \/ CallbackFinish(k)
    PROVE  Pending' = Pending
<1>1. /\ timer \in [Key -> {"none", "armed", "fired"}] /\ orphans \in [Key -> Nat]
      /\ callbacks \in [Key -> [Stage -> Nat]]
  BY DEF QueueInv, QTypeOK
<1>2. dirty' = dirty /\ delayed' = delayed
  BY DEF Fire, CallbackSize, CallbackUnmap, CallbackFinish, workVars
<1>3. CASE Fire(k)
  <2>1. callbacks[k]["check"] + 1 > 0 /\ callbacks'[k]["check"] = callbacks[k]["check"] + 1
    BY <1>1, <1>3 DEF Fire, Stage
  <2>2. Debouncing(k)' /\ Debouncing(k)
    BY <1>3, <2>1 DEF Fire, Debouncing
  <2>3. \A j \in Key : j # k => Debouncing(j)' = Debouncing(j)
    BY <1>1, <1>3 DEF Fire, Debouncing
  <2> QED
    BY <1>2, <2>2, <2>3 DEF Pending
<1>4. ASSUME NEW s \in {"size", "sizing", "unmap", "finish"},
             NEW t \in {"size", "sizing", "unmap", "finish"}, s # t, Advance(k, s, t)
      PROVE  \A j \in Key : /\ callbacks'[j]["check"] = callbacks[j]["check"]
                            /\ callbacks'[j]["enqueue"] = callbacks[j]["enqueue"]
  BY <1>1, <1>4, AdvanceCounts DEF Stage
<1>5. CASE CallbackSize(k)
  <2>1. timer' = timer /\ orphans' = orphans
    BY <1>5 DEF CallbackSize
  <2>2. \A j \in Key : /\ callbacks'[j]["check"] = callbacks[j]["check"]
                       /\ callbacks'[j]["enqueue"] = callbacks[j]["enqueue"]
    BY <1>4, <1>5 DEF CallbackSize
  <2> QED
    BY <1>2, <2>1, <2>2 DEF Pending, Debouncing
<1>6. CASE CallbackUnmap(k)
  <2>1. \A j \in Key : /\ callbacks'[j]["check"] = callbacks[j]["check"]
                       /\ callbacks'[j]["enqueue"] = callbacks[j]["enqueue"]
    BY <1>4, <1>6 DEF CallbackUnmap
  <2>2. /\ timer'[k] = "none"
        /\ orphans'[k] = IF timer[k] = "armed" THEN orphans[k] + 1 ELSE orphans[k] + 0
        /\ \A j \in Key : j # k => timer'[j] = timer[j] /\ orphans'[j] = orphans[j]
    BY <1>1, <1>6 DEF CallbackUnmap
  <2>3. orphans'[k] > 0 <=> timer[k] = "armed" \/ orphans[k] > 0
    <3>1. orphans[k] \in Nat
      BY <1>1
    <3> QED
      BY <2>2, <3>1
  <2>4. \A j \in Key : Debouncing(j)' = Debouncing(j)
    <3>1. Debouncing(k)' <=> Debouncing(k)
      BY <2>1, <2>2, <2>3 DEF Debouncing
    <3>2. \A j \in Key : j # k => (Debouncing(j)' <=> Debouncing(j))
      BY <2>1, <2>2 DEF Debouncing
    <3> QED
      BY <3>1, <3>2 DEF Debouncing
  <2> QED
    BY <1>2, <2>4 DEF Pending
<1>7. CASE CallbackFinish(k)
  <2>1. \A j \in Key : /\ callbacks'[j]["check"] = callbacks[j]["check"]
                       /\ callbacks'[j]["enqueue"] = callbacks[j]["enqueue"]
    BY <1>1, <1>7 DEF CallbackFinish, Stage
  <2> QED
    BY <1>2, <1>7, <2>1 DEF CallbackFinish, Pending, Debouncing
<1> QED
  BY <1>3, <1>5, <1>6, <1>7

(* The look at stopCh and the addition to the workqueue drop a key only     *)
(* when ShutDown has begun.                                                 *)
LEMMA CallbackKeepsPending ==
    ASSUME QueueInv, NEW k \in Key, CallbackCheck(k) \/ CallbackEnqueue(k) \/ DelayOver(k)
    PROVE  Pending' = Pending \/ (ShuttingDown /\ Pending' \subseteq Pending)
<1>1. /\ callbacks \in [Key -> [Stage -> Nat]]
      /\ stopCh \/ draining => ShuttingDown
  BY DEF QueueInv, QTypeOK, ShutDownStages, ShuttingDown
<1>2. CASE CallbackCheck(k)
  <2>1. /\ callbacks[k]["check"] > 0
        /\ \A j \in Key : j # k => /\ callbacks'[j]["check"] = callbacks[j]["check"]
                                   /\ callbacks'[j]["enqueue"] = callbacks[j]["enqueue"]
        /\ stopCh \/ callbacks'[k]["enqueue"] = callbacks[k]["enqueue"] + 1
    BY <1>1, <1>2, AdvanceCounts DEF CallbackCheck, Stage
  <2>2. callbacks[k]["enqueue"] + 1 > 0
    BY <1>1 DEF Stage
  <2>3. UNCHANGED <<timer, orphans, dirty, delayed>>
    BY <1>2 DEF CallbackCheck, workVars
  <2>4. Debouncing(k) /\ (stopCh \/ Debouncing(k)')
    BY <2>1, <2>2 DEF Debouncing
  <2>5. \A j \in Key : j # k => (Debouncing(j)' <=> Debouncing(j))
    BY <2>1, <2>3 DEF Debouncing
  <2> QED
    BY <1>1, <2>3, <2>4, <2>5 DEF Pending
<1>3. CASE CallbackEnqueue(k)
  <2>1. /\ callbacks[k]["enqueue"] > 0
        /\ \A j \in Key : j # k => /\ callbacks'[j]["check"] = callbacks[j]["check"]
                                   /\ callbacks'[j]["enqueue"] = callbacks[j]["enqueue"]
    BY <1>1, <1>3, AdvanceCounts DEF CallbackEnqueue, Stage
  <2>2. UNCHANGED <<timer, orphans, delayed>> /\ QueueAdd(k)
    BY <1>3 DEF CallbackEnqueue
  <2>3. Debouncing(k)
    BY <2>1 DEF Debouncing
  <2>4. \A j \in Key : j # k => (Debouncing(j)' <=> Debouncing(j))
    BY <2>1, <2>2 DEF Debouncing
  <2> QED
    BY <1>1, <2>2, <2>3, <2>4 DEF QueueAdd, Pending
<1>4. CASE DelayOver(k)
  <2>1. \A j \in Key : Debouncing(j)' <=> Debouncing(j)
    BY <1>4 DEF DelayOver, timerVars, Debouncing
  <2> QED
    BY <1>1, <1>4, <2>1 DEF DelayOver, QueueAdd, Pending
<1> QED
  BY <1>2, <1>3, <1>4

LEMMA AddPromised ==
    ASSUME QueueInv, NEW k \in Key, Add(k)
    PROVE  Pending' = Pending \/ Pending' = Pending \cup {k}
<1>1. /\ timer \in [Key -> {"none", "armed", "fired"}]
      /\ UNCHANGED <<orphans, callbacks, dirty, delayed>>
      /\ timer' = timer \/ timer' = [timer EXCEPT ![k] = "armed"]
  BY DEF QueueInv, QTypeOK, Add, ResetTimer, NewTimer, workVars
<1>2. \A j \in Key : j # k => (Debouncing(j)' <=> Debouncing(j))
  BY <1>1 DEF Debouncing
<1>3. Debouncing(k) => Debouncing(k)'
  BY <1>1 DEF Debouncing
<1> QED
  BY <1>1, <1>2, <1>3 DEF Pending

(* Every step of the queue is one UpdateQueue allows, or changes nothing    *)
(* that it speaks of.                                                       *)
LEMMA StepsKeepPromise ==
    ASSUME QueueInv, [Next]_vars
    PROVE  [Abstract!QueueNext]_(Abstract!queueVars)
<1> DEFINE Stutter == Pending' = Pending /\ worker'.key = worker.key /\ ShuttingDown' = ShuttingDown
<1>1. Stutter => UNCHANGED Abstract!queueVars
  BY DEF Abstract!queueVars, ShuttingDown
<1>2. ASSUME Pending' \subseteq Pending, worker'.key = worker.key, ShuttingDown'
      PROVE  Abstract!Close
  BY <1>2 DEF Abstract!Close, ShuttingDown
<1>3. ASSUME NEW k \in Key, Pending' = Pending \cup {k}, worker'.key = worker.key,
             stopper' = stopper
      PROVE  Abstract!Add({k})
  BY <1>3 DEF Abstract!Add, Abstract!AddAll
<1>4. /\ worker \in [pc : WorkerPC, key : Key \cup {NoKey}]
      /\ dirty \subseteq Key /\ delayed \subseteq Key
  BY DEF QueueInv, QTypeOK
<1>5. ASSUME NEW k \in Key, Add(k) PROVE Stutter \/ Abstract!Add({k})
  BY <1>3, <1>5, AddPromised DEF Add, ShuttingDown
<1>6. ASSUME NEW k \in Key, Fire(k) \/ CallbackSize(k) \/ CallbackUnmap(k) \/ CallbackFinish(k)
      PROVE  Stutter
  BY <1>6, TimersKeepPending DEF Fire, CallbackSize, CallbackUnmap, CallbackFinish, ShuttingDown
<1>7. ASSUME NEW k \in Key, CallbackCheck(k) \/ CallbackEnqueue(k) \/ DelayOver(k)
      PROVE  Stutter \/ Abstract!Close
  <2>1. worker' = worker /\ stopper' = stopper
    BY <1>7 DEF CallbackCheck, CallbackEnqueue, DelayOver
  <2> QED
    BY <1>2, <1>7, <2>1, CallbackKeepsPending DEF ShuttingDown
<1>8. CASE WorkerGet
  <2>1. stopper' = stopper /\ worker.key = NoKey /\ delayed' = delayed
        /\ \A j \in Key : Debouncing(j)' <=> Debouncing(j)
    BY <1>4, <1>8 DEF WorkerGet, Goto, timerVars, Debouncing, QueueInv, WorkerHolds, Holding
  <2>2. ASSUME NEW k \in dirty, worker'.key = k, dirty' = dirty \ {k} PROVE Abstract!Get(k)
    <3>1. k \in Pending /\ Pending' \in {Pending \ {k}, Pending}
      BY <1>4, <2>1, <2>2 DEF Pending
    <3> QED
      BY <2>1, <2>2, <3>1 DEF Abstract!Get
  <2>3. ASSUME Goto("get", "check"), dirty' = dirty PROVE Stutter
    BY <1>4, <2>1, <2>3 DEF Goto, Pending, ShuttingDown
  <2>4. (\E k \in Key : Abstract!Get(k)) \/ Stutter
    BY <1>4, <1>8, <2>2, <2>3 DEF WorkerGet
  <2> QED
    BY <1>1, <2>4 DEF Abstract!QueueNext
<1>9. ASSUME WorkerCheck \/ WorkerWork \/ WorkerSize PROVE Stutter
  BY <1>4, <1>9 DEF WorkerCheck, WorkerWork, WorkerSize, Goto, Pending, Debouncing, timerVars,
     workVars, ShuttingDown
<1>10. CASE WorkerRetry
  <2>1. /\ stopper' = stopper /\ worker'.key = worker.key /\ dirty' = dirty
        /\ \A j \in Key : Debouncing(j)' <=> Debouncing(j)
    BY <1>4, <1>10 DEF WorkerRetry, Goto, timerVars, Debouncing
  <2>2. CASE delayed' = delayed
    <3>1. Stutter
      BY <2>1, <2>2 DEF Pending, ShuttingDown
    <3> QED
      BY <1>1, <3>1
  <2>3. CASE worker.pc = "requeue" /\ delayed' = delayed \cup {worker.key}
    <3>1. PICK k \in Key : k = worker.key
      BY <1>4, <2>3 DEF QueueInv, WorkerHolds, Holding
    <3>2. Pending' = Pending \cup {k}
      BY <2>1, <2>3, <3>1 DEF Pending
    <3>3. Abstract!Add({k})
      BY <1>3, <2>1, <3>2
    <3> QED
      BY <3>3 DEF Abstract!QueueNext
  <2> QED
    BY <1>10, <2>2, <2>3 DEF WorkerRetry, Goto
<1>11. CASE WorkerDone
  <2>1. /\ stopper' = stopper /\ worker'.key = NoKey /\ worker.key # NoKey
        /\ Pending' = Pending
    BY <1>4, <1>11 DEF WorkerDone, Pending, Debouncing, timerVars, QueueInv, WorkerHolds, Holding
  <2>2. Abstract!Done
    BY <2>1 DEF Abstract!Done
  <2> QED
    BY <2>2 DEF Abstract!QueueNext
<1>12. ASSUME StopCall \/ StopWait \/ ShutDownStopCh \/ ShutDownMetric \/ StopJoin PROVE Stutter
  BY <1>12 DEF StopCall, StopWait, ShutDownStopCh, ShutDownMetric, StopJoin, Stop, Pending,
     Debouncing, timerVars, workVars, ShuttingDown
<1>13. CASE ShutDownTimers
  <2>1. worker' = worker /\ ShuttingDown' /\ UNCHANGED <<orphans, callbacks, dirty, delayed>>
        /\ timer' = [k \in Key |-> "none"]
    BY <1>13 DEF ShutDownTimers, Stop, workVars, ShuttingDown
  <2>2. Pending' \subseteq Pending
    BY <2>1 DEF Pending, Debouncing
  <2> QED
    BY <1>2, <2>1, <2>2 DEF Abstract!QueueNext
<1>14. CASE ShutDownQueue
  <2>1. worker' = worker /\ ShuttingDown' /\ UNCHANGED <<timerVars, dirty>> /\ delayed' = {}
    BY <1>14 DEF ShutDownQueue, Stop, ShuttingDown
  <2>2. Pending' \subseteq Pending
    BY <2>1 DEF Pending, Debouncing, timerVars
  <2> QED
    BY <1>2, <2>1, <2>2 DEF Abstract!QueueNext
<1>15. ASSUME Waiting \/ WaitCall \/ UNCHANGED vars PROVE Stutter
  BY <1>15 DEF Waiting, WaitUpdates, WaitPoll, WaitCall, Pending, Debouncing, timerVars, workVars,
     ShuttingDown, vars
<1>16. CASE \E k \in Key : Add(k) \/ DelayOver(k) \/ Fire(k) \/ Callback(k)
  <2>1. Stutter \/ Abstract!Close \/ \E k \in Key : Abstract!Add({k})
    BY <1>5, <1>6, <1>7, <1>16 DEF Callback
  <2> QED
    BY <1>1, <2>1 DEF Abstract!QueueNext
<1> QED
  BY <1>1, <1>8, <1>9, <1>10, <1>11, <1>12, <1>13, <1>14, <1>15, <1>16
     DEF Next, System, Worker, Stopping

(* No addition and no retry of a key is lost, and none is handed out twice  *)
(* for nothing, through every race of a timer's Reset with its callback and *)
(* of both with ShutDown: the tracker may rely on UpdateQueue.              *)
THEOREM PromiseKept == Spec => KeepsPromise
<1>1. Init => Abstract!QueueInit
  BY DEF Init, Abstract!QueueInit, Pending, Debouncing, Stage
<1> QED
  BY <1>1, QueueAlways, StepsKeepPromise, PTL DEF Spec, KeepsPromise, Abstract!QueueSpec
=============================================================================
