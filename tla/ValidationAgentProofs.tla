------------------------ MODULE ValidationAgentProofs ------------------------
(***************************************************************************)
(* What holds of the validation agents in every pod, for any number of      *)
(* changes of the model, failed validations and killed agents.              *)
(***************************************************************************)
EXTENDS ValidationAgent, TLAPS

(* Where a one-shot agent is once it has validated.                         *)
Past == {"cancel", "join", "succeeded"}

(* In a pod whose model has never been validated no agent is ready, no      *)
(* one-shot agent has got past its validation, and no sidecar has started.  *)
NothingClaimed ==
    ~validated =>
        /\ \A c \in Container : ~agent[c].ready
        /\ ~Interval("init") => agent["init"].pc \notin Past
        /\ agent["sidecar"].pc = "none"

AgentInv == AgentTypeOK /\ NothingClaimed /\ OneShotBlocks

(* What every step of a container has in common: it moves the agent of that *)
(* container only, to a place of its mode, and claims nothing that has not  *)
(* been validated.                                                          *)
Moves(c) ==
    /\ agent' \in [Container -> AgentProcess]
    /\ \A d \in Container \ {c} : agent'[d] = agent[d]
    /\ agent'[c].pc \in Places(c)
    /\ UNCHANGED <<pod, workload, terminating, intact>>
    /\ validated' \in BOOLEAN /\ (validated => validated')
    /\ changes' \in 0 .. MaxChanges /\ errors' \in 0 .. MaxErrors /\ crashes' \in 0 .. MaxCrashes
    /\ ~validated' => /\ c # "sidecar" /\ ~agent'[c].ready
                      /\ ~Interval(c) => agent'[c].pc \notin Past

(* The only two containers are the ones the webhook builds.                 *)
LEMMA Containers ==
    ASSUME NEW c \in Injected
    PROVE  c \in Container /\ c \in {"init", "sidecar"}
BY DEF Injected, Container

(* Such a step keeps the invariant.                                         *)
LEMMA MoveKeeps ==
    ASSUME AgentInv, NEW c \in Injected, Moves(c)
    PROVE  AgentInv'
<1>1. c \in Container /\ c \in {"init", "sidecar"}
  BY Containers
<1>2. pod' = pod /\ workload' = workload /\ terminating' = terminating /\ intact' = intact
  BY DEF Moves
<1>3. Injected' = Injected /\ \A d : Interval(d)' = Interval(d) /\ Places(d)' = Places(d)
  BY <1>2 DEF Injected, Places, Interval, SkipInitial
<1>4. AgentTypeOK'
  <2>1. ASSUME NEW d \in Container
        PROVE  agent'[d].pc \in IF d \in Injected' THEN Places(d)' ELSE {"none"}
    BY <1>1, <1>3 DEF Moves, AgentInv, AgentTypeOK
  <2>2. QED
    BY <1>2, <2>1 DEF Moves, AgentInv, AgentTypeOK
<1>5. NothingClaimed'
  <2>1. SUFFICES ASSUME ~validated' PROVE NothingClaimed'
    BY DEF NothingClaimed
  <2>2. c = "init" /\ ~validated
    BY <1>1, <2>1 DEF Moves
  <2>3. \A d \in Container : ~agent'[d].ready
    BY <2>1, <2>2 DEF Moves, AgentInv, NothingClaimed
  <2>4. ~Interval("init")' => agent'["init"].pc \notin Past
    BY <1>3, <2>1, <2>2 DEF Moves
  <2>5. agent'["sidecar"].pc = "none"
    BY <2>2 DEF Moves, AgentInv, NothingClaimed, Container
  <2>6. QED
    BY <2>3, <2>4, <2>5 DEF NothingClaimed
<1>6. OneShotBlocks'
  BY <1>2, <1>3 DEF Moves, AgentInv, OneShotBlocks
<1>7. QED
  BY <1>4, <1>5, <1>6 DEF AgentInv

(* main.go:33: before any container runs nothing has been claimed.          *)
LEMMA AgentInit == Init => AgentInv
<1>1. SUFFICES ASSUME Init PROVE AgentInv
  OBVIOUS
<1>2. pod \in [continuous : BOOLEAN, native : BOOLEAN]
  <2>1. PICK co \in Continuous, na \in Native : pod = [continuous |-> co, native |-> na]
    BY <1>1 DEF Init
  <2>2. co \in BOOLEAN /\ na \in BOOLEAN
    BY AgentAssumption
  <2>3. QED
    BY <2>1, <2>2
<1>3. NoAgent \in AgentProcess /\ NoAgent.pc = "none" /\ NoAgent.ready = FALSE
  BY DEF NoAgent, NewAgent, AgentProcess
<1>4. agent = [c \in Container |-> NoAgent]
  BY <1>1 DEF Init
<1>5. \A c \in Container : agent[c].pc = "none" /\ agent[c].ready = FALSE
  BY <1>3, <1>4
<1>6. AgentTypeOK
  <2>1. agent \in [Container -> AgentProcess]
    BY <1>3, <1>4
  <2>2. \A c \in Container : agent[c].pc \in IF c \in Injected THEN Places(c) ELSE {"none"}
    BY <1>5 DEF Places
  <2>3. /\ workload \in {"waiting", "started"}
        /\ terminating \in BOOLEAN /\ intact \in BOOLEAN /\ validated \in BOOLEAN
    BY <1>1 DEF Init
  <2>4. changes \in 0 .. MaxChanges /\ errors \in 0 .. MaxErrors /\ crashes \in 0 .. MaxCrashes
    BY <1>1, AgentAssumption DEF Init
  <2>5. QED
    BY <1>2, <2>1, <2>2, <2>3, <2>4 DEF AgentTypeOK
<1>7. NothingClaimed
  BY <1>5 DEF NothingClaimed, Container, Past
<1>8. OneShotBlocks
  <2>1. workload = "waiting"
    BY <1>1 DEF Init
  <2>2. QED
    BY <2>1 DEF OneShotBlocks
<1>9. QED
  BY <1>6, <1>7, <1>8 DEF AgentInv

(* What a container is before, at the start of and after its run.           *)
LEMMA Ends ==
    /\ NewAgent \in AgentProcess /\ NewAgent.pc = "begin" /\ NewAgent.ready = FALSE
    /\ Exited(0) \in AgentProcess /\ Exited(0).pc = "succeeded" /\ Exited(0).ready = FALSE
    /\ Exited(1) \in AgentProcess /\ Exited(1).pc = "failed" /\ Exited(1).ready = FALSE
<1>1. NewAgent \in AgentProcess /\ NewAgent.pc = "begin" /\ NewAgent.ready = FALSE
  BY DEF NewAgent, AgentProcess
<1>2. Exited(0) = [NewAgent EXCEPT !.pc = "succeeded"]
  BY DEF Exited
<1>3. Exited(1) = [NewAgent EXCEPT !.pc = "failed"]
  BY DEF Exited
<1>4. QED
  BY <1>1, <1>2, <1>3 DEF AgentProcess

(* Setting two fields of an agent leaves an agent, and the other one alone. *)
LEMMA SetReady ==
    ASSUME agent \in [Container -> AgentProcess], NEW c \in Container,
           NEW pc \in {"loop", "cancel"},
           agent' = [agent EXCEPT ![c].pc = pc, ![c].ready = TRUE]
    PROVE  /\ agent' \in [Container -> AgentProcess]
           /\ \A d \in Container \ {c} : agent'[d] = agent[d]
           /\ agent'[c].pc = pc
<1>1. [agent[c] EXCEPT !.pc = pc, !.ready = TRUE] \in AgentProcess
  BY DEF AgentProcess
<1>2. agent' = [agent EXCEPT ![c] = [agent[c] EXCEPT !.pc = pc, !.ready = TRUE]]
  OBVIOUS
<1>3. QED
  BY <1>1, <1>2 DEF AgentProcess

(* So does ending one-shot mode, which does not touch readiness.            *)
LEMMA SetCancelled ==
    ASSUME agent \in [Container -> AgentProcess], NEW c \in Container,
           agent' = [agent EXCEPT ![c].cancelled = TRUE, ![c].pc = "join"]
    PROVE  /\ agent' \in [Container -> AgentProcess]
           /\ \A d \in Container \ {c} : agent'[d] = agent[d]
           /\ agent'[c].pc = "join" /\ agent'[c].ready = agent[c].ready
<1>1. [agent[c] EXCEPT !.cancelled = TRUE, !.pc = "join"] \in AgentProcess
  BY DEF AgentProcess
<1>2. agent' = [agent EXCEPT ![c] = [agent[c] EXCEPT !.cancelled = TRUE, !.pc = "join"]]
  OBVIOUS
<1>3. QED
  BY <1>1, <1>2 DEF AgentProcess

(* A ticker that has fired leaves an agent as well.                         *)
LEMMA Ticked ==
    ASSUME NEW a \in AgentProcess
    PROVE  [a EXCEPT !.tick = TRUE] \in AgentProcess
BY DEF AgentProcess

(* What the invariant says of one container that may take a step.           *)
LEMMA Standing ==
    ASSUME AgentInv, NEW c \in Injected
    PROVE  /\ c \in Container /\ c \in {"init", "sidecar"}
           /\ agent \in [Container -> AgentProcess]
           /\ agent[c] \in AgentProcess /\ agent[c].pc \in Places(c)
           /\ ~validated => ~agent[c].ready
           /\ ~validated /\ c = "sidecar" => agent[c].pc = "none"
           /\ ~validated /\ c = "init" /\ ~Interval(c) => agent[c].pc \notin Past
BY Containers DEF AgentInv, AgentTypeOK, NothingClaimed

(* Nothing but the agent and the history changes in a step of a container.  *)
LEMMA Quiet ==
    ASSUME AgentInv, Unchanged,
           (validated' = TRUE \/ validated' = validated),
           \/ UNCHANGED boundVars
           \/ errors < MaxErrors /\ errors' = errors + 1 /\ UNCHANGED <<changes, crashes>>
           \/ crashes < MaxCrashes /\ crashes' = crashes + 1 /\ UNCHANGED <<changes, errors>>
    PROVE  /\ UNCHANGED <<pod, workload, terminating, intact>>
           /\ validated' \in BOOLEAN /\ (validated => validated')
           /\ changes' \in 0 .. MaxChanges /\ errors' \in 0 .. MaxErrors
           /\ crashes' \in 0 .. MaxCrashes
<1>1. UNCHANGED <<pod, workload, terminating, intact>>
  BY DEF Unchanged
<1>2. validated' \in BOOLEAN /\ (validated => validated')
  BY DEF AgentInv, AgentTypeOK
<1>3. changes \in 0 .. MaxChanges /\ errors \in 0 .. MaxErrors /\ crashes \in 0 .. MaxCrashes
  BY DEF AgentInv, AgentTypeOK
<1>4. /\ changes' \in 0 .. MaxChanges /\ errors' \in 0 .. MaxErrors
      /\ crashes' \in 0 .. MaxCrashes
  BY <1>3, AgentAssumption DEF boundVars
<1>5. QED
  BY <1>1, <1>2, <1>4

(* A validation only adds to what has been validated and to what counts.    *)
LEMMA Validations ==
    ASSUME NEW c, Succeeds \/ Fails(c)
    PROVE  /\ validated' = TRUE \/ validated' = validated
           /\ \/ UNCHANGED boundVars
              \/ errors < MaxErrors /\ errors' = errors + 1 /\ UNCHANGED <<changes, crashes>>
BY DEF Succeeds, Fails, boundVars

(* main.go:78-83.                                                           *)
LEMMA BeginMoves ==
    ASSUME AgentInv, NEW c \in Injected, Begin(c)
    PROVE  Moves(c)
<1>1. agent[c].pc = "begin" /\ Unchanged /\ validated' = validated /\ UNCHANGED boundVars
  BY DEF Begin, Goto
<1>2. CASE SkipInitial(c)
  <2>1. agent' = [agent EXCEPT ![c].pc = "loop", ![c].ready = TRUE]
    BY <1>2 DEF Begin
  <2>2. "loop" \in Places(c) /\ validated
    BY <1>1, <1>2, Standing DEF Places, Interval, Injected, SkipInitial
  <2>3. QED
    BY <1>1, <2>1, <2>2, Standing, SetReady, Quiet DEF Moves
<1>3. CASE ~SkipInitial(c)
  <2>1. agent' = [agent EXCEPT ![c].pc = "initial"]
    BY <1>3 DEF Begin, Goto
  <2>2. "initial" \in Places(c) /\ "initial" \notin Past /\ c # "sidecar"
    BY <1>3 DEF Places, SkipInitial, Past
  <2>3. /\ agent' \in [Container -> AgentProcess]
        /\ \A d \in Container \ {c} : agent'[d] = agent[d]
        /\ agent'[c].pc = "initial" /\ agent'[c].ready = agent[c].ready
    BY <2>1, Standing DEF AgentProcess
  <2>4. QED
    BY <1>1, <2>2, <2>3, Standing, Quiet DEF Moves
<1>4. QED
  BY <1>2, <1>3

(* main.go:84-95.                                                           *)
LEMMA InitialMoves ==
    ASSUME AgentInv, NEW c \in Injected, InitialDone(c)
    PROVE  Moves(c)
<1> DEFINE next == IF Interval(c) THEN "loop" ELSE "cancel"
<1>1. next \in Places(c) /\ next \in {"loop", "cancel"} /\ "failed" \in Places(c)
  BY DEF Places
<1>2. agent[c].pc = "initial" /\ Unchanged
  BY DEF InitialDone
<1>3. c = "init"
  BY <1>2, Standing DEF Places, SkipInitial
<1>4. CASE Succeeds /\ agent' = [agent EXCEPT ![c].pc = next, ![c].ready = TRUE]
  <2>1. validated'
    BY <1>4 DEF Succeeds
  <2>2. QED
    BY <1>1, <1>2, <1>4, <2>1, Standing, SetReady, Quiet, Validations DEF Moves
<1>5. CASE Fails(c) /\ Interval(c) /\ agent' = [agent EXCEPT ![c] = [@ EXCEPT !.pc = "loop"]]
  <2>1. /\ agent' \in [Container -> AgentProcess]
        /\ \A d \in Container \ {c} : agent'[d] = agent[d]
        /\ agent'[c].pc = "loop" /\ agent'[c].ready = agent[c].ready
    BY <1>5, Standing DEF AgentProcess
  <2>2. validated' = validated
    BY <1>5 DEF Fails
  <2>3. QED
    BY <1>1, <1>2, <1>3, <1>5, <2>1, <2>2, Standing, Quiet, Validations DEF Moves
<1>6. CASE Fails(c) /\ ~Interval(c) /\ agent' = [agent EXCEPT ![c] = Exited(1)]
  <2>1. /\ agent' \in [Container -> AgentProcess]
        /\ \A d \in Container \ {c} : agent'[d] = agent[d]
        /\ agent'[c].pc = "failed" /\ agent'[c].ready = FALSE
    BY <1>6, Standing, Ends
  <2>2. QED
    BY <1>1, <1>2, <1>3, <1>6, <2>1, Standing, Quiet, Validations DEF Moves, Past
<1>7. QED
  BY <1>4, <1>5, <1>6 DEF InitialDone

(* main.go:103-118.                                                         *)
LEMMA LoopMoves ==
    ASSUME AgentInv, NEW c \in Injected, TakeTick(c) \/ TakeDone(c) \/ PeriodicDone(c)
    PROVE  Moves(c)
<1>1. agent[c].pc \in {"loop", "periodic"} /\ Interval(c) /\ Unchanged
  BY Standing DEF TakeTick, TakeDone, PeriodicDone, Goto, Places
<1>2. {"loop", "periodic", "join"} \subseteq Places(c)
  BY <1>1 DEF Places
<1>3. CASE TakeTick(c)
  <2>1. /\ agent' \in [Container -> AgentProcess]
        /\ \A d \in Container \ {c} : agent'[d] = agent[d]
        /\ agent'[c].pc = "periodic" /\ agent'[c].ready = agent[c].ready
    BY <1>3, Standing DEF TakeTick, AgentProcess
  <2>2. QED
    BY <1>1, <1>2, <1>3, <2>1, Standing, Quiet DEF Moves, TakeTick
<1>4. CASE TakeDone(c)
  <2>1. /\ agent' \in [Container -> AgentProcess]
        /\ \A d \in Container \ {c} : agent'[d] = agent[d]
        /\ agent'[c].pc = "join" /\ agent'[c].ready = agent[c].ready
    BY <1>4, Standing DEF TakeDone, Goto, AgentProcess
  <2>2. QED
    BY <1>1, <1>2, <1>4, <2>1, Standing, Quiet DEF Moves, TakeDone
<1>5. CASE Succeeds /\ agent' = [agent EXCEPT ![c].pc = "loop", ![c].ready = TRUE]
  <2>1. validated'
    BY <1>5 DEF Succeeds
  <2>2. QED
    BY <1>1, <1>2, <1>5, <2>1, Standing, SetReady, Quiet, Validations DEF Moves
<1>6. CASE Fails(c) /\ agent' = [agent EXCEPT ![c].pc = "loop"]
  <2>1. /\ agent' \in [Container -> AgentProcess]
        /\ \A d \in Container \ {c} : agent'[d] = agent[d]
        /\ agent'[c].pc = "loop" /\ agent'[c].ready = agent[c].ready
    BY <1>6, Standing DEF AgentProcess
  <2>2. validated' = validated
    BY <1>6 DEF Fails
  <2>3. QED
    BY <1>1, <1>2, <1>6, <2>1, <2>2, Standing, Quiet, Validations DEF Moves
<1>7. QED
  BY <1>3, <1>4, <1>5, <1>6 DEF PeriodicDone

(* main.go:122-126.                                                         *)
LEMMA EndMoves ==
    ASSUME AgentInv, NEW c \in Injected, Cancel(c) \/ Join(c)
    PROVE  Moves(c)
<1>1. Unchanged /\ validated' = validated /\ UNCHANGED boundVars
  BY DEF Cancel, Join
<1>2. {"join", "succeeded"} \subseteq Places(c)
  BY DEF Places
<1>3. CASE Cancel(c)
  <2>1. agent[c].pc = "cancel" /\ agent' = [agent EXCEPT ![c].cancelled = TRUE, ![c].pc = "join"]
    BY <1>3 DEF Cancel
  <2>2. ~Interval(c) /\ "cancel" \in Past
    BY <2>1, Standing DEF Places, Past
  <2>3. validated
    BY <2>1, <2>2, Standing
  <2>4. QED
    BY <1>1, <1>2, <2>1, <2>3, Standing, SetCancelled, Quiet DEF Moves
<1>4. CASE Join(c)
  <2>1. agent[c].pc = "join" /\ agent' = [agent EXCEPT ![c] = Exited(0)]
    BY <1>4 DEF Join
  <2>2. validated \/ (c = "init" /\ Interval(c))
    BY <2>1, Standing DEF Past
  <2>3. /\ agent' \in [Container -> AgentProcess]
        /\ \A d \in Container \ {c} : agent'[d] = agent[d]
        /\ agent'[c].pc = "succeeded" /\ agent'[c].ready = FALSE
    BY <2>1, Standing, Ends
  <2>4. QED
    BY <1>1, <1>2, <2>2, <2>3, Quiet DEF Moves
<1>5. QED
  BY <1>3, <1>4

(* main.go:158-206: the health server and the ticker; a container that      *)
(* ends because it cannot listen, or is killed, can be started again.       *)
LEMMA ServerMoves ==
    ASSUME AgentInv, NEW c \in Injected, Server(c) \/ Tick(c) \/ Kill(c)
    PROVE  Moves(c)
<1>1. Unchanged /\ validated' = validated /\ agent[c].pc # "none"
  BY DEF Server, Listen, ServerDown, Tick, Kill, Running
<1>2. validated \/ c = "init"
  BY <1>1, Standing
<1>3. \/ UNCHANGED boundVars
      \/ crashes < MaxCrashes /\ crashes' = crashes + 1 /\ UNCHANGED <<changes, errors>>
  BY DEF Server, Listen, ServerDown, Tick, Kill, boundVars
<1>4. CASE agent' = [agent EXCEPT ![c] = Exited(1)]
  <2>1. /\ agent' \in [Container -> AgentProcess]
        /\ \A d \in Container \ {c} : agent'[d] = agent[d]
        /\ agent'[c].pc = "failed" /\ agent'[c].ready = FALSE
    BY <1>4, Standing, Ends
  <2>2. "failed" \in Places(c) /\ "failed" \notin Past
    BY DEF Places, Past
  <2>3. QED
    BY <1>1, <1>2, <1>3, <2>1, <2>2, Quiet DEF Moves
<1>5. CASE \/ agent' = [agent EXCEPT ![c].server = "up"]
           \/ agent' = [agent EXCEPT ![c].server = "down"]
           \/ agent' = [agent EXCEPT ![c].tick = TRUE]
  <2>1. /\ agent' \in [Container -> AgentProcess]
        /\ \A d \in Container \ {c} : agent'[d] = agent[d]
        /\ agent'[c].pc = agent[c].pc /\ agent'[c].ready = agent[c].ready
    <3>1. CASE agent' = [agent EXCEPT ![c].server = "up"]
      BY <3>1, Standing DEF AgentProcess
    <3>2. CASE agent' = [agent EXCEPT ![c].server = "down"]
      BY <3>2, Standing DEF AgentProcess
    <3>3. CASE agent' = [agent EXCEPT ![c].tick = TRUE]
      <4>1. [agent[c] EXCEPT !.tick = TRUE] \in AgentProcess
        BY Standing, Ticked
      <4>2. agent' = [agent EXCEPT ![c] = [agent[c] EXCEPT !.tick = TRUE]]
        BY <3>3, Standing
      <4>3. /\ agent'[c].pc = agent[c].pc /\ agent'[c].ready = agent[c].ready
            /\ \A d \in Container \ {c} : agent'[d] = agent[d]
        BY <4>2, Standing DEF AgentProcess
      <4>4. QED
        BY <4>1, <4>2, <4>3, Standing
    <3>4. QED
      BY <1>5, <3>1, <3>2, <3>3
  <2>2. QED
    BY <1>1, <1>2, <1>3, <2>1, Standing, Quiet DEF Moves
<1>6. QED
  BY <1>4, <1>5 DEF Server, Listen, ServerDown, Tick, Kill

(* The kubelet starts a sidecar only behind an init container that has      *)
(* succeeded.                                                               *)
LEMMA StartMoves ==
    ASSUME AgentInv, NEW c \in Injected, StartAgent(c)
    PROVE  Moves(c)
<1>1. /\ Unchanged /\ validated' = validated /\ UNCHANGED boundVars
      /\ agent' = [agent EXCEPT ![c] = NewAgent]
  BY DEF StartAgent
<1>2. ASSUME c = "sidecar" PROVE validated
  <2>1. ~Interval("init") /\ agent["init"] = Exited(0)
    BY <1>2 DEF StartAgent, Initialized, Injected, Interval
  <2>2. agent["init"].pc \in Past
    BY <2>1, Ends DEF Past
  <2>3. QED
    BY <2>1, <2>2 DEF AgentInv, NothingClaimed
<1>3. /\ agent' \in [Container -> AgentProcess]
      /\ \A d \in Container \ {c} : agent'[d] = agent[d]
      /\ agent'[c].pc = "begin" /\ agent'[c].ready = FALSE
  BY <1>1, Standing, Ends
<1>4. "begin" \in Places(c) /\ "begin" \notin Past
  BY DEF Places, Past
<1>5. QED
  BY <1>1, <1>2, <1>3, <1>4, Quiet DEF Moves

(* The workload starts, the pod is deleted, or the files change.            *)
LEMMA PodStep ==
    ASSUME AgentInv, StartWorkload \/ Terminate \/ ChangeModel
    PROVE  AgentInv'
<1> USE DEF AgentInv
<1>1. pod' = pod /\ validated' = validated
  BY DEF StartWorkload, Terminate, ChangeModel
<1>2. Injected' = Injected /\ \A d : Interval(d)' = Interval(d) /\ Places(d)' = Places(d)
  BY <1>1 DEF Injected, Places, Interval, SkipInitial
<1>3. CASE StartWorkload
  <2>1. ~Interval("init") => validated
    BY <1>3 DEF StartWorkload, Initialized, Exited, NewAgent, NothingClaimed, Past
  <2>2. agent' = agent
    BY <1>3 DEF StartWorkload
  <2>3. AgentTypeOK' /\ NothingClaimed'
    BY <1>1, <1>2, <1>3, <2>2 DEF StartWorkload, AgentTypeOK, NothingClaimed, boundVars
  <2>4. QED
    BY <1>1, <1>2, <2>1, <2>3 DEF OneShotBlocks
<1>4. CASE Terminate
  <2>1. /\ agent' \in [Container -> AgentProcess]
        /\ \A c \in Container : agent'[c].pc = agent[c].pc /\ agent'[c].ready = agent[c].ready
    BY <1>4 DEF Terminate, AgentTypeOK, AgentProcess
  <2>2. AgentTypeOK'
    BY <1>1, <1>2, <1>4, <2>1 DEF Terminate, AgentTypeOK, boundVars
  <2>3. NothingClaimed'
    BY <1>1, <1>2, <2>1 DEF NothingClaimed, Container
  <2>4. OneShotBlocks'
    BY <1>1, <1>2, <1>4 DEF Terminate, OneShotBlocks
  <2>5. QED
    BY <2>2, <2>3, <2>4
<1>5. CASE ChangeModel
  BY <1>1, <1>2, <1>5, AgentAssumption
     DEF ChangeModel, AgentTypeOK, NothingClaimed, OneShotBlocks
<1>6. QED
  BY <1>3, <1>4, <1>5

(* Every step of the pod keeps the invariant.                               *)
LEMMA AgentStep == AgentInv /\ [Next]_vars => AgentInv'
<1>1. SUFFICES ASSUME AgentInv, [Next]_vars PROVE AgentInv'
  OBVIOUS
<1>2. CASE UNCHANGED vars
  BY <1>1, <1>2 DEF vars, boundVars, AgentInv, AgentTypeOK, NothingClaimed, OneShotBlocks,
        Injected, Places, Interval, SkipInitial
<1>3. CASE Next
  <2>1. CASE \E c \in Injected : Main(c)
    BY <1>1, <2>1, BeginMoves, InitialMoves, LoopMoves, EndMoves, MoveKeeps DEF Main
  <2>2. CASE \E c \in Injected : Server(c) \/ Tick(c) \/ StartAgent(c) \/ Kill(c)
    BY <1>1, <2>2, ServerMoves, StartMoves, MoveKeeps
  <2>3. CASE StartWorkload \/ Terminate \/ ChangeModel
    BY <1>1, <2>3, PodStep
  <2>4. QED
    BY <1>3, <2>1, <2>2, <2>3 DEF Next
<1>4. QED
  BY <1>1, <1>2, <1>3

(* The invariant holds throughout.                                          *)
LEMMA AgentAlways == Spec => []AgentInv
BY AgentInit, AgentStep, PTL DEF Spec

(* main.go:38-41: an agent is always at a place of its mode.                *)
THEOREM AgentTypesCorrect == Spec => []AgentTypeOK
<1>1. AgentInv => AgentTypeOK
  BY DEF AgentInv
<1>2. QED
  BY <1>1, AgentAlways, PTL

(* pod_webhook.go:289: behind a one-shot init container, whatever fails and *)
(* is restarted, the workload starts only after a successful validation.    *)
THEOREM OneShotAlwaysBlocks == Spec => []OneShotBlocks
<1>1. AgentInv => OneShotBlocks
  BY DEF AgentInv
<1>2. QED
  BY <1>1, AgentAlways, PTL

(* pod_webhook.go:226 and :315: an agent that reports ready, even one that  *)
(* skipped the initial validation, does so in a validated pod.              *)
THEOREM ReadyIsValidated == Spec => []ReadyAfterValidation
<1>1. AgentInv => ReadyAfterValidation
  BY DEF AgentInv, NothingClaimed, ReadyAfterValidation
<1>2. QED
  BY <1>1, AgentAlways, PTL
=============================================================================
