--------------------------- MODULE ValidationAgent ---------------------------
(***************************************************************************)
(* The validation agent (cmd/validation-agent/main.go) in a pod the webhook *)
(* has injected (internal/webhooks/pod_webhook.go): the agent's main, its   *)
(* health server goroutine and its signal context, in the one or two        *)
(* containers the pod has of it, and the kubelet that starts, restarts and  *)
(* terminates the containers.                                               *)
(*                                                                          *)
(* The model's files change while the pod runs; a validation succeeds only  *)
(* if they are as they were signed when it ends, and may always fail for    *)
(* another reason.  Tracing, logging and the arguments are left out.        *)
(***************************************************************************)
EXTENDS Naturals

CONSTANTS Continuous,  \* whether ContinuousValidation may be enabled
          Native,      \* whether the cluster may have native sidecars
          MaxChanges,  \* bound: changes of the model's files
          MaxErrors,   \* bound: validations of an intact model that fail
          MaxCrashes   \* bound: agents that are killed or cannot listen

ASSUME AgentAssumption == /\ Continuous \subseteq BOOLEAN /\ Native \subseteq BOOLEAN
                          /\ MaxChanges \in Nat /\ MaxErrors \in Nat
                          /\ MaxCrashes \in Nat

VARIABLES pod,         \* how the webhook injected the pod
          agent,       \* the agent process of each container
          workload,    \* the pod's own containers: "waiting" or "started"
          terminating, \* the pod is being deleted
          intact,      \* the model's files are as they were signed
          validated,   \* history: a validation in this pod has succeeded
          changes, errors, crashes \* what the bounds count

boundVars == <<changes, errors, crashes>>
vars == <<pod, agent, workload, terminating, intact, validated, boundVars>>

-----------------------------------------------------------------------------
(* What the webhook injects *)

(* An init container, which with native sidecars validates continuously     *)
(* itself; without them a second container does, behind a one-shot one.     *)
Container == {"init", "sidecar"}

Injected == {"init"} \cup IF pod.continuous /\ ~pod.native THEN {"sidecar"} ELSE {}

(* The flags --interval and --skip-initial.                                 *)
Interval(c) == pod.continuous /\ (c = "sidecar" \/ pod.native)

SkipInitial(c) == c = "sidecar"

-----------------------------------------------------------------------------
(* One agent process.  server: the health server, "down" also stands for a  *)
(* closed healthServerDone; cancelled: the signal context is done; tick:    *)
(* the ticker's channel, which holds one tick.                              *)
NewAgent == [pc |-> "begin", ready |-> FALSE, server |-> "starting",
             cancelled |-> FALSE, tick |-> FALSE]

NoAgent == [NewAgent EXCEPT !.pc = "none"]

Exited(code) == [NewAgent EXCEPT !.pc = IF code = 0 THEN "succeeded" ELSE "failed"]

Running(c) == agent[c].pc \notin {"none", "succeeded", "failed"}

Init == /\ \E co \in Continuous, na \in Native : pod = [continuous |-> co, native |-> na]
        /\ agent = [c \in Container |-> NoAgent]
        /\ workload = "waiting" /\ terminating = FALSE
        /\ intact \in BOOLEAN /\ validated = FALSE
        /\ changes = 0 /\ errors = 0 /\ crashes = 0

(* main of c goes from one place to another.                                *)
Goto(c, from, to) == /\ agent[c].pc = from
                     /\ agent' = [agent EXCEPT ![c].pc = to]

Unchanged == UNCHANGED <<pod, workload, terminating, intact>>

Begin_NeverSkips(c) == /\ Goto(c, "begin", "initial")
                       /\ Unchanged /\ UNCHANGED <<validated, boundVars>>

(* The initial validation, or straight to the loop, ready.                  *)
Begin(c) ==
    /\ IF SkipInitial(c)
       THEN /\ agent[c].pc = "begin"
            /\ agent' = [agent EXCEPT ![c].pc = "loop", ![c].ready = TRUE]
       ELSE Goto(c, "begin", "initial")
    /\ Unchanged /\ UNCHANGED <<validated, boundVars>>

(* runValidation returns nil.                                               *)
Succeeds == /\ intact
            /\ validated' = TRUE
            /\ UNCHANGED boundVars

(* It returns an error: the model is not as it was signed, the context was  *)
(* cancelled, or the verifier could not do its work.                        *)
Fails(c) == /\ \/ /\ ~intact \/ agent[c].cancelled
                  /\ UNCHANGED errors
               \/ /\ errors < MaxErrors
                  /\ errors' = errors + 1
            /\ UNCHANGED <<validated, changes, crashes>>

InitialDone_AlwaysReady(c) ==
    /\ agent[c].pc = "initial"
    /\ \/ /\ Succeeds \/ (Fails(c) /\ Interval(c))
          /\ agent' = [agent EXCEPT ![c].pc = IF Interval(c) THEN "loop" ELSE "cancel",
                                    ![c].ready = TRUE]
       \/ /\ Fails(c) /\ ~Interval(c)
          /\ agent' = [agent EXCEPT ![c] = Exited(1)]
    /\ Unchanged

InitialDone_IgnoresError(c) ==
    /\ agent[c].pc = "initial"
    /\ \/ /\ Succeeds
          /\ agent' = [agent EXCEPT ![c].pc = IF Interval(c) THEN "loop" ELSE "cancel",
                                    ![c].ready = TRUE]
       \/ /\ Fails(c)
          /\ agent' = [agent EXCEPT ![c].pc = IF Interval(c) THEN "loop" ELSE "cancel"]
    /\ Unchanged

(* One-shot mode ends with the verdict, continuous mode goes on.            *)
InitialDone(c) ==
    /\ agent[c].pc = "initial"
    /\ \/ /\ Succeeds
          /\ agent' = [agent EXCEPT ![c].pc = IF Interval(c) THEN "loop" ELSE "cancel",
                                    ![c].ready = TRUE]
       \/ /\ Fails(c)
          /\ agent' = [agent EXCEPT ![c] = IF Interval(c) THEN [@ EXCEPT !.pc = "loop"]
                                           ELSE Exited(1)]
    /\ Unchanged

Tick(c) == /\ agent[c].pc \in {"loop", "periodic"} /\ ~agent[c].tick
           /\ agent' = [agent EXCEPT ![c].tick = TRUE]
           /\ Unchanged /\ UNCHANGED <<validated, boundVars>>

(* The select of the loop.                                                  *)
TakeTick(c) == /\ agent[c].pc = "loop" /\ agent[c].tick
               /\ agent' = [agent EXCEPT ![c].tick = FALSE, ![c].pc = "periodic"]
               /\ Unchanged /\ UNCHANGED <<validated, boundVars>>

TakeDone(c) == /\ agent[c].cancelled
               /\ Goto(c, "loop", "join")
               /\ Unchanged /\ UNCHANGED <<validated, boundVars>>

PeriodicDone_NotReady(c) ==
    /\ Succeeds \/ Fails(c)
    /\ Goto(c, "periodic", "loop")
    /\ Unchanged

(* A failure does not take readiness back.                                  *)
PeriodicDone(c) ==
    /\ agent[c].pc = "periodic"
    /\ \/ /\ Succeeds
          /\ agent' = [agent EXCEPT ![c].pc = "loop", ![c].ready = TRUE]
       \/ /\ Fails(c)
          /\ agent' = [agent EXCEPT ![c].pc = "loop"]
    /\ Unchanged

Cancel_Forgotten(c) == /\ Goto(c, "cancel", "join")
                       /\ Unchanged /\ UNCHANGED <<validated, boundVars>>

(* The end of one-shot mode: cancel the context, wait for the server.       *)
Cancel(c) == /\ agent[c].pc = "cancel"
             /\ agent' = [agent EXCEPT ![c].cancelled = TRUE, ![c].pc = "join"]
             /\ Unchanged /\ UNCHANGED <<validated, boundVars>>

Join(c) == /\ agent[c].pc = "join" /\ agent[c].server = "down"
           /\ agent' = [agent EXCEPT ![c] = Exited(0)]
           /\ Unchanged /\ UNCHANGED <<validated, boundVars>>

Main(c) == \/ Begin(c) \/ InitialDone(c) \/ TakeTick(c) \/ TakeDone(c)
           \/ PeriodicDone(c) \/ Cancel(c) \/ Join(c)

(* The health server listens, or cannot and ends the process; when the      *)
(* context is done it shuts down, whether it has listened yet or not.       *)
Listen(c) == /\ Running(c) /\ agent[c].server = "starting"
             /\ \/ /\ agent' = [agent EXCEPT ![c].server = "up"]
                   /\ UNCHANGED crashes
                \/ /\ crashes < MaxCrashes /\ crashes' = crashes + 1
                   /\ agent' = [agent EXCEPT ![c] = Exited(1)]
             /\ Unchanged /\ UNCHANGED <<validated, changes, errors>>

ServerDown(c) == /\ Running(c) /\ agent[c].cancelled
                 /\ agent[c].server # "down"
                 /\ agent' = [agent EXCEPT ![c].server = "down"]
                 /\ Unchanged /\ UNCHANGED <<validated, boundVars>>

Server(c) == Listen(c) \/ ServerDown(c)

-----------------------------------------------------------------------------
(* The kubelet *)

(* The init container has done its part: a one-shot one has exited with 0,  *)
(* a native sidecar has been started (it has no startup probe).             *)
Initialized == IF Interval("init") THEN Running("init")
                                   ELSE agent["init"] = Exited(0)

(* A container is started when its turn comes, and again after a failure;   *)
(* one that is to go on is also started again after an exit with 0.         *)
StartAgent(c) ==
    /\ ~terminating /\ c \in Injected
    /\ agent[c] = NoAgent \/ agent[c] = Exited(1) \/ (Interval(c) /\ agent[c] = Exited(0))
    /\ c = "sidecar" => Initialized
    /\ agent' = [agent EXCEPT ![c] = NewAgent]
    /\ Unchanged /\ UNCHANGED <<validated, boundVars>>

StartWorkload == /\ ~terminating /\ workload = "waiting" /\ Initialized
                 /\ workload' = "started"
                 /\ UNCHANGED <<pod, agent, terminating, intact, validated, boundVars>>

(* SIGTERM to the agents that run.                                          *)
Terminate ==
    /\ ~terminating /\ terminating' = TRUE
    /\ agent' = [c \in Container |-> IF Running(c) THEN [agent[c] EXCEPT !.cancelled = TRUE]
                                                   ELSE agent[c]]
    /\ UNCHANGED <<pod, workload, intact, validated, boundVars>>

(* An agent is killed, for its memory limit or by its liveness probe.       *)
Kill(c) == /\ Running(c)
           /\ crashes < MaxCrashes /\ crashes' = crashes + 1
           /\ agent' = [agent EXCEPT ![c] = Exited(1)]
           /\ Unchanged /\ UNCHANGED <<validated, changes, errors>>

ChangeModel == /\ changes < MaxChanges /\ changes' = changes + 1
               /\ intact' = ~intact
               /\ UNCHANGED <<pod, agent, workload, terminating, validated, errors, crashes>>

Next == \/ \E c \in Injected : \/ Main(c) \/ Server(c) \/ Tick(c)
                               \/ StartAgent(c) \/ Kill(c)
        \/ StartWorkload \/ Terminate \/ ChangeModel

(* Goroutines, tickers and the kubelet go on.  The select of the loop picks *)
(* among its ready cases at random, so neither is passed over for ever.     *)
Fairness == /\ \A c \in Container :
                  /\ WF_vars(c \in Injected /\ Main(c)) /\ WF_vars(c \in Injected /\ Server(c))
                  /\ WF_vars(c \in Injected /\ Tick(c))
                  /\ SF_vars(c \in Injected /\ TakeDone(c))
                  /\ SF_vars(c \in Injected /\ TakeTick(c))
                  /\ WF_vars(StartAgent(c))
            /\ WF_vars(StartWorkload)

Spec == Init /\ [][Next]_vars /\ Fairness

-----------------------------------------------------------------------------
(* Properties *)

(* The places in main where an agent of each mode can be: the flags of    *)
(* main.go:38-41 keep a one-shot agent out of the loop and a sidecar out of *)
(* the initial validation.                                                  *)
Places(c) ==
    {"none", "begin", "join", "succeeded", "failed"}
    \cup (IF SkipInitial(c) THEN {} ELSE {"initial"})
    \cup (IF Interval(c) THEN {"loop", "periodic"} ELSE {"cancel"})

AgentProcess == [pc : {"none", "begin", "initial", "loop", "periodic", "cancel", "join",
                       "succeeded", "failed"},
                 ready : BOOLEAN, server : {"starting", "up", "down"},
                 cancelled : BOOLEAN, tick : BOOLEAN]

(* The types of the agents' state, each agent at a place of its mode.       *)
AgentTypeOK ==
    /\ pod \in [continuous : BOOLEAN, native : BOOLEAN]
    /\ agent \in [Container -> AgentProcess]
    /\ \A c \in Container : agent[c].pc \in IF c \in Injected THEN Places(c) ELSE {"none"}
    /\ workload \in {"waiting", "started"} /\ terminating \in BOOLEAN
    /\ intact \in BOOLEAN /\ validated \in BOOLEAN
    /\ changes \in 0 .. MaxChanges /\ errors \in 0 .. MaxErrors /\ crashes \in 0 .. MaxCrashes

(* pod_webhook.go:289: the init container "handles the initial one-shot     *)
(* validation to block pod startup": unless the init container validates    *)
(* continuously itself, no workload starts before a validation has          *)
(* succeeded.                                                               *)
OneShotBlocks == workload = "started" /\ ~Interval("init") => validated

(* README.md:7: the operator "Ensures AI models are validated before they   *)
(* are used by workloads".                                                  *)
WorkloadAfterValidation == workload = "started" => validated

(* pod_webhook.go:226: "ready after first successful validation", and :315  *)
(* "ready immediately since init container already validated": through any  *)
(* crashes, restarts and failed validations an agent reports ready only in  *)
(* a pod whose model has been validated.                                    *)
ReadyAfterValidation ==
    \A c \in Container : Running(c) /\ agent[c].ready => validated

(* validation-agent/main.go:90: "Continuous mode: don't mark ready, but     *)
(* continue (will retry)": if the model ends up intact, every continuous    *)
(* agent of a pod that has been initialized ends up ready.                  *)
BecomesReady ==
    <>[](intact /\ ~terminating /\ workload = "started") =>
        \A c \in Container : <>[](c \in Injected /\ Interval(c)
                                    => Running(c) /\ agent[c].ready)

(* Every agent ends: one-shot agents by themselves, continuous ones on      *)
(* SIGTERM, whatever main, the health server and the ticker are doing.      *)
AgentsEnd == \A c \in Container :
    Running(c) /\ (terminating \/ ~Interval(c)) ~> ~Running(c)
=============================================================================
