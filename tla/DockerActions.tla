----------------------------- MODULE DockerActions -----------------------------
(***************************************************************************)
(* Docker actions and the switch that enables them: DockerService,         *)
(* DockerGateway, the switch of SettingsService, and the requests and      *)
(* confirmations that call them.                                           *)
(*                                                                         *)
(* A handler asks for or confirms an action and is suspended at each       *)
(* database and engine call.  The engine's containers also start, exit and *)
(* go by themselves.                                                       *)
(***************************************************************************)
EXTENDS Naturals, Sequences, FiniteSets

CONSTANTS
    Handlers,       \* slots for updates processed at the same time
    Containers,     \* container ids; each has a name of its own
    Allowlists,     \* values of ALLOWED_CONTAINER_NAMES, each as the containers it names
                    \* and what else it names
    MaxAsks,        \* bound on requests
    MaxFailures,    \* bound on failed calls and crashes
    None            \* no setting stored, no container

ASSUME DockerConstants ==
    /\ MaxAsks \in Nat /\ MaxFailures \in Nat
    /\ None \notin Containers /\ None \notin BOOLEAN

ManagedActions == {"start", "stop", "restart", "remove"}
Toggles == {"enable", "disable"}
Requests == [action : ManagedActions, target : Containers]
            \cup [action : Toggles, target : {None}]
Environments == [dangerous : BOOLEAN, allowlist : Allowlists]
States == {"running", "paused", "exited", "created", "gone"}

VARIABLES
    setting,    \* the stored switch, None without a row
    env,        \* DANGEROUS_ACTIONS_ENABLED and the allowlist of this process
    state,      \* the engine: what each container is doing
    asked,      \* ActionRequest rows by creation
    open,       \* the PENDING ones
    pc,         \* where each handler is suspended
    call,       \* what it asks for or confirms
    armed,      \* ghost: handlers at work while the switch was on, if only for a moment
    failures    \* ghost: failed calls and crashes so far

vars == <<setting, env, state, asked, open, pc, call, armed, failures>>

AskPcs == {"asking", "finding", "recording"}
ConfirmPcs == {"confirming", "checking", "listing", "acting", "storing"}
Pcs == {"idle"} \cup AskPcs \cup ConfirmPcs
Calls == [action : ManagedActions \cup Toggles, target : Containers \cup {None}, request : Nat]
Blank == [action |-> "disable", target |-> None, request |-> 0]

\* What handler h has at hand where it is.
Fits(h) ==
    /\ pc[h] \in AskPcs \cup ConfirmPcs =>
          [action |-> call[h].action, target |-> call[h].target] \in Requests
    /\ pc[h] \in {"asking", "finding", "checking", "listing", "acting"} =>
          call[h].action \in ManagedActions
    /\ pc[h] = "storing" => call[h].action \in Toggles
    /\ pc[h] \in ConfirmPcs => call[h].request \in DOMAIN asked
    /\ pc[h] = "idle" => call[h] = Blank

TypeOK ==
    /\ setting \in BOOLEAN \cup {None} /\ env \in Environments
    /\ state \in [Containers -> States]
    /\ asked \in Seq(Requests) /\ open \in SUBSET (DOMAIN asked)
    /\ pc \in [Handlers -> Pcs] /\ call \in [Handlers -> Calls]
    /\ \A h \in Handlers : Fits(h)
    /\ armed \in SUBSET Handlers
    /\ failures \in 0..MaxFailures

Init ==
    /\ setting = None /\ env \in Environments
    /\ state \in [Containers -> States \ {"gone"}]
    /\ asked = <<>> /\ open = {}
    /\ pc = [h \in Handlers |-> "idle"]
    /\ call = [h \in Handlers |-> Blank]
    /\ armed = {}
    /\ failures = 0

(***************************************************************************)
(* Building blocks.                                                        *)
(***************************************************************************)
\* getDangerousActionsEnabled.
Enabled == IF setting = None THEN env.dangerous ELSE setting

Permitted(c) == env.allowlist = {} \/ c \in env.allowlist

\* getOverview; an empty allowlist restricts nothing.
Listed ==
    {c \in Containers : state[c] # "gone" /\ Permitted(c)}

Available(c) ==
    CASE state[c] = "running" -> {"restart", "stop"}
      [] state[c] \in {"exited", "created"} -> {"start", "remove"}
      [] OTHER -> {"remove"}

Goto(h, to) ==
    /\ pc' = [pc EXCEPT ![h] = to]
    /\ UNCHANGED call

\* A handler begins: it has seen the switch on when it is on.
Begin(h, to, c) ==
    /\ pc[h] = "idle"
    /\ pc' = [pc EXCEPT ![h] = to]
    /\ call' = [call EXCEPT ![h] = c]
    /\ armed' = IF Enabled THEN armed \cup {h} ELSE armed \ {h}

\* Mutated form of Finish: a handler keeps its locals.
Finish_KeepLocals(h) ==
    /\ pc' = [pc EXCEPT ![h] = "idle"]
    /\ UNCHANGED call

Finish(h) ==
    /\ pc' = [pc EXCEPT ![h] = "idle"]
    /\ call' = [call EXCEPT ![h] = Blank]

(***************************************************************************)
(* The engine's answer to each call, as the gateway makes it; an answer    *)
(* that changes nothing may be an error.                                   *)
(***************************************************************************)
\* Mutated form of Effect: containers are removed by force.
Effect_Force(action, s) ==
    IF s = "gone" \/ (action = "start" /\ s = "paused") THEN s
    ELSE CASE action \in {"start", "restart"} -> "running"
           [] action = "stop" -> IF s = "created" THEN s ELSE "exited"
           [] action = "remove" -> "gone"

\* stop with a grace period, restart of whatever state, remove without force.
Effect(action, s) ==
    IF s = "gone" \/ (action = "start" /\ s = "paused") THEN s
    ELSE CASE action \in {"start", "restart"} -> "running"
           [] action = "stop" -> IF s = "created" THEN s ELSE "exited"
           [] action = "remove" -> IF s \in {"exited", "created"} THEN "gone" ELSE s

Touch(h) ==
    state' = [state EXCEPT ![call[h].target] = Effect(call[h].action, @)]

\* Everyone at work is there when the switch is turned on.
SeenOn == armed' = IF Enabled' THEN armed \cup {g \in Handlers : pc[g] # "idle"} ELSE armed

Switch(h) == setting' = (call[h].action = "enable")

(***************************************************************************)
(* Requests.                                                               *)
(***************************************************************************)
MayAsk == Len(asked) + Cardinality({g \in Handlers : pc[g] \in AskPcs}) < MaxAsks

\* Any container id a keyboard has shown.
AskDocker(h, action, c) ==
    /\ MayAsk
    /\ Begin(h, "asking", [action |-> action, target |-> c, request |-> 0])
    /\ UNCHANGED <<setting, env, state, asked, open, failures>>

ReadSwitchToAsk(h) ==
    /\ pc[h] = "asking"
    /\ IF Enabled THEN Goto(h, "finding") ELSE Finish(h)
    /\ UNCHANGED <<setting, env, state, asked, open, armed, failures>>

\* The target must be listed; whether the action suits its state is left for later.
FindToAsk(h) ==
    /\ pc[h] = "finding"
    /\ IF call[h].target \in Listed THEN Goto(h, "recording") ELSE Finish(h)
    /\ UNCHANGED <<setting, env, state, asked, open, armed, failures>>

\* A settings request shows the current value and creates its row.
AskToggle(h, action) ==
    /\ MayAsk
    /\ Begin(h, "recording", [action |-> action, target |-> None, request |-> 0])
    /\ UNCHANGED <<setting, env, state, asked, open, failures>>

AddRow(h) ==
    /\ asked' = Append(asked, [action |-> call[h].action, target |-> call[h].target])
    /\ open' = open \cup {Len(asked) + 1}

CreateRequest(h) ==
    /\ pc[h] = "recording"
    /\ AddRow(h)
    /\ Finish(h)
    /\ UNCHANGED <<setting, env, state, armed, failures>>

(***************************************************************************)
(* Confirmations.                                                          *)
(***************************************************************************)
\* The request is found PENDING; another confirmation may find it so as well.
Confirm(h, r) ==
    /\ r \in open
    /\ Begin(h, "confirming",
             [action |-> asked[r].action, target |-> asked[r].target, request |-> r])
    /\ UNCHANGED <<setting, env, state, asked, open, failures>>

MarkConfirmed(h) ==
    /\ pc[h] = "confirming"
    /\ open' = open \ {call[h].request}
    /\ Goto(h, IF call[h].action \in Toggles THEN "storing" ELSE "checking")
    /\ UNCHANGED <<setting, env, state, asked, armed, failures>>

\* Mutated form of CheckSwitch: the switch was looked at when the action was asked for.
CheckSwitch_Never(h) ==
    /\ pc[h] = "checking"
    /\ Goto(h, "listing")
    /\ UNCHANGED <<setting, env, state, asked, open, armed, failures>>

CheckSwitch(h) ==
    /\ pc[h] = "checking"
    /\ IF Enabled THEN Goto(h, "listing") ELSE Finish(h)
    /\ UNCHANGED <<setting, env, state, asked, open, armed, failures>>

\* Mutated form of CheckTarget: the target was looked up when the action was asked for.
CheckTarget_StateOnly(h) ==
    /\ pc[h] = "listing"
    /\ IF call[h].action \in Available(call[h].target)
         THEN Goto(h, "acting") ELSE Finish(h)
    /\ UNCHANGED <<setting, env, state, asked, open, armed, failures>>

CheckTarget(h) ==
    /\ pc[h] = "listing"
    /\ IF call[h].target \in Listed /\ call[h].action \in Available(call[h].target)
         THEN Goto(h, "acting") ELSE Finish(h)
    /\ UNCHANGED <<setting, env, state, asked, open, armed, failures>>

\* By now the container may be in another state than the list said.
Act(h) ==
    /\ pc[h] = "acting"
    /\ Touch(h)
    /\ Finish(h)
    /\ UNCHANGED <<setting, env, asked, open, armed, failures>>

Store(h) ==
    /\ pc[h] = "storing"
    /\ Switch(h)
    /\ SeenOn
    /\ Finish(h)
    /\ UNCHANGED <<env, state, asked, open, failures>>

(***************************************************************************)
(* Failures and the world.                                                 *)
(***************************************************************************)
\* A call rejects, a write of it applied or not; the handler ends.
Fail(h) ==
    /\ pc[h] # "idle"
    /\ failures < MaxFailures /\ failures' = failures + 1
    /\ \/ UNCHANGED <<setting, state, asked, open, armed>>
       \/ /\ pc[h] = "recording" /\ AddRow(h)
          /\ UNCHANGED <<setting, state, armed>>
       \/ /\ pc[h] = "confirming"
          /\ open' = open \ {call[h].request}
          /\ UNCHANGED <<setting, state, asked, armed>>
       \/ /\ pc[h] = "acting" /\ Touch(h)
          /\ UNCHANGED <<setting, asked, open, armed>>
       \/ /\ pc[h] = "storing" /\ Switch(h) /\ SeenOn
          /\ UNCHANGED <<state, asked, open>>
    /\ Finish(h)
    /\ UNCHANGED env

\* The process dies and starts again, perhaps with another environment.
CrashAndRestart ==
    /\ failures < MaxFailures /\ failures' = failures + 1
    /\ env' \in Environments
    /\ pc' = [h \in Handlers |-> "idle"]
    /\ call' = [h \in Handlers |-> Blank]
    /\ armed' = {}
    /\ UNCHANGED <<setting, state, asked, open>>

\* A container starts, is paused, exits or is removed by someone else.
Elsewhere(c, s) ==
    /\ state[c] # "gone" /\ s \notin {"created", state[c]}
    /\ s = "paused" => state[c] = "running"
    /\ state' = [state EXCEPT ![c] = s]
    /\ UNCHANGED <<setting, env, asked, open, pc, call, armed, failures>>

Ask(h) ==
    \/ \E action \in ManagedActions, c \in Containers : AskDocker(h, action, c)
    \/ \E action \in Toggles : AskToggle(h, action)
    \/ ReadSwitchToAsk(h) \/ FindToAsk(h) \/ CreateRequest(h)

Execute(h) ==
    \/ \E r \in open : Confirm(h, r)
    \/ MarkConfirmed(h) \/ CheckSwitch(h) \/ CheckTarget(h) \/ Act(h) \/ Store(h)

Next ==
    \/ \E h \in Handlers : Ask(h) \/ Execute(h) \/ Fail(h)
    \/ \E c \in Containers, s \in States : Elsewhere(c, s)
    \/ CrashAndRestart

Spec == Init /\ [][Next]_vars

(***************************************************************************)
(* Properties.                                                             *)
(***************************************************************************)
\* A call to the engine is about to be made only by a confirmation during which the switch
\* was on; the one that turns it off waits for no one, but nobody starts after it.
SwitchedOffHolds == \A h \in Handlers : pc[h] = "acting" => h \in armed

\* ... and only for a container of the allowlist in force, whatever it said when the action
\* was asked for.
OnlyListedAreTouched == \A h \in Handlers : pc[h] = "acting" => Permitted(call[h].target)

\* A handler's call is what changes the container.
Called(c) == \E h \in Handlers : pc[h] = "acting" /\ pc'[h] = "idle" /\ call[h].target = c

\* TeleOps never removes a container that runs, even one that started after the check.
RemovedWasStopped ==
    [][\A c \in Containers :
          state[c] \in {"running", "paused"} /\ state'[c] = "gone" => ~Called(c)]_vars
================================================================================
