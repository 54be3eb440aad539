------------------------- MODULE DockerActionsProofs --------------------------
(***************************************************************************)
(* Theorems about DockerActions, for every set of containers, allowlists   *)
(* and handler slots, and every number of requests and failures.           *)
(***************************************************************************)
EXTENDS DockerActions, TLAPS

-----------------------------------------------------------------------------
(* The invariant.                                                            *)

\* Whoever is past the check of the switch was there while it was on, and so is everyone
\* at work now if it is on now.
Watched ==
    \A h \in Handlers :
        /\ pc[h] \in {"listing", "acting"} => h \in armed
        /\ Enabled /\ pc[h] # "idle" => h \in armed

IInv == TypeOK /\ Watched /\ OnlyListedAreTouched

-----------------------------------------------------------------------------
(* Building blocks.                                                          *)

\* Request rows stay.
Stays == \A r \in DOMAIN asked : r \in DOMAIN asked'

LEMMA BlankIsCall == Blank \in Calls
BY DEF Blank, Calls, Toggles

\* One handler moves to a place whose needs are met.
LEMMA MoveType ==
    ASSUME TypeOK, Stays, NEW h \in Handlers, NEW to \in Pcs, NEW c \in Calls,
           pc' = [pc EXCEPT ![h] = to], call' = [call EXCEPT ![h] = c], Fits(h)'
    PROVE  /\ pc' \in [Handlers -> Pcs] /\ call' \in [Handlers -> Calls]
           /\ pc'[h] = to /\ call'[h] = c
           /\ \A g \in Handlers : Fits(g)'
           /\ \A g \in Handlers : g # h => pc'[g] = pc[g] /\ call'[g] = call[g]
<1>1. /\ pc' \in [Handlers -> Pcs] /\ call' \in [Handlers -> Calls]
      /\ pc'[h] = to /\ call'[h] = c
      /\ \A g \in Handlers : g # h => pc'[g] = pc[g] /\ call'[g] = call[g]
  BY DEF TypeOK
<1>2. ASSUME NEW g \in Handlers, g # h PROVE Fits(g)'
  <2>1. Fits(g)
    BY DEF TypeOK
  <2>2. QED
    BY <1>1, <1>2, <2>1 DEF Fits, Stays
<1>3. QED
  BY <1>1, <1>2

LEMMA FinishType ==
    ASSUME TypeOK, Stays, NEW h \in Handlers, Finish(h)
    PROVE  /\ pc' \in [Handlers -> Pcs] /\ call' \in [Handlers -> Calls]
           /\ pc'[h] = "idle"
           /\ \A g \in Handlers : Fits(g)'
           /\ \A g \in Handlers : g # h => pc'[g] = pc[g] /\ call'[g] = call[g]
<1>1. pc' = [pc EXCEPT ![h] = "idle"] /\ call' = [call EXCEPT ![h] = Blank]
  BY DEF Finish
<1>2. pc'[h] = "idle" /\ call'[h] = Blank
  BY <1>1 DEF TypeOK
<1>3. Fits(h)'
  BY <1>2 DEF Fits, AskPcs, ConfirmPcs
<1>4. QED
  BY <1>1, <1>3, MoveType, BlankIsCall DEF Pcs

LEMMA GotoType ==
    ASSUME TypeOK, Stays, NEW h \in Handlers, NEW to \in Pcs, Goto(h, to), Fits(h)'
    PROVE  /\ pc' \in [Handlers -> Pcs] /\ call' \in [Handlers -> Calls]
           /\ pc'[h] = to /\ call' = call
           /\ \A g \in Handlers : Fits(g)'
           /\ \A g \in Handlers : g # h => pc'[g] = pc[g]
<1>1. pc' = [pc EXCEPT ![h] = to] /\ call' = call
  BY DEF Goto
<1>2. call[h] \in Calls /\ call' = [call EXCEPT ![h] = call[h]]
  BY <1>1 DEF TypeOK
<1>3. QED
  BY <1>1, <1>2, MoveType

\* A step of one handler that leaves the switch alone keeps the invariant when it goes
\* past the check only with the switch on, and to the engine only with a permitted target.
Proper(h) ==
    /\ \A g \in Handlers : g # h => pc'[g] = pc[g] /\ call'[g] = call[g]
    /\ pc'[h] # "idle" /\ (pc[h] = "idle" \/ Enabled) => h \in armed' \/ ~Enabled
    /\ pc'[h] \in {"listing", "acting"} => h \in armed'
    /\ pc'[h] = "acting" => Permitted(call'[h].target)

LEMMA StepKeeps ==
    ASSUME IInv, NEW h \in Handlers, TypeOK', Proper(h), UNCHANGED <<setting, env>>,
           \A g \in Handlers : g # h => (g \in armed' <=> g \in armed)
    PROVE  IInv'
<1>1. Enabled' = Enabled /\ \A c : Permitted(c)' = Permitted(c)
  BY DEF Enabled, Permitted
<1>2. Watched'
  BY <1>1 DEF IInv, Watched, Proper
<1>3. OnlyListedAreTouched'
  BY <1>1 DEF IInv, OnlyListedAreTouched, Proper
<1>4. QED
  BY <1>2, <1>3 DEF IInv

\* A handler that ends can only leave the invariant as it was.
LEMMA EndKeeps ==
    ASSUME IInv, NEW h \in Handlers, TypeOK', Finish(h), UNCHANGED <<setting, env, armed>>
    PROVE  IInv'
<1>1. /\ pc'[h] = "idle"
      /\ \A g \in Handlers : g # h => pc'[g] = pc[g] /\ call'[g] = call[g]
  BY DEF IInv, TypeOK, Finish
<1>2. Proper(h)
  BY <1>1 DEF Proper
<1>3. QED
  BY <1>2, StepKeeps

\* The effect of a call to the engine.
LEMMA EffectType ==
    ASSUME NEW a \in ManagedActions, NEW s \in States
    PROVE  /\ Effect(a, s) \in States
           /\ s \in {"running", "paused"} => Effect(a, s) # "gone"
BY DEF Effect, ManagedActions, States

LEMMA TouchType ==
    ASSUME TypeOK, NEW h \in Handlers, pc[h] = "acting", Touch(h)
    PROVE  /\ state' \in [Containers -> States]
           /\ \A c \in Containers : state[c] \in {"running", "paused"} => state'[c] # "gone"
<1>1. Fits(h)
  BY DEF TypeOK
<1>2. call[h].action \in ManagedActions
  BY <1>1 DEF Fits
<1>3. [action |-> call[h].action, target |-> call[h].target] \in Requests
  BY <1>1 DEF Fits, ConfirmPcs
<1>4. call[h].target \in Containers
  BY <1>2, <1>3 DEF Requests, ManagedActions, Toggles
<1>5. \A s \in States : /\ Effect(call[h].action, s) \in States
                        /\ s \in {"running", "paused"} => Effect(call[h].action, s) # "gone"
  BY <1>2, EffectType
<1>6. state \in [Containers -> States]
  BY DEF TypeOK
<1>7. QED
  BY <1>4, <1>5, <1>6 DEF Touch, States

LEMMA AddRowType ==
    ASSUME TypeOK, NEW h \in Handlers, pc[h] = "recording", AddRow(h)
    PROVE  asked' \in Seq(Requests) /\ open' \in SUBSET (DOMAIN asked') /\ Stays
<1>1. Fits(h)
  BY DEF TypeOK
<1>2. [action |-> call[h].action, target |-> call[h].target] \in Requests
  BY <1>1 DEF Fits, AskPcs
<1>3. QED
  BY <1>2 DEF TypeOK, AddRow, Stays

\* A handler begins.
LEMMA BeginKeeps ==
    ASSUME IInv, NEW h \in Handlers, NEW to \in {"asking", "recording", "confirming"},
           NEW c \in Calls, Begin(h, to, c),
           [action |-> c.action, target |-> c.target] \in Requests,
           to = "asking" => c.action \in ManagedActions,
           to = "confirming" => c.request \in DOMAIN asked,
           UNCHANGED <<setting, env, state, asked, open, failures>>
    PROVE  IInv'
<1>1. /\ pc[h] = "idle" /\ pc' = [pc EXCEPT ![h] = to] /\ call' = [call EXCEPT ![h] = c]
      /\ armed' = IF Enabled THEN armed \cup {h} ELSE armed \ {h}
  BY DEF Begin
<1>2. TypeOK /\ Stays /\ to \in Pcs
  BY DEF IInv, Stays, Pcs, AskPcs, ConfirmPcs
<1>3. pc'[h] = to /\ call'[h] = c
  BY <1>1, <1>2 DEF TypeOK
<1>4. Fits(h)'
  BY <1>3 DEF Fits, AskPcs, ConfirmPcs
<1>5. /\ pc' \in [Handlers -> Pcs] /\ call' \in [Handlers -> Calls]
      /\ \A g \in Handlers : Fits(g)'
      /\ \A g \in Handlers : g # h => pc'[g] = pc[g] /\ call'[g] = call[g]
  BY <1>1, <1>2, <1>4, MoveType
<1>6. TypeOK'
  BY <1>1, <1>2, <1>5 DEF TypeOK
<1>7. Proper(h)
  BY <1>1, <1>3, <1>5 DEF Proper
<1>8. \A g \in Handlers : g # h => (g \in armed' <=> g \in armed)
  BY <1>1
<1>9. QED
  BY <1>6, <1>7, <1>8, StepKeeps

\* A handler goes on, and nothing but the open requests may change.
LEMMA GotoKeeps ==
    ASSUME IInv, NEW h \in Handlers, NEW to \in Pcs, Goto(h, to), Fits(h)',
           pc[h] # "idle",
           to \in {"listing", "acting"} => h \in armed,
           to = "acting" => Permitted(call[h].target),
           open' \in SUBSET (DOMAIN asked),
           UNCHANGED <<setting, env, state, asked, armed, failures>>
    PROVE  IInv'
<1>1. TypeOK /\ Stays
  BY DEF IInv, Stays
<1>2. /\ pc' \in [Handlers -> Pcs] /\ call' \in [Handlers -> Calls]
      /\ pc'[h] = to /\ call' = call
      /\ \A g \in Handlers : Fits(g)'
      /\ \A g \in Handlers : g # h => pc'[g] = pc[g]
  BY <1>1, GotoType
<1>3. TypeOK'
  BY <1>1, <1>2 DEF TypeOK
<1>4. Proper(h)
  BY <1>2 DEF Proper, IInv, Watched
<1>5. QED
  BY <1>3, <1>4, StepKeeps

\* A handler ends, and its last call may have been applied.
LEMMA FinishKeeps ==
    ASSUME IInv, NEW h \in Handlers, Finish(h), Stays,
           state' \in [Containers -> States],
           asked' \in Seq(Requests), open' \in SUBSET (DOMAIN asked'),
           failures' \in 0..MaxFailures,
           UNCHANGED <<setting, env, armed>>
    PROVE  IInv'
<1>1. TypeOK
  BY DEF IInv
<1>2. /\ pc' \in [Handlers -> Pcs] /\ call' \in [Handlers -> Calls]
      /\ \A g \in Handlers : Fits(g)'
  BY <1>1, FinishType
<1>3. TypeOK'
  BY <1>1, <1>2 DEF TypeOK
<1>4. QED
  BY <1>3, EndKeeps

\* A toggle is stored.
LEMMA StoreKeeps ==
    ASSUME IInv, NEW h \in Handlers, Finish(h), Switch(h), SeenOn,
           failures' \in 0..MaxFailures,
           UNCHANGED <<env, state, asked, open>>
    PROVE  IInv'
<1>1. TypeOK /\ Stays
  BY DEF IInv, Stays
<1>2. /\ pc' \in [Handlers -> Pcs] /\ call' \in [Handlers -> Calls]
      /\ pc'[h] = "idle"
      /\ \A g \in Handlers : Fits(g)'
      /\ \A g \in Handlers : g # h => pc'[g] = pc[g] /\ call'[g] = call[g]
  BY <1>1, FinishType
<1>3. setting' \in BOOLEAN
  BY DEF Switch
<1>4. armed \subseteq armed' /\ armed' \in SUBSET Handlers
      /\ (Enabled' => \A g \in Handlers : pc[g] # "idle" => g \in armed')
  BY <1>1 DEF SeenOn, TypeOK
<1>5. TypeOK'
  BY <1>1, <1>2, <1>3, <1>4 DEF TypeOK
<1>6. Watched'
  BY <1>2, <1>4 DEF IInv, Watched
<1>7. \A c : Permitted(c)' = Permitted(c)
  BY DEF Permitted
<1>8. OnlyListedAreTouched'
  BY <1>2, <1>7 DEF IInv, OnlyListedAreTouched
<1>9. QED
  BY <1>5, <1>6, <1>8 DEF IInv

-----------------------------------------------------------------------------
(* The steps.                                                                *)

LEMMA AskStep ==
    ASSUME IInv, NEW h \in Handlers, Ask(h)
    PROVE  IInv'
<1>0. TypeOK /\ Fits(h) /\ call[h] \in Calls
  BY DEF IInv, TypeOK
<1>1. ASSUME NEW action \in ManagedActions, NEW c \in Containers, AskDocker(h, action, c)
      PROVE  IInv'
  <2> DEFINE k == [action |-> action, target |-> c, request |-> 0]
  <2>1. /\ k \in Calls /\ k.action = action
        /\ [action |-> k.action, target |-> k.target] \in Requests
    BY DEF Calls, Requests
  <2>2. Begin(h, "asking", k) /\ UNCHANGED <<setting, env, state, asked, open, failures>>
    BY <1>1 DEF AskDocker
  <2> HIDE DEF k
  <2>3. QED
    BY <2>1, <2>2, BeginKeeps
<1>2. ASSUME NEW action \in Toggles, AskToggle(h, action)
      PROVE  IInv'
  <2> DEFINE k == [action |-> action, target |-> None, request |-> 0]
  <2>1. k \in Calls /\ [action |-> k.action, target |-> k.target] \in Requests
    BY DEF Calls, Requests
  <2>2. Begin(h, "recording", k) /\ UNCHANGED <<setting, env, state, asked, open, failures>>
    BY <1>2 DEF AskToggle
  <2> HIDE DEF k
  <2>3. QED
    BY <2>1, <2>2, BeginKeeps
<1>3. CASE ReadSwitchToAsk(h)
  <2>1. pc[h] = "asking" /\ UNCHANGED <<setting, env, state, asked, open, armed, failures>>
        /\ (Goto(h, "finding") \/ Finish(h))
    BY <1>3 DEF ReadSwitchToAsk
  <2>2. CASE Goto(h, "finding")
    <3>1. pc'[h] = "finding" /\ call'[h] = call[h]
      BY <1>0, <2>2 DEF Goto, TypeOK
    <3>2. Fits(h)'
      BY <1>0, <2>1, <3>1 DEF Fits, AskPcs, ConfirmPcs
    <3>3. QED
      BY <1>0, <2>1, <2>2, <3>2, GotoKeeps DEF Pcs, AskPcs, TypeOK
  <2>3. CASE Finish(h)
    BY <1>0, <2>1, <2>3, FinishKeeps DEF TypeOK, Stays
  <2>4. QED
    BY <2>1, <2>2, <2>3
<1>4. CASE FindToAsk(h)
  <2>1. pc[h] = "finding" /\ UNCHANGED <<setting, env, state, asked, open, armed, failures>>
        /\ (Goto(h, "recording") \/ Finish(h))
    BY <1>4 DEF FindToAsk
  <2>2. CASE Goto(h, "recording")
    <3>1. pc'[h] = "recording" /\ call'[h] = call[h]
      BY <1>0, <2>2 DEF Goto, TypeOK
    <3>2. Fits(h)'
      BY <1>0, <2>1, <3>1 DEF Fits, AskPcs, ConfirmPcs
    <3>3. QED
      BY <1>0, <2>1, <2>2, <3>2, GotoKeeps DEF Pcs, AskPcs, TypeOK
  <2>3. CASE Finish(h)
    BY <1>0, <2>1, <2>3, FinishKeeps DEF TypeOK, Stays
  <2>4. QED
    BY <2>1, <2>2, <2>3
<1>5. CASE CreateRequest(h)
  <2>1. pc[h] = "recording" /\ AddRow(h) /\ Finish(h)
        /\ UNCHANGED <<setting, env, state, armed, failures>>
    BY <1>5 DEF CreateRequest
  <2>2. asked' \in Seq(Requests) /\ open' \in SUBSET (DOMAIN asked') /\ Stays
    BY <1>0, <2>1, AddRowType
  <2>3. QED
    BY <1>0, <2>1, <2>2, FinishKeeps DEF TypeOK
<1>6. QED
  BY <1>1, <1>2, <1>3, <1>4, <1>5 DEF Ask

LEMMA ExecuteStep ==
    ASSUME IInv, NEW h \in Handlers, Execute(h)
    PROVE  IInv'
<1>0. TypeOK /\ Fits(h) /\ call[h] \in Calls
  BY DEF IInv, TypeOK
<1>1. ASSUME NEW r \in open, Confirm(h, r) PROVE IInv'
  <2> DEFINE k == [action |-> asked[r].action, target |-> asked[r].target, request |-> r]
  <2>1. r \in DOMAIN asked /\ r \in Nat /\ asked[r] \in Requests
    BY <1>0 DEF TypeOK
  <2>2. /\ asked[r].action \in ManagedActions \cup Toggles
        /\ asked[r].target \in Containers \cup {None}
        /\ [action |-> asked[r].action, target |-> asked[r].target] \in Requests
    BY <2>1 DEF Requests
  <2>3. /\ k \in Calls /\ k.request \in DOMAIN asked
        /\ [action |-> k.action, target |-> k.target] \in Requests
    BY <2>1, <2>2 DEF Calls
  <2>4. Begin(h, "confirming", k) /\ UNCHANGED <<setting, env, state, asked, open, failures>>
    BY <1>1 DEF Confirm
  <2> HIDE DEF k
  <2>5. QED
    BY <2>3, <2>4, BeginKeeps
<1>2. CASE MarkConfirmed(h)
  <2> DEFINE to == IF call[h].action \in Toggles THEN "storing" ELSE "checking"
  <2>1. /\ pc[h] = "confirming" /\ open' = open \ {call[h].request} /\ Goto(h, to)
        /\ UNCHANGED <<setting, env, state, asked, armed, failures>>
    BY <1>2 DEF MarkConfirmed
  <2>2. pc'[h] = to /\ call'[h] = call[h]
    BY <1>0, <2>1 DEF Goto, TypeOK
  <2>3. Fits(h)'
    BY <1>0, <2>1, <2>2 DEF Fits, AskPcs, ConfirmPcs, Calls
  <2>4. to \in Pcs /\ to \notin {"listing", "acting"} /\ open' \in SUBSET (DOMAIN asked)
    BY <1>0, <2>1 DEF Pcs, ConfirmPcs, TypeOK
  <2> HIDE DEF to
  <2>5. QED
    BY <2>1, <2>3, <2>4, GotoKeeps
<1>3. CASE CheckSwitch(h)
  <2>1. /\ pc[h] = "checking"
        /\ (Enabled /\ Goto(h, "listing")) \/ Finish(h)
        /\ UNCHANGED <<setting, env, state, asked, open, armed, failures>>
    BY <1>3 DEF CheckSwitch
  <2>2. CASE Enabled /\ Goto(h, "listing")
    <3>1. pc'[h] = "listing" /\ call'[h] = call[h]
      BY <1>0, <2>2 DEF Goto, TypeOK
    <3>2. Fits(h)'
      BY <1>0, <2>1, <3>1 DEF Fits, AskPcs, ConfirmPcs
    <3>3. h \in armed
      BY <2>1, <2>2 DEF IInv, Watched
    <3>4. QED
      BY <1>0, <2>1, <2>2, <3>2, <3>3, GotoKeeps DEF Pcs, ConfirmPcs, TypeOK
  <2>3. CASE Finish(h)
    BY <1>0, <2>1, <2>3, FinishKeeps DEF TypeOK, Stays
  <2>4. QED
    BY <2>1, <2>2, <2>3
<1>4. CASE CheckTarget(h)
  <2>1. /\ pc[h] = "listing"
        /\ (call[h].target \in Listed /\ Goto(h, "acting")) \/ Finish(h)
        /\ UNCHANGED <<setting, env, state, asked, open, armed, failures>>
    BY <1>4 DEF CheckTarget
  <2>2. CASE call[h].target \in Listed /\ Goto(h, "acting")
    <3>1. pc'[h] = "acting" /\ call'[h] = call[h]
      BY <1>0, <2>2 DEF Goto, TypeOK
    <3>2. Fits(h)'
      BY <1>0, <2>1, <3>1 DEF Fits, AskPcs, ConfirmPcs
    <3>3. h \in armed /\ Permitted(call[h].target)
      BY <2>1, <2>2 DEF IInv, Watched, Listed
    <3>4. QED
      BY <1>0, <2>1, <2>2, <3>2, <3>3, GotoKeeps DEF Pcs, ConfirmPcs, TypeOK
  <2>3. CASE Finish(h)
    BY <1>0, <2>1, <2>3, FinishKeeps DEF TypeOK, Stays
  <2>4. QED
    BY <2>1, <2>2, <2>3
<1>5. CASE Act(h)
  <2>1. pc[h] = "acting" /\ Touch(h) /\ Finish(h)
        /\ UNCHANGED <<setting, env, asked, open, armed, failures>>
    BY <1>5 DEF Act
  <2>2. state' \in [Containers -> States]
    BY <1>0, <2>1, TouchType
  <2>3. QED
    BY <1>0, <2>1, <2>2, FinishKeeps DEF TypeOK, Stays
<1>6. CASE Store(h)
  BY <1>0, <1>6, StoreKeeps DEF Store, TypeOK
<1>7. QED
  BY <1>1, <1>2, <1>3, <1>4, <1>5, <1>6 DEF Execute

LEMMA FailStep ==
    ASSUME IInv, NEW h \in Handlers, Fail(h)
    PROVE  IInv'
<1>0. TypeOK
  BY DEF IInv
<1>1. failures' \in 0..MaxFailures /\ Finish(h) /\ env' = env
  BY <1>0, DockerConstants DEF Fail, TypeOK
<1>2. CASE UNCHANGED <<setting, state, asked, open, armed>>
  BY <1>0, <1>1, <1>2, FinishKeeps DEF TypeOK, Stays
<1>3. CASE pc[h] = "recording" /\ AddRow(h) /\ UNCHANGED <<setting, state, armed>>
  <2>1. asked' \in Seq(Requests) /\ open' \in SUBSET (DOMAIN asked') /\ Stays
    BY <1>0, <1>3, AddRowType
  <2>2. QED
    BY <1>0, <1>1, <1>3, <2>1, FinishKeeps DEF TypeOK
<1>4. CASE open' = open \ {call[h].request} /\ UNCHANGED <<setting, state, asked, armed>>
  BY <1>0, <1>1, <1>4, FinishKeeps DEF TypeOK, Stays
<1>5. CASE pc[h] = "acting" /\ Touch(h) /\ UNCHANGED <<setting, asked, open, armed>>
  <2>1. state' \in [Containers -> States]
    BY <1>0, <1>5, TouchType
  <2>2. QED
    BY <1>0, <1>1, <1>5, <2>1, FinishKeeps DEF TypeOK, Stays
<1>6. CASE Switch(h) /\ SeenOn /\ UNCHANGED <<state, asked, open>>
  BY <1>1, <1>6, StoreKeeps
<1>7. QED
  BY <1>2, <1>3, <1>4, <1>5, <1>6 DEF Fail

\* With nobody at work there is only the state to type.
LEMMA IdleInv ==
    ASSUME setting \in BOOLEAN \cup {None}, env \in Environments,
           state \in [Containers -> States],
           asked \in Seq(Requests), open \in SUBSET (DOMAIN asked),
           pc = [h \in Handlers |-> "idle"], call = [h \in Handlers |-> Blank],
           armed = {}, failures \in 0..MaxFailures
    PROVE  IInv
<1>1. \A h \in Handlers : pc[h] = "idle" /\ call[h] = Blank
  OBVIOUS
<1>2. \A h \in Handlers : Fits(h)
  BY <1>1 DEF Fits, AskPcs, ConfirmPcs
<1>3. pc \in [Handlers -> Pcs] /\ call \in [Handlers -> Calls]
  BY BlankIsCall DEF Pcs
<1>4. TypeOK
  BY <1>2, <1>3 DEF TypeOK
<1>5. Watched /\ OnlyListedAreTouched
  BY <1>1 DEF Watched, OnlyListedAreTouched
<1>6. QED
  BY <1>4, <1>5 DEF IInv

LEMMA InitInv == Init => IInv
<1> SUFFICES ASSUME Init PROVE IInv
  OBVIOUS
<1>1. state \in [Containers -> States]
  BY DEF Init
<1>2. QED
  BY <1>1, IdleInv, DockerConstants DEF Init

LEMMA CrashStep ==
    ASSUME IInv, CrashAndRestart
    PROVE  IInv'
<1>1. TypeOK
  BY DEF IInv
<1>2. /\ (setting \in BOOLEAN \cup {None})' /\ (env \in Environments)'
      /\ (state \in [Containers -> States])'
      /\ (asked \in Seq(Requests))' /\ (open \in SUBSET (DOMAIN asked))'
      /\ (pc = [h \in Handlers |-> "idle"])' /\ (call = [h \in Handlers |-> Blank])'
      /\ (armed = {})' /\ (failures \in 0..MaxFailures)'
  BY <1>1, DockerConstants DEF CrashAndRestart, TypeOK
<1>3. QED
  BY <1>2, IdleInv, PTL

LEMMA ElsewhereStep ==
    ASSUME IInv, NEW c \in Containers, NEW s \in States, Elsewhere(c, s)
    PROVE  IInv'
<1>1. /\ state' = [state EXCEPT ![c] = s]
      /\ UNCHANGED <<setting, env, asked, open, pc, call, armed, failures>>
  BY DEF Elsewhere
<1>2. TypeOK'
  BY <1>1 DEF IInv, TypeOK, Fits
<1>3. Watched' /\ OnlyListedAreTouched'
  BY <1>1 DEF IInv, Watched, OnlyListedAreTouched, Enabled, Permitted
<1>4. QED
  BY <1>2, <1>3 DEF IInv

LEMMA NextInv == IInv /\ [Next]_vars => IInv'
<1> SUFFICES ASSUME IInv, [Next]_vars PROVE IInv'
  OBVIOUS
<1>1. ASSUME NEW h \in Handlers, Ask(h) \/ Execute(h) \/ Fail(h) PROVE IInv'
  BY <1>1, AskStep, ExecuteStep, FailStep
<1>2. ASSUME NEW c \in Containers, NEW s \in States, Elsewhere(c, s) PROVE IInv'
  BY <1>2, ElsewhereStep
<1>3. CASE CrashAndRestart
  BY <1>3, CrashStep
<1>4. CASE UNCHANGED vars
  BY <1>4 DEF vars, IInv, TypeOK, Fits, Watched, OnlyListedAreTouched, Enabled, Permitted
<1>5. QED
  BY <1>1, <1>2, <1>3, <1>4 DEF Next

-----------------------------------------------------------------------------
(* Theorems.                                                                 *)

\* The inductive invariant: whoever is past the check was there while the switch was on.
THEOREM Invariance == Spec => []IInv
BY InitInv, NextInv, PTL DEF Spec

\* Types are kept.
THEOREM TypeCorrect == Spec => []TypeOK
BY Invariance, PTL DEF IInv

\* The engine is called only by confirmations that were there while the switch was on.
THEOREM SwitchHolds == Spec => []SwitchedOffHolds
<1>1. IInv => SwitchedOffHolds
  BY DEF IInv, Watched, SwitchedOffHolds
<1>2. QED
  BY <1>1, Invariance, PTL

\* ... and only for containers the allowlist in force permits.
THEOREM ListHolds == Spec => []OnlyListedAreTouched
BY Invariance, PTL DEF IInv

\* TeleOps never removes a container that runs or is paused.
THEOREM RunningIsNotRemoved == Spec => RemovedWasStopped
<1>1. IInv /\ [Next]_vars =>
        [\A c \in Containers :
            state[c] \in {"running", "paused"} /\ state'[c] = "gone" => ~Called(c)]_vars
  <2> SUFFICES ASSUME IInv, Next, NEW c \in Containers,
                      state[c] \in {"running", "paused"}, state'[c] = "gone", Called(c)
               PROVE  FALSE
    OBVIOUS
  <2>0. TypeOK
    BY DEF IInv
  <2>1. state'[c] # state[c]
    OBVIOUS
  <2>2. PICK g \in Handlers : pc[g] = "acting" /\ pc'[g] = "idle"
    BY DEF Called
  <2>3. ASSUME NEW h \in Handlers, Ask(h) PROVE FALSE
    BY <2>1, <2>3 DEF Ask, AskDocker, AskToggle, ReadSwitchToAsk, FindToAsk, CreateRequest
  <2>4. ASSUME NEW h \in Handlers, Execute(h) PROVE FALSE
    <3>1. CASE Act(h)
      BY <2>0, <3>1, TouchType DEF Act
    <3>2. CASE ~Act(h)
      BY <2>1, <2>4, <3>2 DEF Execute, Confirm, MarkConfirmed, CheckSwitch, CheckTarget, Store
    <3>3. QED
      BY <3>1, <3>2
  <2>5. ASSUME NEW h \in Handlers, Fail(h) PROVE FALSE
    <3>1. CASE pc[h] = "acting" /\ Touch(h)
      BY <2>0, <3>1, TouchType
    <3>2. CASE ~(pc[h] = "acting" /\ Touch(h))
      BY <2>1, <2>5, <3>2 DEF Fail
    <3>3. QED
      BY <3>1, <3>2
  <2>6. ASSUME NEW d \in Containers, NEW s \in States, Elsewhere(d, s) PROVE FALSE
    BY <2>2, <2>6 DEF Elsewhere
  <2>7. CASE CrashAndRestart
    BY <2>1, <2>7 DEF CrashAndRestart
  <2>8. QED
    BY <2>3, <2>4, <2>5, <2>6, <2>7 DEF Next
<1>2. QED
  BY <1>1, Invariance, PTL DEF Spec, RemovedWasStopped
================================================================================
