----------------------------- MODULE AlertsProofs -----------------------------
(***************************************************************************)
(* Theorems about Alerts, for every number of rules, evaluation slots,     *)
(* changes, failed calls and crashes.                                      *)
(***************************************************************************)
EXTENDS Alerts, FiniteSetTheorems, TLAPS

USE DEF world, notices, counts

-----------------------------------------------------------------------------
(* Building blocks.                                                          *)

LEMMA ConstantFacts ==
    /\ NumRules \in Nat /\ Cooldown \in Nat /\ MaxTime \in Nat
    /\ Rules \subseteq 1..NumRules /\ 0 \in 0..MaxTime /\ None \in Stamps
    /\ \A c \in Copies : c # None
    /\ \A t \in 0..MaxTime : t \in Stamps /\ t # None
<1>1. \A c \in Copies : c \in [id: Nat \ {0}, last: Nat \cup {None}]
  BY AlertsConstants DEF Copies, Stamps
<1>2. \A t \in 0..MaxTime : t \in Nat
  BY AlertsConstants
<1>3. QED
  BY <1>1, <1>2, AlertsConstants DEF Rules, Stamps

\* The locals of an idle slot.
LEMMA BlankType ==
    /\ Blank \in Locals
    /\ \A rows : Fits("idle", Blank, rows) /\ Fits("probing", Blank, rows)
<1>1. Blank \in Locals
  BY ConstantFacts DEF Blank, Locals
<1>2. ASSUME NEW rows, NEW r \in Rules, Blank.found[r] # None PROVE FALSE
  BY <1>2 DEF Blank
<1>3. QED
  BY <1>1, <1>2 DEF Fits, LoopPcs

\* rows2 has every row of rows, of the same rule.
Extends(rows2, rows) ==
    /\ DOMAIN rows \subseteq DOMAIN rows2
    /\ \A id \in DOMAIN rows : rows2[id].rule = rows[id].rule

LEMMA FitsExtends ==
    ASSUME NEW place, NEW l, NEW rows, NEW rows2, Fits(place, l, rows), Extends(rows2, rows)
    PROVE  Fits(place, l, rows2)
BY DEF Fits, Extends

\* One slot moves and the table keeps its rows.
LEMMA GotoType ==
    ASSUME TypeOK, NEW e \in Evaluators, NEW to \in Pcs, NEW l \in Locals, Goto(e, to, l),
           Fits(to, l, events'), Extends(events', events)
    PROVE  /\ pc' \in [Evaluators -> Pcs]
           /\ loc' \in [Evaluators -> Locals]
           /\ \A f \in Evaluators : Fits(pc'[f], loc'[f], events')
<1>1. pc' \in [Evaluators -> Pcs] /\ loc' \in [Evaluators -> Locals]
  BY DEF TypeOK, Goto
<1>2. pc'[e] = to /\ loc'[e] = l
  BY DEF TypeOK, Goto
<1>3. ASSUME NEW f \in Evaluators, f # e
      PROVE  Fits(pc'[f], loc'[f], events')
  <2>1. pc'[f] = pc[f] /\ loc'[f] = loc[f]
    BY <1>3 DEF TypeOK, Goto
  <2>2. Fits(pc[f], loc[f], events)
    BY DEF TypeOK
  <2>3. QED
    BY <2>1, <2>2, FitsExtends
<1>4. QED
  BY <1>1, <1>2, <1>3

\* Locals that move on to a rule.
LEMMA AtRuleType ==
    ASSUME NEW l \in Locals, NEW r \in Rules
    PROVE  LET m == [l EXCEPT !.rule = r, !.sent = FALSE]
           IN  m \in Locals /\ m.rule = r /\ m.rules = l.rules /\ m.found = l.found
<1> DEFINE m1 == [l EXCEPT !.rule = r]
<1>1. r \in 0..NumRules
  BY ConstantFacts
<1>2. m1 \in Locals /\ m1.rule = r /\ m1.rules = l.rules /\ m1.found = l.found
  BY <1>1 DEF Locals
<1> HIDE DEF m1
<1>3. LET m == [m1 EXCEPT !.sent = FALSE]
      IN  m \in Locals /\ m.rule = r /\ m.rules = l.rules /\ m.found = l.found
  BY <1>2 DEF Locals
<1>4. [l EXCEPT !.rule = r, !.sent = FALSE] = [m1 EXCEPT !.sent = FALSE]
  BY DEF m1
<1>5. QED
  BY <1>3, <1>4

\* Where the loop goes: to the end, or to a rule further on.
LEMMA ContinueCases ==
    ASSUME TypeOK, NEW e \in Evaluators, NEW l \in Locals, NEW after \in 0..NumRules,
           Continue(e, l, after)
    PROVE  \/ Finish(e)
           \/ \E r \in Rules, to \in {"resolving", "notifying", "refreshing"} :
                 /\ r \in l.rules /\ after < r
                 /\ to # "notifying" => l.found[r] # None
                 /\ Goto(e, to, [l EXCEPT !.rule = r, !.sent = FALSE])
                 /\ UNCHANGED isRunning
<1>1. CASE Finish(e)
  BY <1>1
<1>2. ASSUME NEW r \in Due(l, after),
             Goto(e, FirstCall(l, r), [l EXCEPT !.rule = r, !.sent = FALSE]),
             UNCHANGED isRunning
      PROVE  \E q \in Rules, to \in {"resolving", "notifying", "refreshing"} :
                 /\ q \in l.rules /\ after < q
                 /\ to # "notifying" => l.found[q] # None
                 /\ Goto(e, to, [l EXCEPT !.rule = q, !.sent = FALSE])
                 /\ UNCHANGED isRunning
  <2>1. r \in l.rules /\ after < r /\ (r \in l.seen \/ l.found[r] # None)
    BY AlertsConstants DEF Due, Locals, Rules
  <2>2. r \in Rules
    BY <2>1 DEF Locals
  <2>3. /\ FirstCall(l, r) \in {"resolving", "notifying", "refreshing"}
        /\ FirstCall(l, r) # "notifying" => l.found[r] # None
    BY <2>1 DEF FirstCall
  <2>4. QED
    BY <1>2, <2>1, <2>2, <2>3
<1>3. QED
  BY <1>1, <1>2 DEF Continue

\* The end of an evaluation keeps the types.
LEMMA FinishType ==
    ASSUME TypeOK, NEW e \in Evaluators, Finish(e), Extends(events', events)
    PROVE  /\ pc' \in [Evaluators -> Pcs]
           /\ loc' \in [Evaluators -> Locals]
           /\ \A f \in Evaluators : Fits(pc'[f], loc'[f], events')
           /\ isRunning' \in BOOLEAN
<1>1. Goto(e, "idle", Blank) /\ isRunning' \in BOOLEAN
  BY DEF Finish
<1>2. "idle" \in Pcs /\ Blank \in Locals /\ Fits("idle", Blank, events')
  BY BlankType DEF Pcs
<1>3. QED
  BY <1>1, <1>2, GotoType

\* So does the loop, with locals that fit the table.
LEMMA ContinueType ==
    ASSUME TypeOK, NEW e \in Evaluators, NEW l \in Locals, NEW after \in 0..NumRules,
           Continue(e, l, after), Fits("loading", l, events'), Extends(events', events)
    PROVE  /\ pc' \in [Evaluators -> Pcs]
           /\ loc' \in [Evaluators -> Locals]
           /\ \A f \in Evaluators : Fits(pc'[f], loc'[f], events')
           /\ isRunning' \in BOOLEAN
<1>1. CASE Finish(e)
  BY <1>1, FinishType
<1>2. ASSUME NEW r \in Rules, NEW to \in {"resolving", "notifying", "refreshing"},
             r \in l.rules, to # "notifying" => l.found[r] # None,
             Goto(e, to, [l EXCEPT !.rule = r, !.sent = FALSE]),
             UNCHANGED isRunning
      PROVE  /\ pc' \in [Evaluators -> Pcs]
             /\ loc' \in [Evaluators -> Locals]
             /\ \A f \in Evaluators : Fits(pc'[f], loc'[f], events')
             /\ isRunning' \in BOOLEAN
  <2> DEFINE m == [l EXCEPT !.rule = r, !.sent = FALSE]
  <2>1. m \in Locals /\ m.rule = r /\ m.rules = l.rules /\ m.found = l.found
    BY AtRuleType
  <2>2. to \in Pcs
    BY DEF Pcs, LoopPcs
  <2> HIDE DEF m
  <2>3. Fits(to, m, events')
    BY <1>2, <2>1 DEF Fits, LoopPcs
  <2>4. Goto(e, to, m)
    BY <1>2 DEF m
  <2>5. isRunning' \in BOOLEAN
    BY <1>2 DEF TypeOK
  <2>6. QED
    BY <2>1, <2>2, <2>3, <2>4, <2>5, GotoType
<1>3. QED
  BY <1>1, <1>2, ContinueCases

-----------------------------------------------------------------------------
(* What a call does to the table.                                            *)

\* The row an evaluation is about to update is in the table.
LEMMA RowIsThere ==
    ASSUME TypeOK, NEW e \in Evaluators,
           pc[e] \in {"resolving", "announcing", "refreshing"}
    PROVE  /\ Row(e) \in DOMAIN events
           /\ loc[e].found[Current(e)] \in Copies
           /\ Current(e) \in Rules
<1>1. loc[e] \in Locals /\ Fits(pc[e], loc[e], events)
  BY DEF TypeOK
<1>2. loc[e].rule \in loc[e].rules
  BY <1>1 DEF Fits, LoopPcs
<1>3. loc[e].rule \in Rules
  BY <1>1, <1>2 DEF Locals
<1>4. loc[e].found[loc[e].rule] # None
  BY <1>1 DEF Fits
<1>5. QED
  BY <1>1, <1>3, <1>4 DEF Fits, Row, Current, Locals

\* A rewritten row.
LEMMA RewriteRow ==
    ASSUME TypeOK, NEW i \in DOMAIN events, NEW row \in Events,
           events' = [events EXCEPT ![i] = row],
           row.rule = events[i].rule, row.by = events[i].by,
           row.status = "OPEN" => events[i].status = "OPEN"
    PROVE  /\ events' \in Seq(Events) /\ DOMAIN events' = DOMAIN events
           /\ \A id \in DOMAIN events :
                /\ events'[id].rule = events[id].rule /\ events'[id].by = events[id].by
                /\ events'[id].status = "OPEN" => events[id].status = "OPEN"
<1>1. events \in Seq(Events)
  BY DEF TypeOK
<1>2. events' \in Seq(Events) /\ DOMAIN events' = DOMAIN events
  BY <1>1
<1>3. \A id \in DOMAIN events : events'[id] = IF id = i THEN row ELSE events[id]
  BY <1>1
<1>4. QED
  BY <1>2, <1>3

\* A call that creates nothing keeps the rows: their rules, their authors, and the
\* resolved ones resolved.
LEMMA EffectKeeps ==
    ASSUME TypeOK, NEW e \in Evaluators, Effect(e) \/ UNCHANGED <<events, notices>>,
           pc[e] # "creating" \/ UNCHANGED <<events, notices>>
    PROVE  /\ events' \in Seq(Events) /\ DOMAIN events' = DOMAIN events
           /\ \A id \in DOMAIN events :
                /\ events'[id].rule = events[id].rule /\ events'[id].by = events[id].by
                /\ events'[id].status = "OPEN" => events[id].status = "OPEN"
<1>1. CASE UNCHANGED <<events, notices>>
  BY <1>1 DEF TypeOK
<1>2. CASE pc[e] = "notifying" /\ Effect(e)
  <2>1. UNCHANGED events
    BY <1>2 DEF Effect
  <2>2. QED
    BY <2>1 DEF TypeOK
<1>3. CASE pc[e] = "refreshing" /\ Effect(e)
  <2> DEFINE s == IF loc[e].sent THEN loc[e].at ELSE loc[e].found[Current(e)].last
  <2>1. Row(e) \in DOMAIN events /\ s \in Stamps
    BY <1>3, RowIsThere, ConstantFacts DEF TypeOK, Locals, Copies
  <2>2. events' = [events EXCEPT ![Row(e)].last = s]
    BY <1>3 DEF Effect, UpdateEvent
  <2> HIDE DEF s
  <2> DEFINE row == [events[Row(e)] EXCEPT !.last = s]
  <2>3. events[Row(e)] \in Events
    BY <2>1 DEF TypeOK
  <2>4. /\ row \in Events
        /\ row.rule = events[Row(e)].rule /\ row.by = events[Row(e)].by
        /\ row.status = "OPEN" => events[Row(e)].status = "OPEN"
    BY <2>1, <2>3 DEF Events
  <2>5. events' = [events EXCEPT ![Row(e)] = row]
    BY <2>2
  <2> HIDE DEF row
  <2>6. QED
    BY <2>1, <2>4, <2>5, RewriteRow
<1>4. CASE pc[e] = "resolving" /\ Effect(e)
  <2>1. Row(e) \in DOMAIN events
    BY <1>4, RowIsThere
  <2>2. events' = [events EXCEPT ![Row(e)].status = "RESOLVED"]
    BY <1>4 DEF Effect, ResolveEvent
  <2> DEFINE row == [events[Row(e)] EXCEPT !.status = "RESOLVED"]
  <2>3. events[Row(e)] \in Events
    BY <2>1 DEF TypeOK
  <2>4. /\ row \in Events
        /\ row.rule = events[Row(e)].rule /\ row.by = events[Row(e)].by
        /\ row.status = "OPEN" => events[Row(e)].status = "OPEN"
    BY <2>1, <2>3 DEF Events
  <2>5. events' = [events EXCEPT ![Row(e)] = row]
    BY <2>2
  <2> HIDE DEF row
  <2>6. QED
    BY <2>1, <2>4, <2>5, RewriteRow
<1>5. CASE pc[e] = "announcing" /\ Effect(e)
  <2>1. Row(e) \in DOMAIN events
    BY <1>5, RowIsThere
  <2>2. events' = [events EXCEPT ![Row(e)].told = @ + 1]
    BY <1>5 DEF Effect, TellRecovery
  <2> DEFINE row == [events[Row(e)] EXCEPT !.told = events[Row(e)].told + 1]
  <2>3. events[Row(e)] \in Events
    BY <2>1 DEF TypeOK
  <2>4. /\ row \in Events
        /\ row.rule = events[Row(e)].rule /\ row.by = events[Row(e)].by
        /\ row.status = "OPEN" => events[Row(e)].status = "OPEN"
    BY <2>1, <2>3 DEF Events
  <2>5. events' = [events EXCEPT ![Row(e)] = row]
    BY <2>2
  <2> HIDE DEF row
  <2>6. QED
    BY <2>1, <2>4, <2>5, RewriteRow
<1>6. CASE /\ pc[e] \notin {"notifying", "creating", "refreshing", "resolving", "announcing"}
           /\ Effect(e)
  <2>1. UNCHANGED events
    BY <1>6 DEF Effect
  <2>2. QED
    BY <2>1 DEF TypeOK
<1>7. QED
  BY <1>1, <1>2, <1>3, <1>4, <1>5, <1>6

\* An insertion adds one open event of the current rule, by the slot that inserts it.
LEMMA EffectCreates ==
    ASSUME TypeOK, NEW e \in Evaluators, pc[e] = "creating", Effect(e)
    PROVE  /\ events' \in Seq(Events)
           /\ DOMAIN events' = DOMAIN events \cup {Len(events) + 1}
           /\ Len(events) + 1 \notin DOMAIN events
           /\ \A id \in DOMAIN events : events'[id] = events[id]
           /\ events'[Len(events) + 1].rule = Current(e)
           /\ events'[Len(events) + 1].by = e
           /\ events'[Len(events) + 1].status = "OPEN"
<1> DEFINE row == [rule |-> Current(e), status |-> "OPEN", by |-> e, told |-> 0,
                   last |-> IF loc[e].sent THEN loc[e].at ELSE None]
<1>1. loc[e] \in Locals /\ loc[e].rule \in loc[e].rules
  BY DEF TypeOK, Fits, LoopPcs
<1>2. Current(e) \in Rules /\ loc[e].at \in Stamps /\ None \in Stamps
  BY <1>1, ConstantFacts DEF Locals, Current
<1>3. row \in Events
  BY <1>2 DEF Events
<1>4. events' = Append(events, row)
  BY DEF Effect, InsertEvent
<1>5. row.rule = Current(e) /\ row.by = e /\ row.status = "OPEN"
  OBVIOUS
<1> HIDE DEF row
<1>6. QED
  BY <1>3, <1>4, <1>5 DEF TypeOK

\* The types of what a call changes.
LEMMA EffectType ==
    ASSUME TypeOK, NEW e \in Evaluators, Effect(e) \/ UNCHANGED <<events, notices>>
    PROVE  /\ events' \in Seq(Events) /\ Extends(events', events)
           /\ notified' \in [Rules -> Stamps] /\ early' \in Nat
<1>1. events' \in Seq(Events) /\ Extends(events', events)
  <2>1. CASE pc[e] # "creating" \/ UNCHANGED <<events, notices>>
    BY <2>1, EffectKeeps DEF Extends
  <2>2. CASE pc[e] = "creating" /\ Effect(e)
    BY <2>2, EffectCreates DEF Extends
  <2>3. QED
    BY <2>1, <2>2
<1>2. notified' \in [Rules -> Stamps] /\ early' \in Nat
  <2>1. CASE pc[e] = "notifying" /\ chat /\ Effect(e)
    <3>1. loc[e].at \in Stamps
      BY ConstantFacts DEF TypeOK, Locals
    <3>2. Notice(e)
      BY <2>1 DEF Effect
    <3>3. notified' \in [Rules -> Stamps]
      BY <3>1, <3>2 DEF Notice, TypeOK
    <3>4. early' = early + 1 \/ early' = early
      BY <3>2 DEF Notice
    <3>5. QED
      BY <3>3, <3>4 DEF TypeOK
  <2>2. CASE pc[e] = "resolving" /\ Effect(e)
    BY <2>2, ConstantFacts DEF Effect, ResolveEvent, TypeOK
  <2>3. CASE ~(pc[e] = "notifying" /\ chat) /\ pc[e] # "resolving" /\ Effect(e)
    BY <2>3 DEF Effect, InsertEvent, UpdateEvent, TellRecovery, TypeOK
  <2>4. CASE UNCHANGED <<events, notices>>
    BY <2>4 DEF TypeOK
  <2>5. QED
    BY <2>1, <2>2, <2>3, <2>4
<1>3. QED
  BY <1>1, <1>2

LEMMA ExtendsSame == ASSUME UNCHANGED events PROVE Extends(events', events)
BY DEF Extends

-----------------------------------------------------------------------------
(* Type correctness.                                                         *)

LEMMA InitTypeOK == Init => TypeOK
<1> SUFFICES ASSUME Init PROVE TypeOK
  OBVIOUS
<1>1. \A e \in Evaluators : Fits(pc[e], loc[e], events)
  BY BlankType DEF Init
<1>2. pc \in [Evaluators -> Pcs] /\ loc \in [Evaluators -> Locals]
  BY BlankType DEF Init, Pcs
<1>3. now \in 0..MaxTime /\ notified \in [Rules -> Stamps] /\ events \in Seq(Events)
  BY ConstantFacts DEF Init
<1>4. changes \in 0..MaxChanges /\ faults \in 0..MaxFaults /\ crashes \in 0..MaxCrashes
  BY AlertsConstants DEF Init
<1>5. chat \in BOOLEAN /\ isRunning \in BOOLEAN
  BY DEF Init
<1>6. firing \subseteq Rules /\ enabled \subseteq Rules /\ early \in Nat
  BY DEF Init
<1>7. QED
  BY <1>1, <1>2, <1>3, <1>4, <1>5, <1>6 DEF TypeOK

\* What FindOpen keeps of the rows it found.
LEMMA FoundType ==
    ASSUME TypeOK, NEW e \in Evaluators, NEW pick \in [Rules -> 0..Len(events)],
           \A r \in Rules : IF Matching(loc[e], r) # {}
                              THEN pick[r] \in Matching(loc[e], r) ELSE pick[r] = 0
    PROVE  LET copy == [r \in Rules |-> IF pick[r] = 0 THEN None
                            ELSE [id |-> pick[r], last |-> events[pick[r]].last]]
               l == [loc[e] EXCEPT !.found = copy, !.at = now]
           IN  /\ l \in Locals /\ Fits("loading", l, events)
               /\ l.found = copy /\ l.rules = loc[e].rules
               /\ \A r \in Rules : copy[r] = None => Matching(loc[e], r) = {}
<1> DEFINE copy == [r \in Rules |-> IF pick[r] = 0 THEN None
                         ELSE [id |-> pick[r], last |-> events[pick[r]].last]]
           l1 == [loc[e] EXCEPT !.found = copy]
<1>1. ASSUME NEW r \in Rules, pick[r] # 0
      PROVE  /\ pick[r] \in DOMAIN events /\ events[pick[r]].rule = r
             /\ copy[r] \in Copies /\ copy[r] # None /\ copy[r].id = pick[r]
  <2>1. pick[r] \in Matching(loc[e], r)
    BY <1>1
  <2>2. pick[r] \in DOMAIN events /\ events[pick[r]].rule = r
    BY <2>1 DEF Matching, OpenEvents
  <2>3. events[pick[r]].last \in Stamps /\ pick[r] \in Nat \ {0}
    <3>1. events \in Seq(Events) /\ pick[r] \in 0..Len(events)
      BY DEF TypeOK
    <3>2. events[pick[r]] \in Events
      BY <2>2, <3>1
    <3>3. QED
      BY <1>1, <3>1, <3>2 DEF Events
  <2>4. [id |-> pick[r], last |-> events[pick[r]].last] \in Copies
    BY <2>3 DEF Copies
  <2>5. QED
    BY <1>1, <2>2, <2>4, ConstantFacts
<1>2. ASSUME NEW r \in Rules, pick[r] = 0
      PROVE  copy[r] = None /\ Matching(loc[e], r) = {}
  <2>1. 0 \notin Matching(loc[e], r)
    BY DEF Matching, OpenEvents, TypeOK
  <2>2. QED
    BY <1>2, <2>1
<1>3. copy \in [Rules -> Copies \cup {None}]
  BY <1>1, <1>2
<1> HIDE DEF copy
<1>4. loc[e] \in Locals /\ now \in 0..MaxTime
  BY DEF TypeOK
<1>5. l1 \in Locals /\ l1.found = copy /\ l1.rules = loc[e].rules
  BY <1>3, <1>4 DEF Locals
<1> HIDE DEF l1
<1>6. LET l == [l1 EXCEPT !.at = now]
      IN  l \in Locals /\ l.found = copy /\ l.rules = loc[e].rules
  BY <1>4, <1>5 DEF Locals
<1>7. [loc[e] EXCEPT !.found = copy, !.at = now] = [l1 EXCEPT !.at = now]
  BY DEF l1
<1> DEFINE l == [loc[e] EXCEPT !.found = copy, !.at = now]
<1>8. l \in Locals /\ l.found = copy /\ l.rules = loc[e].rules
  BY <1>6, <1>7
<1> HIDE DEF l
<1>9. Fits("loading", l, events)
  BY <1>1, <1>2, <1>8 DEF Fits, LoopPcs
<1>10. \A r \in Rules : copy[r] = None => Matching(loc[e], r) = {}
  BY <1>1, <1>2
<1>11. QED
  BY <1>8, <1>9, <1>10 DEF l, copy

\* One step of one evaluation.
LEMMA AdvanceType ==
    ASSUME TypeOK, NEW e \in Evaluators, Start(e) \/ Advance(e)
    PROVE  TypeOK'
<1> DEFINE FlowOK == /\ pc' \in [Evaluators -> Pcs] /\ loc' \in [Evaluators -> Locals]
                     /\ \A f \in Evaluators : Fits(pc'[f], loc'[f], events')
                     /\ isRunning' \in BOOLEAN
           TableOK == /\ events' \in Seq(Events)
                      /\ notified' \in [Rules -> Stamps] /\ early' \in Nat
           RestOK == /\ now' \in 0..MaxTime /\ firing' \subseteq Rules /\ enabled' \subseteq Rules
                     /\ chat' \in BOOLEAN /\ changes' \in 0..MaxChanges
                     /\ faults' \in 0..MaxFaults /\ crashes' \in 0..MaxCrashes
<1>0. loc[e] \in Locals /\ Fits(pc[e], loc[e], events)
  BY DEF TypeOK
<1>1. ASSUME UNCHANGED <<now, chat, world, counts>> PROVE RestOK
  BY <1>1 DEF TypeOK
<1>2. ASSUME UNCHANGED <<events, notices>> PROVE TableOK /\ Extends(events', events)
  BY <1>2, ExtendsSame DEF TypeOK
<1>3. CASE Start(e)
  <2>1. Goto(e, "probing", Blank) /\ "probing" \in Pcs
    BY <1>3 DEF Start, Pcs
  <2>2. UNCHANGED <<now, chat, events, world, notices, counts>> /\ isRunning' \in BOOLEAN
    BY <1>3 DEF Start
  <2>3. FlowOK
    BY <1>2, <2>1, <2>2, BlankType, GotoType
  <2>4. QED
    BY <1>1, <1>2, <2>2, <2>3 DEF TypeOK
<1>4. CASE Probe(e)
  <2> DEFINE l == [loc[e] EXCEPT !.seen = firing]
  <2>1. Goto(e, "loading", l) /\ "loading" \in Pcs
    BY <1>4 DEF Probe, Pcs
  <2>2. UNCHANGED <<now, chat, events, isRunning, world, notices, counts>>
    BY <1>4 DEF Probe
  <2>3. l \in Locals /\ l.found = loc[e].found
    BY <1>0 DEF Locals, TypeOK
  <2> HIDE DEF l
  <2>4. Fits("loading", l, events')
    BY <1>0, <2>2, <2>3 DEF Fits, LoopPcs
  <2>5. FlowOK
    BY <1>2, <2>1, <2>2, <2>3, <2>4, GotoType DEF TypeOK
  <2>6. QED
    BY <1>1, <1>2, <2>2, <2>5 DEF TypeOK
<1>5. CASE LoadRules(e)
  <2> DEFINE l == [loc[e] EXCEPT !.rules = enabled]
  <2>1. Goto(e, "finding", l) /\ "finding" \in Pcs
    BY <1>5 DEF LoadRules, Pcs
  <2>2. UNCHANGED <<now, chat, events, isRunning, world, notices, counts>>
    BY <1>5 DEF LoadRules
  <2>3. l \in Locals /\ l.found = loc[e].found
    BY <1>0 DEF Locals, TypeOK
  <2> HIDE DEF l
  <2>4. Fits("finding", l, events')
    BY <1>0, <2>2, <2>3 DEF Fits, LoopPcs
  <2>5. FlowOK
    BY <1>2, <2>1, <2>2, <2>3, <2>4, GotoType DEF TypeOK
  <2>6. QED
    BY <1>1, <1>2, <2>2, <2>5 DEF TypeOK
<1>6. CASE FindOpen(e)
  <2>1. UNCHANGED <<now, chat, events, world, notices, counts>>
    BY <1>6 DEF FindOpen
  <2>2. PICK l \in Locals : Fits("loading", l, events) /\ Continue(e, l, 0)
    BY <1>6, FoundType DEF FindOpen
  <2>3. FlowOK
    BY <1>2, <2>1, <2>2, ConstantFacts, ContinueType
  <2>4. QED
    BY <1>1, <1>2, <2>1, <2>3 DEF TypeOK
<1>7. CASE NotifyOpen(e)
  <2> DEFINE to == IF loc[e].found[Current(e)] = None THEN "creating" ELSE "refreshing"
             l == [loc[e] EXCEPT !.sent = chat]
  <2>1. /\ pc[e] = "notifying" /\ Effect(e) /\ Goto(e, to, l)
        /\ UNCHANGED <<now, chat, isRunning, world, counts>>
    BY <1>7 DEF NotifyOpen
  <2>2. to \in Pcs /\ (to = "refreshing" => loc[e].found[Current(e)] # None)
        /\ to \in {"creating", "refreshing"}
    BY DEF Pcs, LoopPcs
  <2>3. /\ l \in Locals /\ l.found = loc[e].found /\ l.rule = loc[e].rule
        /\ l.rules = loc[e].rules
    BY <1>0 DEF Locals, TypeOK
  <2> HIDE DEF l, to
  <2>4. TableOK /\ Extends(events', events)
    BY <2>1, EffectType
  <2>5. Fits(to, l, events)
    BY <1>0, <2>1, <2>2, <2>3 DEF Fits, LoopPcs, Current
  <2>6. Fits(to, l, events')
    BY <2>4, <2>5, FitsExtends
  <2>7. FlowOK
    BY <2>1, <2>2, <2>3, <2>4, <2>6, GotoType DEF TypeOK
  <2>8. QED
    BY <1>1, <2>1, <2>4, <2>7 DEF TypeOK
<1>8. CASE StoreOpen(e) \/ NotifyResolved(e)
  <2>1. /\ pc[e] \in LoopPcs /\ Effect(e) /\ Continue(e, loc[e], Current(e))
        /\ UNCHANGED <<now, chat, world, counts>>
    BY <1>8 DEF StoreOpen, NotifyResolved, LoopPcs
  <2>2. TableOK /\ Extends(events', events)
    BY <2>1, EffectType
  <2>3. Fits("loading", loc[e], events')
    <3>1. Fits(pc[e], loc[e], events')
      BY <1>0, <2>2, FitsExtends
    <3>2. QED
      BY <3>1 DEF Fits, LoopPcs
  <2>4. Current(e) \in 0..NumRules
    BY <1>0 DEF Locals, Current
  <2>5. FlowOK
    BY <1>0, <2>1, <2>2, <2>3, <2>4, ContinueType
  <2>6. QED
    BY <1>1, <2>1, <2>2, <2>5 DEF TypeOK
<1>9. CASE Resolve(e)
  <2>1. /\ pc[e] = "resolving" /\ Effect(e) /\ Goto(e, "announcing", loc[e])
        /\ UNCHANGED <<now, chat, isRunning, world, counts>>
    BY <1>9 DEF Resolve
  <2>2. TableOK /\ Extends(events', events)
    BY <2>1, EffectType
  <2>3. "announcing" \in Pcs /\ Fits("announcing", loc[e], events)
    BY <1>0, <2>1 DEF Fits, LoopPcs, Pcs
  <2>4. Fits("announcing", loc[e], events')
    BY <2>2, <2>3, FitsExtends
  <2>5. FlowOK
    BY <1>0, <2>1, <2>2, <2>3, <2>4, GotoType DEF TypeOK
  <2>6. QED
    BY <1>1, <2>1, <2>2, <2>5 DEF TypeOK
<1>10. CASE Throw(e)
  <2>1. /\ Effect(e) \/ UNCHANGED <<events, notices>>
        /\ Finish(e) /\ UNCHANGED <<now, chat, world, crashes>>
    BY <1>10 DEF Throw
  <2>2. TableOK /\ Extends(events', events)
    BY <2>1, EffectType
  <2>3. FlowOK
    BY <2>1, <2>2, FinishType
  <2>4. faults' \in 0..MaxFaults
    BY <1>10, AlertsConstants DEF Throw, TypeOK
  <2>5. RestOK
    BY <2>1, <2>4 DEF TypeOK
  <2>6. QED
    BY <2>2, <2>3, <2>5 DEF TypeOK
<1>11. QED
  BY <1>3, <1>4, <1>5, <1>6, <1>7, <1>8, <1>9, <1>10 DEF Advance

LEMMA NextTypeOK == TypeOK /\ [Next]_vars => TypeOK'
<1> SUFFICES ASSUME TypeOK, [Next]_vars PROVE TypeOK'
  OBVIOUS
<1>1. ASSUME NEW e \in Evaluators, Start(e) \/ Advance(e) PROVE TypeOK'
  BY <1>1, AdvanceType
<1>2. CASE CrashAndRestart
  <2>1. crashes' \in 0..MaxCrashes
    BY <1>2, AlertsConstants DEF CrashAndRestart, TypeOK
  <2>2. pc' \in [Evaluators -> Pcs] /\ loc' \in [Evaluators -> Locals]
    BY <1>2, BlankType DEF CrashAndRestart, Pcs
  <2>3. \A e \in Evaluators : Fits(pc'[e], loc'[e], events')
    BY <1>2, BlankType DEF CrashAndRestart
  <2>4. QED
    BY <1>2, <2>1, <2>2, <2>3 DEF CrashAndRestart, TypeOK
<1>3. CASE Tick
  <2>1. now' \in 0..MaxTime
    BY <1>3, AlertsConstants DEF Tick, TypeOK
  <2>2. QED
    BY <1>3, <2>1 DEF Tick, TypeOK
<1>4. ASSUME NEW r \in Rules, TargetChanges(r) \/ RuleChanges(r) PROVE TypeOK'
  <2>1. changes' \in 0..MaxChanges
    BY <1>4, AlertsConstants DEF TargetChanges, RuleChanges, TypeOK
  <2>2. QED
    BY <1>4, <2>1 DEF TargetChanges, RuleChanges, TypeOK
<1>5. CASE UNCHANGED vars
  BY <1>5 DEF vars, TypeOK
<1>6. QED
  BY <1>1, <1>2, <1>3, <1>4, <1>5 DEF Next

\* Every variable of the alert evaluation stays in its type, and an evaluation's locals
\* fit the place it is suspended at (evaluateTargets, runOnce).
THEOREM TypeCorrect == Spec => []TypeOK
BY InitTypeOK, NextTypeOK, PTL DEF Spec

-----------------------------------------------------------------------------
(* The runner.                                                               *)

\* A step of an evaluation moves one slot, and clears the flag when a runner's ends.
LEMMA OneSlotMoves ==
    ASSUME TypeOK, NEW e \in Evaluators, Advance(e)
    PROVE  /\ pc[e] # "idle"
           /\ \A f \in Evaluators : f # e => pc'[f] = pc[f] /\ loc'[f] = loc[f]
           /\ \/ pc'[e] = "idle" /\ (isRunning' <=> isRunning /\ e \notin Runners)
              \/ pc'[e] # "idle" /\ (isRunning' <=> isRunning)
<1> DEFINE Moves == /\ \A f \in Evaluators : f # e => pc'[f] = pc[f] /\ loc'[f] = loc[f]
                    /\ \/ pc'[e] = "idle" /\ (isRunning' <=> isRunning /\ e \notin Runners)
                       \/ pc'[e] # "idle" /\ (isRunning' <=> isRunning)
<1>0. pc \in [Evaluators -> Pcs] /\ loc \in [Evaluators -> Locals]
  BY DEF TypeOK
<1>1. ASSUME NEW to, NEW l, Goto(e, to, l), to # "idle", UNCHANGED isRunning
      PROVE  Moves
  BY <1>0, <1>1 DEF Goto
<1>2. ASSUME Finish(e) PROVE Moves
  BY <1>0, <1>2 DEF Goto, Finish
<1>3. ASSUME NEW l, NEW after, Continue(e, l, after) PROVE Moves
  <2>1. CASE Finish(e)
    BY <2>1, <1>2
  <2>2. ASSUME NEW r, Goto(e, FirstCall(l, r), [l EXCEPT !.rule = r, !.sent = FALSE]),
               UNCHANGED isRunning
        PROVE  Moves
    <3>1. FirstCall(l, r) # "idle"
      BY DEF FirstCall
    <3>2. QED
      BY <1>1, <2>2, <3>1
  <2>3. QED
    BY <1>3, <2>1, <2>2 DEF Continue
<1>4. CASE Probe(e) \/ LoadRules(e)
  BY <1>4, <1>1 DEF Probe, LoadRules
<1>5. CASE FindOpen(e)
  BY <1>5, <1>3 DEF FindOpen
<1>6. CASE NotifyOpen(e)
  BY <1>6, <1>1 DEF NotifyOpen
<1>7. CASE StoreOpen(e)
  BY <1>7, <1>3 DEF StoreOpen
<1>8. CASE NotifyResolved(e)
  BY <1>8, <1>3 DEF NotifyResolved
<1>9. CASE Resolve(e)
  BY <1>9, <1>1 DEF Resolve
<1>10. CASE Throw(e)
  BY <1>10, <1>2 DEF Throw
<1>11. QED
  BY <1>4, <1>5, <1>6, <1>7, <1>8, <1>9, <1>10 DEF Advance

LEMMA StepTakesTurns ==
    TypeOK /\ RunnersTakeTurns /\ [Next]_vars => RunnersTakeTurns'
<1> SUFFICES ASSUME TypeOK, RunnersTakeTurns, [Next]_vars PROVE RunnersTakeTurns'
  OBVIOUS
<1>0. Runners \subseteq Evaluators
  BY DEF Evaluators
<1>1. ASSUME NEW e \in Evaluators, Start(e) PROVE RunnersTakeTurns'
  <2>1. /\ pc' = [pc EXCEPT ![e] = "probing"]
        /\ isRunning' = (isRunning \/ e \in Runners)
        /\ e \in Runners => ~isRunning
    BY <1>1 DEF Start, Goto
  <2>2. pc'[e] = "probing" /\ \A f \in Evaluators : f # e => pc'[f] = pc[f]
    BY <2>1 DEF TypeOK
  <2>3. CASE e \in Runners
    <3>1. \A f \in Runners : pc[f] = "idle"
      BY <2>1, <2>3 DEF RunnersTakeTurns
    <3>2. \A f \in Runners : pc'[f] # "idle" => f = e
      BY <1>0, <2>2, <3>1
    <3>3. pc'[e] # "idle" /\ isRunning'
      BY <2>1, <2>2, <2>3
    <3>4. QED
      BY <2>3, <3>2, <3>3 DEF RunnersTakeTurns
  <2>4. CASE e \notin Runners
    <3>1. \A f \in Runners : pc'[f] = pc[f]
      BY <1>0, <2>2, <2>4
    <3>2. isRunning' <=> isRunning
      BY <2>1, <2>4
    <3>3. QED
      BY <3>1, <3>2 DEF RunnersTakeTurns
  <2>5. QED
    BY <2>3, <2>4
<1>2. ASSUME NEW e \in Evaluators, Advance(e) PROVE RunnersTakeTurns'
  <2>1. /\ pc[e] # "idle"
        /\ \A f \in Evaluators : f # e => pc'[f] = pc[f]
        /\ \/ pc'[e] = "idle" /\ (isRunning' <=> isRunning /\ e \notin Runners)
           \/ pc'[e] # "idle" /\ (isRunning' <=> isRunning)
    BY <1>2, OneSlotMoves
  <2>2. CASE e \notin Runners
    <3>1. \A f \in Runners : pc'[f] = pc[f]
      BY <1>0, <2>1, <2>2
    <3>2. isRunning' <=> isRunning
      BY <2>1, <2>2
    <3>3. QED
      BY <3>1, <3>2 DEF RunnersTakeTurns
  <2>3. CASE e \in Runners /\ pc'[e] = "idle"
    <3>1. \A f \in Runners : f # e => pc[f] = "idle"
      BY <2>1, <2>3 DEF RunnersTakeTurns
    <3>2. \A f \in Runners : pc'[f] = "idle"
      BY <1>0, <2>1, <2>3, <3>1
    <3>3. ~isRunning'
      BY <2>1, <2>3
    <3>4. QED
      BY <3>2, <3>3 DEF RunnersTakeTurns
  <2>4. CASE e \in Runners /\ pc'[e] # "idle"
    <3>1. \A f \in Runners : pc'[f] # "idle" <=> pc[f] # "idle"
      BY <1>0, <2>1, <2>4
    <3>2. isRunning' <=> isRunning
      BY <2>1, <2>4
    <3>3. QED
      BY <3>1, <3>2 DEF RunnersTakeTurns
  <2>5. QED
    BY <2>2, <2>3, <2>4
<1>3. CASE CrashAndRestart
  <2>1. ~isRunning' /\ \A f \in Runners : pc'[f] = "idle"
    BY <1>0, <1>3 DEF CrashAndRestart
  <2>2. QED
    BY <2>1 DEF RunnersTakeTurns
<1>4. CASE UNCHANGED <<pc, isRunning>>
  BY <1>4 DEF RunnersTakeTurns
<1>5. QED
  BY <1>1, <1>2, <1>3, <1>4 DEF Next, vars, Tick, TargetChanges, RuleChanges

\* The runner never overlaps itself, and its flag is up exactly while it works, for any
\* failures and crashes (the flag and the finally clause of runOnce).
THEOREM TurnsAreTaken == Spec => []RunnersTakeTurns
<1>1. Init => RunnersTakeTurns
  BY DEF Init, RunnersTakeTurns, Evaluators
<1>2. QED
  BY <1>1, StepTakesTurns, TypeCorrect, PTL DEF Spec

-----------------------------------------------------------------------------
(* One open event per slot.                                                  *)

\* Slot e has an open event of rule r in a table.
Holds(rows, e, r) ==
    \E id \in DOMAIN rows : rows[id].rule = r /\ rows[id].status = "OPEN" /\ rows[id].by = e

\* OpensAreFresh for one slot, its place, its locals and a table.
Fresh(e, place, l, rows) ==
    place \in LoopPcs =>
        /\ place = "creating" => l.found[l.rule] = None
        /\ \A r \in l.rules : l.found[r] = None /\ l.rule <= r => ~Holds(rows, e, r)

LEMMA FreshIsOpensAreFresh ==
    OpensAreFresh <=> \A e \in Evaluators : Fresh(e, pc[e], loc[e], events)
BY DEF OpensAreFresh, Fresh, Holds, OpenEvents, Current

\* No slot gets hold of an event unless it is creating one.
LEMMA HoldsKept ==
    ASSUME TypeOK, NEW e \in Evaluators, Effect(e) \/ UNCHANGED <<events, notices>>,
           NEW f \in Evaluators, NEW r,
           ~Holds(events, f, r), f # e \/ pc[e] # "creating" \/ r # Current(e)
    PROVE  ~Holds(events', f, r)
<1>1. CASE pc[e] # "creating" \/ UNCHANGED <<events, notices>>
  BY <1>1, EffectKeeps DEF Holds
<1>2. CASE pc[e] = "creating" /\ Effect(e)
  BY <1>2, EffectCreates DEF Holds
<1>3. QED
  BY <1>1, <1>2

\* The other slots stay fresh.
LEMMA OthersFresh ==
    ASSUME TypeOK, OpensAreFresh, NEW e \in Evaluators,
           Effect(e) \/ UNCHANGED <<events, notices>>,
           NEW f \in Evaluators, f # e, pc'[f] = pc[f], loc'[f] = loc[f]
    PROVE  Fresh(f, pc'[f], loc'[f], events')
<1>1. Fresh(f, pc[f], loc[f], events)
  BY FreshIsOpensAreFresh
<1>2. \A r : ~Holds(events, f, r) => ~Holds(events', f, r)
  BY HoldsKept
<1>3. QED
  BY <1>1, <1>2 DEF Fresh

\* The slot that goes on in its loop is fresh if it holds none of the rules ahead.
LEMMA ContinueFresh ==
    ASSUME TypeOK, NEW e \in Evaluators, NEW l \in Locals, NEW after \in 0..NumRules,
           Continue(e, l, after),
           \A r \in l.rules : l.found[r] = None /\ after < r => ~Holds(events', e, r)
    PROVE  Fresh(e, pc'[e], loc'[e], events')
<1>1. CASE Finish(e)
  <2>1. pc'[e] = "idle"
    BY <1>1 DEF Finish, Goto, TypeOK
  <2>2. QED
    BY <2>1 DEF Fresh, LoopPcs
<1>2. ASSUME NEW r \in Rules, NEW to \in {"resolving", "notifying", "refreshing"},
             after < r, Goto(e, to, [l EXCEPT !.rule = r, !.sent = FALSE])
      PROVE  Fresh(e, pc'[e], loc'[e], events')
  <2> DEFINE m == [l EXCEPT !.rule = r, !.sent = FALSE]
  <2>1. m \in Locals /\ m.rule = r /\ m.rules = l.rules /\ m.found = l.found
    BY AtRuleType
  <2> HIDE DEF m
  <2>2. pc'[e] = to /\ loc'[e] = m
    BY <1>2 DEF Goto, TypeOK, m
  <2>3. \A q \in l.rules : r <= q => after < q
    BY <1>2, ConstantFacts DEF Locals
  <2>4. QED
    BY <2>1, <2>2, <2>3 DEF Fresh
<1>3. QED
  BY <1>1, <1>2, ContinueCases

\* What the current rule of a slot in the loop is worth.
LEMMA CurrentRule ==
    ASSUME TypeOK, NEW e \in Evaluators, pc[e] \in LoopPcs
    PROVE  /\ loc[e] \in Locals /\ Current(e) \in loc[e].rules
           /\ Current(e) \in Rules /\ Current(e) \in 0..NumRules
           /\ \A r \in loc[e].rules : Current(e) < r => Current(e) <= r /\ r # Current(e)
<1>1. loc[e] \in Locals /\ Fits(pc[e], loc[e], events)
  BY DEF TypeOK
<1>2. Current(e) \in loc[e].rules
  BY <1>1 DEF Fits, Current
<1>3. Current(e) \in Rules /\ loc[e].rules \subseteq Rules
  BY <1>1, <1>2 DEF Locals
<1>4. Current(e) \in 1..NumRules /\ \A r \in loc[e].rules : r \in 1..NumRules
  BY <1>3, ConstantFacts
<1>5. Current(e) \in 0..NumRules
  BY <1>4, ConstantFacts
<1>6. \A r \in loc[e].rules : Current(e) < r => Current(e) <= r /\ r # Current(e)
  BY <1>4, ConstantFacts
<1>7. QED
  BY <1>1, <1>2, <1>3, <1>5, <1>6

LEMMA StepFresh ==
    ASSUME TypeOK, OpensAreFresh, NEW e \in Evaluators, Start(e) \/ Advance(e)
    PROVE  Fresh(e, pc'[e], loc'[e], events')
<1>0. /\ pc \in [Evaluators -> Pcs] /\ loc \in [Evaluators -> Locals]
      /\ loc[e] \in Locals /\ Fits(pc[e], loc[e], events)
      /\ Fresh(e, pc[e], loc[e], events)
  BY FreshIsOpensAreFresh DEF TypeOK
<1>1. CASE Start(e) \/ Probe(e) \/ LoadRules(e) \/ Throw(e)
  <2>1. pc'[e] \in {"probing", "loading", "finding", "idle"}
    BY <1>0, <1>1 DEF Start, Probe, LoadRules, Throw, Finish, Goto
  <2>2. QED
    BY <2>1 DEF Fresh, LoopPcs
<1>2. CASE FindOpen(e)
  <2>1. UNCHANGED events
    BY <1>2 DEF FindOpen
  <2>2. PICK l \in Locals : /\ Continue(e, l, 0)
                            /\ \A r \in l.rules : /\ r \in loc[e].rules
                                                  /\ l.found[r] = None => Matching(loc[e], r) = {}
    <3>1. PICK pick \in [Rules -> 0..Len(events)] :
            /\ \A r \in Rules : IF Matching(loc[e], r) # {}
                                 THEN pick[r] \in Matching(loc[e], r) ELSE pick[r] = 0
            /\ LET copy == [r \in Rules |-> IF pick[r] = 0 THEN None
                                ELSE [id |-> pick[r], last |-> events[pick[r]].last]]
               IN  Continue(e, [loc[e] EXCEPT !.found = copy, !.at = now], 0)
      BY <1>2 DEF FindOpen
    <3> DEFINE copy == [r \in Rules |-> IF pick[r] = 0 THEN None
                                ELSE [id |-> pick[r], last |-> events[pick[r]].last]]
               l == [loc[e] EXCEPT !.found = copy, !.at = now]
    <3>2. /\ l \in Locals /\ l.found = copy /\ l.rules = loc[e].rules
          /\ \A r \in Rules : copy[r] = None => Matching(loc[e], r) = {}
      BY <3>1, FoundType
    <3>3. Continue(e, l, 0)
      BY <3>1
    <3> HIDE DEF l, copy
    <3>4. \A r \in l.rules : r \in Rules
      BY <3>2 DEF Locals
    <3>5. QED
      BY <3>2, <3>3, <3>4
  <2>3. \A r \in l.rules : l.found[r] = None => ~Holds(events', e, r)
    <3>1. ASSUME NEW r \in l.rules, l.found[r] = None, NEW id \in OpenEvents(r) PROVE FALSE
      <4>1. r \in loc[e].rules /\ Matching(loc[e], r) = {}
        BY <2>2, <3>1
      <4>2. id \in Matching(loc[e], r)
        BY <3>1, <4>1 DEF Matching
      <4>3. QED
        BY <4>1, <4>2
    <3>2. \A r : Holds(events, e, r) => \E id \in OpenEvents(r) : TRUE
      BY DEF OpenEvents, Holds
    <3>3. QED
      BY <2>1, <3>1, <3>2 DEF Holds
  <2>4. QED
    BY <2>2, <2>3, ConstantFacts, ContinueFresh
<1>3. CASE NotifyOpen(e)
  <2> DEFINE to == IF loc[e].found[Current(e)] = None THEN "creating" ELSE "refreshing"
             l == [loc[e] EXCEPT !.sent = chat]
  <2>1. pc[e] = "notifying" /\ Effect(e) /\ pc'[e] = to /\ loc'[e] = l
    BY <1>0, <1>3 DEF NotifyOpen, Goto
  <2>2. l.found = loc[e].found /\ l.rule = loc[e].rule /\ l.rules = loc[e].rules
    BY <1>0 DEF Locals
  <2>3. to = "creating" => loc[e].found[Current(e)] = None
    OBVIOUS
  <2> HIDE DEF l, to
  <2>4. \A r : ~Holds(events, e, r) => ~Holds(events', e, r)
    BY <2>1, HoldsKept
  <2>5. \A r \in loc[e].rules : loc[e].found[r] = None /\ loc[e].rule <= r
                                => ~Holds(events, e, r)
    BY <1>0, <2>1 DEF Fresh, LoopPcs
  <2>6. QED
    BY <2>1, <2>2, <2>3, <2>4, <2>5 DEF Fresh, Current
<1>4. CASE StoreOpen(e) \/ NotifyResolved(e)
  <2>1. pc[e] \in LoopPcs /\ Effect(e) /\ Continue(e, loc[e], Current(e))
    BY <1>4 DEF StoreOpen, NotifyResolved, LoopPcs
  <2>2. \A r : ~Holds(events, e, r) /\ r # Current(e) => ~Holds(events', e, r)
    BY <2>1, HoldsKept
  <2>3. \A r \in loc[e].rules : loc[e].found[r] = None /\ Current(e) < r
                                => ~Holds(events', e, r)
    BY <1>0, <2>1, <2>2, CurrentRule DEF Fresh, Current
  <2>4. QED
    BY <2>1, <2>3, CurrentRule, ContinueFresh
<1>5. CASE Resolve(e)
  <2>1. /\ pc[e] = "resolving" /\ Effect(e)
        /\ pc'[e] = "announcing" /\ loc'[e] = loc[e]
    BY <1>0, <1>5 DEF Resolve, Goto
  <2>2. \A r : ~Holds(events, e, r) => ~Holds(events', e, r)
    BY <2>1, HoldsKept
  <2>3. QED
    BY <1>0, <2>1, <2>2 DEF Fresh, LoopPcs
<1>6. QED
  BY <1>1, <1>2, <1>3, <1>4, <1>5 DEF Advance

\* A call never gives a slot a second open event of a rule.
LEMMA StepOpens ==
    ASSUME TypeOK, OpensAreFresh, OneOpenPerEvaluator, NEW e \in Evaluators,
           Effect(e) \/ UNCHANGED <<events, notices>>
    PROVE  OneOpenPerEvaluator'
<1>1. CASE pc[e] # "creating" \/ UNCHANGED <<events, notices>>
  BY <1>1, EffectKeeps DEF OneOpenPerEvaluator, OpenEvents
<1>2. CASE pc[e] = "creating" /\ Effect(e)
  <2>1. ~Holds(events, e, Current(e))
    <3>1. Fresh(e, pc[e], loc[e], events) /\ pc[e] \in LoopPcs
      BY <1>2, FreshIsOpensAreFresh DEF LoopPcs
    <3>2. Current(e) \in loc[e].rules /\ Current(e) <= Current(e)
      BY <3>1, CurrentRule
    <3>3. QED
      BY <1>2, <3>1, <3>2 DEF Fresh, Current
  <2>2. ASSUME NEW r \in Rules, NEW i \in OpenEvents(r)', NEW j \in OpenEvents(r)',
               events'[i].by = events'[j].by
        PROVE  i = j
    <3>1. ASSUME NEW k \in OpenEvents(r)', k # Len(events) + 1
          PROVE  k \in OpenEvents(r) /\ events'[k] = events[k]
      BY <1>2, <3>1, EffectCreates DEF OpenEvents
    <3>2. ASSUME NEW k \in OpenEvents(r)', k # Len(events) + 1, r = Current(e)
          PROVE  events'[k].by # e
      BY <2>1, <3>1, <3>2 DEF Holds, OpenEvents
    <3>3. Len(events) + 1 \in OpenEvents(r)' => r = Current(e)
      BY <1>2, EffectCreates DEF OpenEvents
    <3>4. events'[Len(events) + 1].by = e
      BY <1>2, EffectCreates
    <3>5. CASE i # Len(events) + 1 /\ j # Len(events) + 1
      BY <2>2, <3>1, <3>5 DEF OneOpenPerEvaluator
    <3>6. QED
      BY <2>2, <3>2, <3>3, <3>4, <3>5
  <2>3. QED
    BY <2>2 DEF OneOpenPerEvaluator
<1>3. QED
  BY <1>1, <1>2

\* What a step of a slot does to the table is what the call it was suspended in does.
LEMMA StepEffect ==
    ASSUME NEW e \in Evaluators, Start(e) \/ Advance(e)
    PROVE  Effect(e) \/ UNCHANGED <<events, notices>>
BY DEF Start, Advance, Probe, LoadRules, FindOpen, NotifyOpen, StoreOpen, Resolve,
       NotifyResolved, Throw

\* A table that stays as it is.
LEMMA IdleSteps ==
    ASSUME TypeOK, OpensAreFresh, OneOpenPerEvaluator, UNCHANGED events,
           UNCHANGED <<pc, loc>> \/ \A e \in Evaluators : pc'[e] = "idle"
    PROVE  OpensAreFresh' /\ OneOpenPerEvaluator'
BY DEF OpensAreFresh, OneOpenPerEvaluator, OpenEvents, Current, LoopPcs

LEMMA StepOneOpen ==
    TypeOK /\ OpensAreFresh /\ OneOpenPerEvaluator /\ [Next]_vars
      => OpensAreFresh' /\ OneOpenPerEvaluator'
<1> SUFFICES ASSUME TypeOK, OpensAreFresh, OneOpenPerEvaluator, [Next]_vars
             PROVE  OpensAreFresh' /\ OneOpenPerEvaluator'
  OBVIOUS
<1>1. ASSUME NEW e \in Evaluators, Start(e) \/ Advance(e)
      PROVE  OpensAreFresh' /\ OneOpenPerEvaluator'
  <2>1. OneOpenPerEvaluator'
    BY <1>1, StepEffect, StepOpens
  <2>2. Fresh(e, pc'[e], loc'[e], events')
    BY <1>1, StepFresh
  <2>3. ASSUME NEW f \in Evaluators, f # e
        PROVE  Fresh(f, pc'[f], loc'[f], events')
    <3>1. pc'[f] = pc[f] /\ loc'[f] = loc[f]
      BY <1>1, <2>3, OneSlotMoves DEF Start, Goto, TypeOK
    <3>2. QED
      BY <1>1, <2>3, <3>1, StepEffect, OthersFresh
  <2>4. \A f \in Evaluators : Fresh(f, pc'[f], loc'[f], events')
    BY <2>2, <2>3
  <2>5. OpensAreFresh'
    BY <2>4 DEF OpensAreFresh, Fresh, Holds, OpenEvents, Current
  <2>6. QED
    BY <2>1, <2>5
<1>2. CASE CrashAndRestart
  <2>1. UNCHANGED events /\ \A e \in Evaluators : pc'[e] = "idle"
    BY <1>2 DEF CrashAndRestart
  <2>2. QED
    BY <2>1, IdleSteps
<1>3. CASE UNCHANGED <<events, pc, loc>>
  BY <1>3, IdleSteps
<1>4. QED
  BY <1>1, <1>2, <1>3 DEF Next, vars, Tick, TargetChanges, RuleChanges

LEMMA InitOneOpen == Init => OpensAreFresh /\ OneOpenPerEvaluator
BY DEF Init, OpensAreFresh, OneOpenPerEvaluator, OpenEvents, LoopPcs

\* However evaluations overlap, fail and die, each slot has at most one event of a rule
\* open: duplicates are no more than the evaluations that run at the same time
\* (evaluateTargets reads the open events once and creates later).
THEOREM DuplicatesAreBounded == Spec => []OneOpenPerEvaluator
<1>1. Spec => [](OpensAreFresh /\ OneOpenPerEvaluator)
  BY InitOneOpen, StepOneOpen, TypeCorrect, PTL DEF Spec
<1>2. QED
  BY <1>1, PTL

\* When evaluations do not overlap, a rule has at most one open event.
THEOREM AloneOneOpen ==
    ASSUME \A e, f \in Evaluators : e = f
    PROVE  Spec => []OneOpenEvent
<1>1. TypeOK /\ OneOpenPerEvaluator => OneOpenEvent
  <2> SUFFICES ASSUME TypeOK, OneOpenPerEvaluator, NEW r \in Rules,
                      NEW i \in OpenEvents(r), NEW j \in OpenEvents(r)
               PROVE  i = j
    BY DEF OneOpenEvent
  <2>1. events[i] \in Events /\ events[j] \in Events
    BY DEF OpenEvents, TypeOK
  <2>2. events[i].by = events[j].by
    BY <2>1 DEF Events
  <2>3. QED
    BY <2>2 DEF OneOpenPerEvaluator
<1>2. QED
  BY <1>1, TypeCorrect, DuplicatesAreBounded, PTL

\* A refresh on a stale copy never brings a resolved event back, however evaluations
\* overlap (the update of openOrRefreshAlert writes no status).
THEOREM ResolvedForGood == Spec => ResolvedStaysResolved
<1> DEFINE Kept == \A id \in DOMAIN events : events[id].status = "RESOLVED" =>
                      id \in DOMAIN events' /\ events'[id].status = "RESOLVED"
<1>1. TypeOK /\ [Next]_vars => Kept
  <2> SUFFICES ASSUME TypeOK, [Next]_vars PROVE Kept
    OBVIOUS
  <2>1. ASSUME NEW e \in Evaluators, Start(e) \/ Advance(e) PROVE Kept
    <3>1. Effect(e) \/ UNCHANGED <<events, notices>>
      BY <2>1, StepEffect
    <3>2. CASE pc[e] # "creating" \/ UNCHANGED <<events, notices>>
      <4>1. /\ events' \in Seq(Events) /\ DOMAIN events' = DOMAIN events
            /\ \A id \in DOMAIN events :
                 events'[id].status = "OPEN" => events[id].status = "OPEN"
        BY <3>1, <3>2, EffectKeeps
      <4>2. \A id \in DOMAIN events' : events'[id] \in Events
        BY <4>1
      <4>3. \A id \in DOMAIN events' : events'[id].status \in {"OPEN", "RESOLVED"}
        BY <4>2 DEF Events
      <4>4. QED
        BY <4>1, <4>3
    <3>3. CASE pc[e] = "creating" /\ Effect(e)
      BY <3>3, EffectCreates
    <3>4. QED
      BY <3>1, <3>2, <3>3
  <2>2. CASE UNCHANGED events
    BY <2>2
  <2>3. QED
    BY <2>1, <2>2 DEF Next, vars, CrashAndRestart, Tick, TargetChanges, RuleChanges
<1>2. QED
  BY <1>1, TypeCorrect, PTL DEF Spec, ResolvedStaysResolved
-----------------------------------------------------------------------------
(* Rules that are switched off.                                              *)

\* A table that keeps the rows of rule r and gets no other of it.
LEMMA SameRows ==
    ASSUME NEW r,
           \A id : id \in DOMAIN events' /\ events'[id].rule = r
                     <=> id \in DOMAIN events /\ events[id].rule = r,
           \A id \in DOMAIN events : events[id].rule = r => events'[id] = events[id]
    PROVE  RowsOf(r)' = RowsOf(r)
<1> DEFINE Ids == {i \in DOMAIN events : events[i].rule = r}
           Next2 == {i \in DOMAIN events' : events'[i].rule = r}
<1>1. Next2 = Ids
  OBVIOUS
<1>2. \A id \in Ids : events'[id] = events[id]
  OBVIOUS
<1>3. RowsOf(r) = {<<id, events[id]>> : id \in Ids}
  BY DEF RowsOf
<1>4. RowsOf(r)' = {<<id, events'[id]>> : id \in Next2}
  BY DEF RowsOf
<1> HIDE DEF Ids, Next2
<1>5. {<<id, events'[id]>> : id \in Ids} = {<<id, events[id]>> : id \in Ids}
  BY <1>2
<1>6. QED
  BY <1>1, <1>3, <1>4, <1>5

\* A call writes the row the slot holds and no other.
LEMMA EffectOnRow ==
    ASSUME TypeOK, NEW e \in Evaluators, Effect(e) \/ UNCHANGED <<events, notices>>,
           NEW id \in DOMAIN events, events'[id] # events[id]
    PROVE  pc[e] \in {"refreshing", "resolving", "announcing"} /\ id = Row(e)
<1>1. Effect(e) /\ events' # events
  OBVIOUS
<1>2. pc[e] # "creating"
  BY <1>1, EffectCreates
<1>3. pc[e] \in {"refreshing", "resolving", "announcing"}
  BY <1>1, <1>2 DEF Effect
<1>4. id # Row(e) => events'[id] = events[id]
  <2>1. CASE pc[e] = "refreshing"
    BY <1>1, <2>1 DEF Effect, UpdateEvent
  <2>2. CASE pc[e] = "resolving"
    BY <1>1, <2>2 DEF Effect, ResolveEvent
  <2>3. CASE pc[e] = "announcing"
    BY <1>1, <2>3 DEF Effect, TellRecovery
  <2>4. QED
    BY <1>3, <2>1, <2>2, <2>3
<1>5. QED
  BY <1>3, <1>4

\* A call touches no row of a rule that the evaluation has not loaded.
LEMMA EffectOnLoaded ==
    ASSUME TypeOK, NEW e \in Evaluators, Effect(e) \/ UNCHANGED <<events, notices>>,
           NEW r \in Rules, r \notin loc[e].rules
    PROVE  RowsOf(r)' = RowsOf(r)
<1>1. ASSUME NEW id \in DOMAIN events, events'[id] # events[id]
      PROVE  events[id].rule # r
  <2>1. pc[e] \in {"refreshing", "resolving", "announcing"} /\ id = Row(e)
    BY <1>1, EffectOnRow
  <2>2. pc[e] \in LoopPcs
    BY <2>1 DEF LoopPcs
  <2>3. Current(e) \in loc[e].rules /\ Current(e) \in Rules
    BY <2>2, CurrentRule
  <2>4. loc[e].found[Current(e)] # None /\ Fits(pc[e], loc[e], events)
    BY <2>1 DEF TypeOK, Fits, Current
  <2>5. events[Row(e)].rule = Current(e)
    BY <2>3, <2>4 DEF Fits, Row
  <2>6. QED
    BY <2>1, <2>3, <2>5
<1>2. CASE pc[e] # "creating" \/ UNCHANGED <<events, notices>>
  <2>1. /\ DOMAIN events' = DOMAIN events
        /\ \A id \in DOMAIN events : events'[id].rule = events[id].rule
    BY <1>2, EffectKeeps
  <2>2. QED
    BY <1>1, <2>1, SameRows
<1>3. CASE pc[e] = "creating" /\ Effect(e)
  <2>1. Current(e) # r
    BY <1>3, CurrentRule DEF LoopPcs
  <2>2. QED
    BY <1>1, <1>3, <2>1, EffectCreates, SameRows
<1>4. QED
  BY <1>2, <1>3

\* An evaluation comes by new rules only by loading those that are switched on.
LEMMA RulesMove ==
    ASSUME TypeOK, NEW e \in Evaluators, Start(e) \/ Advance(e)
    PROVE  loc'[e].rules \subseteq loc[e].rules \cup enabled
<1>0. loc[e] \in Locals /\ loc \in [Evaluators -> Locals]
  BY DEF TypeOK
<1>1. ASSUME NEW to, NEW l, Goto(e, to, l) PROVE loc'[e] = l
  BY <1>0, <1>1 DEF Goto
<1>2. Blank.rules = {}
  BY DEF Blank
<1>3. ASSUME NEW l \in Locals, NEW after \in 0..NumRules, Continue(e, l, after),
             l.rules = loc[e].rules
      PROVE  loc'[e].rules \subseteq loc[e].rules
  <2>1. CASE Finish(e)
    BY <1>1, <1>2, <2>1 DEF Finish
  <2>2. ASSUME NEW r \in Rules, NEW to, Goto(e, to, [l EXCEPT !.rule = r, !.sent = FALSE])
        PROVE  loc'[e].rules \subseteq loc[e].rules
    <3> DEFINE m == [l EXCEPT !.rule = r, !.sent = FALSE]
    <3>1. m.rules = l.rules
      BY AtRuleType
    <3> HIDE DEF m
    <3>2. loc'[e] = m
      BY <1>1, <2>2 DEF m
    <3>3. QED
      BY <1>3, <3>1, <3>2
  <2>3. Finish(e) \/ \E r \in Rules, to \in {"resolving", "notifying", "refreshing"} :
                       Goto(e, to, [l EXCEPT !.rule = r, !.sent = FALSE])
    BY <1>3, ContinueCases
  <2>4. QED
    BY <2>1, <2>2, <2>3
<1>4. CASE Start(e)
  BY <1>1, <1>2, <1>4 DEF Start
<1>5. CASE Throw(e)
  BY <1>1, <1>2, <1>5 DEF Throw, Finish
<1>6. CASE Probe(e)
  <2>1. loc'[e] = [loc[e] EXCEPT !.seen = firing]
    BY <1>1, <1>6 DEF Probe
  <2>2. QED
    BY <1>0, <2>1 DEF Locals
<1>7. CASE LoadRules(e)
  <2>1. loc'[e] = [loc[e] EXCEPT !.rules = enabled]
    BY <1>1, <1>7 DEF LoadRules
  <2>2. QED
    BY <1>0, <2>1 DEF Locals
<1>8. CASE NotifyOpen(e)
  <2>1. loc'[e] = [loc[e] EXCEPT !.sent = chat]
    BY <1>1, <1>8 DEF NotifyOpen
  <2>2. QED
    BY <1>0, <2>1 DEF Locals
<1>9. CASE Resolve(e)
  BY <1>1, <1>9 DEF Resolve
<1>10. CASE StoreOpen(e) \/ NotifyResolved(e)
  <2>1. pc[e] \in LoopPcs /\ Continue(e, loc[e], Current(e))
    BY <1>10 DEF StoreOpen, NotifyResolved, LoopPcs
  <2>2. QED
    BY <1>0, <1>3, <2>1, CurrentRule
<1>11. CASE FindOpen(e)
  <2>1. PICK pick \in [Rules -> 0..Len(events)] :
          /\ \A r \in Rules : IF Matching(loc[e], r) # {}
                               THEN pick[r] \in Matching(loc[e], r) ELSE pick[r] = 0
          /\ LET copy == [r \in Rules |-> IF pick[r] = 0 THEN None
                              ELSE [id |-> pick[r], last |-> events[pick[r]].last]]
             IN  Continue(e, [loc[e] EXCEPT !.found = copy, !.at = now], 0)
    BY <1>11 DEF FindOpen
  <2> DEFINE copy == [r \in Rules |-> IF pick[r] = 0 THEN None
                              ELSE [id |-> pick[r], last |-> events[pick[r]].last]]
             l == [loc[e] EXCEPT !.found = copy, !.at = now]
  <2>2. l \in Locals /\ l.rules = loc[e].rules
    BY <2>1, FoundType
  <2>3. Continue(e, l, 0)
    BY <2>1
  <2> HIDE DEF l, copy
  <2>4. QED
    BY <1>3, <2>2, <2>3, ConstantFacts
<1>12. QED
  BY <1>4, <1>5, <1>6, <1>7, <1>8, <1>9, <1>10, <1>11 DEF Advance

LEMMA StepFrozen ==
    ASSUME TypeOK, [Next]_vars, NEW r \in Rules, Off(r), r \notin enabled'
    PROVE  Off(r)' /\ RowsOf(r)' = RowsOf(r)
<1>1. ASSUME NEW e \in Evaluators, Start(e) \/ Advance(e)
      PROVE  Off(r)' /\ RowsOf(r)' = RowsOf(r)
  <2>1. RowsOf(r)' = RowsOf(r)
    BY <1>1, StepEffect, EffectOnLoaded DEF Off
  <2>2. r \notin loc'[e].rules
    BY <1>1, RulesMove DEF Off
  <2>3. \A f \in Evaluators : f # e => loc'[f] = loc[f]
    BY <1>1, OneSlotMoves DEF Start, Goto, TypeOK
  <2>4. QED
    BY <2>1, <2>2, <2>3 DEF Off
<1>2. CASE CrashAndRestart
  <2>1. UNCHANGED events /\ \A e \in Evaluators : loc'[e].rules = {}
    BY <1>2 DEF CrashAndRestart, Blank
  <2>2. QED
    BY <2>1 DEF Off, RowsOf
<1>3. CASE UNCHANGED <<events, loc>>
  BY <1>3 DEF Off, RowsOf
<1>4. QED
  BY <1>1, <1>2, <1>3 DEF Next, vars, Tick, TargetChanges, RuleChanges

\* While a rule is switched off and no evaluation has loaded it, however evaluations
\* overlap, fail and die, its events stay as they are (the enabled filter in
\* evaluateTargets).
THEOREM OffMeansFrozen == Spec => SwitchedOffIsFrozen
<1>1. TypeOK /\ [Next]_vars
        => [\A r \in Rules : Off(r) /\ r \notin enabled'
              => Off(r)' /\ RowsOf(r)' = RowsOf(r)]_vars
  BY StepFrozen
<1>2. QED
  BY <1>1, TypeCorrect, PTL DEF Spec, SwitchedOffIsFrozen
-----------------------------------------------------------------------------
(* Evaluations that do not overlap.                                          *)

Alone == \A e, f \in Evaluators : e = f

\* The rest of the locals that move on to a rule.
LEMMA AtRuleKeeps ==
    ASSUME NEW l \in Locals, NEW r \in Rules
    PROVE  LET m == [l EXCEPT !.rule = r, !.sent = FALSE]
           IN  m.at = l.at /\ m.sent = FALSE
<1> DEFINE m1 == [l EXCEPT !.rule = r]
<1>1. m1.at = l.at /\ DOMAIN m1 = DOMAIN l /\ "sent" \in DOMAIN l
  BY DEF Locals
<1> HIDE DEF m1
<1>2. LET m == [m1 EXCEPT !.sent = FALSE] IN m.at = l.at /\ m.sent = FALSE
  BY <1>1
<1>3. [l EXCEPT !.rule = r, !.sent = FALSE] = [m1 EXCEPT !.sent = FALSE]
  BY DEF m1
<1>4. QED
  BY <1>2, <1>3

\* The loop ends, or takes its locals to a rule further on, to a notice only if one is due.
LEMMA LoopMoves ==
    ASSUME TypeOK, NEW e \in Evaluators, NEW l \in Locals, NEW after \in 0..NumRules,
           Continue(e, l, after)
    PROVE  \/ pc'[e] = "idle"
           \/ /\ pc'[e] \in {"resolving", "notifying", "refreshing"}
              /\ loc'[e].rule \in l.rules /\ after < loc'[e].rule
              /\ loc'[e].rules = l.rules /\ loc'[e].found = l.found
              /\ loc'[e].at = l.at /\ loc'[e].sent = FALSE
              /\ pc'[e] = "notifying" =>
                   l.found[loc'[e].rule] = None \/ ShouldNotify(l, loc'[e].rule)
<1>1. CASE Finish(e)
  BY <1>1 DEF Finish, Goto, TypeOK
<1>2. ASSUME NEW r \in Due(l, after),
             Goto(e, FirstCall(l, r), [l EXCEPT !.rule = r, !.sent = FALSE])
      PROVE  /\ pc'[e] \in {"resolving", "notifying", "refreshing"}
             /\ loc'[e].rule \in l.rules /\ after < loc'[e].rule
             /\ loc'[e].rules = l.rules /\ loc'[e].found = l.found
             /\ loc'[e].at = l.at /\ loc'[e].sent = FALSE
             /\ pc'[e] = "notifying" =>
                  l.found[loc'[e].rule] = None \/ ShouldNotify(l, loc'[e].rule)
  <2> DEFINE m == [l EXCEPT !.rule = r, !.sent = FALSE]
  <2>1. r \in l.rules /\ after < r /\ r \in Rules
    BY AlertsConstants DEF Due, Locals, Rules
  <2>2. m.rule = r /\ m.rules = l.rules /\ m.found = l.found
    BY <2>1, AtRuleType
  <2>3. m.at = l.at /\ m.sent = FALSE
    BY <2>1, AtRuleKeeps
  <2> HIDE DEF m
  <2>4. pc'[e] = FirstCall(l, r) /\ loc'[e] = m
    BY <1>2 DEF Goto, TypeOK, m
  <2>5. /\ FirstCall(l, r) \in {"resolving", "notifying", "refreshing"}
        /\ FirstCall(l, r) = "notifying" => l.found[r] = None \/ ShouldNotify(l, r)
    BY DEF FirstCall
  <2>6. QED
    BY <2>1, <2>2, <2>3, <2>4, <2>5
<1>3. QED
  BY <1>1, <1>2 DEF Continue

\* What each step does to the place and the locals of its slot.
LEMMA PlaceMoves ==
    ASSUME TypeOK, NEW e \in Evaluators
    PROVE  /\ Start(e) \/ Probe(e) \/ LoadRules(e) \/ Throw(e)
                => pc'[e] \in {"probing", "loading", "finding", "idle"}
           /\ NotifyOpen(e) => /\ pc'[e] \in {"creating", "refreshing"}
                               /\ loc'[e].sent = chat /\ loc'[e].rule = loc[e].rule
                               /\ loc'[e].rules = loc[e].rules /\ loc'[e].at = loc[e].at
                               /\ loc'[e].found = loc[e].found
           /\ Resolve(e) => pc'[e] = "announcing" /\ loc'[e] = loc[e]
<1>0. pc \in [Evaluators -> Pcs] /\ loc \in [Evaluators -> Locals] /\ loc[e] \in Locals
  BY DEF TypeOK
<1>1. Start(e) \/ Probe(e) \/ LoadRules(e) \/ Throw(e)
        => pc'[e] \in {"probing", "loading", "finding", "idle"}
  BY <1>0 DEF Start, Probe, LoadRules, Throw, Finish, Goto
<1>2. ASSUME NotifyOpen(e)
      PROVE  /\ pc'[e] \in {"creating", "refreshing"}
             /\ loc'[e].sent = chat /\ loc'[e].rule = loc[e].rule
             /\ loc'[e].rules = loc[e].rules /\ loc'[e].at = loc[e].at
             /\ loc'[e].found = loc[e].found
  <2>1. pc'[e] \in {"creating", "refreshing"} /\ loc'[e] = [loc[e] EXCEPT !.sent = chat]
    BY <1>0, <1>2 DEF NotifyOpen, Goto
  <2>2. QED
    BY <1>0, <2>1 DEF Locals
<1>3. Resolve(e) => pc'[e] = "announcing" /\ loc'[e] = loc[e]
  BY <1>0 DEF Resolve, Goto
<1>4. QED
  BY <1>1, <1>2, <1>3

\* The row of another rule that an evaluation found stays as it is.
LEMMA OtherRows ==
    ASSUME TypeOK, NEW e \in Evaluators, Effect(e) \/ UNCHANGED <<events, notices>>,
           NEW id \in DOMAIN events, events[id].rule # Current(e)
    PROVE  events'[id] = events[id]
<1> SUFFICES ASSUME events'[id] # events[id] PROVE FALSE
  OBVIOUS
<1>1. pc[e] \in {"refreshing", "resolving", "announcing"} /\ id = Row(e)
  BY EffectOnRow
<1>2. Current(e) \in Rules
  BY <1>1, RowIsThere
<1>3. loc[e].found[Current(e)] # None /\ Fits(pc[e], loc[e], events)
  BY <1>1 DEF TypeOK, Fits, Current
<1>4. events[Row(e)].rule = Current(e)
  BY <1>2, <1>3 DEF Fits, Row
<1>5. QED
  BY <1>1, <1>4

\* A call gives the rows of a table new fields one at a time.
LEMMA FieldsMove ==
    ASSUME TypeOK, NEW e \in Evaluators, Effect(e),
           pc[e] \in {"refreshing", "resolving", "announcing"}
    PROVE  /\ Row(e) \in DOMAIN events /\ DOMAIN events' = DOMAIN events
           /\ \A id \in DOMAIN events : id # Row(e) => events'[id] = events[id]
           /\ events'[Row(e)].rule = events[Row(e)].rule
           /\ events'[Row(e)].status =
                IF pc[e] = "resolving" THEN "RESOLVED" ELSE events[Row(e)].status
           /\ events'[Row(e)].told =
                IF pc[e] = "announcing" THEN events[Row(e)].told + 1 ELSE events[Row(e)].told
           /\ events'[Row(e)].last =
                IF pc[e] # "refreshing" THEN events[Row(e)].last
                ELSE IF loc[e].sent THEN loc[e].at ELSE loc[e].found[Current(e)].last
<1>1. Row(e) \in DOMAIN events /\ events[Row(e)] \in Events
  BY RowIsThere DEF TypeOK
<1>2. CASE pc[e] = "refreshing"
  <2> DEFINE s == IF loc[e].sent THEN loc[e].at ELSE loc[e].found[Current(e)].last
  <2>1. events' = [events EXCEPT ![Row(e)].last = s]
    BY <1>2 DEF Effect, UpdateEvent
  <2> HIDE DEF s
  <2>2. events'[Row(e)] = [events[Row(e)] EXCEPT !.last = s] /\ DOMAIN events' = DOMAIN events
        /\ \A id \in DOMAIN events : id # Row(e) => events'[id] = events[id]
    BY <1>1, <2>1
  <2>3. QED
    BY <1>1, <1>2, <2>2 DEF Events, s
<1>3. CASE pc[e] = "resolving"
  <2>1. events' = [events EXCEPT ![Row(e)].status = "RESOLVED"]
    BY <1>3 DEF Effect, ResolveEvent
  <2>2. events'[Row(e)] = [events[Row(e)] EXCEPT !.status = "RESOLVED"]
        /\ DOMAIN events' = DOMAIN events
        /\ \A id \in DOMAIN events : id # Row(e) => events'[id] = events[id]
    BY <1>1, <2>1
  <2>3. QED
    BY <1>1, <1>3, <2>2 DEF Events
<1>4. CASE pc[e] = "announcing"
  <2>1. events' = [events EXCEPT ![Row(e)].told = @ + 1]
    BY <1>4 DEF Effect, TellRecovery
  <2>2. events'[Row(e)] = [events[Row(e)] EXCEPT !.told = events[Row(e)].told + 1]
        /\ DOMAIN events' = DOMAIN events
        /\ \A id \in DOMAIN events : id # Row(e) => events'[id] = events[id]
    BY <1>1, <2>1
  <2>3. QED
    BY <1>1, <1>4, <2>2 DEF Events
<1>5. QED
  BY <1>2, <1>3, <1>4

\* The stamp and the count of an inserted row.
LEMMA InsertedRow ==
    ASSUME TypeOK, NEW e \in Evaluators, pc[e] = "creating", Effect(e)
    PROVE  /\ events'[Len(events) + 1].told = 0
           /\ events'[Len(events) + 1].last = IF loc[e].sent THEN loc[e].at ELSE None
<1> DEFINE row == [rule |-> Current(e), status |-> "OPEN", by |-> e, told |-> 0,
                   last |-> IF loc[e].sent THEN loc[e].at ELSE None]
<1>1. events' = Append(events, row)
  BY DEF Effect, InsertEvent
<1>2. row.told = 0 /\ row.last = IF loc[e].sent THEN loc[e].at ELSE None
  OBVIOUS
<1> HIDE DEF row
<1>3. events'[Len(events) + 1] = row
  BY <1>1 DEF TypeOK
<1>4. QED
  BY <1>2, <1>3

\* A call that inserts or rewrites no row leaves the table as it is.
LEMMA NoRowWritten ==
    ASSUME NEW e \in Evaluators, Effect(e) \/ UNCHANGED <<events, notices>>,
           pc[e] \notin {"creating", "refreshing", "resolving", "announcing"}
    PROVE  UNCHANGED events
BY DEF Effect

-----------------------------------------------------------------------------
(* Recoveries are told.                                                      *)

\* CopiesAreFresh for one slot, its place, its locals and a table.
Abreast(place, l, rows) ==
    place \in LoopPcs =>
        \A r \in l.rules :
            /\ l.rule < r \/ (l.rule = r /\ place # "announcing")
            /\ l.found[r] # None
            => /\ rows[l.found[r].id].status = "OPEN"
               /\ rows[l.found[r].id].last = l.found[r].last

LEMMA AbreastIsCopiesAreFresh ==
    CopiesAreFresh <=> \A e \in Evaluators : Abreast(pc[e], loc[e], events)
BY DEF CopiesAreFresh, Abreast, Ahead, Current

\* The row of a rule further on that an evaluation found is in the table and stays.
LEMMA LaterRows ==
    ASSUME TypeOK, NEW e \in Evaluators, pc[e] \in LoopPcs,
           Effect(e) \/ UNCHANGED <<events, notices>>,
           NEW r \in loc[e].rules, Current(e) < r, loc[e].found[r] # None
    PROVE  events'[loc[e].found[r].id] = events[loc[e].found[r].id]
<1>1. r \in Rules /\ r # Current(e)
  BY CurrentRule DEF Locals
<1>2. loc[e].found[r].id \in DOMAIN events /\ events[loc[e].found[r].id].rule = r
  BY <1>1 DEF TypeOK, Fits
<1>3. QED
  BY <1>1, <1>2, OtherRows

\* A loop that goes on with copies of rows as they are.
LEMMA ContinueAbreast ==
    ASSUME TypeOK, NEW e \in Evaluators, NEW l \in Locals, NEW after \in 0..NumRules,
           Continue(e, l, after),
           \A r \in l.rules : after < r /\ l.found[r] # None =>
              /\ events'[l.found[r].id].status = "OPEN"
              /\ events'[l.found[r].id].last = l.found[r].last
    PROVE  Abreast(pc'[e], loc'[e], events')
<1>1. CASE pc'[e] = "idle"
  BY <1>1 DEF Abreast, LoopPcs
<1>2. CASE /\ loc'[e].rule \in l.rules /\ after < loc'[e].rule
           /\ loc'[e].rules = l.rules /\ loc'[e].found = l.found
  <2>1. \A r \in l.rules : r \in 1..NumRules
    BY ConstantFacts DEF Locals
  <2>2. \A r \in l.rules : loc'[e].rule < r \/ loc'[e].rule = r => after < r
    BY <1>2, <2>1, ConstantFacts
  <2>3. QED
    BY <1>2, <2>2 DEF Abreast
<1>3. QED
  BY <1>1, <1>2, LoopMoves

\* What FindOpen found is in the table.
LEMMA FoundRows ==
    ASSUME TypeOK, NEW e \in Evaluators, FindOpen(e)
    PROVE  \E l \in Locals :
              /\ Continue(e, l, 0)
              /\ \A r \in l.rules : l.found[r] # None =>
                    /\ events[l.found[r].id].status = "OPEN"
                    /\ events[l.found[r].id].last = l.found[r].last
<1>1. PICK pick \in [Rules -> 0..Len(events)] :
        /\ \A r \in Rules : IF Matching(loc[e], r) # {}
                             THEN pick[r] \in Matching(loc[e], r) ELSE pick[r] = 0
        /\ LET copy == [r \in Rules |-> IF pick[r] = 0 THEN None
                            ELSE [id |-> pick[r], last |-> events[pick[r]].last]]
           IN  Continue(e, [loc[e] EXCEPT !.found = copy, !.at = now], 0)
  BY DEF FindOpen
<1> DEFINE copy == [r \in Rules |-> IF pick[r] = 0 THEN None
                            ELSE [id |-> pick[r], last |-> events[pick[r]].last]]
           l == [loc[e] EXCEPT !.found = copy, !.at = now]
<1>2. l \in Locals /\ l.found = copy
  BY <1>1, FoundType
<1>3. Continue(e, l, 0)
  BY <1>1
<1>4. ASSUME NEW r \in Rules, copy[r] # None
      PROVE  /\ events[copy[r].id].status = "OPEN"
             /\ events[copy[r].id].last = copy[r].last
  <2>1. pick[r] # 0 /\ copy[r] = [id |-> pick[r], last |-> events[pick[r]].last]
    BY <1>4
  <2>2. pick[r] \in OpenEvents(r)
    BY <1>1, <2>1 DEF Matching
  <2> HIDE DEF copy
  <2>3. QED
    BY <2>1, <2>2 DEF OpenEvents
<1> HIDE DEF l, copy
<1>5. \A r \in l.rules : r \in Rules
  BY <1>2 DEF Locals
<1>6. QED
  BY <1>2, <1>3, <1>4, <1>5

LEMMA StepAbreast ==
    ASSUME TypeOK, NEW e \in Evaluators, Start(e) \/ Advance(e),
           Abreast(pc[e], loc[e], events)
    PROVE  Abreast(pc'[e], loc'[e], events')
<1>0. loc[e] \in Locals
  BY DEF TypeOK
<1>1. CASE Start(e) \/ Probe(e) \/ LoadRules(e) \/ Throw(e)
  <2>1. pc'[e] \notin LoopPcs
    BY <1>1, PlaceMoves DEF LoopPcs
  <2>2. QED
    BY <2>1 DEF Abreast
<1>2. CASE FindOpen(e)
  <2>1. UNCHANGED events
    BY <1>2 DEF FindOpen
  <2>2. QED
    BY <1>2, <2>1, FoundRows, ConstantFacts, ContinueAbreast
<1>3. CASE NotifyOpen(e)
  <2>1. pc[e] = "notifying" /\ UNCHANGED events
    BY <1>3 DEF NotifyOpen, Effect
  <2>2. /\ pc'[e] \in {"creating", "refreshing"} /\ loc'[e].rule = loc[e].rule
        /\ loc'[e].rules = loc[e].rules /\ loc'[e].found = loc[e].found
    BY <1>3, PlaceMoves
  <2>3. QED
    BY <2>1, <2>2 DEF Abreast, LoopPcs
<1>4. CASE StoreOpen(e) \/ NotifyResolved(e)
  <2>1. pc[e] \in LoopPcs /\ Effect(e) /\ Continue(e, loc[e], Current(e))
    BY <1>4 DEF StoreOpen, NotifyResolved, LoopPcs
  <2>2. ASSUME NEW r \in loc[e].rules, Current(e) < r, loc[e].found[r] # None
        PROVE  /\ events'[loc[e].found[r].id].status = "OPEN"
               /\ events'[loc[e].found[r].id].last = loc[e].found[r].last
    BY <2>1, <2>2, LaterRows DEF Abreast, Current
  <2>3. QED
    BY <1>0, <2>1, <2>2, CurrentRule, ContinueAbreast
<1>5. CASE Resolve(e)
  <2>1. pc[e] = "resolving" /\ pc[e] \in LoopPcs /\ Effect(e)
    BY <1>5 DEF Resolve, LoopPcs
  <2>2. pc'[e] = "announcing" /\ loc'[e] = loc[e]
    BY <1>5, PlaceMoves
  <2>3. ASSUME NEW r \in loc[e].rules, Current(e) < r, loc[e].found[r] # None
        PROVE  /\ events'[loc[e].found[r].id].status = "OPEN"
               /\ events'[loc[e].found[r].id].last = loc[e].found[r].last
    BY <2>1, <2>3, LaterRows DEF Abreast, Current
  <2>4. QED
    BY <2>2, <2>3 DEF Abreast, Current
<1>6. QED
  BY <1>1, <1>2, <1>3, <1>4, <1>5 DEF Advance

\* The steps around the evaluations, and a crash.
LEMMA AroundSteps ==
    ASSUME [Next]_vars
    PROVE  \/ \E e \in Evaluators : Start(e) \/ Advance(e)
           \/ /\ UNCHANGED <<events, notices, faults>> /\ crashes' = crashes + 1
              /\ \A e \in Evaluators : pc'[e] = "idle" /\ loc'[e] = Blank
           \/ UNCHANGED <<events, notices, faults, crashes, pc, loc>>
BY DEF Next, vars, CrashAndRestart, Tick, TargetChanges, RuleChanges

LEMMA StepCopies ==
    ASSUME Alone, TypeOK, CopiesAreFresh, [Next]_vars
    PROVE  CopiesAreFresh'
<1> SUFFICES \A f \in Evaluators : Abreast(pc'[f], loc'[f], events')
  BY DEF CopiesAreFresh, Abreast, Ahead, Current
<1>0. \A e \in Evaluators : Abreast(pc[e], loc[e], events)
  BY AbreastIsCopiesAreFresh
<1>1. ASSUME NEW e \in Evaluators, Start(e) \/ Advance(e)
      PROVE  \A f \in Evaluators : Abreast(pc'[f], loc'[f], events')
  BY <1>0, <1>1, StepAbreast DEF Alone
<1>2. CASE \A e \in Evaluators : pc'[e] = "idle" /\ loc'[e] = Blank
  BY <1>2 DEF Abreast, LoopPcs
<1>3. CASE UNCHANGED <<events, pc, loc>>
  BY <1>0, <1>3
<1>4. QED
  BY <1>1, <1>2, <1>3, AroundSteps

\* A row about to be resolved is open.
LEMMA ResolvingOpen ==
    ASSUME TypeOK, CopiesAreFresh, NEW e \in Evaluators,
           pc[e] \in {"resolving", "refreshing"}
    PROVE  /\ Row(e) \in DOMAIN events /\ events[Row(e)].status = "OPEN"
           /\ events[Row(e)].last = loc[e].found[Current(e)].last
<1>1. pc[e] \in LoopPcs
  BY DEF LoopPcs
<1>2. Current(e) \in loc[e].rules /\ loc[e].found[Current(e)] # None
  BY <1>1, CurrentRule DEF TypeOK, Fits, Current
<1>3. Current(e) \in Ahead(e)
  BY <1>2 DEF Ahead
<1>4. QED
  BY <1>1, <1>2, <1>3, RowIsThere DEF CopiesAreFresh, Row

LEMMA RowFields ==
    ASSUME TypeOK, NEW id \in DOMAIN events
    PROVE  events[id].told \in Nat /\ events[id].status \in {"OPEN", "RESOLVED"}
<1>1. events[id] \in Events
  BY DEF TypeOK
<1>2. QED
  BY <1>1 DEF Events

\* What a call does to the count of a row, and to its status.
LEMMA EffectTold ==
    ASSUME TypeOK, NEW e \in Evaluators, Effect(e) \/ UNCHANGED <<events, notices>>,
           NEW id \in DOMAIN events
    PROVE  /\ id \in DOMAIN events' /\ events[id].told \in Nat
           /\ events[id].status = "RESOLVED" => events'[id].status = "RESOLVED"
           /\ \/ events'[id].told = events[id].told
              \/ events'[id].told = events[id].told + 1 /\ pc[e] = "announcing" /\ id = Row(e)
           /\ events'[id].status = "OPEN" => events[id].status = "OPEN"
<1>0. events[id].told \in Nat /\ events[id].status \in {"OPEN", "RESOLVED"}
  BY RowFields
<1>1. CASE events'[id] = events[id] /\ id \in DOMAIN events'
  BY <1>0, <1>1
<1>2. CASE pc[e] = "creating" /\ Effect(e)
  BY <1>0, <1>2, EffectCreates
<1>3. CASE Effect(e) /\ pc[e] \in {"refreshing", "resolving", "announcing"}
  <2>1. id # Row(e) => events'[id] = events[id]
    BY <1>3, FieldsMove
  <2>2. id \in DOMAIN events'
    BY <1>3, FieldsMove
  <2>3. CASE id = Row(e)
    BY <1>0, <1>3, <2>2, <2>3, FieldsMove
  <2>4. QED
    BY <1>0, <2>1, <2>2, <2>3
<1>4. QED
  BY <1>1, <1>2, <1>3, NoRowWritten

\* Of a loop that goes on, the rules that are left were left before.
LEMMA ContinueTells ==
    ASSUME TypeOK, NEW e \in Evaluators, NEW l \in Locals, NEW after \in 0..NumRules,
           Continue(e, l, after), NEW id, MayTell(pc'[e], loc'[e], id)
    PROVE  \E r \in l.rules : after < r /\ l.found[r] # None /\ l.found[r].id = id
<1>1. pc'[e] # "idle"
  BY DEF MayTell, LoopPcs
<1>2. /\ loc'[e].rule \in l.rules /\ after < loc'[e].rule
      /\ loc'[e].rules = l.rules /\ loc'[e].found = l.found
  BY <1>1, LoopMoves
<1>3. PICK r \in l.rules : loc'[e].rule <= r /\ l.found[r] # None /\ l.found[r].id = id
  BY <1>2 DEF MayTell
<1>4. r \in Nat /\ after \in Nat /\ loc'[e].rule \in Nat
  <2>1. l.rules \subseteq 1..NumRules
    BY ConstantFacts DEF Locals
  <2>2. QED
    BY <1>2, <2>1, ConstantFacts
<1>5. QED
  BY <1>2, <1>3, <1>4

\* Whoever may tell a recovery has just found the event open, or might tell it before and
\* has not.
LEMMA StepTells ==
    ASSUME TypeOK, NEW e \in Evaluators, Start(e) \/ Advance(e), NEW id \in DOMAIN events,
           MayTell(pc'[e], loc'[e], id)
    PROVE  \/ FindOpen(e) /\ events[id].status = "OPEN"
           \/ MayTell(pc[e], loc[e], id) /\ ~(pc[e] = "announcing" /\ Row(e) = id)
<1>0. loc[e] \in Locals
  BY DEF TypeOK
<1>1. CASE Start(e) \/ Probe(e) \/ LoadRules(e) \/ Throw(e)
  BY <1>1, PlaceMoves DEF MayTell, LoopPcs
<1>2. CASE FindOpen(e)
  <2>1. PICK l \in Locals :
          /\ Continue(e, l, 0)
          /\ \A r \in l.rules : l.found[r] # None => events[l.found[r].id].status = "OPEN"
    BY <1>2, FoundRows
  <2>2. \E r \in l.rules : l.found[r] # None /\ l.found[r].id = id
    BY <2>1, ConstantFacts, ContinueTells
  <2>3. QED
    BY <1>2, <2>1, <2>2
<1>3. CASE NotifyOpen(e)
  <2>1. pc[e] = "notifying"
    BY <1>3 DEF NotifyOpen
  <2>2. QED
    BY <1>3, <2>1, PlaceMoves DEF MayTell, LoopPcs
<1>4. CASE StoreOpen(e) \/ NotifyResolved(e)
  <2>1. pc[e] \in LoopPcs /\ Continue(e, loc[e], Current(e))
    BY <1>4 DEF StoreOpen, NotifyResolved, LoopPcs
  <2>2. PICK r \in loc[e].rules : Current(e) < r /\ loc[e].found[r] # None
                                   /\ loc[e].found[r].id = id
    BY <1>0, <2>1, CurrentRule, ContinueTells
  <2>3. Current(e) <= r /\ r # Current(e) /\ r \in Rules
    BY <2>1, <2>2, CurrentRule DEF Locals
  <2>4. MayTell(pc[e], loc[e], id)
    BY <2>1, <2>2, <2>3 DEF MayTell, Current
  <2>5. ASSUME pc[e] = "announcing", Row(e) = id PROVE FALSE
    <3>1. Current(e) \in Rules /\ loc[e].found[Current(e)] # None
          /\ loc[e].found[Current(e)].id = id /\ Fits(pc[e], loc[e], events)
      BY <2>5, RowIsThere DEF TypeOK, Fits, Row, Current
    <3>2. events[id].rule = Current(e) /\ events[id].rule = r
      BY <2>2, <2>3, <3>1 DEF Fits
    <3>3. QED
      BY <2>3, <3>2
  <2>6. QED
    BY <2>4, <2>5
<1>5. CASE Resolve(e)
  <2>1. pc[e] = "resolving"
    BY <1>5 DEF Resolve
  <2>2. QED
    BY <1>5, <2>1, PlaceMoves DEF MayTell, LoopPcs
<1>6. QED
  BY <1>1, <1>2, <1>3, <1>4, <1>5 DEF Advance

\* An evaluation announces what it has just resolved.
LEMMA AnnouncesResolved ==
    ASSUME TypeOK, NEW e \in Evaluators, Start(e) \/ Advance(e), pc'[e] = "announcing"
    PROVE  pc[e] = "resolving" /\ Effect(e) /\ Row(e)' = Row(e)
<1>1. ~(Start(e) \/ Probe(e) \/ LoadRules(e) \/ Throw(e) \/ NotifyOpen(e))
  BY PlaceMoves
<1>2. ASSUME FindOpen(e) PROVE FALSE
  <2>1. 0 \in 0..NumRules /\ \E l \in Locals : Continue(e, l, 0)
    BY <1>2, FoundRows, ConstantFacts
  <2>2. pc'[e] \in {"idle", "resolving", "notifying", "refreshing"}
    BY <2>1, LoopMoves
  <2>3. QED
    BY <2>2
<1>3. ASSUME StoreOpen(e) \/ NotifyResolved(e) PROVE FALSE
  <2>1. pc[e] \in LoopPcs /\ Continue(e, loc[e], Current(e))
    BY <1>3 DEF StoreOpen, NotifyResolved, LoopPcs
  <2>2. QED
    BY <2>1, CurrentRule, LoopMoves
<1>4. Resolve(e)
  BY <1>1, <1>2, <1>3 DEF Advance
<1>5. pc[e] = "resolving" /\ Effect(e) /\ loc'[e] = loc[e]
  BY <1>4, PlaceMoves DEF Resolve
<1>6. QED
  BY <1>5 DEF Row, Current

\* A step leaves the other evaluations where they are.
LEMMA OthersStay ==
    ASSUME TypeOK, NEW e \in Evaluators, Start(e) \/ Advance(e),
           NEW f \in Evaluators, f # e
    PROVE  pc'[f] = pc[f] /\ loc'[f] = loc[f]
BY DEF TypeOK, Start, Advance, Probe, LoadRules, FindOpen, NotifyOpen, StoreOpen, Resolve,
       NotifyResolved, Throw, Continue, Finish, Goto

LEMMA StepInOrder ==
    ASSUME TypeOK, ToldInOrder, [Next]_vars
    PROVE  ToldInOrder'
<1>1. ASSUME NEW e \in Evaluators, Start(e) \/ Advance(e) PROVE ToldInOrder'
  <2>0. Effect(e) \/ UNCHANGED <<events, notices>>
    BY <1>1, StepEffect
  <2>1. ASSUME NEW id \in DOMAIN events', events'[id].status = "OPEN" PROVE events'[id].told = 0
    <3>1. CASE id \in DOMAIN events
      <4>1. events[id].status = "OPEN" /\ events[id].told = 0
        BY <2>0, <2>1, <3>1, EffectTold DEF ToldInOrder
      <4>2. pc[e] = "announcing" => id # Row(e)
        BY <4>1 DEF ToldInOrder
      <4>3. QED
        BY <2>0, <3>1, <4>1, <4>2, EffectTold
    <3>2. CASE id \notin DOMAIN events
      <4>1. pc[e] = "creating" /\ Effect(e)
        BY <2>0, <2>1, <3>2, EffectKeeps
      <4>2. QED
        BY <2>1, <3>2, <4>1, EffectCreates, InsertedRow
    <3>3. QED
      BY <3>1, <3>2
  <2>2. ASSUME NEW f \in Evaluators, pc'[f] = "announcing"
        PROVE  events'[Row(f)'].status = "RESOLVED"
    <3>1. CASE f = e
      BY <1>1, <2>2, <3>1, AnnouncesResolved, FieldsMove
    <3>2. CASE f # e
      <4>1. pc[f] = "announcing" /\ Row(f)' = Row(f)
        BY <1>1, <2>2, <3>2, OthersStay DEF Row, Current
      <4>2. Row(f) \in DOMAIN events /\ events[Row(f)].status = "RESOLVED"
        BY <4>1, RowIsThere DEF ToldInOrder
      <4>3. QED
        BY <2>0, <4>1, <4>2, EffectTold
    <3>3. QED
      BY <3>1, <3>2
  <2>3. QED
    BY <2>1, <2>2 DEF ToldInOrder
<1>2. CASE UNCHANGED events /\ \A e \in Evaluators : pc'[e] = "idle" /\ loc'[e] = Blank
  BY <1>2 DEF ToldInOrder
<1>3. CASE UNCHANGED <<events, pc, loc>>
  BY <1>3 DEF ToldInOrder, Row, Current
<1>4. QED
  BY <1>1, <1>2, <1>3, AroundSteps

\* A set that grows by at most one element, stays within, or loses one.
LEMMA CountMoves ==
    ASSUME NEW S, NEW T, NEW x, IsFiniteSet(S), T \subseteq S \cup {x}
    PROVE  /\ Cardinality(S) \in Nat /\ Cardinality(T) \in Nat
           /\ Cardinality(T) <= Cardinality(S) + 1
           /\ T \subseteq S => Cardinality(T) <= Cardinality(S)
           /\ x \in S /\ x \notin T => Cardinality(T) + 1 <= Cardinality(S)
<1>1. IsFiniteSet(S \cup {x}) /\ Cardinality(S \cup {x}) <= Cardinality(S) + 1
      /\ Cardinality(S) \in Nat
  BY FS_AddElement, FS_CardinalityType
<1>2. IsFiniteSet(T) /\ Cardinality(T) <= Cardinality(S \cup {x})
  BY <1>1, FS_Subset
<1>3. Cardinality(T) \in Nat /\ Cardinality(S \cup {x}) \in Nat
  BY <1>1, <1>2, FS_CardinalityType
<1>4. T \subseteq S => Cardinality(T) <= Cardinality(S)
  BY FS_Subset
<1>5. ASSUME x \in S, x \notin T PROVE Cardinality(T) + 1 <= Cardinality(S)
  <2>1. IsFiniteSet(S \ {x}) /\ Cardinality(S \ {x}) = Cardinality(S) - 1
    BY <1>5, FS_RemoveElement
  <2>2. T \subseteq S \ {x}
    BY <1>5
  <2>3. Cardinality(T) <= Cardinality(S \ {x})
    BY <2>1, <2>2, FS_Subset
  <2>4. QED
    BY <1>1, <1>3, <2>1, <2>3
<1>6. QED
  BY <1>1, <1>2, <1>3, <1>4, <1>5

LEMMA UntoldFinite == ASSUME TypeOK PROVE IsFiniteSet(Untold)
<1>1. DOMAIN events = 1..Len(events) /\ Len(events) \in Int
  BY DEF TypeOK
<1>2. IsFiniteSet(1..Len(events))
  BY <1>1, FS_Interval
<1>3. Untold \subseteq 1..Len(events)
  BY <1>1 DEF Untold
<1>4. QED
  BY <1>2, <1>3, FS_Subset

\* A resolved row was there before, as it is unless it is the one being written.
LEMMA ResolvedRows ==
    ASSUME TypeOK, NEW e \in Evaluators, Effect(e) \/ UNCHANGED <<events, notices>>,
           NEW id \in DOMAIN events', events'[id].status = "RESOLVED"
    PROVE  /\ id \in DOMAIN events
           /\ id # Row(e) \/ pc[e] \notin {"refreshing", "resolving", "announcing"}
                => events'[id] = events[id]
<1>1. id \in DOMAIN events
  <2>1. CASE pc[e] # "creating" \/ UNCHANGED <<events, notices>>
    BY <2>1, EffectKeeps
  <2>2. CASE pc[e] = "creating" /\ Effect(e)
    BY <2>2, EffectCreates
  <2>3. QED
    BY <2>1, <2>2
<1>2. QED
  BY <1>1, EffectOnRow

LEMMA TellersFinite ==
    ASSUME IsFiniteSet(Evaluators), NEW id
    PROVE  /\ Cardinality(Evaluators) \in Nat
           /\ IsFiniteSet(Tellers(id)) /\ Cardinality(Tellers(id)) \in Nat
           /\ Cardinality(Tellers(id)) <= Cardinality(Evaluators)
<1>1. Tellers(id) \subseteq Evaluators
  BY DEF Tellers
<1>2. QED
  BY <1>1, FS_Subset, FS_CardinalityType

LEMMA StepTellers ==
    ASSUME IsFiniteSet(Evaluators), TypeOK, ToldInOrder, TellersAreCounted, [Next]_vars
    PROVE  TellersAreCounted'
<1> DEFINE n == Cardinality(Evaluators)
           Counted(told, S) == told + Cardinality(S) <= n
<1>0. n \in Nat
  BY FS_CardinalityType
<1>1. ASSUME NEW e \in Evaluators, Start(e) \/ Advance(e), NEW id \in DOMAIN events'
      PROVE  Counted(events'[id].told, Tellers(id)')
  <2> DEFINE S == Tellers(id)
             T == Tellers(id)'
  <2>0. /\ Effect(e) \/ UNCHANGED <<events, notices>>
        /\ IsFiniteSet(S) /\ Cardinality(S) \in Nat
        /\ T \subseteq Evaluators
    BY <1>1, StepEffect, TellersFinite DEF Tellers
  <2>1. Cardinality(T) \in Nat /\ Cardinality(T) <= n
    BY <2>0, FS_Subset, FS_CardinalityType
  <2>2. CASE id \notin DOMAIN events
    <3>1. pc[e] = "creating" /\ Effect(e)
      BY <1>1, <2>0, <2>2, EffectKeeps
    <3>2. events'[id].told = 0
      BY <1>1, <2>2, <3>1, EffectCreates, InsertedRow
    <3>3. QED
      BY <1>0, <2>1, <3>2
  <2>3. CASE id \in DOMAIN events
    <3>1. Counted(events[id].told, S) /\ events[id].told \in Nat
      BY <2>0, <2>3, EffectTold DEF TellersAreCounted
    <3>2. \A f \in Evaluators : f # e => (f \in T <=> f \in S)
      BY <1>1, OthersStay DEF Tellers
    <3>3. CASE FindOpen(e) /\ events[id].status = "OPEN"
      <4>1. events'[id].told = 0
        BY <2>3, <3>3 DEF FindOpen, ToldInOrder
      <4>2. QED
        BY <1>0, <2>1, <4>1
    <3>4. CASE ~(FindOpen(e) /\ events[id].status = "OPEN")
      <4>1. e \in T => e \in S /\ ~(pc[e] = "announcing" /\ Row(e) = id)
        BY <1>1, <2>3, <3>4, StepTells DEF Tellers
      <4>2. T \subseteq S
        BY <2>0, <3>2, <4>1
      <4>3. CASE events'[id].told = events[id].told
        <5>1. Cardinality(T) <= Cardinality(S)
          BY <2>0, <4>2, FS_Subset
        <5>2. QED
          BY <1>0, <2>0, <2>1, <3>1, <4>3, <5>1
      <4>4. CASE /\ events'[id].told = events[id].told + 1
                 /\ pc[e] = "announcing" /\ id = Row(e)
        <5>1. e \notin T
          BY <4>1, <4>4
        <5>2. e \in S
          <6>1. /\ loc[e].rule \in loc[e].rules /\ loc[e].found[loc[e].rule] # None
                /\ pc[e] \in LoopPcs /\ loc[e].rule \in Nat
            <7>1. pc[e] \in LoopPcs /\ Fits(pc[e], loc[e], events)
              BY <4>4 DEF TypeOK, LoopPcs
            <7>2. Current(e) \in 1..NumRules
              BY <7>1, CurrentRule, ConstantFacts
            <7>3. Current(e) \in loc[e].rules /\ loc[e].found[Current(e)] # None
              BY <4>4, <7>1, CurrentRule DEF Fits, Current
            <7>4. Current(e) \in Nat
              BY <7>2
            <7>5. QED
              BY <7>1, <7>3, <7>4 DEF Current
          <6>2. loc[e].rule <= loc[e].rule /\ loc[e].found[loc[e].rule].id = id
            BY <4>4, <6>1 DEF Row, Current
          <6>3. MayTell(pc[e], loc[e], id)
            BY <6>1, <6>2 DEF MayTell
          <6>4. QED
            BY <6>3 DEF Tellers
        <5>3. Cardinality(T) + 1 <= Cardinality(S)
          BY <2>0, <4>2, <5>1, <5>2, CountMoves
        <5>4. QED
          BY <1>0, <2>0, <2>1, <3>1, <4>4, <5>3
      <4>5. QED
        BY <2>0, <2>3, <4>3, <4>4, EffectTold
    <3>5. QED
      BY <3>3, <3>4
  <2>4. QED
    BY <2>2, <2>3
<1>2. CASE UNCHANGED events /\ \A e \in Evaluators : pc'[e] = "idle" /\ loc'[e] = Blank
  <2>1. ASSUME NEW id \in DOMAIN events' PROVE Counted(events'[id].told, Tellers(id)')
    <3>1. Tellers(id)' = {}
      BY <1>2 DEF Tellers, MayTell, LoopPcs
    <3>2. Cardinality(Tellers(id)') = 0
      BY <3>1, FS_EmptySet
    <3>3. Counted(events[id].told, Tellers(id)) /\ events[id].told \in Nat
      BY <1>2, <2>1, RowFields DEF TellersAreCounted
    <3>4. Cardinality(Tellers(id)) \in Nat
      BY TellersFinite
    <3>5. QED
      BY <1>0, <1>2, <3>2, <3>3, <3>4
  <2>2. QED
    BY <2>1 DEF TellersAreCounted
<1>3. CASE UNCHANGED <<events, pc, loc>>
  BY <1>3 DEF TellersAreCounted, Tellers
<1>4. ASSUME NEW e \in Evaluators, Start(e) \/ Advance(e) PROVE TellersAreCounted'
  BY <1>1, <1>4 DEF TellersAreCounted
<1>5. QED
  BY <1>2, <1>3, <1>4, AroundSteps

\* A call leaves at most the row it was about without its announcement.
LEMMA UntoldGrows ==
    ASSUME TypeOK, NEW e \in Evaluators, Start(e) \/ Advance(e)
    PROVE  Untold' \subseteq Untold \cup {Row(e)}
<1> SUFFICES ASSUME NEW id \in Untold', id # Row(e) PROVE id \in Untold
  OBVIOUS
<1>1. /\ id \in DOMAIN events' /\ events'[id].status = "RESOLVED" /\ events'[id].told = 0
      /\ \A f \in Evaluators : ~(pc'[f] = "announcing" /\ Row(f)' = id)
  BY DEF Untold
<1>2. id \in DOMAIN events /\ events'[id] = events[id]
  BY <1>1, StepEffect, ResolvedRows
<1>3. ASSUME NEW f \in Evaluators, pc[f] = "announcing", Row(f) = id PROVE FALSE
  <2>1. f # e
    BY <1>3
  <2>2. pc'[f] = "announcing" /\ Row(f)' = id
    BY <1>3, <2>1, OthersStay DEF Row, Current
  <2>3. QED
    BY <1>1, <2>2
<1>4. QED
  BY <1>1, <1>2, <1>3 DEF Untold

\* A call that succeeds leaves none.
LEMMA UntoldStays ==
    ASSUME TypeOK, NEW e \in Evaluators, Start(e) \/ Advance(e), ~Throw(e)
    PROVE  Untold' \subseteq Untold
<1> SUFFICES ASSUME Row(e) \in Untold', Row(e) \notin Untold PROVE FALSE
  BY UntoldGrows
<1> DEFINE id == Row(e)
<1>1. /\ id \in DOMAIN events' /\ events'[id].status = "RESOLVED" /\ events'[id].told = 0
      /\ \A f \in Evaluators : ~(pc'[f] = "announcing" /\ Row(f)' = id)
  BY DEF Untold
<1>2. id \in DOMAIN events
  BY <1>1, StepEffect, ResolvedRows
<1>3. ASSUME pc[e] # "announcing", events[id].status = "RESOLVED", events[id].told = 0
      PROVE  FALSE
  <2>1. PICK f \in Evaluators : pc[f] = "announcing" /\ Row(f) = id
    BY <1>2, <1>3 DEF Untold
  <2>2. f # e
    BY <1>3, <2>1
  <2>3. pc'[f] = "announcing" /\ Row(f)' = id
    BY <2>1, <2>2, OthersStay DEF Row, Current
  <2>4. QED
    BY <1>1, <2>3
<1>4. CASE pc[e] \notin {"refreshing", "resolving", "announcing"}
  <2>1. events'[id] = events[id]
    BY <1>1, <1>4, StepEffect, ResolvedRows
  <2>2. QED
    BY <1>1, <1>3, <1>4, <2>1
<1>5. CASE pc[e] = "refreshing"
  <2>1. Effect(e)
    BY <1>5 DEF Start, Advance, Probe, LoadRules, FindOpen, NotifyOpen, StoreOpen, Resolve,
                NotifyResolved
  <2>2. QED
    BY <1>1, <1>3, <1>5, <2>1, FieldsMove
<1>6. CASE pc[e] = "resolving"
  <2>1. Resolve(e)
    BY <1>6 DEF Start, Advance, Probe, LoadRules, FindOpen, NotifyOpen, StoreOpen, Resolve,
                NotifyResolved
  <2>2. pc'[e] = "announcing" /\ Row(e)' = Row(e)
    BY <2>1, PlaceMoves DEF Row, Current
  <2>3. QED
    BY <1>1, <2>2
<1>7. CASE pc[e] = "announcing"
  <2>1. Effect(e)
    BY <1>7 DEF Start, Advance, Probe, LoadRules, FindOpen, NotifyOpen, StoreOpen, Resolve,
                NotifyResolved
  <2>2. events'[id].told = events[id].told + 1 /\ events[id].told \in Nat
    BY <1>2, <1>7, <2>1, FieldsMove, RowFields
  <2>3. QED
    BY <1>1, <2>2
<1>8. QED
  BY <1>4, <1>5, <1>6, <1>7

\* Calls that failed and crashes, before and after a step.
LEMMA CountsMove ==
    ASSUME TypeOK, NEW e \in Evaluators, Start(e) \/ Advance(e)
    PROVE  /\ faults \in Nat /\ crashes \in Nat /\ crashes' = crashes
           /\ faults' = IF Throw(e) THEN faults + 1 ELSE faults
<1>1. faults \in Nat /\ crashes \in Nat
  BY AlertsConstants DEF TypeOK
<1>2. CASE Throw(e)
  BY <1>1, <1>2 DEF Throw
<1>3. CASE ~Throw(e)
  BY <1>1, <1>3 DEF Start, Advance, Probe, LoadRules, FindOpen, NotifyOpen, StoreOpen, Resolve,
                    NotifyResolved
<1>4. QED
  BY <1>2, <1>3

UntoldArePaid == Cardinality(Untold) <= faults + crashes * Cardinality(Evaluators)

LEMMA StepUntold ==
    ASSUME IsFiniteSet(Evaluators), TypeOK, UntoldArePaid, [Next]_vars
    PROVE  UntoldArePaid'
<1> DEFINE n == Cardinality(Evaluators)
           held == {Row(e) : e \in Evaluators}
<1>0. /\ IsFiniteSet(Untold) /\ Cardinality(Untold) \in Nat
      /\ faults \in Nat /\ crashes \in Nat /\ n \in Nat
      /\ Cardinality(Untold) <= faults + crashes * n
  BY UntoldFinite, FS_CardinalityType, AlertsConstants DEF TypeOK, UntoldArePaid
<1>1. crashes * n \in Nat /\ (crashes + 1) * n = crashes * n + n
  BY <1>0
<1>2. ASSUME NEW e \in Evaluators, Start(e) \/ Advance(e) PROVE UntoldArePaid'
  <2>1. Untold' \subseteq Untold \cup {Row(e)} /\ (~Throw(e) => Untold' \subseteq Untold)
    BY <1>2, UntoldGrows, UntoldStays
  <2>2. /\ Cardinality(Untold') \in Nat
        /\ Cardinality(Untold') <= Cardinality(Untold) + 1
        /\ Untold' \subseteq Untold => Cardinality(Untold') <= Cardinality(Untold)
    BY <1>0, <2>1, CountMoves
  <2>3. crashes' = crashes /\ faults' = IF Throw(e) THEN faults + 1 ELSE faults
    BY <1>2, CountsMove
  <2> HIDE DEF n
  <2>4. crashes' * n = crashes * n
    BY <2>3
  <2>5. Cardinality(Untold') <= faults' + crashes' * n
    BY <1>0, <1>1, <2>1, <2>2, <2>3, <2>4
  <2>6. QED
    BY <2>5 DEF UntoldArePaid, n
<1>3. ASSUME UNCHANGED events, \A e \in Evaluators : pc'[e] = "idle",
             faults' = faults, crashes' = crashes + 1
      PROVE  UntoldArePaid'
  <2>1. Untold' \subseteq Untold \cup held
    BY <1>3 DEF Untold
  <2>2. IsFiniteSet(held) /\ Cardinality(held) <= n /\ Cardinality(held) \in Nat
    <3> DEFINE row == [e \in Evaluators |-> Row(e)]
    <3>1. row \in Surjection(Evaluators, held)
      BY DEF Surjection
    <3>2. IsFiniteSet(held) /\ Cardinality(held) <= n
      BY <3>1, FS_Surjection
    <3>3. QED
      BY <3>2, FS_CardinalityType
  <2> HIDE DEF n, held
  <2>3. /\ IsFiniteSet(Untold \cup held) /\ Cardinality(Untold \cup held) \in Nat
        /\ Cardinality(Untold \cup held) <= Cardinality(Untold) + Cardinality(held)
    <3>1. IsFiniteSet(Untold \cap held) /\ Cardinality(Untold \cap held) \in Nat
      BY <1>0, <2>2, FS_Intersection, FS_CardinalityType
    <3>2. /\ IsFiniteSet(Untold \cup held)
          /\ Cardinality(Untold \cup held)
               = Cardinality(Untold) + Cardinality(held) - Cardinality(Untold \cap held)
      BY <1>0, <2>2, FS_Union
    <3>3. QED
      BY <1>0, <2>2, <3>1, <3>2, FS_CardinalityType
  <2>4. Cardinality(Untold') \in Nat /\ Cardinality(Untold') <= Cardinality(Untold \cup held)
    BY <2>1, <2>3, FS_Subset, FS_CardinalityType
  <2>5. crashes' * n = crashes * n + n
    BY <1>1, <1>3
  <2>6. Cardinality(Untold') <= faults' + crashes' * n
    BY <1>0, <1>1, <1>3, <2>2, <2>3, <2>4, <2>5
  <2>7. QED
    BY <2>6 DEF UntoldArePaid, n
<1>4. CASE UNCHANGED <<events, pc, loc, faults, crashes>>
  <2>1. Untold' = Untold
    BY <1>4 DEF Untold, Row, Current
  <2>2. QED
    BY <1>4, <2>1 DEF UntoldArePaid
<1>5. QED
  BY <1>2, <1>3, <1>4, AroundSteps

LEMMA InitRecovery ==
    Init => ToldInOrder /\ Untold = {} /\ DOMAIN events = {} /\ faults = 0 /\ crashes = 0
BY DEF Init, ToldInOrder, Untold

\* However evaluations overlap, each slot announces a recovery at most once, and
\* announcements are lost to failed calls and crashes only, one to each call and to each
\* slot a crash cut short (resolveOpenEvent writes the row before the notice and a resolved
\* row is not looked at again).
THEOREM RecoveriesAreTold ==
    ASSUME IsFiniteSet(Evaluators)
    PROVE  Spec => []RecoveryIsTold
<1> DEFINE Inv == ToldInOrder /\ TellersAreCounted /\ UntoldArePaid
<1>1. Init => Inv
  <2> SUFFICES ASSUME Init PROVE TellersAreCounted /\ UntoldArePaid
    BY InitRecovery
  <2>1. Cardinality(Untold) = 0 /\ Cardinality(Evaluators) \in Nat
    BY InitRecovery, FS_EmptySet, FS_CardinalityType
  <2>2. QED
    BY <2>1, InitRecovery DEF TellersAreCounted, UntoldArePaid
<1>2. TypeOK /\ Inv /\ [Next]_vars => Inv'
  BY StepInOrder, StepTellers, StepUntold
<1>3. TypeOK /\ Inv => RecoveryIsTold
  <2> SUFFICES ASSUME TypeOK, Inv, NEW id \in DOMAIN events
               PROVE  events[id].told <= Cardinality(Evaluators)
    BY DEF UntoldArePaid, RecoveryIsTold
  <2>1. events[id].told \in Nat
    BY RowFields
  <2>2. events[id].told + Cardinality(Tellers(id)) <= Cardinality(Evaluators)
    BY DEF TellersAreCounted
  <2>3. QED
    BY <2>1, <2>2, TellersFinite
<1>4. QED
  BY <1>1, <1>2, <1>3, TypeCorrect, PTL DEF Spec

-----------------------------------------------------------------------------
(* Notices are repeated only where a call failed or the process died.        *)

\* An evaluation is about to write the notice it sent for rule r.
Pending(place, l, r) == place \in {"creating", "refreshing"} /\ l.rule = r /\ l.sent

\* Of a slot that goes on in its loop: nothing was sent, and a notice is next if one is due.
LEMMA ContinueDue ==
    ASSUME TypeOK, NEW e \in Evaluators, NEW l \in Locals, NEW after \in 0..NumRules,
           Continue(e, l, after)
    PROVE  /\ ~(pc'[e] \in {"creating", "refreshing"} /\ loc'[e].sent)
           /\ pc'[e] = "notifying" =>
                loc'[e].found[loc'[e].rule] = None \/ ShouldNotify(loc'[e], loc'[e].rule)
<1>1. CASE pc'[e] = "idle"
  BY <1>1
<1>2. CASE /\ loc'[e].found = l.found /\ loc'[e].at = l.at /\ loc'[e].sent = FALSE
           /\ pc'[e] = "notifying" =>
                l.found[loc'[e].rule] = None \/ ShouldNotify(l, loc'[e].rule)
  BY <1>2 DEF ShouldNotify
<1>3. QED
  BY <1>1, <1>2, LoopMoves

\* The same of every step that may go on in the loop.
LEMMA StepContinues ==
    ASSUME TypeOK, NEW e \in Evaluators, FindOpen(e) \/ StoreOpen(e) \/ NotifyResolved(e)
    PROVE  /\ ~(pc'[e] \in {"creating", "refreshing"} /\ loc'[e].sent)
           /\ pc'[e] = "notifying" =>
                loc'[e].found[loc'[e].rule] = None \/ ShouldNotify(loc'[e], loc'[e].rule)
<1>1. CASE FindOpen(e)
  <2>1. PICK l \in Locals : Continue(e, l, 0)
    BY <1>1, FoundRows
  <2>2. 0 \in 0..NumRules
    BY ConstantFacts
  <2>3. QED
    BY <2>1, <2>2, ContinueDue
<1>2. CASE StoreOpen(e) \/ NotifyResolved(e)
  <2>1. pc[e] \in LoopPcs /\ Continue(e, loc[e], Current(e))
    BY <1>2 DEF StoreOpen, NotifyResolved, LoopPcs
  <2>2. loc[e] \in Locals /\ Current(e) \in 0..NumRules
    BY <2>1, CurrentRule
  <2>3. QED
    BY <2>1, <2>2, ContinueDue
<1>3. QED
  BY <1>1, <1>2

\* A notice that is sent is stamped.
LEMMA SentIsStamped ==
    ASSUME TypeOK, NEW e \in Evaluators, pc[e] = "notifying", chat, Effect(e)
    PROVE  /\ Current(e) \in Rules /\ loc[e].at \in 0..MaxTime
           /\ notified'[Current(e)] = loc[e].at /\ UNCHANGED events
           /\ \A r \in Rules : r # Current(e) => notified'[r] = notified[r]
           /\ early' = early + 1 \/ early' = early
           /\ early' # early => /\ notified[Current(e)] # None
                                /\ loc[e].at < notified[Current(e)] + Cooldown
<1>1. Current(e) \in Rules /\ loc[e].at \in 0..MaxTime
  BY CurrentRule DEF LoopPcs, Locals
<1>2. Notice(e) /\ UNCHANGED events
  BY DEF Effect
<1>3. QED
  BY <1>1, <1>2 DEF Notice, TypeOK

LEMMA StepDue ==
    ASSUME Alone, TypeOK, NoticesAreDue, [Next]_vars
    PROVE  NoticesAreDue'
<1>1. ASSUME NEW e \in Evaluators, Start(e) \/ Advance(e)
      PROVE  NoticesAreDue'
  <2>1. \A f \in Evaluators : f = e
    BY DEF Alone
  <2>2. CASE Start(e) \/ Probe(e) \/ LoadRules(e) \/ Throw(e) \/ Resolve(e)
    <3>1. pc'[e] \notin {"notifying", "creating", "refreshing"}
      BY <2>2, PlaceMoves
    <3>2. QED
      BY <2>1, <3>1 DEF NoticesAreDue
  <2>3. CASE NotifyOpen(e)
    <3>1. /\ pc'[e] \in {"creating", "refreshing"} /\ loc'[e].sent = chat
          /\ loc'[e].rule = loc[e].rule /\ loc'[e].at = loc[e].at
      BY <2>3, PlaceMoves
    <3>2. chat => notified'[loc[e].rule] = loc[e].at
      BY <2>3, SentIsStamped DEF NotifyOpen, Current
    <3>3. QED
      BY <2>1, <3>1, <3>2 DEF NoticesAreDue, Current
  <2>4. CASE FindOpen(e) \/ StoreOpen(e) \/ NotifyResolved(e)
    BY <2>1, <2>4, StepContinues DEF NoticesAreDue, Current
  <2>5. QED
    BY <1>1, <2>2, <2>3, <2>4 DEF Advance
<1>2. CASE \A e \in Evaluators : pc'[e] = "idle" /\ loc'[e] = Blank
  BY <1>2 DEF NoticesAreDue
<1>3. CASE UNCHANGED <<notified, pc, loc>>
  BY <1>3 DEF NoticesAreDue, Current, ShouldNotify
<1>4. QED
  BY <1>1, <1>2, <1>3, AroundSteps

\* A notice unrecorded after a call was unrecorded before, unless it is the current rule's.
LEMMA OthersRecorded ==
    ASSUME Alone, TypeOK, NEW e \in Evaluators, Effect(e) \/ UNCHANGED <<events, notices>>,
           NEW r \in Unrecorded', r # Current(e)
    PROVE  r \in Unrecorded
<1>1. r \in Rules /\ notified'[r] # None
      /\ \A id \in OpenEvents(r)' : events'[id].last # notified'[r]
  BY DEF Unrecorded
<1>2. notified'[r] = notified[r]
  BY <1>1 DEF Effect, Notice, InsertEvent, UpdateEvent, ResolveEvent, TellRecovery, TypeOK
<1>3. ASSUME NEW id \in OpenEvents(r)
      PROVE  id \in OpenEvents(r)' /\ events'[id] = events[id]
  <2>1. id \in DOMAIN events /\ events[id].rule = r
    BY <1>3 DEF OpenEvents
  <2>2. events'[id] = events[id]
    BY <2>1, OtherRows
  <2>3. id \in DOMAIN events'
    BY <2>1, EffectType DEF Extends
  <2>4. QED
    BY <1>3, <2>2, <2>3 DEF OpenEvents
<1>4. \A f \in Evaluators : Current(f) # r
  BY DEF Alone
<1>5. QED
  BY <1>1, <1>2, <1>3, <1>4 DEF Unrecorded

\* Where the table keeps the open rows and the notices of a rule that is not pending.
LEMMA StillRecorded ==
    ASSUME NEW r \in Unrecorded', notified'[r] = notified[r],
           \A id \in OpenEvents(r) : id \in OpenEvents(r)' /\ events'[id].last = events[id].last,
           \A f \in Evaluators : ~Pending(pc[f], loc[f], r)
    PROVE  r \in Unrecorded
BY DEF Unrecorded, Pending, Current

\* A call that succeeds leaves nothing unrecorded.
LEMMA UnrecordedStays ==
    ASSUME Alone, TypeOK, CopiesAreFresh, ToldInOrder, NoticesAreDue, NEW e \in Evaluators,
           Start(e) \/ Advance(e), ~Throw(e)
    PROVE  /\ Unrecorded' \subseteq Unrecorded
           /\ pc[e] = "notifying" /\ chat => Current(e) \notin Unrecorded'
<1>q. PICK q : q = Current(e)
  OBVIOUS
<1>0. /\ Unrecorded' \subseteq Unrecorded \cup {q}
      /\ \A f \in Evaluators : f = e
      /\ q = Current(e)
  BY <1>q, StepEffect, OthersRecorded DEF Alone
<1>1. CASE pc[e] = "notifying" /\ chat
  <2>1. NotifyOpen(e)
    BY <1>1 DEF Start, Advance, Probe, LoadRules, FindOpen, NotifyOpen, StoreOpen, Resolve,
                NotifyResolved
  <2>2. pc'[e] \in {"creating", "refreshing"} /\ loc'[e].rule = q /\ loc'[e].sent
    BY <1>0, <1>1, <2>1, PlaceMoves DEF Current
  <2>3. q \notin Unrecorded'
    BY <1>0, <2>2 DEF Unrecorded, Current
  <2>4. QED
    BY <1>0, <2>3
<1>2. CASE pc[e] \notin {"notifying", "creating", "refreshing", "resolving", "announcing"}
           \/ (pc[e] = "notifying" /\ ~chat)
  <2>1. UNCHANGED <<events, notified>>
    BY <1>0, <1>2, StepEffect DEF Effect
  <2>2. \A f \in Evaluators : ~Pending(pc[f], loc[f], q)
    BY <1>0, <1>2 DEF Pending
  <2>3. q \in Unrecorded' => q \in Unrecorded
    BY <1>0, <2>1, <2>2, StillRecorded DEF OpenEvents
  <2>4. QED
    BY <1>0, <1>2, <2>3
<1>3. CASE pc[e] = "creating"
  <2>1. Effect(e) /\ UNCHANGED notified
    BY <1>3 DEF Start, Advance, Probe, LoadRules, FindOpen, NotifyOpen, StoreOpen, Resolve,
                NotifyResolved, Effect, InsertEvent
  <2>2. CASE loc[e].sent
    <3>1. notified[q] = loc[e].at
      BY <1>0, <1>3, <2>2 DEF NoticesAreDue
    <3>2. /\ Len(events) + 1 \in OpenEvents(q)'
          /\ events'[Len(events) + 1].last = loc[e].at
      BY <1>0, <1>3, <2>1, <2>2, EffectCreates, InsertedRow DEF OpenEvents
    <3>3. q \notin Unrecorded'
      BY <1>0, <2>1, <3>1, <3>2 DEF Unrecorded
    <3>4. QED
      BY <1>0, <1>3, <3>3
  <2>3. CASE ~loc[e].sent
    <3>1. \A f \in Evaluators : ~Pending(pc[f], loc[f], q)
      BY <1>0, <2>3 DEF Pending
    <3>2. \A id \in OpenEvents(q) : id \in OpenEvents(q)' /\ events'[id].last = events[id].last
      BY <1>0, <1>3, <2>1, EffectCreates DEF OpenEvents
    <3>3. q \in Unrecorded' => q \in Unrecorded
      BY <1>0, <2>1, <3>1, <3>2, StillRecorded
    <3>4. QED
      BY <1>0, <1>3, <3>3
  <2>4. QED
    BY <1>0, <2>2, <2>3
<1>4. CASE pc[e] = "refreshing"
  <2>1. Effect(e) /\ UNCHANGED notified
    BY <1>4 DEF Start, Advance, Probe, LoadRules, FindOpen, NotifyOpen, StoreOpen, Resolve,
                NotifyResolved, Effect, UpdateEvent
  <2>2. /\ Row(e) \in OpenEvents(q)
        /\ events[Row(e)].last = loc[e].found[q].last
    <3>1. Row(e) \in DOMAIN events /\ events[Row(e)].status = "OPEN"
          /\ events[Row(e)].last = loc[e].found[q].last
      BY <1>0, <1>4, ResolvingOpen
    <3>2. q \in Rules /\ loc[e].found[q] # None /\ Fits(pc[e], loc[e], events)
      BY <1>0, <1>4, RowIsThere DEF TypeOK, Fits, Current
    <3>3. events[Row(e)].rule = q
      BY <1>0, <3>2 DEF Fits, Row
    <3>4. QED
      BY <1>0, <3>1, <3>3 DEF OpenEvents
  <2>3. CASE loc[e].sent
    <3>1. notified[q] = loc[e].at
      BY <1>0, <1>4, <2>3 DEF NoticesAreDue
    <3>2. Row(e) \in OpenEvents(q)' /\ events'[Row(e)].last = loc[e].at
      BY <1>0, <1>4, <2>1, <2>2, <2>3, FieldsMove DEF OpenEvents
    <3>3. q \notin Unrecorded'
      BY <1>0, <2>1, <3>1, <3>2 DEF Unrecorded
    <3>4. QED
      BY <1>0, <1>4, <3>3
  <2>4. CASE ~loc[e].sent
    <3>1. \A f \in Evaluators : ~Pending(pc[f], loc[f], q)
      BY <1>0, <2>4 DEF Pending
    <3>2. \A id \in OpenEvents(q) : id \in OpenEvents(q)' /\ events'[id].last = events[id].last
      BY <1>0, <1>4, <2>1, <2>2, <2>4, FieldsMove DEF OpenEvents
    <3>3. q \in Unrecorded' => q \in Unrecorded
      BY <1>0, <2>1, <3>1, <3>2, StillRecorded
    <3>4. QED
      BY <1>0, <1>4, <3>3
  <2>5. QED
    BY <1>0, <2>3, <2>4
<1>5. CASE pc[e] = "resolving"
  <2>1. ResolveEvent(e)
    BY <1>5 DEF Start, Advance, Probe, LoadRules, FindOpen, NotifyOpen, StoreOpen, Resolve,
                NotifyResolved, Effect
  <2>2. q \in Rules
    BY <1>0, <1>5, RowIsThere
  <2>3. notified'[q] = None
    BY <1>0, <2>1, <2>2 DEF ResolveEvent, TypeOK
  <2>4. q \notin Unrecorded'
    BY <1>0, <2>3 DEF Unrecorded
  <2>5. QED
    BY <1>0, <1>5, <2>4
<1>6. CASE pc[e] = "announcing"
  <2>1. Effect(e) /\ UNCHANGED notified
    BY <1>6 DEF Start, Advance, Probe, LoadRules, FindOpen, NotifyOpen, StoreOpen, Resolve,
                NotifyResolved, Effect, TellRecovery
  <2>2. \A id \in OpenEvents(q) : id \in OpenEvents(q)' /\ events'[id].last = events[id].last
    BY <1>0, <1>6, <2>1, FieldsMove DEF OpenEvents
  <2>3. \A f \in Evaluators : ~Pending(pc[f], loc[f], q)
    BY <1>0, <1>6 DEF Pending
  <2>4. q \in Unrecorded' => q \in Unrecorded
    BY <1>0, <2>1, <2>2, <2>3, StillRecorded
  <2>5. QED
    BY <1>0, <1>6, <2>4
<1>7. QED
  BY <1>1, <1>2, <1>3, <1>4, <1>5, <1>6

LEMMA UnrecordedFinite == IsFiniteSet(Unrecorded) /\ IsFiniteSet(Unrecorded')
<1>1. IsFiniteSet(1..NumRules)
  BY ConstantFacts, FS_Interval
<1>2. Unrecorded \subseteq 1..NumRules /\ Unrecorded' \subseteq 1..NumRules
  BY ConstantFacts DEF Unrecorded
<1>3. QED
  BY <1>1, <1>2, FS_Subset

\* A rule that is announced again within the cooldown had its last notice unrecorded.
LEMMA EarlyWasUnrecorded ==
    ASSUME Alone, TypeOK, OpensAreFresh, OneOpenEvent, CopiesAreFresh, NoticesAreDue,
           NEW e \in Evaluators, Effect(e) \/ UNCHANGED <<events, notices>>, early' # early
    PROVE  /\ pc[e] = "notifying" /\ chat /\ Current(e) \in Unrecorded
           /\ early' = early + 1
<1>q. PICK q : q = Current(e)
  OBVIOUS
<1>1. pc[e] = "notifying" /\ chat /\ Effect(e)
  BY DEF Effect, InsertEvent, UpdateEvent, ResolveEvent, TellRecovery
<1>2. /\ q \in Rules /\ loc[e].at \in 0..MaxTime /\ notified[q] # None
      /\ loc[e].at < notified[q] + Cooldown /\ early' = early + 1
  BY <1>q, <1>1, SentIsStamped
<1>3. pc[e] \in LoopPcs /\ q \in loc[e].rules
  BY <1>q, <1>1, CurrentRule DEF LoopPcs
<1>4. loc[e].found[q] = None \/ ShouldNotify(loc[e], q)
  BY <1>q, <1>1 DEF NoticesAreDue
<1>5. ASSUME NEW id \in OpenEvents(q), events[id].last = notified[q] PROVE FALSE
  <2>1. id \in DOMAIN events /\ events[id] \in Events
    BY <1>5 DEF OpenEvents, TypeOK
  <2>2. events[id].by = e
    BY <2>1 DEF Alone, Events
  <2>3. loc[e].found[q] # None
    <3>1. q <= q
      BY <1>2, ConstantFacts
    <3>2. QED
      BY <1>q, <1>3, <1>5, <2>2, <3>1 DEF OpensAreFresh
  <2>4. q \in Ahead(e)
    BY <1>q, <1>1, <1>3 DEF Ahead
  <2>5. /\ events[loc[e].found[q].id].status = "OPEN"
        /\ events[loc[e].found[q].id].last = loc[e].found[q].last
    BY <1>3, <2>3, <2>4 DEF CopiesAreFresh
  <2>6. loc[e].found[q].id \in OpenEvents(q)
    BY <1>2, <2>3, <2>5 DEF OpenEvents, TypeOK, Fits
  <2>7. loc[e].found[q].last = notified[q]
    BY <1>2, <1>5, <2>5, <2>6 DEF OneOpenEvent
  <2>8. loc[e].at >= notified[q] + Cooldown
    BY <1>2, <1>4, <2>3, <2>7 DEF ShouldNotify
  <2>9. notified[q] \in Nat /\ Cooldown \in Nat /\ loc[e].at \in Nat
    BY <1>2, ConstantFacts DEF TypeOK, Stamps
  <2>10. QED
    BY <1>2, <2>8, <2>9
<1>6. \A f \in Evaluators : pc[f] = "notifying"
  BY <1>1 DEF Alone
<1>7. QED
  BY <1>q, <1>1, <1>2, <1>5, <1>6 DEF Unrecorded

LEMMA StepRepeats ==
    ASSUME Alone, TypeOK, TypeOK', OpensAreFresh, OneOpenEvent, CopiesAreFresh, ToldInOrder,
           NoticesAreDue, RepeatsAreCounted, [Next]_vars
    PROVE  RepeatsAreCounted'
<1>0. /\ IsFiniteSet(Unrecorded) /\ early \in Nat /\ early' \in Nat
      /\ faults \in Nat /\ crashes \in Nat
      /\ early + Cardinality(Unrecorded) <= faults + crashes
      /\ Cardinality(Unrecorded) \in Nat
  BY UnrecordedFinite, FS_CardinalityType, AlertsConstants DEF TypeOK, RepeatsAreCounted
<1>1. ASSUME NEW e \in Evaluators, Start(e) \/ Advance(e)
      PROVE  RepeatsAreCounted'
  <2> DEFINE q == Current(e)
  <2>1. Unrecorded' \subseteq Unrecorded \cup {q}
    BY <1>1, StepEffect, OthersRecorded
  <2>2. early' # early => /\ pc[e] = "notifying" /\ chat /\ q \in Unrecorded
                          /\ early' = early + 1
    BY <1>1, StepEffect, EarlyWasUnrecorded
  <2>3. CASE Throw(e)
    <3>1. faults' = faults + 1 /\ crashes' = crashes
      BY <1>1, <2>3, CountsMove
    <3>2. CASE early' = early
      BY <1>0, <2>1, <3>1, <3>2, CountMoves DEF RepeatsAreCounted
    <3>3. CASE early' # early
      <4>1. Unrecorded' \subseteq Unrecorded
        BY <2>1, <2>2, <3>3
      <4>2. QED
        BY <1>0, <2>1, <2>2, <3>1, <3>3, <4>1, CountMoves DEF RepeatsAreCounted
    <3>4. QED
      BY <3>2, <3>3
  <2>4. CASE ~Throw(e)
    <3>1. faults' = faults /\ crashes' = crashes
      BY <1>1, <2>4, CountsMove
    <3>2. /\ Unrecorded' \subseteq Unrecorded
          /\ pc[e] = "notifying" /\ chat => q \notin Unrecorded'
      BY <1>1, <2>4, UnrecordedStays
    <3>3. CASE early' = early
      BY <1>0, <2>1, <3>1, <3>2, <3>3, CountMoves DEF RepeatsAreCounted
    <3>4. CASE early' # early
      <4>1. q \in Unrecorded /\ q \notin Unrecorded' /\ early' = early + 1
        BY <2>2, <3>2, <3>4
      <4>2. Cardinality(Unrecorded') + 1 <= Cardinality(Unrecorded)
            /\ Cardinality(Unrecorded') \in Nat
        BY <1>0, <2>1, <4>1, CountMoves
      <4>3. QED
        BY <1>0, <3>1, <4>1, <4>2 DEF RepeatsAreCounted
    <3>5. QED
      BY <3>3, <3>4
  <2>5. QED
    BY <2>3, <2>4
<1>2. CASE /\ UNCHANGED <<events, notices, faults>> /\ crashes' = crashes + 1
           /\ \A e \in Evaluators : pc'[e] = "idle" /\ loc'[e] = Blank
  <2>1. ASSUME NEW e \in Evaluators
        PROVE  Unrecorded' \subseteq Unrecorded \cup {Current(e)}
    BY <1>2, <2>1 DEF Alone, Unrecorded, OpenEvents
  <2>2. ASSUME Evaluators = {}
        PROVE  Unrecorded' \subseteq Unrecorded \cup {0}
    BY <1>2, <2>2 DEF Unrecorded, OpenEvents
  <2>3. PICK x : Unrecorded' \subseteq Unrecorded \cup {x}
    BY <2>1, <2>2
  <2>4. /\ Cardinality(Unrecorded') <= Cardinality(Unrecorded) + 1
        /\ Cardinality(Unrecorded') \in Nat
    BY <1>0, <2>3, CountMoves
  <2>5. early' = early /\ faults' = faults /\ crashes' = crashes + 1
    BY <1>2
  <2>6. QED
    BY <1>0, <2>4, <2>5 DEF RepeatsAreCounted
<1>3. CASE UNCHANGED <<events, notices, faults, crashes, pc, loc>>
  <2>1. Unrecorded' = Unrecorded
    BY <1>3 DEF Unrecorded, OpenEvents, Current
  <2>2. QED
    BY <1>3, <2>1 DEF RepeatsAreCounted
<1>4. QED
  BY <1>1, <1>2, <1>3, AroundSteps

\* When evaluations do not overlap, an alert that goes on is announced again within the
\* cooldown at most once for each failed call and each crash (openOrRefreshAlert sends
\* the notice before it writes the stamp that the cooldown is counted from).
THEOREM RepeatsArePaidFor ==
    ASSUME Alone
    PROVE  Spec => []EarlyRepeatsArePaid
<1> DEFINE Table == /\ OpensAreFresh /\ OneOpenPerEvaluator
                    /\ CopiesAreFresh /\ ToldInOrder
           Inv == Table /\ NoticesAreDue /\ RepeatsAreCounted
<1>1. Init => Inv
  <2> SUFFICES ASSUME Init PROVE CopiesAreFresh /\ NoticesAreDue /\ RepeatsAreCounted
    BY InitOneOpen, InitRecovery
  <2>1. Unrecorded = {}
    BY DEF Init, Unrecorded
  <2>2. QED
    BY <2>1, FS_EmptySet DEF Init, CopiesAreFresh, LoopPcs, NoticesAreDue, RepeatsAreCounted
<1>2. TypeOK /\ TypeOK' /\ OneOpenEvent /\ Inv /\ [Next]_vars => Inv'
  <2> SUFFICES ASSUME TypeOK, TypeOK', OneOpenEvent, Inv, [Next]_vars PROVE Inv'
    OBVIOUS
  <2>1. Table'
    BY StepOneOpen, StepCopies, StepInOrder
  <2>2. NoticesAreDue'
    BY StepDue
  <2>3. RepeatsAreCounted'
    BY StepRepeats
  <2>4. QED
    BY <2>1, <2>2, <2>3
<1>3. TypeOK /\ Inv => EarlyRepeatsArePaid
  <2> SUFFICES ASSUME TypeOK, RepeatsAreCounted PROVE EarlyRepeatsArePaid
    OBVIOUS
  <2>1. /\ Cardinality(Unrecorded) \in Nat /\ early \in Nat
        /\ faults \in Nat /\ crashes \in Nat
    BY UnrecordedFinite, FS_CardinalityType, AlertsConstants DEF TypeOK
  <2>2. QED
    BY <2>1 DEF RepeatsAreCounted, EarlyRepeatsArePaid
<1>4. Spec => []OneOpenEvent
  BY AloneOneOpen DEF Alone
<1>5. QED
  BY <1>1, <1>2, <1>3, <1>4, TypeCorrect, PTL DEF Spec
===============================================================================
