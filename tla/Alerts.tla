-------------------------------- MODULE Alerts --------------------------------
(***************************************************************************)
(* Alert evaluation: AlertEvent rows are opened, refreshed and resolved    *)
(* from a monitoring snapshot, and the alert chat is told.  The background *)
(* runner evaluates on a timer and the monitoring screen evaluates on      *)
(* every visit, over the same table.                                       *)
(*                                                                         *)
(* An evaluation is suspended at each probe, file, database and Telegram   *)
(* call; between two of them it runs alone.  Rules are numbered in the     *)
(* order they are evaluated in (by display name), and their names differ.  *)
(***************************************************************************)
EXTENDS Naturals, Sequences, FiniteSets

CONSTANTS
    NumRules,       \* rules the file may hold
    Cooldown,       \* cooldownMinutes
    Runners,        \* slots for evaluations of the background runner
    Screens,        \* slots for evaluations of the monitoring screen
    MaxTime,        \* bound on the clock, in minutes
    MaxChanges,     \* bound on changes of a target or of the rules file
    MaxFaults,      \* bound on failed calls
    MaxCrashes,     \* bound on process crashes
    None            \* no stamp, no row

ASSUME AlertsConstants ==
    /\ NumRules \in Nat \ {0} /\ Cooldown \in Nat \ {0}
    /\ Runners \cap Screens = {}
    /\ MaxTime \in Nat /\ MaxChanges \in Nat
    /\ MaxFaults \in Nat /\ MaxCrashes \in Nat
    /\ None \notin Nat /\ None \notin [id: Nat \ {0}, last: Nat \cup {None}]

Rules == 1..NumRules
Evaluators == Runners \cup Screens
Stamps == 0..MaxTime \cup {None}
\* by and told are ghosts: the slot that opened the event, and how often its recovery
\* was announced (an empty chat id counts as announced).
Events == [rule: Rules, status: {"OPEN", "RESOLVED"}, last: Stamps,
           by: Evaluators, told: Nat]
\* What an evaluation keeps of a row it read.
Copies == [id: Nat \ {0}, last: Stamps]
\* seen: rules whose condition the snapshot meets; rules: the enabled ones;
\* found: the open event read for each; at: the stamp of the evaluation.
Locals == [seen: SUBSET Rules, rules: SUBSET Rules, found: [Rules -> Copies \cup {None}],
           at: 0..MaxTime, rule: 0..NumRules, sent: BOOLEAN]

VARIABLES
    now,        \* Date.now()
    firing,     \* rules whose target meets their condition
    enabled,    \* rules in the file and enabled
    chat,       \* an alert chat is configured
    events,     \* AlertEvent rows by creation
    isRunning,  \* AlertEvaluationRunnerService.isRunning
    pc,         \* where each evaluation is suspended
    loc,        \* its locals
    notified,   \* ghost: stamp of a rule's last opening notice, None once resolved
    early,      \* ghost: opening notices repeated within the cooldown
    changes,    \* ghost: changes of targets and rules so far
    faults,     \* ghost: failed calls so far
    crashes     \* ghost: crashes so far

world == <<firing, enabled, changes>>
notices == <<notified, early>>
counts == <<faults, crashes>>
vars == <<now, firing, enabled, chat, events, isRunning, pc, loc, notified, early,
          changes, faults, crashes>>

\* Inside the loop over the rules, at loc.rule.
LoopPcs == {"notifying", "creating", "refreshing", "resolving", "announcing"}
Pcs == {"idle", "probing", "loading", "finding"} \cup LoopPcs

Blank == [seen |-> {}, rules |-> {}, found |-> [r \in Rules |-> None],
          at |-> 0, rule |-> 0, sent |-> FALSE]

\* Locals l fit a place and a table: an idle slot has none; in the loop an evaluation is
\* at a rule it loaded and holds the row it is about to update.
Fits(place, l, rows) ==
    /\ place = "idle" => l = Blank
    /\ place \in LoopPcs => l.rule \in l.rules
    /\ place \in {"resolving", "announcing", "refreshing"} => l.found[l.rule] # None
    /\ \A r \in Rules : l.found[r] # None =>
          l.found[r].id \in DOMAIN rows /\ rows[l.found[r].id].rule = r

TypeOK ==
    /\ now \in 0..MaxTime
    /\ firing \subseteq Rules /\ enabled \subseteq Rules
    /\ chat \in BOOLEAN /\ isRunning \in BOOLEAN
    /\ events \in Seq(Events)
    /\ pc \in [Evaluators -> Pcs]
    /\ loc \in [Evaluators -> Locals]
    /\ \A e \in Evaluators : Fits(pc[e], loc[e], events)
    /\ notified \in [Rules -> Stamps]
    /\ early \in Nat
    /\ changes \in 0..MaxChanges /\ faults \in 0..MaxFaults /\ crashes \in 0..MaxCrashes

Init ==
    /\ now = 0
    /\ firing = {} /\ enabled = Rules
    /\ chat \in BOOLEAN
    /\ events = <<>>
    /\ isRunning = FALSE
    /\ pc = [e \in Evaluators |-> "idle"]
    /\ loc = [e \in Evaluators |-> Blank]
    /\ notified = [r \in Rules |-> None]
    /\ early = 0 /\ changes = 0 /\ faults = 0 /\ crashes = 0

(***************************************************************************)
(* Building blocks.                                                        *)
(***************************************************************************)
Goto(e, to, l) ==
    /\ pc' = [pc EXCEPT ![e] = to]
    /\ loc' = [loc EXCEPT ![e] = l]

\* Mutated form of Finish: an evaluation keeps its locals.
Finish_KeepLocals(e) ==
    /\ pc' = [pc EXCEPT ![e] = "idle"]
    /\ UNCHANGED loc
    /\ isRunning' = (isRunning /\ e \notin Runners)

\* An evaluation ends, with a result or with an exception: the runner's finally
\* clause clears its flag.
Finish(e) ==
    /\ Goto(e, "idle", Blank)
    /\ isRunning' = (isRunning /\ e \notin Runners)

OpenEvents(r) ==
    {id \in DOMAIN events : events[id].rule = r /\ events[id].status = "OPEN"}

\* Mutated form of Matching: events nobody was told of are left out.
Matching_Notified(l, r) ==
    {id \in OpenEvents(r) : r \in l.rules /\ events[id].last # None}

\* What the query for open events finds for a rule.
Matching(l, r) == {id \in OpenEvents(r) : r \in l.rules}

\* Mutated form of Due: a rule that does not fire is passed over.
Due_FiringOnly(l, after) == {r \in l.rules : r > after /\ r \in l.seen}

\* The rules behind after that need a call.
Due(l, after) ==
    {r \in l.rules : r > after /\ (r \in l.seen \/ l.found[r] # None)}

\* Mutated form of ShouldNotify: the cooldown is a minute short.
ShouldNotify_Short(l, r) ==
    l.found[r].last = None \/ l.at + 1 >= l.found[r].last + Cooldown

ShouldNotify(l, r) ==
    l.found[r].last = None \/ l.at >= l.found[r].last + Cooldown

\* The first call the loop makes for rule r.
FirstCall(l, r) ==
    IF r \notin l.seen THEN "resolving"
    ELSE IF l.found[r] = None THEN "notifying"
    ELSE IF ShouldNotify(l, r) THEN "notifying" ELSE "refreshing"

\* The loop goes on to the next rule that needs a call, or the evaluation returns.
Continue(e, l, after) ==
    \/ Due(l, after) = {} /\ Finish(e)
    \/ \E r \in Due(l, after) :
          /\ \A q \in Due(l, after) : r <= q
          /\ Goto(e, FirstCall(l, r), [l EXCEPT !.rule = r, !.sent = FALSE])
          /\ UNCHANGED isRunning

Current(e) == loc[e].rule
Row(e) == loc[e].found[Current(e)].id

\* The chat got the opening notice of evaluation e.
Notice(e) ==
    LET r == Current(e)
    IN  /\ notified' = [notified EXCEPT ![r] = loc[e].at]
        /\ early' = IF notified[r] # None /\ loc[e].at < notified[r] + Cooldown
                      THEN early + 1 ELSE early

(***************************************************************************)
(* The writes to the table.                                                *)
(***************************************************************************)
InsertEvent(e) ==
    /\ events' = Append(events, [rule |-> Current(e), status |-> "OPEN", by |-> e, told |-> 0,
                                 last |-> IF loc[e].sent THEN loc[e].at ELSE None])
    /\ UNCHANGED notices

\* Mutated form of UpdateEvent: the event is open again.
UpdateEvent_Reopens(e) ==
    /\ events' = [events EXCEPT ![Row(e)].status = "OPEN"]
    /\ UNCHANGED notices

\* The stamp written back is the copy's unless this evaluation sent a notice.
UpdateEvent(e) ==
    /\ events' = [events EXCEPT ![Row(e)].last =
                     IF loc[e].sent THEN loc[e].at ELSE loc[e].found[Current(e)].last]
    /\ UNCHANGED notices

ResolveEvent(e) ==
    /\ events' = [events EXCEPT ![Row(e)].status = "RESOLVED"]
    /\ notified' = [notified EXCEPT ![Current(e)] = None]
    /\ UNCHANGED early

TellRecovery(e) ==
    /\ events' = [events EXCEPT ![Row(e)].told = @ + 1]
    /\ UNCHANGED notices

\* What the call evaluation e is suspended in does where it is applied.
Effect(e) ==
    CASE pc[e] = "notifying" /\ chat -> Notice(e) /\ UNCHANGED events
      [] pc[e] = "creating"   -> InsertEvent(e)
      [] pc[e] = "refreshing" -> UpdateEvent(e)
      [] pc[e] = "resolving"  -> ResolveEvent(e)
      [] pc[e] = "announcing" -> TellRecovery(e)
      [] OTHER                -> UNCHANGED <<events, notices>>

(***************************************************************************)
(* One evaluation.                                                         *)
(***************************************************************************)
\* Mutated form of Start: the timer does not look at the flag.
Start_NoFlag(e) ==
    /\ pc[e] = "idle"
    /\ isRunning' = (isRunning \/ e \in Runners)
    /\ Goto(e, "probing", Blank)
    /\ UNCHANGED <<now, chat, events, world, notices, counts>>

\* The timer, which does nothing while the runner is at work, or a visit.
Start(e) ==
    /\ pc[e] = "idle"
    /\ e \in Runners => ~isRunning
    /\ isRunning' = (isRunning \/ e \in Runners)
    /\ Goto(e, "probing", Blank)
    /\ UNCHANGED <<now, chat, events, world, notices, counts>>

\* The targets are probed, all at the same time.
Probe(e) ==
    /\ pc[e] = "probing"
    /\ Goto(e, "loading", [loc[e] EXCEPT !.seen = firing])
    /\ UNCHANGED <<now, chat, events, isRunning, world, notices, counts>>

\* Mutated form of LoadRules: a rule switched off is evaluated like any other.
LoadRules_All(e) ==
    /\ pc[e] = "loading"
    /\ Goto(e, "finding", [loc[e] EXCEPT !.rules = Rules])
    /\ UNCHANGED <<now, chat, events, isRunning, world, notices, counts>>

LoadRules(e) ==
    /\ pc[e] = "loading"
    /\ Goto(e, "finding", [loc[e] EXCEPT !.rules = enabled])
    /\ UNCHANGED <<now, chat, events, isRunning, world, notices, counts>>

\* findMany has no order: of several open events of a rule, any may come first.
FindOpen(e) ==
    /\ pc[e] = "finding"
    /\ \E pick \in [Rules -> 0..Len(events)] :
          /\ \A r \in Rules :
                IF Matching(loc[e], r) # {}
                  THEN pick[r] \in Matching(loc[e], r) ELSE pick[r] = 0
          /\ LET copy == [r \in Rules |-> IF pick[r] = 0 THEN None
                              ELSE [id |-> pick[r], last |-> events[pick[r]].last]]
             IN  Continue(e, [loc[e] EXCEPT !.found = copy, !.at = now], 0)
    /\ UNCHANGED <<now, chat, events, world, notices, counts>>

\* notifyOpenAlert: without a chat nothing is sent and the answer is false.
NotifyOpen(e) ==
    /\ pc[e] = "notifying"
    /\ Effect(e)
    /\ Goto(e, IF loc[e].found[Current(e)] = None THEN "creating" ELSE "refreshing",
            [loc[e] EXCEPT !.sent = chat])
    /\ UNCHANGED <<now, chat, isRunning, world, counts>>

\* The event is created, refreshed, or its recovery is told: on to the next rule.
StoreOpen(e) ==
    /\ pc[e] \in {"creating", "refreshing"}
    /\ Effect(e)
    /\ Continue(e, loc[e], Current(e))
    /\ UNCHANGED <<now, chat, world, counts>>

\* Mutated form of Resolve: nobody is told of the recovery.
Resolve_Silent(e) ==
    /\ pc[e] = "resolving"
    /\ Effect(e)
    /\ Continue(e, loc[e], Current(e))
    /\ UNCHANGED <<now, chat, world, counts>>

Resolve(e) ==
    /\ pc[e] = "resolving"
    /\ Effect(e)
    /\ Goto(e, "announcing", loc[e])
    /\ UNCHANGED <<now, chat, isRunning, world, counts>>

NotifyResolved(e) ==
    /\ pc[e] = "announcing"
    /\ Effect(e)
    /\ Continue(e, loc[e], Current(e))
    /\ UNCHANGED <<now, chat, world, counts>>

\* The call rejects, its effect applied or not, and ends the evaluation: the rules
\* behind the current one have to wait for the next.  Without a chat a notice is no call.
Throw(e) ==
    /\ pc[e] # "idle"
    /\ pc[e] \in {"notifying", "announcing"} => chat
    /\ faults < MaxFaults
    /\ faults' = faults + 1
    /\ Effect(e) \/ UNCHANGED <<events, notices>>
    /\ Finish(e)
    /\ UNCHANGED <<now, chat, world, crashes>>

\* The process dies and is started again, perhaps with another environment.
CrashAndRestart ==
    /\ crashes < MaxCrashes
    /\ crashes' = crashes + 1
    /\ chat' \in BOOLEAN
    /\ isRunning' = FALSE
    /\ pc' = [e \in Evaluators |-> "idle"]
    /\ loc' = [e \in Evaluators |-> Blank]
    /\ UNCHANGED <<now, events, world, notices, faults>>

(***************************************************************************)
(* What happens around the evaluations.                                    *)
(***************************************************************************)
Tick ==
    /\ now < MaxTime
    /\ now' = now + 1
    /\ UNCHANGED <<chat, events, isRunning, pc, loc, world, notices, counts>>

\* A target meets or leaves a rule's condition, or is taken out of the targets file.
TargetChanges(r) ==
    /\ changes < MaxChanges
    /\ changes' = changes + 1
    /\ firing' = IF r \in firing THEN firing \ {r} ELSE firing \cup {r}
    /\ UNCHANGED <<now, enabled, chat, events, isRunning, pc, loc, notices, counts>>

\* An operator edits the rules file.
RuleChanges(r) ==
    /\ changes < MaxChanges
    /\ changes' = changes + 1
    /\ enabled' = IF r \in enabled THEN enabled \ {r} ELSE enabled \cup {r}
    /\ UNCHANGED <<now, firing, chat, events, isRunning, pc, loc, notices, counts>>

Advance(e) ==
    \/ Probe(e)
    \/ LoadRules(e)
    \/ FindOpen(e)
    \/ NotifyOpen(e)
    \/ StoreOpen(e)
    \/ Resolve(e)
    \/ NotifyResolved(e)
    \/ Throw(e)

Next ==
    \/ \E e \in Evaluators : Start(e) \/ Advance(e)
    \/ CrashAndRestart
    \/ Tick
    \/ \E r \in Rules : TargetChanges(r) \/ RuleChanges(r)

Spec == Init /\ [][Next]_vars

\* The interval timer keeps firing and every call of an evaluation settles.
Fairness ==
    /\ \A e \in Evaluators : WF_vars(Advance(e))
    /\ WF_vars(\E e \in Runners : Start(e))
FairSpec == Spec /\ Fairness

(***************************************************************************)
(* Properties.                                                             *)
(***************************************************************************)
\* The runner never overlaps itself, and its flag is up exactly while it works: an
\* exception or a crash cannot leave it raised, which would end monitoring for good.
RunnersTakeTurns ==
    /\ \A e, f \in Runners : pc[e] # "idle" /\ pc[f] # "idle" => e = f
    /\ isRunning <=> \E e \in Runners : pc[e] # "idle"

\* However evaluations overlap, fail and die, an evaluation slot has at most one event
\* of a rule open: duplicates are as many as evaluations that ran at the same time.
OneOpenPerEvaluator ==
    \A r \in Rules : \A i, j \in OpenEvents(r) : events[i].by = events[j].by => i = j

\* A rule has at most one open event (evaluateTargets looks at one only).
OneOpenEvent == \A r \in Rules : \A i, j \in OpenEvents(r) : i = j

\* Inside the cooldown an alert that goes on is announced again only if a call failed
\* or the process died between the notice and the row that records it.
EarlyRepeatsArePaid == early <= faults + crashes

\* Resolved events whose recovery was not announced and will not be.
Untold ==
    {id \in DOMAIN events :
        /\ events[id].status = "RESOLVED" /\ events[id].told = 0
        /\ \A e \in Evaluators : ~(pc[e] = "announcing" /\ Row(e) = id)}

\* A recovery is announced at most once by each evaluation slot, whatever they read before
\* it was resolved, and goes unannounced only with a failed call, or with a crash for each
\* slot at work: the row is RESOLVED before the notice and is not looked at again.
RecoveryIsTold ==
    /\ \A id \in DOMAIN events : events[id].told <= Cardinality(Evaluators)
    /\ Cardinality(Untold) <= faults + crashes * Cardinality(Evaluators)

\* A refresh carried out on a stale copy never brings a resolved event back.
ResolvedStaysResolved ==
    [][\A id \in DOMAIN events : events[id].status = "RESOLVED" =>
          id \in DOMAIN events' /\ events'[id].status = "RESOLVED"]_vars

RowsOf(r) == {<<id, events[id]>> : id \in {i \in DOMAIN events : events[i].rule = r}}

\* Rule r is off and no evaluation has loaded it.
Off(r) == r \notin enabled /\ \A e \in Evaluators : r \notin loc[e].rules

\* While a rule is off, evaluations leave its events as they are: an open one stays
\* open, whatever its target does.
SwitchedOffIsFrozen ==
    [][\A r \in Rules : Off(r) /\ r \notin enabled' => Off(r)' /\ RowsOf(r)' = RowsOf(r)]_vars

\* In the end the table tells the state of the targets: a rule that goes on firing has
\* an open event, announced if there is a chat, and one that stays quiet has none.
EventsFollowTargets ==
    \A r \in Rules :
        /\ <>[](r \in enabled \cap firing) =>
             <>[](\E id \in OpenEvents(r) : chat => events[id].last # None)
        /\ <>[](r \in enabled \ firing) => <>[](OpenEvents(r) = {})

(***************************************************************************)
(* What OneOpenPerEvaluator lacks to be inductive.                         *)
(***************************************************************************)
\* An evaluation that found no open event of a rule still ahead of it has not opened one.
OpensAreFresh ==
    \A e \in Evaluators : pc[e] \in LoopPcs =>
        /\ pc[e] = "creating" => loc[e].found[Current(e)] = None
        /\ \A r \in loc[e].rules : loc[e].found[r] = None /\ Current(e) <= r =>
              \A id \in OpenEvents(r) : events[id].by # e

IInv == TypeOK /\ RunnersTakeTurns /\ OpensAreFresh /\ OneOpenPerEvaluator

(***************************************************************************)
(* What RecoveryIsTold lacks to be inductive.                              *)
(***************************************************************************)
\* A recovery is told after the row is resolved.
ToldInOrder ==
    /\ \A id \in DOMAIN events : events[id].status = "OPEN" => events[id].told = 0
    /\ \A e \in Evaluators : pc[e] = "announcing" => events[Row(e)].status = "RESOLVED"

\* An evaluation at rule l.rule or on its way to it may still tell the recovery of an event.
MayTell(place, l, id) ==
    /\ place \in LoopPcs
    /\ \E r \in l.rules : l.rule <= r /\ l.found[r] # None /\ l.found[r].id = id
Tellers(id) == {e \in Evaluators : MayTell(pc[e], loc[e], id)}

\* Whoever may still tell a recovery has not told it.
TellersAreCounted ==
    \A id \in DOMAIN events :
        events[id].told + Cardinality(Tellers(id)) <= Cardinality(Evaluators)

(***************************************************************************)
(* What EarlyRepeatsArePaid lacks to be inductive, as long as evaluations  *)
(* do not overlap.                                                         *)
(***************************************************************************)
\* The rules that evaluation e has still to write a row of.
Ahead(e) ==
    {r \in loc[e].rules : Current(e) < r \/ (Current(e) = r /\ pc[e] # "announcing")}

\* The copies an evaluation has still to use are the rows as they are.
CopiesAreFresh ==
    \A e \in Evaluators : pc[e] \in LoopPcs =>
        \A r \in Ahead(e) : LET copy == loc[e].found[r]
                             IN  copy # None => /\ events[copy.id].status = "OPEN"
                                                /\ events[copy.id].last = copy.last

\* A notice is about to be sent where one is due, and a sent one is the rule's last.
NoticesAreDue ==
    \A e \in Evaluators :
        /\ pc[e] = "notifying" =>
              loc[e].found[Current(e)] = None \/ ShouldNotify(loc[e], Current(e))
        /\ pc[e] \in {"creating", "refreshing"} /\ loc[e].sent =>
              notified[Current(e)] = loc[e].at

\* Rules whose last notice is in no open event and in no evaluation about to write one.
Unrecorded ==
    {r \in Rules :
        /\ notified[r] # None
        /\ \A id \in OpenEvents(r) : events[id].last # notified[r]
        /\ \A e \in Evaluators : ~(/\ pc[e] \in {"creating", "refreshing"}
                                    /\ Current(e) = r /\ loc[e].sent)}

\* Each repeated notice, and each that can still be repeated, was paid for.
RepeatsAreCounted == early + Cardinality(Unrecorded) <= faults + crashes
===============================================================================
