---------------------------- MODULE ApprovalProofs ----------------------------
(***************************************************************************)
(* When updates are handled one at a time, the confirmation flow           *)
(* implements OneShotApproval: for every set of tokens and actors, every   *)
(* TTL, and whatever calls fail and crashes happen.                        *)
(***************************************************************************)
EXTENDS ActionRequestsProofs

\* With a single handler slot, the row of the token in hand is where the handler
\* left it.
RowInHand ==
    \A h \in Handlers :
        /\ pc[h] \in {"expiring", "confirming", "cancelling"} =>
             status[call[h].token] = "PENDING"
        /\ pc[h] \in {"executing", "executed"} => status[call[h].token] = "CONFIRMED"
        /\ pc[h] = "executed" => ran[call[h].token][h] > 0
        /\ pc[h] \in {"auditing", "reporting"} => status[call[h].token] = "EXECUTED"
        /\ pc[h] = "failing" =>
             status[call[h].token] \in {"PENDING", "CONFIRMED", "EXECUTED"}

SeqInv == IInv /\ RowInHand

LEMMA InitSeqInv == Init => SeqInv
BY InitInv DEF SeqInv, RowInHand, Init

\* A handler that moves by Goto, seen through the row it holds afterwards.
LEMMA RowStep ==
    ASSUME SeqInv, \A g, h \in Handlers : g = h, NEW h \in Handlers, NEW to, Goto(h, to),
           to \in {"expiring", "confirming", "cancelling"} =>
             status'[call[h].token] = "PENDING",
           to \in {"executing", "executed"} => status'[call[h].token] = "CONFIRMED",
           to = "executed" => ran'[call[h].token][h] > 0,
           to \in {"auditing", "reporting"} => status'[call[h].token] = "EXECUTED",
           to = "failing" => status'[call[h].token] \in {"PENDING", "CONFIRMED", "EXECUTED"}
    PROVE  RowInHand'
<1>1. pc'[h] = to /\ (to # "idle" => call' = call)
  BY DEF Goto, SeqInv, IInv, TypeOK
<1>2. QED
  BY <1>1 DEF RowInHand

\* The token a writing handler has in hand.
LEMMA TokenInHand ==
    ASSUME IInv, NEW h \in Handlers, pc[h] \in WorkingPcs \cup {"inserting"}
    PROVE  call[h].token \in Tokens
BY DEF IInv, LocalsAreSound, WorkingPcs, ConfirmPcs, CancelPcs, TryPcs

LEMMA AdvanceRow ==
    ASSUME SeqInv, \A g, h \in Handlers : g = h, NEW h \in Handlers, Advance(h)
    PROVE  RowInHand'
<1> USE DEF SeqInv
<1>1. TypeOK /\ (pc[h] \in WorkingPcs \cup {"inserting"} => call[h].token \in Tokens)
  BY TokenInHand DEF IInv
<1> USE <1>1 DEF WorkingPcs, ConfirmPcs, CancelPcs, TryPcs
<1>2. CASE FindUser(h)           BY <1>2, RowStep DEF FindUser
<1>3. CASE TouchProfile(h)       BY <1>3 DEF TouchProfile, RowInHand, TypeOK
<1>4. CASE \E t \in Tokens, type \in ActionTypes, ttl \in TTLs : Propose(h, t, type, ttl)
  BY <1>4 DEF Propose, RowInHand, TypeOK
<1>5. CASE Decline(h)            BY <1>5, RowStep DEF Decline
<1>6. CASE InsertRequest(h)      BY <1>6, RowStep DEF InsertRequest, Update
<1>7. CASE AuditRequest(h)       BY <1>7, RowStep DEF AuditRequest, Record
<1>8. CASE ResolveUnusable(h)    BY <1>8, RowStep DEF ResolveUnusable
<1>9. CASE ResolveExpired(h)     BY <1>9, RowStep DEF ResolveExpired, Pending
<1>10. CASE Expire(h)            BY <1>10, RowStep DEF Expire, Update
<1>11. CASE ResolveReady(h)
  <2>1. PICK to \in {"idle", "confirming", "cancelling"} : Goto(h, to)
    BY <1>11 DEF ResolveReady
  <2>2. QED
    BY <1>11, <2>1, RowStep DEF ResolveReady, Ready, Pending
<1>12. CASE MarkConfirmed(h)     BY <1>12, RowStep DEF MarkConfirmed, Update, TypeOK
<1>13. CASE Execute(h)
  <2>1. pc[h] = "executing" /\ status'[call[h].token] = "CONFIRMED"
    BY <1>13 DEF Execute, RowInHand
  <2>2. CASE Goto(h, "failing")
    BY <2>1, <2>2, RowStep
  <2>3. CASE ran' = [ran EXCEPT ![call[h].token][h] = @ + 1] /\ Goto(h, "executed")
    <3>1. ran'[call[h].token][h] > 0
      BY <2>1, <2>3 DEF TypeOK
    <3>2. QED
      BY <2>1, <2>3, <3>1, RowStep
  <2>4. QED
    BY <1>13, <2>2, <2>3 DEF Execute
<1>14. CASE MarkExecuted(h)      BY <1>14, RowStep DEF MarkExecuted, Update, TypeOK
<1>15. CASE AuditSuccess(h)      BY <1>15, RowStep DEF AuditSuccess, Record, RowInHand
<1>16. CASE Report(h)            BY <1>16, RowStep DEF Report
<1>17. CASE MarkFailed(h)        BY <1>17, RowStep DEF MarkFailed, Update
<1>18. CASE AuditFailure(h)      BY <1>18, RowStep DEF AuditFailure, Record
<1>19. CASE MarkCancelled(h)     BY <1>19, RowStep DEF MarkCancelled, Update
<1>20. CASE AuditCancelled(h)    BY <1>20, RowStep DEF AuditCancelled, Record
<1>21. QED
  BY <1>2, <1>3, <1>4, <1>5, <1>6, <1>7, <1>8, <1>9, <1>10, <1>11, <1>12, <1>13,
     <1>14, <1>15, <1>16, <1>17, <1>18, <1>19, <1>20 DEF Advance

LEMMA ThrowRow ==
    ASSUME SeqInv, \A g, h \in Handlers : g = h, NEW h \in Handlers, Throw(h)
    PROVE  RowInHand'
<1> USE DEF SeqInv
<1>1. PICK to \in {"idle", "failing"} : Goto(h, to) /\ (to = "failing" <=> pc[h] \in TryPcs)
  BY DEF Throw
<1>2. CASE to = "idle"
  BY <1>1, <1>2, RowStep
<1>3. CASE to = "failing"
  <2>1. pc[h] \in TryPcs \ {"executing"} /\ call[h].token \in Tokens
    BY <1>1, <1>3, TokenInHand DEF Throw, WorkingPcs, ConfirmPcs
  <2>2. status[call[h].token] \in {"PENDING", "CONFIRMED", "EXECUTED"}
    BY <2>1 DEF RowInHand, TryPcs
  <2>3. Writing(pc[h]) \subseteq {"CONFIRMED", "EXECUTED"}
    BY <2>1 DEF Writing, TryPcs
  <2>4. status'[call[h].token] \in {"PENDING", "CONFIRMED", "EXECUTED"}
    BY <2>1, <2>2, <2>3 DEF Throw, IInv, TypeOK
  <2>5. QED
    BY <1>1, <1>3, <2>4, RowStep
<1>4. QED
  BY <1>2, <1>3

LEMMA NextSeqInv ==
    ASSUME \A g, h \in Handlers : g = h, SeqInv, [Next]_vars
    PROVE  SeqInv'
<1>1. IInv'
  BY NextInv DEF SeqInv
<1>2. RowInHand'
  <2>1. ASSUME NEW h \in Handlers, Advance(h) PROVE RowInHand'
    BY <2>1, AdvanceRow
  <2>2. ASSUME NEW h \in Handlers, Throw(h) PROVE RowInHand'
    BY <2>2, ThrowRow
  <2>3. ASSUME NEW h \in Handlers, NEW op \in Ops, NEW a \in Actors,
               NEW t \in Tokens \cup {None}, Receive(h, op, a, t)
        PROVE  RowInHand'
    BY <2>3 DEF Receive, RowInHand, SeqInv, IInv, TypeOK
  <2>4. CASE CrashAndRestart
    BY <2>4 DEF CrashAndRestart, RowInHand
  <2>5. Tick \/ (\E a \in Administered : AdministerAccount(a)) \/ UNCHANGED vars
        => UNCHANGED <<status, pc, call, ran>>
    BY DEF Tick, AdministerAccount, vars, ghosts
  <2>6. CASE UNCHANGED <<status, pc, call, ran>>
    BY <2>6 DEF SeqInv, RowInHand
  <2>7. QED
    BY <2>1, <2>2, <2>3, <2>4, <2>5, <2>6 DEF Next
<1>3. QED
  BY <1>1, <1>2 DEF SeqInv

-----------------------------------------------------------------------------
(* The mapping: a step that leaves rows and effects alone stutters, a write  *)
(* of one row or one run of an effect is one step of the token.              *)

LEMMA PhaseFrame ==
    ASSUME NEW t \in Tokens,
           \A u \in Tokens \ {t} : status'[u] = status[u] /\ (u \in Used' <=> u \in Used)
    PROVE  Phase' = [Phase EXCEPT ![t] = Phase'[t]]
BY DEF Phase

\* A write of row t, and the statuses a row goes through.
RowChange(t, new) ==
    /\ status' = [status EXCEPT ![t] = new] /\ ran' = ran
    /\ \/ status[t] = "ABSENT" /\ new = "PENDING"
       \/ status[t] = "PENDING" /\ new \in {"CONFIRMED", "CANCELLED", "EXPIRED", "FAILED"}
       \/ status[t] = "CONFIRMED" /\ new \in {"CONFIRMED", "FAILED"}
       \/ status[t] = "CONFIRMED" /\ t \in Used /\ new = "EXECUTED"
       \/ status[t] = "EXECUTED" /\ new \in {"EXECUTED", "FAILED"}

RowChanges == \E t \in Tokens, new \in Statuses : RowChange(t, new)

RowStays == UNCHANGED <<status, ran>>
EffectRuns == \E h \in Handlers : Execute(h) /\ ran' # ran

LEMMA RowMove ==
    ASSUME NEW t \in Tokens, NEW new, RowChange(t, new)
    PROVE  RowChanges
BY DEF RowChanges, RowChange, Statuses

\* A step of the flow leaves rows and effects alone, writes one row, or runs one effect.
LEMMA StepRows ==
    ASSUME \A g, h \in Handlers : g = h, SeqInv, [Next]_vars
    PROVE  RowStays \/ RowChanges \/ EffectRuns
<1>1. CASE UNCHANGED <<status, ran>>
  BY <1>1 DEF RowStays
<1>2. ASSUME NEW h \in Handlers, Advance(h) PROVE RowStays \/ RowChanges \/ EffectRuns
  <2>1. pc[h] \in WorkingPcs \cup {"inserting"} => call[h].token \in Tokens
    BY TokenInHand DEF SeqInv
  <2> USE DEF WorkingPcs, ConfirmPcs, CancelPcs, TryPcs, ghosts
  <2>2. CASE InsertRequest(h)
    BY <2>1, <2>2, RowMove DEF RowChange, InsertRequest, Update, SeqInv, IInv, InsertsAreFresh
  <2>3. CASE Expire(h)
    BY <2>1, <2>3, RowMove DEF RowChange, Expire, Update, SeqInv, RowInHand
  <2>4. CASE MarkConfirmed(h)
    BY <2>1, <2>4, RowMove DEF RowChange, MarkConfirmed, Update, SeqInv, RowInHand
  <2>5. CASE MarkExecuted(h)
    <3>1. call[h].token \in Used
      BY <2>1, <2>5 DEF MarkExecuted, Update, SeqInv, RowInHand, Used
    <3>2. QED
      BY <2>1, <2>5, <3>1, RowMove DEF RowChange, MarkExecuted, Update, SeqInv, RowInHand
  <2>6. CASE MarkFailed(h)
    BY <2>1, <2>6, RowMove DEF RowChange, MarkFailed, Update, SeqInv, RowInHand
  <2>7. CASE MarkCancelled(h)
    BY <2>1, <2>7, RowMove DEF RowChange, MarkCancelled, Update, SeqInv, RowInHand
  <2>8. CASE Execute(h)
    BY <2>8 DEF Execute, RowStays, EffectRuns
  <2>9. CASE \/ FindUser(h) \/ TouchProfile(h) \/ Decline(h) \/ ResolveUnusable(h)
            \/ ResolveExpired(h) \/ ResolveReady(h) \/ Report(h)
            \/ \E t \in Tokens, type \in ActionTypes, ttl \in TTLs : Propose(h, t, type, ttl)
    BY <2>9 DEF RowStays, FindUser, TouchProfile, Decline, ResolveUnusable, ResolveExpired,
                      ResolveReady, Report, Propose
  <2>10. CASE AuditRequest(h) \/ AuditSuccess(h) \/ AuditFailure(h) \/ AuditCancelled(h)
    BY <2>10 DEF RowStays, AuditRequest, AuditSuccess, AuditFailure, AuditCancelled, Record
  <2>11. QED
    BY <1>2, <2>2, <2>3, <2>4, <2>5, <2>6, <2>7, <2>8, <2>9, <2>10 DEF Advance
<1>3. ASSUME NEW h \in Handlers, Throw(h) PROVE RowStays \/ RowChanges \/ EffectRuns
  <2>1. CASE UNCHANGED status
    BY <1>1, <1>3, <2>1 DEF Throw
  <2>2. ASSUME NEW s \in Writing(pc[h]), status' = [status EXCEPT ![call[h].token] = s]
        PROVE  RowStays \/ RowChanges \/ EffectRuns
    <3>1. pc[h] \in {"inserting", "confirming", "executed", "failing", "cancelling", "expiring"}
      BY <2>2 DEF Writing
    <3>2. call[h].token \in Tokens
      BY <3>1, TokenInHand DEF SeqInv, WorkingPcs, ConfirmPcs, CancelPcs, TryPcs
    <3>3. pc[h] = "executed" => call[h].token \in Used
      BY <3>2 DEF SeqInv, RowInHand, Used
    <3>4. pc[h] = "inserting" => status[call[h].token] = "ABSENT"
      BY DEF SeqInv, IInv, InsertsAreFresh
    <3>5. ran' = ran
      BY <1>3 DEF Throw
    <3>6. QED
      BY <2>2, <3>1, <3>2, <3>3, <3>4, <3>5, RowMove DEF RowChange, Writing, SeqInv, RowInHand
  <2>3. QED
    BY <1>3, <2>1, <2>2 DEF Throw
<1>4. CASE ~(\E h \in Handlers : Advance(h) \/ Throw(h))
  BY <1>1, <1>4, EnvironmentFrame
<1>5. QED
  BY <1>2, <1>3, <1>4

LEMMA RowWrite ==
    ASSUME SeqInv, RowChanges
    PROVE  [Approval!Next]_<<Phase, Used>>
<1>0. PICK t \in Tokens, new \in Statuses : RowChange(t, new)
  BY DEF RowChanges
<1> USE <1>0 DEF RowChange
<1>1. Used' = Used
  BY DEF Used
<1>2. status'[t] = new /\ \A u \in Tokens \ {t} : status'[u] = status[u]
  BY DEF SeqInv, IInv, TypeOK
<1>3. Phase' = [Phase EXCEPT ![t] = Phase'[t]]
  BY <1>1, <1>2, PhaseFrame
<1>4. status[t] = "PENDING" => t \notin Used
  BY DEF SeqInv, IInv, RunsAreAccounted, Used
<1>5. /\ Phase[t] = CASE status[t] = "ABSENT" -> "unissued"
                      [] status[t] = "PENDING" -> "offered"
                      [] status[t] = "CONFIRMED" /\ t \notin Used -> "taken"
                      [] OTHER -> "closed"
      /\ Phase'[t] = CASE new = "ABSENT" -> "unissued"
                      [] new = "PENDING" -> "offered"
                      [] new = "CONFIRMED" /\ t \notin Used -> "taken"
                      [] OTHER -> "closed"
  BY <1>1, <1>2 DEF Phase
<1>6. CASE Phase'[t] = Phase[t]
  <2>1. Phase = [u \in Tokens |-> Phase[u]]
    BY DEF Phase
  <2>2. [Phase EXCEPT ![t] = Phase[t]] = Phase
    BY <2>1
  <2>3. QED
    BY <1>1, <1>3, <1>6, <2>2
<1>7. CASE Phase[t] = "unissued" /\ Phase'[t] = "offered"
  BY <1>1, <1>3, <1>7 DEF Approval!Next, Approval!Offer, Approval!Move
<1>8. CASE Phase[t] = "offered" /\ Phase'[t] = "taken"
  BY <1>1, <1>3, <1>8 DEF Approval!Next, Approval!Take, Approval!Move
<1>9. CASE Phase[t] \in {"offered", "taken"} /\ Phase'[t] = "closed"
  BY <1>1, <1>3, <1>9 DEF Approval!Next, Approval!Drop, Approval!Move
<1>10. QED
  BY <1>4, <1>5, <1>6, <1>7, <1>8, <1>9

LEMMA EffectRun ==
    ASSUME SeqInv, \A g, h \in Handlers : g = h, NEW h \in Handlers, Execute(h), ran' # ran
    PROVE  Approval!Next
<1> DEFINE t == call[h].token
<1>1. t \in Tokens /\ status[t] = "CONFIRMED" /\ ran[t][h] = 0
  BY TokenInHand
     DEF Execute, SeqInv, IInv, RowInHand, RunsAreAccounted, Cleared, WorkingPcs,
         ConfirmPcs, TryPcs
<1>2. status' = status /\ ran' = [ran EXCEPT ![t][h] = @ + 1]
  BY DEF Execute
<1>3. ran \in [Tokens -> [Handlers -> Nat]]
  BY DEF SeqInv, IInv, TypeOK
<1> HIDE DEF t
<1>4. t \notin Used
  BY <1>1 DEF Used
<1>5. Used' = Used \cup {t}
  BY <1>1, <1>2, <1>3 DEF Used
<1>6. Phase[t] = "taken" /\ Phase'[t] = "closed"
  BY <1>1, <1>2, <1>4, <1>5 DEF Phase
<1>7. Phase' = [Phase EXCEPT ![t] = Phase'[t]]
  BY <1>1, <1>2, <1>5, PhaseFrame
<1>8. QED
  BY <1>1, <1>4, <1>5, <1>6, <1>7 DEF Approval!Next, Approval!Spend, Approval!Move

LEMMA InitMaps == Init => Approval!Init
BY DEF Init, Approval!Init, Phase, Used

\* Every step of the flow is a step of the token, or none.
LEMMA StepMaps ==
    ASSUME \A g, h \in Handlers : g = h, SeqInv, [Next]_vars
    PROVE  [Approval!Next]_<<Phase, Used>>
<1>1. CASE RowStays
  BY <1>1 DEF RowStays, Phase, Used
<1>2. CASE RowChanges
  BY <1>2, RowWrite
<1>3. CASE EffectRuns
  BY <1>3, EffectRun DEF EffectRuns
<1>4. QED
  BY <1>1, <1>2, <1>3, StepRows

\* With one update at a time the confirmation flow implements the one-shot token.
THEOREM FlowImplementsApproval ==
    ASSUME \A g, h \in Handlers : g = h
    PROVE  Spec => ImplementsApproval
<1>1. SeqInv /\ [Next]_vars => SeqInv'
  BY NextSeqInv
<1>2. SeqInv /\ [Next]_vars => [Approval!Next]_<<Phase, Used>>
  BY StepMaps
<1>3. Spec => Approval!Spec
  BY InitSeqInv, InitMaps, <1>1, <1>2, PTL DEF Spec, Approval!Spec
<1>4. QED
  BY <1>3 DEF ImplementsApproval

\* A step keeps the status of every row true to its effect.
LEMMA StepTells ==
    ASSUME \A g, h \in Handlers : g = h, SeqInv, StatusTellsEffect, [Next]_vars
    PROVE  StatusTellsEffect'
<1>0. /\ status \in [Tokens -> Statuses \cup {"ABSENT"}]
      /\ ran \in [Tokens -> [Handlers -> Nat]]
  BY DEF SeqInv, IInv, TypeOK
<1>1. CASE RowStays
  BY <1>1 DEF RowStays, StatusTellsEffect
<1>2. CASE RowChanges
  <2>1. PICK t \in Tokens, new \in Statuses : RowChange(t, new)
    BY <1>2 DEF RowChanges
  <2>2. ran' = ran /\ status'[t] = new /\ \A u \in Tokens \ {t} : status'[u] = status[u]
    BY <1>0, <2>1 DEF RowChange
  <2>3. /\ new \in {"PENDING", "CANCELLED", "EXPIRED"} => status[t] \in {"ABSENT", "PENDING"}
        /\ new = "EXECUTED" => t \in Used \/ status[t] = "EXECUTED"
        /\ new # "ABSENT"
    BY <2>1 DEF RowChange
  <2>4. t \in Used => \E h \in Handlers : ran[t][h] > 0
    BY DEF Used
  <2>5. QED
    BY <2>2, <2>3, <2>4 DEF StatusTellsEffect
<1>3. CASE EffectRuns
  <2>1. PICK h \in Handlers : Execute(h) /\ ran' # ran
    BY <1>3 DEF EffectRuns
  <2> DEFINE t == call[h].token
  <2>2. t \in Tokens /\ status[t] = "CONFIRMED" /\ status' = status
        /\ ran' = [ran EXCEPT ![t][h] = @ + 1]
    BY <2>1, TokenInHand
       DEF Execute, SeqInv, RowInHand, WorkingPcs, ConfirmPcs, TryPcs
  <2> HIDE DEF t
  <2>3. \A u \in Tokens : u # t => ran'[u] = ran[u]
    BY <1>0, <2>2
  <2>4. QED
    BY <2>2, <2>3 DEF StatusTellsEffect
<1>4. QED
  BY <1>1, <1>2, <1>3, StepRows

\* With one update at a time the recorded status never lies about the effect, whatever
\* calls fail and crashes happen: no effect behind a row that is open, cancelled or
\* expired, and none missing behind one that is EXECUTED (confirm, cancel).
THEOREM StatusIsTruthful ==
    ASSUME \A g, h \in Handlers : g = h
    PROVE  Spec => []StatusTellsEffect
<1>1. SeqInv /\ [Next]_vars => SeqInv'
  BY NextSeqInv
<1>2. Init => StatusTellsEffect
  BY DEF Init, StatusTellsEffect
<1>3. SeqInv /\ StatusTellsEffect /\ [Next]_vars => StatusTellsEffect'
  BY StepTells
<1>4. QED
  BY InitSeqInv, <1>1, <1>2, <1>3, PTL DEF Spec

-----------------------------------------------------------------------------
(* Any number of updates at a time: the flow implements OverlappingApproval. *)

OverlapStep == [Overlapping!Next]_<<Stage, ClearedFor, ran>>

StageOf(s) == CASE s = "ABSENT" -> "unissued" [] s = "PENDING" -> "open" [] OTHER -> "answered"

LEMMA StageIs ==
    Stage = [t \in Tokens |-> StageOf(status[t])]
BY DEF Stage, StageOf

\* A handler that moves is cleared for the token in hand where it arrives, and for
\* nothing else.
LEMMA ClearedStep ==
    ASSUME TypeOK, NEW h \in Handlers, NEW to, Goto(h, to)
    PROVE  ClearedFor' = [t \in Tokens |->
              IF to \in {"confirming", "executing"} /\ t = call[h].token
                THEN ClearedFor[t] \cup {h} ELSE ClearedFor[t] \ {h}]
<1>1. pc'[h] = to /\ (to # "idle" => call' = call)
  BY DEF Goto, TypeOK
<1>2. \A g \in Handlers : g # h => pc'[g] = pc[g] /\ call'[g] = call[g]
  BY DEF Goto, TypeOK
<1>3. ASSUME NEW t \in Tokens
      PROVE  {g \in Handlers : Cleared(g, t)'} =
                IF to \in {"confirming", "executing"} /\ t = call[h].token
                  THEN {g \in Handlers : Cleared(g, t)} \cup {h}
                  ELSE {g \in Handlers : Cleared(g, t)} \ {h}
  <2>1. \A g \in Handlers : g # h => (Cleared(g, t)' <=> Cleared(g, t))
    BY <1>2 DEF Cleared
  <2>2. Cleared(h, t)' <=> to \in {"confirming", "executing"} /\ t = call[h].token
    BY <1>1 DEF Cleared
  <2>3. QED
    BY <2>1, <2>2
<1>4. QED
  BY <1>3 DEF ClearedFor

\* Moving between two places neither of which is past the check clears nobody.
LEMMA UnclearedStep ==
    ASSUME TypeOK, NEW h \in Handlers, NEW to, Goto(h, to),
           pc[h] \notin {"confirming", "executing"}, to \notin {"confirming", "executing"}
    PROVE  ClearedFor' = ClearedFor
<1>1. \A t \in Tokens : h \notin ClearedFor[t]
  BY DEF ClearedFor, Cleared
<1>2. ClearedFor' = [t \in Tokens |-> ClearedFor[t] \ {h}]
  BY ClearedStep
<1>3. \A t \in Tokens : ClearedFor[t] \ {h} = ClearedFor[t]
  BY <1>1
<1>4. QED
  BY <1>2, <1>3 DEF ClearedFor

\* A write of a verdict answers the token, or changes nothing if it has its answer.
LEMMA VerdictWritten ==
    ASSUME TypeOK, NEW t \in Tokens, status[t] # "ABSENT",
           NEW s \in Statuses \ {"PENDING"}, status' = [status EXCEPT ![t] = s]
    PROVE  /\ Stage[t] \in {"open", "answered"}
           /\ Stage' = [Stage EXCEPT ![t] = "answered"]
           /\ Stage[t] = "answered" => Stage' = Stage
<1>1. StageOf(s) = "answered" /\ Stage[t] \in {"open", "answered"}
  BY DEF Statuses, StageOf, Stage
<1>2. \A u \in Tokens : status'[u] = IF u = t THEN s ELSE status[u]
  BY DEF TypeOK
<1>3. Stage' = [u \in Tokens |-> StageOf(status'[u])]
  BY DEF Stage, StageOf
<1>4. Stage' = [Stage EXCEPT ![t] = "answered"]
  BY <1>1, <1>2, <1>3, StageIs
<1>5. Stage[t] = "answered" => Stage' = Stage
  BY <1>4, StageIs
<1>6. QED
  BY <1>1, <1>4, <1>5

LEMMA AnswerMaps ==
    ASSUME IInv, NEW t \in Tokens, status[t] # "ABSENT",
           NEW s \in Statuses \ {"PENDING"}, status' = [status EXCEPT ![t] = s],
           ran' = ran, ClearedFor' = ClearedFor
    PROVE  OverlapStep
<1>1. /\ Stage[t] \in {"open", "answered"}
      /\ Stage' = [Stage EXCEPT ![t] = "answered"]
      /\ Stage[t] = "answered" => Stage' = Stage
  BY VerdictWritten DEF IInv
<1>2. CASE Stage[t] = "open"
  BY <1>1, <1>2 DEF OverlapStep, Overlapping!Next, Overlapping!Answer
<1>3. CASE Stage[t] = "answered"
  BY <1>1, <1>3 DEF OverlapStep
<1>4. QED
  BY <1>1, <1>2, <1>3

LEMMA OfferMaps ==
    ASSUME IInv, NEW t \in Tokens, status[t] = "ABSENT",
           status' = [status EXCEPT ![t] = "PENDING"], ran' = ran, ClearedFor' = ClearedFor
    PROVE  OverlapStep
<1>1. \A u \in Tokens : status'[u] = IF u = t THEN "PENDING" ELSE status[u]
  BY DEF IInv, TypeOK
<1>2. Stage' = [u \in Tokens |-> StageOf(status'[u])]
  BY DEF Stage, StageOf
<1>3. Stage[t] = "unissued" /\ StageOf("PENDING") = "open"
  BY DEF Stage, StageOf
<1>4. Stage' = [Stage EXCEPT ![t] = "open"]
  BY <1>1, <1>2, <1>3, StageIs
<1>5. QED
  BY <1>3, <1>4 DEF OverlapStep, Overlapping!Next, Overlapping!Offer

LEMMA QuietMaps ==
    ASSUME UNCHANGED <<status, ran>>, ClearedFor' = ClearedFor
    PROVE  OverlapStep
BY DEF OverlapStep, Stage

\* The handler leaves the confirmation, its verdict perhaps written.
LEMMA GiveUpMaps ==
    ASSUME IInv, NEW h \in Handlers, pc[h] \in {"confirming", "executing"},
           NEW to, Goto(h, to), to \notin {"confirming", "executing"}, ran' = ran,
           \/ status' = status
           \/ \E s \in Statuses \ {"PENDING"} : status' = [status EXCEPT ![call[h].token] = s]
    PROVE  OverlapStep
<1>1. PICK t \in Tokens : t = call[h].token
  BY TokenInHand DEF WorkingPcs, ConfirmPcs, TryPcs
<1>2. status[t] # "ABSENT"
  BY <1>1 DEF IInv, LocalsAreSound, WorkingPcs, ConfirmPcs, TryPcs
<1>3. h \in ClearedFor[t] /\ \A u \in Tokens : u # t => h \notin ClearedFor[u]
  BY <1>1 DEF ClearedFor, Cleared
<1>4. ClearedFor' = [u \in Tokens |-> ClearedFor[u] \ {h}]
  BY ClearedStep DEF IInv
<1>5. ClearedFor' = [ClearedFor EXCEPT ![t] = @ \ {h}]
  <2>1. \A u \in Tokens : u # t => ClearedFor[u] \ {h} = ClearedFor[u]
    BY <1>3
  <2>2. QED
    BY <1>4, <2>1 DEF ClearedFor
<1>6. Stage' \in {Stage, [Stage EXCEPT ![t] = "answered"]}
  <2>1. CASE status' = status
    BY <2>1 DEF Stage
  <2>2. ASSUME NEW s \in Statuses \ {"PENDING"}, status' = [status EXCEPT ![t] = s]
        PROVE  Stage' = [Stage EXCEPT ![t] = "answered"]
    BY <1>2, <2>2, VerdictWritten DEF IInv
  <2>3. QED
    BY <1>1, <2>1, <2>2
<1>7. QED
  BY <1>3, <1>5, <1>6 DEF OverlapStep, Overlapping!Next, Overlapping!GiveUp

LEMMA ClearMaps ==
    ASSUME IInv, NEW h \in Handlers, ResolveReady(h), Goto(h, "confirming")
    PROVE  OverlapStep
<1>1. PICK t \in Tokens : t = call[h].token
  BY DEF ResolveReady, Ready, Pending, Resolving, IInv, LocalsAreSound
<1>2. Stage[t] = "open" /\ ran[t][h] = 0 /\ pc[h] = "authorized"
  BY <1>1 DEF ResolveReady, Ready, Pending, Resolving, Stage, IInv, RunsAreAccounted
<1>3. \A u \in Tokens : h \notin ClearedFor[u]
  BY <1>2 DEF ClearedFor, Cleared
<1>4. ClearedFor' = [u \in Tokens |->
          IF u = t THEN ClearedFor[u] \cup {h} ELSE ClearedFor[u] \ {h}]
  BY <1>1, ClearedStep DEF IInv
<1>5. ClearedFor' = [ClearedFor EXCEPT ![t] = @ \cup {h}]
  <2>1. \A u \in Tokens : ClearedFor[u] \ {h} = ClearedFor[u]
    BY <1>3
  <2>2. QED
    BY <1>4, <2>1 DEF ClearedFor
<1>6. Stage' = Stage /\ ran' = ran
  BY DEF ResolveReady, Stage, ghosts
<1>7. QED
  BY <1>2, <1>5, <1>6 DEF OverlapStep, Overlapping!Next, Overlapping!Clear

LEMMA ExecuteMaps ==
    ASSUME IInv, NEW h \in Handlers, Execute(h)
    PROVE  OverlapStep
<1>1. pc[h] = "executing" /\ status' = status
  BY DEF Execute
<1>2. CASE ran' = ran /\ Goto(h, "failing")
  BY <1>1, <1>2, GiveUpMaps
<1>3. ASSUME ran' = [ran EXCEPT ![call[h].token][h] = @ + 1],
             NEW to \in {"executed", "failing"}, Goto(h, to)
      PROVE  OverlapStep
  <2>1. PICK t \in Tokens : t = call[h].token
    BY <1>1, TokenInHand DEF WorkingPcs, ConfirmPcs, TryPcs
  <2>2. Stage[t] = "answered" /\ h \in ClearedFor[t]
    BY <1>1, <2>1 DEF IInv, RunsAreAccounted, Stage, ClearedFor, Cleared
  <2>3. \A u \in Tokens : u # t => h \notin ClearedFor[u]
    BY <2>1 DEF ClearedFor, Cleared
  <2>4. ClearedFor' = [u \in Tokens |-> ClearedFor[u] \ {h}]
    BY <1>3, ClearedStep DEF IInv
  <2>5. ClearedFor' = [ClearedFor EXCEPT ![t] = @ \ {h}]
    <3>1. \A u \in Tokens : u # t => ClearedFor[u] \ {h} = ClearedFor[u]
      BY <2>3
    <3>2. QED
      BY <2>4, <3>1 DEF ClearedFor
  <2>6. Stage' = Stage /\ ran' = [ran EXCEPT ![t][h] = @ + 1]
    BY <1>1, <1>3, <2>1 DEF Stage
  <2>7. QED
    BY <2>2, <2>5, <2>6 DEF OverlapStep, Overlapping!Next, Overlapping!Run
<1>4. QED
  BY <1>2, <1>3 DEF Execute

\* The calls that neither clear a handler nor run an effect.
LEMMA WriteMaps ==
    ASSUME IInv, NEW h \in Handlers, NEW to, Goto(h, to), ran' = ran,
           pc[h] \in {"expiring", "executed", "failing", "cancelling"},
           to \notin {"confirming", "executing"},
           NEW s \in Statuses \ {"PENDING"}, status' = [status EXCEPT ![call[h].token] = s]
    PROVE  OverlapStep
<1>1. call[h].token \in Tokens
  BY TokenInHand DEF WorkingPcs, ConfirmPcs, CancelPcs, TryPcs
<1>2. status[call[h].token] # "ABSENT"
  BY DEF IInv, LocalsAreSound, WorkingPcs, ConfirmPcs, CancelPcs, TryPcs
<1>3. ClearedFor' = ClearedFor
  BY UnclearedStep DEF IInv
<1>4. QED
  BY <1>1, <1>2, <1>3, AnswerMaps

LEMMA MarkConfirmedMaps ==
    ASSUME IInv, NEW h \in Handlers, MarkConfirmed(h)
    PROVE  OverlapStep
<1>1. /\ pc[h] = "confirming" /\ Goto(h, "executing") /\ ran' = ran
      /\ status' = [status EXCEPT ![call[h].token] = "CONFIRMED"]
  BY DEF MarkConfirmed, Update, ghosts
<1>2. PICK t \in Tokens : t = call[h].token
  BY <1>1, TokenInHand DEF WorkingPcs, ConfirmPcs, TryPcs
<1>3. status[t] # "ABSENT"
  BY <1>1, <1>2 DEF IInv, LocalsAreSound, WorkingPcs, ConfirmPcs, TryPcs
<1>4. \A u \in Tokens : h \in ClearedFor[u] <=> u = t
  BY <1>1, <1>2 DEF ClearedFor, Cleared
<1>5. ClearedFor' = [u \in Tokens |->
          IF u = t THEN ClearedFor[u] \cup {h} ELSE ClearedFor[u] \ {h}]
  BY <1>1, <1>2, ClearedStep DEF IInv
<1>6. \A u \in Tokens :
        (IF u = t THEN ClearedFor[u] \cup {h} ELSE ClearedFor[u] \ {h}) = ClearedFor[u]
  BY <1>4
<1>7. ClearedFor' = ClearedFor
  BY <1>5, <1>6 DEF ClearedFor
<1>8. QED
  BY <1>1, <1>2, <1>3, <1>7, AnswerMaps DEF Statuses

LEMMA AdvanceMaps ==
    ASSUME IInv, NEW h \in Handlers, Advance(h)
    PROVE  OverlapStep
<1> USE DEF Statuses, ghosts
<1>1. TypeOK
  BY DEF IInv
<1>2. CASE TouchProfile(h) \/ \E t \in Tokens, type \in ActionTypes, ttl \in TTLs :
                                Propose(h, t, type, ttl)
  <2>1. /\ UNCHANGED <<status, ran>>
        /\ \A g \in Handlers, u \in Tokens : Cleared(g, u)' <=> Cleared(g, u)
    BY <1>1, <1>2 DEF TouchProfile, Propose, Cleared, TypeOK
  <2>2. ClearedFor' = ClearedFor
    BY <2>1 DEF ClearedFor
  <2>3. QED
    BY <2>1, <2>2, QuietMaps
<1>3. CASE InsertRequest(h)
  <2>1. call[h].token \in Tokens /\ status[call[h].token] = "ABSENT"
    BY <1>3, TokenInHand DEF InsertRequest, Update, IInv, InsertsAreFresh
  <2>2. ClearedFor' = ClearedFor
    BY <1>1, <1>3, UnclearedStep DEF InsertRequest, Update
  <2>3. QED
    BY <1>3, <2>1, <2>2, OfferMaps DEF InsertRequest, Update
<1>4. CASE Expire(h)        BY <1>4, WriteMaps DEF Expire, Update
<1>5. CASE MarkExecuted(h)  BY <1>5, WriteMaps DEF MarkExecuted, Update
<1>6. CASE MarkFailed(h)    BY <1>6, WriteMaps DEF MarkFailed, Update
<1>7. CASE MarkCancelled(h) BY <1>7, WriteMaps DEF MarkCancelled, Update
<1>8. CASE MarkConfirmed(h) BY <1>8, MarkConfirmedMaps
<1>9. CASE Execute(h)       BY <1>9, ExecuteMaps
<1>10. CASE ResolveReady(h)
  <2>1. CASE Goto(h, "confirming")
    BY <1>10, <2>1, ClearMaps
  <2>2. ASSUME NEW to \in {"idle", "cancelling"}, Goto(h, to) PROVE OverlapStep
    <3>1. pc[h] = "authorized" /\ UNCHANGED <<status, ran>>
      BY <1>10 DEF ResolveReady, Ready, Pending, Resolving
    <3>2. ClearedFor' = ClearedFor
      BY <1>1, <2>2, <3>1, UnclearedStep
    <3>3. QED
      BY <3>1, <3>2, QuietMaps
  <2>3. QED
    BY <1>10, <2>1, <2>2 DEF ResolveReady
<1>11. ASSUME NEW to \in {"idle", "touching", "expiring", "reporting"}, Goto(h, to),
              pc[h] \notin {"confirming", "executing"}, UNCHANGED <<status, ran>>
       PROVE  OverlapStep
  BY <1>1, <1>11, UnclearedStep, QuietMaps
<1>12. CASE FindUser(h)        BY <1>11, <1>12 DEF FindUser
<1>13. CASE Decline(h)         BY <1>11, <1>13 DEF Decline
<1>14. CASE ResolveUnusable(h) BY <1>11, <1>14 DEF ResolveUnusable, Resolving
<1>15. CASE ResolveExpired(h)  BY <1>11, <1>15 DEF ResolveExpired, Pending, Resolving
<1>16. CASE Report(h)          BY <1>11, <1>16 DEF Report
<1>17. CASE AuditRequest(h) \/ AuditSuccess(h) \/ AuditFailure(h) \/ AuditCancelled(h)
  BY <1>11, <1>17 DEF AuditRequest, AuditSuccess, AuditFailure, AuditCancelled, Record
<1>18. QED
  BY <1>2, <1>3, <1>4, <1>5, <1>6, <1>7, <1>8, <1>9, <1>10, <1>12, <1>13, <1>14, <1>15,
     <1>16, <1>17 DEF Advance

LEMMA ThrowMaps ==
    ASSUME IInv, NEW h \in Handlers, Throw(h)
    PROVE  OverlapStep
<1>1. PICK to \in {"idle", "failing"} : Goto(h, to)
  BY DEF Throw
<1>2. ran' = ran /\ pc[h] # "executing" /\ TypeOK
  BY DEF Throw, IInv
<1>3. CASE status' = status
  <2>1. CASE pc[h] = "confirming"
    BY <1>1, <1>2, <1>3, <2>1, GiveUpMaps
  <2>2. CASE pc[h] # "confirming"
    BY <1>1, <1>2, <1>3, <2>2, UnclearedStep, QuietMaps
  <2>3. QED
    BY <2>1, <2>2
<1>4. ASSUME NEW s \in Writing(pc[h]), status' = [status EXCEPT ![call[h].token] = s]
      PROVE  OverlapStep
  <2>1. CASE pc[h] = "confirming"
    <3>1. s \in Statuses \ {"PENDING"}
      BY <1>4, <2>1 DEF Writing, Statuses
    <3>2. QED
      BY <1>1, <1>2, <1>4, <2>1, <3>1, GiveUpMaps
  <2>2. CASE pc[h] = "inserting"
    <3>1. s = "PENDING" /\ call[h].token \in Tokens /\ status[call[h].token] = "ABSENT"
      BY <1>4, <2>2, TokenInHand DEF Writing, IInv, InsertsAreFresh
    <3>2. ClearedFor' = ClearedFor
      BY <1>1, <1>2, <2>2, UnclearedStep
    <3>3. QED
      BY <1>2, <1>4, <3>1, <3>2, OfferMaps
  <2>3. CASE pc[h] \in {"expiring", "executed", "failing", "cancelling"}
    <3>1. s \in Statuses \ {"PENDING"}
      BY <1>4, <2>3 DEF Writing, Statuses
    <3>2. QED
      BY <1>1, <1>2, <1>4, <2>3, <3>1, WriteMaps
  <2>4. QED
    BY <1>4, <2>1, <2>2, <2>3 DEF Writing
<1>5. QED
  BY <1>3, <1>4 DEF Throw

LEMMA AroundMaps ==
    ASSUME IInv, [Next]_vars, ~(\E h \in Handlers : Advance(h) \/ Throw(h))
    PROVE  OverlapStep
<1>1. UNCHANGED <<status, ran>>
  BY EnvironmentFrame
<1>2. CASE CrashAndRestart
  <2>1. \A t \in Tokens : {h \in Handlers : Cleared(h, t)'} = {}
    BY <1>2 DEF CrashAndRestart, Cleared
  <2>2. ClearedFor' = [t \in Tokens |-> {}]
    BY <2>1 DEF ClearedFor
  <2>3. QED
    BY <1>1, <2>2 DEF OverlapStep, Overlapping!Next, Overlapping!Forget, Stage
<1>3. ASSUME NEW h \in Handlers, NEW op \in Ops, NEW a \in Actors,
             NEW t \in Tokens \cup {None}, Receive(h, op, a, t)
      PROVE  OverlapStep
  <2>1. \A g \in Handlers, u \in Tokens : Cleared(g, u)' <=> Cleared(g, u)
    BY <1>3 DEF Receive, Cleared, IInv, TypeOK
  <2>2. ClearedFor' = ClearedFor
    BY <2>1 DEF ClearedFor
  <2>3. QED
    BY <1>1, <2>2, QuietMaps
<1>4. CASE Tick \/ (\E a \in Administered : AdministerAccount(a)) \/ UNCHANGED vars
  <2>1. UNCHANGED <<pc, call>>
    BY <1>4 DEF Tick, AdministerAccount, vars
  <2>2. ClearedFor' = ClearedFor
    BY <2>1 DEF ClearedFor, Cleared
  <2>3. QED
    BY <1>1, <2>2, QuietMaps
<1>5. QED
  BY <1>2, <1>3, <1>4 DEF Next

LEMMA InitOverlapping == Init => Overlapping!Init
BY DEF Init, Overlapping!Init, Stage, ClearedFor, Cleared

\* However many updates are handled at a time, and whatever calls fail and crashes happen,
\* a token runs once at most for each handler that found its row PENDING, and for nobody
\* who comes after its answer (resolveForActor, handleConfirmationCallback).
THEOREM OverlapsFollowApproval == Spec => AnswersAreFinal
<1>1. IInv /\ [Next]_vars => OverlapStep
  <2> SUFFICES ASSUME IInv, [Next]_vars PROVE OverlapStep
    OBVIOUS
  <2>1. ASSUME NEW h \in Handlers, Advance(h) \/ Throw(h) PROVE OverlapStep
    BY <2>1, AdvanceMaps, ThrowMaps
  <2>2. QED
    BY <2>1, AroundMaps
<1>2. Spec => Overlapping!Spec
  BY InitInv, NextInv, InitOverlapping, <1>1, PTL DEF Spec, Overlapping!Spec, OverlapStep
<1>3. QED
  BY <1>2 DEF AnswersAreFinal
=============================================================================
