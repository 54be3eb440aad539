------------------------- MODULE ActionRequestsProofs -------------------------
(***************************************************************************)
(* Theorems about ActionRequests, for every set of actors, tokens and      *)
(* handler slots, every TTL and every number of failures and crashes.      *)
(***************************************************************************)
EXTENDS ActionRequests, TLAPS

USE DEF ghosts

-----------------------------------------------------------------------------
(* Type correctness.                                                         *)

LEMMA PcFacts ==
    /\ TryPcs \subseteq ConfirmPcs
    /\ ConfirmPcs \cup CancelPcs \cup RequestPcs \subseteq Pcs
    /\ {"idle", "received", "touching", "authorized", "expiring"} \subseteq Pcs
BY DEF TryPcs, ConfirmPcs, CancelPcs, RequestPcs, Pcs

\* Goto keeps handlers well typed and idle handlers without locals.
LEMMA GotoType ==
    ASSUME TypeOK, NEW h \in Handlers, NEW to \in Pcs, pc[h] # "idle", Goto(h, to)
    PROVE  /\ pc' \in [Handlers -> Pcs]
           /\ call' \in [Handlers -> Calls \cup {None}]
           /\ \A g \in Handlers : pc'[g] = "idle" <=> call'[g] = None
BY DEF TypeOK, Goto

LEMMA UpdateType ==
    ASSUME TypeOK, NEW h \in Handlers, NEW at \in Pcs \ {"idle"},
           NEW new \in Statuses, NEW to \in Pcs, Update(h, at, new, to)
    PROVE  TypeOK'
<1>1. pc[h] # "idle" /\ Goto(h, to)
  BY DEF Update
<1>2. status' \in [Tokens -> Statuses \cup {"ABSENT"}]
  BY DEF Update, TypeOK
<1>3. QED
  BY <1>1, <1>2, GotoType DEF Update, TypeOK

LEMMA RecordType ==
    ASSUME TypeOK, NEW h \in Handlers, NEW at \in Pcs \ {"idle"},
           NEW result \in AuditResults, NEW to \in Pcs, Record(h, at, result, to)
    PROVE  TypeOK'
<1>1. pc[h] # "idle" /\ Goto(h, to)
  BY DEF Record
<1>2. audit' \in [Tokens -> SUBSET AuditResults]
  BY DEF Record, TypeOK
<1>3. QED
  BY <1>1, <1>2, GotoType DEF Record, TypeOK

\* The steps that only move a handler.
LEMMA MoveType ==
    ASSUME TypeOK, NEW h \in Handlers, NEW to \in Pcs, pc[h] # "idle", Goto(h, to),
           UNCHANGED <<now, account, status, terms, audit, ghosts>>
    PROVE  TypeOK'
BY GotoType DEF TypeOK

LEMMA AccountType ==
    /\ OwnerAccount \in Accounts
    /\ \A r \in GrantableRoles, s \in {"ACTIVE", "DISABLED"} :
          [role |-> r, status |-> s] \in Accounts
BY ConstantsAssumption DEF OwnerAccount, Accounts, Roles, ManagedRoles

LEMMA InitType == Init => TypeOK
<1> SUFFICES ASSUME Init PROVE TypeOK
  OBVIOUS
<1>1. account \in [Actors -> Accounts]
  BY AccountType DEF Init
<1>2. QED
  BY <1>1, PcFacts, ConstantsAssumption DEF Init, TypeOK

LEMMA ReceiveType ==
    ASSUME TypeOK, NEW h \in Handlers, NEW op \in Ops, NEW a \in Actors,
           NEW t \in Tokens \cup {None}, Receive(h, op, a, t)
    PROVE  TypeOK'
<1>1. [op |-> op, actor |-> a, token |-> t, role |-> None] \in Calls
  BY DEF Calls
<1>2. QED
  BY <1>1, NoneAssumption, PcFacts DEF Receive, TypeOK

LEMMA FindUserType ==
    ASSUME TypeOK, NEW h \in Handlers, FindUser(h)
    PROVE  TypeOK'
<1>1. account' \in [Actors -> Accounts]
  BY AccountType DEF FindUser, TypeOK
<1>2. PICK to \in {"touching", "idle"} : Goto(h, to)
  BY DEF FindUser
<1>3. QED
  BY <1>1, <1>2, GotoType, PcFacts DEF FindUser, TypeOK

LEMMA TouchProfileType ==
    ASSUME TypeOK, NEW h \in Handlers, TouchProfile(h)
    PROVE  TypeOK'
<1>1. call[h] \in Calls
  BY DEF TouchProfile, TypeOK
<1>2. account[call[h].actor].role \in Roles
  BY <1>1 DEF TypeOK, Calls, Accounts
<1>3. [call[h] EXCEPT !.role = account[call[h].actor].role] \in Calls
  BY <1>1, <1>2 DEF Calls
<1>4. QED
  BY <1>1, <1>3, PcFacts, NoneAssumption DEF TouchProfile, TypeOK

LEMMA ProposeType ==
    ASSUME TypeOK, NEW h \in Handlers, NEW t \in Tokens, NEW type \in ActionTypes,
           NEW ttl \in TTLs, Propose(h, t, type, ttl)
    PROVE  TypeOK'
<1>1. call[h] \in Calls
  BY DEF Propose, TypeOK
<1>2. [actor |-> call[h].actor, type |-> type, expiresAt |-> now + ttl] \in Terms
  BY <1>1, ConstantsAssumption DEF Calls, Terms, TypeOK
<1>3. [call[h] EXCEPT !.token = t] \in Calls
  BY <1>1 DEF Calls
<1>4. terms' \in [Tokens -> Terms \cup {None}]
  BY <1>2 DEF Propose, TypeOK
<1>5. call' = [call EXCEPT ![h] = [call[h] EXCEPT !.token = t]]
  BY DEF Propose, TypeOK
<1>6. pc' \in [Handlers -> Pcs] /\ call' \in [Handlers -> Calls \cup {None}]
  BY <1>3, <1>5 DEF Propose, TypeOK, Pcs, RequestPcs
<1>7. ASSUME NEW g \in Handlers PROVE pc'[g] = "idle" <=> call'[g] = None
  BY <1>3, <1>5, NoneAssumption DEF Propose, TypeOK
<1>8. QED
  BY <1>4, <1>6, <1>7 DEF Propose, TypeOK

LEMMA ExecuteType ==
    ASSUME TypeOK, NEW h \in Handlers, Execute(h)
    PROVE  TypeOK'
<1>1. PICK to \in {"executed", "failing"} : Goto(h, to)
  BY DEF Execute
<1>2. ran' \in [Tokens -> [Handlers -> Nat]]
  BY DEF Execute, TypeOK
<1>3. QED
  BY <1>1, <1>2, GotoType, PcFacts DEF Execute, TypeOK, ConfirmPcs, TryPcs

LEMMA ThrowType ==
    ASSUME TypeOK, NEW h \in Handlers, Throw(h)
    PROVE  TypeOK'
<1>1. PICK to \in {"failing", "idle"} : Goto(h, to)
  BY DEF Throw
<1>2. status' \in [Tokens -> Statuses \cup {"ABSENT"}]
  BY DEF Throw, TypeOK, Writing, Statuses
<1>3. faults' \in 0..MaxFaults
  BY ConstantsAssumption DEF Throw, TypeOK
<1>4. QED
  BY <1>1, <1>2, <1>3, GotoType, PcFacts DEF Throw, TypeOK, ConfirmPcs

\* One handler step, whichever it is, keeps the types.
LEMMA AdvanceType ==
    ASSUME TypeOK, NEW h \in Handlers, Advance(h)
    PROVE  TypeOK'
<1> USE PcFacts DEF TryPcs, ConfirmPcs, CancelPcs, RequestPcs, AuditResults, Statuses
<1>1. CASE FindUser(h)           BY <1>1, FindUserType
<1>2. CASE TouchProfile(h)       BY <1>2, TouchProfileType
<1>3. CASE \E t \in Tokens, type \in ActionTypes, ttl \in TTLs : Propose(h, t, type, ttl)
  BY <1>3, ProposeType
<1>4. CASE Decline(h)            BY <1>4, MoveType DEF Decline
<1>5. CASE InsertRequest(h)      BY <1>5, UpdateType DEF InsertRequest
<1>6. CASE AuditRequest(h)       BY <1>6, RecordType DEF AuditRequest
<1>7. CASE ResolveUnusable(h)    BY <1>7, MoveType DEF ResolveUnusable, Resolving
<1>8. CASE ResolveExpired(h)     BY <1>8, MoveType DEF ResolveExpired, Pending, Resolving
<1>9. CASE Expire(h)             BY <1>9, UpdateType DEF Expire
<1>10. CASE ResolveReady(h)
  BY <1>10, MoveType DEF ResolveReady, Ready, Pending, Resolving
<1>11. CASE MarkConfirmed(h)     BY <1>11, UpdateType DEF MarkConfirmed
<1>12. CASE Execute(h)           BY <1>12, ExecuteType
<1>13. CASE MarkExecuted(h)      BY <1>13, UpdateType DEF MarkExecuted
<1>14. CASE AuditSuccess(h)      BY <1>14, RecordType DEF AuditSuccess
<1>15. CASE Report(h)            BY <1>15, MoveType DEF Report
<1>16. CASE MarkFailed(h)        BY <1>16, UpdateType DEF MarkFailed
<1>17. CASE AuditFailure(h)      BY <1>17, RecordType DEF AuditFailure
<1>18. CASE MarkCancelled(h)     BY <1>18, UpdateType DEF MarkCancelled
<1>19. CASE AuditCancelled(h)    BY <1>19, RecordType DEF AuditCancelled
<1>20. QED
  BY <1>1, <1>2, <1>3, <1>4, <1>5, <1>6, <1>7, <1>8, <1>9, <1>10, <1>11, <1>12,
     <1>13, <1>14, <1>15, <1>16, <1>17, <1>18, <1>19 DEF Advance

LEMMA NextType == TypeOK /\ [Next]_vars => TypeOK'
<1> SUFFICES ASSUME TypeOK, [Next]_vars PROVE TypeOK'
  OBVIOUS
<1>1. ASSUME NEW h \in Handlers, Advance(h) PROVE TypeOK'
  BY <1>1, AdvanceType
<1>2. ASSUME NEW h \in Handlers, Throw(h) PROVE TypeOK'
  BY <1>2, ThrowType
<1>3. ASSUME NEW h \in Handlers, NEW op \in Ops, NEW a \in Actors,
             NEW t \in Tokens \cup {None}, Receive(h, op, a, t)
      PROVE  TypeOK'
  BY <1>3, ReceiveType
<1>4. CASE CrashAndRestart
  BY <1>4, AccountType, ConstantsAssumption, PcFacts DEF CrashAndRestart, TypeOK
<1>5. CASE Tick
  BY <1>5, ConstantsAssumption DEF Tick, TypeOK
<1>6. ASSUME NEW a \in Administered, AdministerAccount(a) PROVE TypeOK'
  <2>1. PICK new \in Accounts : account' = [account EXCEPT ![a] = new]
    <3>1. a \in Actors /\ account[a] \in Accounts
      BY ConstantsAssumption DEF TypeOK
    <3>2. ASSUME NEW s \in {"ACTIVE", "DISABLED"}
          PROVE  [account[a] EXCEPT !.status = s] \in Accounts
      BY <3>1 DEF Accounts
    <3>3. ASSUME NEW r \in GrantableRoles
          PROVE  [account[a] EXCEPT !.role = r] \in Accounts
      BY <3>1, ConstantsAssumption DEF Accounts, Roles, ManagedRoles
    <3>4. \A new \in Administrated(account[a], GrantableRoles) : new \in Accounts
      BY <3>2, <3>3, AccountType DEF Administrated
    <3>5. QED
      BY <1>6, <3>4 DEF AdministerAccount
  <2>2. QED
    BY <1>6, <2>1 DEF AdministerAccount, TypeOK
<1>7. CASE UNCHANGED vars
  BY <1>7 DEF vars, TypeOK
<1>8. QED
  BY <1>1, <1>2, <1>3, <1>4, <1>5, <1>6, <1>7 DEF Next

\* Every value the flow stores has its type, and an idle handler holds no locals.
THEOREM TypeCorrect == Spec => []TypeOK
BY InitType, NextType, PTL DEF Spec

-----------------------------------------------------------------------------
(* The inductive invariant.                                                  *)

\* The statuses a step of h may change: its own token's, once h has it in hand;
\* no step makes a row absent, and only an insert opens one.
WritesOwnRow(h) ==
    \A t \in Tokens : status'[t] # status[t] =>
        /\ t = call[h].token
        /\ pc[h] \in WorkingPcs \cup {"inserting"}
        /\ status'[t] # "ABSENT"
        /\ status'[t] = "PENDING" => pc[h] = "inserting"

\* What must hold for h to be suspended at a place other than an insert.
Arrives(h, to) ==
    /\ to # "inserting"
    /\ to \notin {"idle", "received", "touching"} => call[h].role \in Roles
    /\ to \in WorkingPcs =>
         /\ call[h].token \in Tokens
         /\ status'[call[h].token] # "ABSENT"
         /\ terms[call[h].token].actor = call[h].actor
    /\ to \in ConfirmPcs \cup CancelPcs =>
         Permits(call[h].role, terms[call[h].token].type)
    /\ to = "executing" => status'[call[h].token] # "PENDING"
    /\ to \in {"confirming", "executing"} => ran[call[h].token][h] = 0

\* A step that moves one handler and writes at most its own row keeps the invariant.
LEMMA HandlerStep ==
    ASSUME IInv, TypeOK', NEW h \in Handlers, NEW to \in Pcs, pc[h] # "idle",
           Goto(h, to), UNCHANGED <<terms, ran>>, WritesOwnRow(h), Arrives(h, to)
    PROVE  IInv'
<1> USE DEF IInv
<1>1. pc'[h] = to /\ (to # "idle" => call' = call)
  BY DEF Goto, TypeOK
<1>2. \A g \in Handlers : g # h => pc'[g] = pc[g] /\ call'[g] = call[g]
  BY DEF Goto, TypeOK
<1>3. \A t \in Tokens : status[t] # "ABSENT" => status'[t] # "ABSENT"
  BY DEF WritesOwnRow
<1>4. LocalsAreSound'
  <2> SUFFICES ASSUME NEW g \in Handlers, pc'[g] # "idle"
      PROVE  /\ (call'[g].op # "request" \/ pc'[g] \in WorkingPcs \cup {"inserting"})
                  => call'[g].token \in Tokens
             /\ pc'[g] \notin {"received", "touching"} => call'[g].role \in Roles
             /\ pc'[g] \in WorkingPcs =>
                  /\ status'[call'[g].token] # "ABSENT"
                  /\ terms'[call'[g].token].actor = call'[g].actor
             /\ pc'[g] \in ConfirmPcs \cup CancelPcs =>
                  Permits(call'[g].role, terms'[call'[g].token].type)
    BY DEF LocalsAreSound
  <2>1. CASE g = h
    BY <1>1, <2>1 DEF LocalsAreSound, Arrives
  <2>2. CASE g # h
    BY <1>2, <1>3, <2>2 DEF LocalsAreSound
  <2>3. QED
    BY <2>1, <2>2
<1>5. InsertsAreFresh'
  <2>1. ASSUME NEW t \in Tokens, status'[t] # "ABSENT" PROVE terms'[t] \in Terms
    <3>1. CASE status'[t] = status[t]
      BY <2>1, <3>1 DEF InsertsAreFresh
    <3>2. CASE status'[t] # status[t]
      BY <3>2 DEF InsertsAreFresh, LocalsAreSound, WritesOwnRow
    <3>3. QED
      BY <3>1, <3>2
  <2>2. ASSUME NEW g \in Handlers, pc'[g] = "inserting"
        PROVE  /\ g # h /\ pc[g] = "inserting" /\ call'[g] = call[g]
               /\ status'[call[g].token] = "ABSENT"
    <3>1. g # h /\ pc[g] = "inserting" /\ call'[g] = call[g]
      BY <1>1, <1>2, <2>2 DEF Arrives
    <3>2. call[g].token \in Tokens /\ status[call[g].token] = "ABSENT"
      BY <3>1 DEF InsertsAreFresh, LocalsAreSound
    <3>3. status'[call[g].token] = status[call[g].token]
      BY <3>1, <3>2 DEF WritesOwnRow, InsertsAreFresh, LocalsAreSound
    <3>4. QED
      BY <3>1, <3>2, <3>3
  <2>3. QED
    BY <2>1, <2>2 DEF InsertsAreFresh
<1>6. RunsAreAccounted'
  <2>1. ASSUME NEW t \in Tokens, status'[t] \in {"ABSENT", "PENDING"}, NEW g \in Handlers
        PROVE  ran'[t][g] = 0
    <3>1. status[t] \in {"ABSENT", "PENDING"}
      BY <2>1 DEF WritesOwnRow, InsertsAreFresh
    <3>2. QED
      BY <3>1 DEF RunsAreAccounted
  <2>2. ASSUME NEW g \in Handlers, pc'[g] = "executing"
        PROVE  status'[call'[g].token] \notin {"ABSENT", "PENDING"}
    <3>1. CASE g = h
      BY <1>1, <2>2, <3>1 DEF Arrives, WorkingPcs, ConfirmPcs, TryPcs
    <3>2. CASE g # h
      <4>1. pc[g] = "executing" /\ call'[g] = call[g]
        BY <1>2, <2>2, <3>2
      <4>2. call[g].token \in Tokens /\ status[call[g].token] \notin {"ABSENT", "PENDING"}
        BY <4>1 DEF RunsAreAccounted, LocalsAreSound, WorkingPcs, ConfirmPcs, TryPcs
      <4>3. QED
        BY <4>1, <4>2 DEF WritesOwnRow, InsertsAreFresh
    <3>3. QED
      BY <3>1, <3>2
  <2>3. ASSUME NEW g \in Handlers, NEW t \in Tokens, Cleared(g, t)'
        PROVE  ran'[t][g] = 0
    <3>1. CASE g = h
      BY <1>1, <2>3, <3>1 DEF Arrives, Cleared
    <3>2. CASE g # h
      BY <1>2, <2>3, <3>2 DEF RunsAreAccounted, Cleared
    <3>3. QED
      BY <3>1, <3>2
  <2>4. QED
    BY <2>1, <2>2, <2>3 DEF RunsAreAccounted
<1>7. RunsOnlyByOverlap'
  BY DEF RunsOnlyByOverlap
<1>8. QED
  BY <1>4, <1>5, <1>6, <1>7

LEMMA InitInv == Init => IInv
BY InitType, NoneAssumption
   DEF Init, IInv, LocalsAreSound, InsertsAreFresh, RunsAreAccounted, Cleared,
       RunsOnlyByOverlap

LEMMA ReceiveInv ==
    ASSUME IInv, NEW h \in Handlers, NEW op \in Ops, NEW a \in Actors,
           NEW t \in Tokens \cup {None}, Receive(h, op, a, t)
    PROVE  IInv'
<1> USE DEF IInv
<1>1. TypeOK'
  BY ReceiveType
<1>2. pc'[h] = "received" /\ call'[h] = [op |-> op, actor |-> a, token |-> t, role |-> None]
  BY DEF Receive, TypeOK
<1>3. \A g \in Handlers : g # h => pc'[g] = pc[g] /\ call'[g] = call[g]
  BY DEF Receive, TypeOK
<1>4. UNCHANGED <<status, terms, ran>>
  BY DEF Receive
<1>5. op # "request" => t \in Tokens
  BY DEF Receive
<1>6. LocalsAreSound'
  BY <1>2, <1>3, <1>4, <1>5
     DEF LocalsAreSound, WorkingPcs, ConfirmPcs, CancelPcs, TryPcs
<1>7. InsertsAreFresh'
  BY <1>2, <1>3, <1>4 DEF InsertsAreFresh
<1>8. RunsAreAccounted'
  BY <1>2, <1>3, <1>4 DEF RunsAreAccounted, Cleared
<1>9. QED
  BY <1>1, <1>4, <1>6, <1>7, <1>8 DEF RunsOnlyByOverlap

LEMMA TouchProfileInv ==
    ASSUME IInv, NEW h \in Handlers, TouchProfile(h)
    PROVE  IInv'
<1> USE DEF IInv
<1>1. TypeOK' /\ call[h] \in Calls
  BY TouchProfileType DEF TouchProfile, TypeOK
<1>2. account[call[h].actor].role \in Roles
  BY <1>1 DEF TypeOK, Calls, Accounts
<1>3. /\ pc'[h] = "authorized"
      /\ call'[h].op = call[h].op /\ call'[h].token = call[h].token
      /\ call'[h].actor = call[h].actor /\ call'[h].role \in Roles
  BY <1>1, <1>2 DEF TouchProfile, TypeOK, Calls
<1>4. \A g \in Handlers : g # h => pc'[g] = pc[g] /\ call'[g] = call[g]
  BY DEF TouchProfile, TypeOK
<1>5. UNCHANGED <<status, terms, ran>> /\ pc[h] = "touching"
  BY DEF TouchProfile
<1>6. LocalsAreSound'
  BY <1>3, <1>4, <1>5 DEF LocalsAreSound, WorkingPcs, ConfirmPcs, CancelPcs, TryPcs
<1>7. InsertsAreFresh'
  BY <1>3, <1>4, <1>5 DEF InsertsAreFresh
<1>8. RunsAreAccounted'
  BY <1>3, <1>4, <1>5 DEF RunsAreAccounted, Cleared
<1>9. QED
  BY <1>1, <1>5, <1>6, <1>7, <1>8 DEF RunsOnlyByOverlap

LEMMA ProposeInv ==
    ASSUME IInv, NEW h \in Handlers, NEW t \in Tokens, NEW type \in ActionTypes,
           NEW ttl \in TTLs, Propose(h, t, type, ttl)
    PROVE  IInv'
<1> USE DEF IInv
<1>1. TypeOK' /\ call[h] \in Calls
  BY ProposeType DEF Propose, TypeOK
<1>2. /\ pc'[h] = "inserting"
      /\ call'[h].op = call[h].op /\ call'[h].token = t
      /\ call'[h].actor = call[h].actor /\ call'[h].role = call[h].role
  BY <1>1 DEF Propose, TypeOK, Calls
<1>3. \A g \in Handlers : g # h => pc'[g] = pc[g] /\ call'[g] = call[g]
  BY DEF Propose, TypeOK
<1>4. UNCHANGED <<status, ran>> /\ pc[h] = "authorized"
  BY DEF Propose
<1>5. status[t] = "ABSENT" /\ \A g \in Handlers : ~(pc[g] = "inserting" /\ call[g].token = t)
  BY DEF Propose, Fresh
<1>6. /\ terms'[t] \in Terms /\ terms'[t].actor = call[h].actor
      /\ \A u \in Tokens : u # t => terms'[u] = terms[u]
  <2>1. [actor |-> call[h].actor, type |-> type, expiresAt |-> now + ttl] \in Terms
    BY <1>1, ConstantsAssumption DEF Calls, Terms, TypeOK
  <2>2. QED
    BY <2>1 DEF Propose, TypeOK
<1>7. LocalsAreSound'
  BY <1>2, <1>3, <1>4, <1>5, <1>6
     DEF LocalsAreSound, WorkingPcs, ConfirmPcs, CancelPcs, TryPcs
<1>8. InsertsAreFresh'
  <2>1. \A u \in Tokens : status'[u] # "ABSENT" => terms'[u] \in Terms
    BY <1>4, <1>5, <1>6 DEF InsertsAreFresh
  <2>2. ASSUME NEW g \in Handlers, pc'[g] = "inserting", g # h
        PROVE  /\ pc[g] = "inserting" /\ call'[g] = call[g]
               /\ call[g].token \in Tokens /\ call[g].token # t
    BY <1>3, <1>5, <2>2 DEF LocalsAreSound
  <2>3. QED
    BY <1>2, <1>4, <1>5, <1>6, <2>1, <2>2 DEF InsertsAreFresh
<1>9. RunsAreAccounted'
  BY <1>2, <1>3, <1>4 DEF RunsAreAccounted, Cleared
<1>10. QED
  BY <1>1, <1>4, <1>7, <1>8, <1>9 DEF RunsOnlyByOverlap

LEMMA ExecuteInv ==
    ASSUME IInv, NEW h \in Handlers, Execute(h)
    PROVE  IInv'
<1> USE DEF IInv
<1>1. TypeOK'
  BY ExecuteType
<1>2. PICK to \in {"executed", "failing"} : Goto(h, to)
  BY DEF Execute
<1>3. pc[h] = "executing" /\ pc'[h] = to /\ call' = call /\ UNCHANGED <<status, terms>>
  BY <1>2 DEF Execute, Goto, TypeOK
<1>4. \A g \in Handlers : g # h => pc'[g] = pc[g]
  BY <1>2 DEF Goto, TypeOK
<1>5. /\ call[h].token \in Tokens
      /\ status[call[h].token] \notin {"ABSENT", "PENDING"}
      /\ ran[call[h].token][h] = 0
  BY <1>3 DEF LocalsAreSound, RunsAreAccounted, Cleared, WorkingPcs, ConfirmPcs, TryPcs
<1>6. \A t \in Tokens, g \in Handlers :
         \/ ran'[t][g] = ran[t][g]
         \/ t = call[h].token /\ g = h /\ ran'[t][g] = 1
  BY <1>5 DEF Execute, TypeOK
<1>7. LocalsAreSound'
  BY <1>3, <1>4 DEF LocalsAreSound, WorkingPcs, ConfirmPcs, CancelPcs, TryPcs
<1>8. InsertsAreFresh'
  BY <1>3, <1>4 DEF InsertsAreFresh
<1>9. RunsAreAccounted'
  <2>1. ASSUME NEW t \in Tokens, status'[t] \in {"ABSENT", "PENDING"}, NEW g \in Handlers
        PROVE  ran'[t][g] = 0
    BY <1>3, <1>5, <1>6, <2>1 DEF RunsAreAccounted
  <2>2. ASSUME NEW g \in Handlers, pc'[g] = "executing"
        PROVE  status'[call'[g].token] \notin {"ABSENT", "PENDING"}
    BY <1>3, <1>4, <2>2 DEF RunsAreAccounted
  <2>3. ASSUME NEW g \in Handlers, NEW t \in Tokens, Cleared(g, t)'
        PROVE  ran'[t][g] = 0
    BY <1>3, <1>4, <1>6, <2>3 DEF RunsAreAccounted, Cleared
  <2>4. QED
    BY <2>1, <2>2, <2>3 DEF RunsAreAccounted
<1>10. RunsOnlyByOverlap'
  BY <1>6 DEF RunsOnlyByOverlap
<1>11. QED
  BY <1>1, <1>7, <1>8, <1>9, <1>10

\* An unconditional update by a handler that holds an issued token.
LEMMA UpdateInv ==
    ASSUME IInv, NEW h \in Handlers, NEW at \in WorkingPcs,
           NEW new \in Statuses \ {"PENDING"}, NEW to \in Pcs, Update(h, at, new, to),
           TypeOK',
           to = "idle" \/ (at \in ConfirmPcs \cup CancelPcs /\ to \in ConfirmPcs \cup CancelPcs),
           to # "confirming", to = "executing" => at = "confirming"
    PROVE  IInv'
<1> USE DEF IInv
<1>1. pc[h] = at /\ pc[h] # "idle" /\ Goto(h, to) /\ UNCHANGED <<terms, ran>>
  BY DEF Update, WorkingPcs, ConfirmPcs, CancelPcs, TryPcs
<1>2. /\ call[h].token \in Tokens /\ call[h].role \in Roles
      /\ terms[call[h].token].actor = call[h].actor
      /\ at \in ConfirmPcs \cup CancelPcs =>
           Permits(call[h].role, terms[call[h].token].type)
  BY <1>1 DEF LocalsAreSound, WorkingPcs, ConfirmPcs, CancelPcs, TryPcs
<1>3. status' = [status EXCEPT ![call[h].token] = new]
  BY DEF Update
<1>4. WritesOwnRow(h)
  BY <1>1, <1>2, <1>3 DEF WritesOwnRow, TypeOK, Statuses
<1>5. Arrives(h, to)
  <2>1. status'[call[h].token] = new
    BY <1>2, <1>3 DEF TypeOK
  <2>2. to = "executing" => ran[call[h].token][h] = 0
    BY <1>1, <1>2 DEF RunsAreAccounted, Cleared
  <2>3. to # "inserting"
    BY DEF ConfirmPcs, CancelPcs, TryPcs
  <2>4. QED
    BY <1>2, <2>1, <2>2, <2>3 DEF Arrives, Statuses, WorkingPcs, ConfirmPcs, CancelPcs, TryPcs
<1>6. QED
  BY <1>1, <1>4, <1>5, HandlerStep

\* A step that writes no row and leaves h among the pcs of the same branch, or done.
LEMMA MoveInv ==
    ASSUME IInv, TypeOK', NEW h \in Handlers, pc[h] # "idle", NEW to \in Pcs, Goto(h, to),
           UNCHANGED <<status, terms, ran>>,
           \/ to \in {"idle", "touching"}
           \/ /\ pc[h] \in ConfirmPcs
              /\ to \in {"failing", "reporting"}
    PROVE  IInv'
<1> USE DEF IInv
<1>1. WritesOwnRow(h)
  BY DEF WritesOwnRow
<1>2. Arrives(h, to)
  BY DEF Arrives, LocalsAreSound, WorkingPcs, ConfirmPcs, CancelPcs, TryPcs
<1>3. QED
  BY <1>1, <1>2, HandlerStep

LEMMA ResolveExpiredInv ==
    ASSUME IInv, TypeOK', NEW h \in Handlers, ResolveExpired(h)
    PROVE  IInv'
<1> USE DEF IInv
<1>1. /\ pc[h] = "authorized" /\ call[h].op # "request" /\ Goto(h, "expiring")
      /\ UNCHANGED <<status, terms, ran>>
      /\ status[call[h].token] = "PENDING"
      /\ terms[call[h].token].actor = call[h].actor
  BY DEF ResolveExpired, Pending, Resolving
<1>2. WritesOwnRow(h)
  BY <1>1 DEF WritesOwnRow
<1>3. Arrives(h, "expiring")
  BY <1>1 DEF Arrives, LocalsAreSound, ConfirmPcs, CancelPcs, TryPcs
<1>4. QED
  BY <1>1, <1>2, <1>3, HandlerStep DEF Pcs

LEMMA ResolveReadyInv ==
    ASSUME IInv, TypeOK', NEW h \in Handlers, ResolveReady(h)
    PROVE  IInv'
<1> USE DEF IInv
<1>1. /\ pc[h] = "authorized" /\ call[h].op # "request"
      /\ UNCHANGED <<status, terms, ran>>
      /\ status[call[h].token] = "PENDING"
      /\ terms[call[h].token].actor = call[h].actor
  BY DEF ResolveReady, Ready, Pending, Resolving
<1>2. PICK to \in {"idle", "confirming", "cancelling"} :
         /\ Goto(h, to)
         /\ to # "idle" => Permits(call[h].role, terms[call[h].token].type)
  BY DEF ResolveReady
<1>3. WritesOwnRow(h)
  BY <1>1 DEF WritesOwnRow
<1>4. call[h].token \in Tokens /\ call[h].role \in Roles
  BY <1>1 DEF LocalsAreSound
<1>5. ran[call[h].token][h] = 0
  BY <1>1, <1>4 DEF RunsAreAccounted
<1>6. Arrives(h, to)
  BY <1>1, <1>2, <1>4, <1>5 DEF Arrives, WorkingPcs, ConfirmPcs, CancelPcs, TryPcs
<1>7. QED
  BY <1>1, <1>2, <1>3, <1>6, HandlerStep DEF Pcs, ConfirmPcs, CancelPcs, TryPcs

\* The insert opens the row of the token the handler drafted.
LEMMA InsertInv ==
    ASSUME IInv, TypeOK', NEW h \in Handlers, NEW to \in {"idle", "auditingRequest"},
           pc[h] = "inserting", Goto(h, to), UNCHANGED <<terms, ran>>,
           \/ UNCHANGED status /\ to = "idle"
           \/ status' = [status EXCEPT ![call[h].token] = "PENDING"]
    PROVE  IInv'
<1> USE DEF IInv
<1>1. /\ call[h].token \in Tokens /\ call[h].role \in Roles
      /\ terms[call[h].token].actor = call[h].actor
  BY DEF LocalsAreSound, InsertsAreFresh
<1>2. WritesOwnRow(h)
  BY DEF WritesOwnRow, TypeOK
<1>3. Arrives(h, to)
  BY <1>1 DEF Arrives, TypeOK, WorkingPcs, ConfirmPcs, CancelPcs, TryPcs
<1>4. QED
  BY <1>2, <1>3, HandlerStep DEF Pcs, RequestPcs

LEMMA ThrowInv ==
    ASSUME IInv, NEW h \in Handlers, Throw(h)
    PROVE  IInv'
<1> USE DEF IInv
<1>1. TypeOK' /\ UNCHANGED <<terms, ran>> /\ pc[h] \notin {"idle", "executing"}
  BY ThrowType DEF Throw
<1>2. PICK to \in {"idle", "failing"} :
         /\ Goto(h, to)
         /\ to = "failing" <=> pc[h] \in TryPcs
  BY DEF Throw
<1>3. \/ UNCHANGED status
      \/ \E s \in Writing(pc[h]) : status' = [status EXCEPT ![call[h].token] = s]
  BY DEF Throw
<1>4. CASE pc[h] = "inserting"
  <2>1. Goto(h, "idle")
    BY <1>2, <1>4 DEF TryPcs, Goto
  <2>2. \/ UNCHANGED status
        \/ status' = [status EXCEPT ![call[h].token] = "PENDING"]
    BY <1>3, <1>4 DEF Writing
  <2>3. QED
    BY <1>1, <1>2, <1>4, <2>1, <2>2, InsertInv
<1>5. CASE pc[h] # "inserting"
  <2>1. pc[h] \in WorkingPcs \/ Writing(pc[h]) = {}
    BY <1>5 DEF Writing, WorkingPcs, ConfirmPcs, CancelPcs, TryPcs
  <2>2. Writing(pc[h]) \subseteq Statuses \ {"PENDING"}
    BY <1>5 DEF Writing, Statuses
  <2>3. WritesOwnRow(h)
    BY <1>3, <2>1, <2>2 DEF WritesOwnRow, TypeOK, Statuses
  <2>4. Arrives(h, to)
    <3>1. CASE to = "idle"
      BY <3>1 DEF Arrives, WorkingPcs, ConfirmPcs, CancelPcs, TryPcs
    <3>2. CASE to = "failing"
      <4>1. /\ call[h].token \in Tokens /\ call[h].role \in Roles
            /\ status[call[h].token] # "ABSENT"
            /\ terms[call[h].token].actor = call[h].actor
            /\ Permits(call[h].role, terms[call[h].token].type)
        BY <1>1, <1>2, <3>2 DEF LocalsAreSound, WorkingPcs, ConfirmPcs, TryPcs
      <4>2. status'[call[h].token] # "ABSENT"
        BY <2>3, <4>1 DEF WritesOwnRow
      <4>3. QED
        BY <3>2, <4>1, <4>2 DEF Arrives
    <3>3. QED
      BY <3>1, <3>2
  <2>5. QED
    BY <1>1, <1>2, <2>3, <2>4, HandlerStep DEF Pcs, ConfirmPcs
<1>6. QED
  BY <1>4, <1>5

\* One handler step, whichever it is, keeps the invariant.
LEMMA AdvanceInv ==
    ASSUME IInv, NEW h \in Handlers, Advance(h)
    PROVE  IInv'
<1>t. TypeOK /\ TypeOK'
  BY AdvanceType DEF IInv
<1> USE <1>t DEF Pcs, WorkingPcs, TryPcs, ConfirmPcs, CancelPcs, RequestPcs, Statuses
<1>1. CASE FindUser(h)
  <2>1. pc[h] # "idle" /\ UNCHANGED <<status, terms, ran>>
    BY <1>1 DEF FindUser
  <2>2. PICK to \in {"touching", "idle"} : Goto(h, to)
    BY <1>1 DEF FindUser
  <2>3. QED
    BY <2>1, <2>2, MoveInv
<1>2. CASE TouchProfile(h)       BY <1>2, TouchProfileInv
<1>3. CASE \E t \in Tokens, type \in ActionTypes, ttl \in TTLs : Propose(h, t, type, ttl)
  BY <1>3, ProposeInv
<1>4. CASE Decline(h)            BY <1>4, MoveInv DEF Decline
<1>5. CASE InsertRequest(h)      BY <1>5, InsertInv DEF InsertRequest, Update
<1>6. CASE AuditRequest(h)       BY <1>6, MoveInv DEF AuditRequest, Record
<1>7. CASE ResolveUnusable(h)    BY <1>7, MoveInv DEF ResolveUnusable, Resolving
<1>8. CASE ResolveExpired(h)     BY <1>8, ResolveExpiredInv
<1>9. CASE Expire(h)             BY <1>9, UpdateInv DEF Expire
<1>10. CASE ResolveReady(h)      BY <1>10, ResolveReadyInv
<1>11. CASE MarkConfirmed(h)     BY <1>11, UpdateInv DEF MarkConfirmed
<1>12. CASE Execute(h)           BY <1>12, ExecuteInv
<1>13. CASE MarkExecuted(h)      BY <1>13, UpdateInv DEF MarkExecuted
<1>14. CASE AuditSuccess(h)      BY <1>14, MoveInv DEF AuditSuccess, Record
<1>15. CASE Report(h)            BY <1>15, MoveInv DEF Report
<1>16. CASE MarkFailed(h)        BY <1>16, UpdateInv DEF MarkFailed
<1>17. CASE AuditFailure(h)      BY <1>17, MoveInv DEF AuditFailure, Record
<1>18. CASE MarkCancelled(h)     BY <1>18, UpdateInv DEF MarkCancelled
<1>19. CASE AuditCancelled(h)    BY <1>19, MoveInv DEF AuditCancelled, Record
<1>20. QED
  BY <1>1, <1>2, <1>3, <1>4, <1>5, <1>6, <1>7, <1>8, <1>9, <1>10, <1>11, <1>12,
     <1>13, <1>14, <1>15, <1>16, <1>17, <1>18, <1>19 DEF Advance

LEMMA NextInv == IInv /\ [Next]_vars => IInv'
<1> SUFFICES ASSUME IInv, [Next]_vars PROVE IInv'
  OBVIOUS
<1>1. ASSUME NEW h \in Handlers, Advance(h) PROVE IInv'
  BY <1>1, AdvanceInv
<1>2. ASSUME NEW h \in Handlers, Throw(h) PROVE IInv'
  BY <1>2, ThrowInv
<1>3. ASSUME NEW h \in Handlers, NEW op \in Ops, NEW a \in Actors,
             NEW t \in Tokens \cup {None}, Receive(h, op, a, t)
      PROVE  IInv'
  BY <1>3, ReceiveInv
<1>4. TypeOK'
  BY NextType DEF IInv
<1> USE DEF IInv, LocalsAreSound, InsertsAreFresh, RunsAreAccounted, Cleared, RunsOnlyByOverlap
<1>5. CASE CrashAndRestart
  <2>1. /\ \A h \in Handlers : pc'[h] = "idle"
        /\ UNCHANGED <<status, terms, ran>>
    BY <1>5 DEF CrashAndRestart
  <2>2. QED
    BY <1>4, <2>1
<1>6. CASE UNCHANGED <<status, terms, pc, call, ran>>
  BY <1>4, <1>6
<1>7. Tick \/ (\E a \in Administered : AdministerAccount(a)) \/ UNCHANGED vars
      => UNCHANGED <<status, terms, pc, call, ran>>
  BY DEF Tick, AdministerAccount, vars
<1>8. QED
  BY <1>1, <1>2, <1>3, <1>5, <1>6, <1>7 DEF Next

\* Whatever overlaps, fails or crashes, one handler runs a token's effect at most once.
THEOREM OverlapOnly == Spec => []RunsOnlyByOverlap
<1>1. IInv => RunsOnlyByOverlap
  BY DEF IInv
<1>2. QED
  BY InitInv, NextInv, <1>1, PTL DEF Spec

\* When updates are handled one at a time the token is single-use.
THEOREM SequentialSingleUse ==
    ASSUME \A g, h \in Handlers : g = h
    PROVE  Spec => []SingleUse
<1>1. IInv => SingleUse
  BY DEF IInv, SingleUse
<1>2. QED
  BY InitInv, NextInv, <1>1, PTL DEF Spec

-----------------------------------------------------------------------------
(* Action properties.                                                        *)

\* Which of a handler's steps can touch a row, an effect, the terms or the clock.
LEMMA HandlerFrame ==
    ASSUME IInv, NEW h \in Handlers, Advance(h) \/ Throw(h), NEW t \in Tokens
    PROVE  /\ status'[t] # status[t] =>
                /\ t = call[h].token
                /\ pc[h] \in {"inserting", "expiring", "confirming", "executed",
                              "failing", "cancelling"}
           /\ ran'[t] # ran[t] => t = call[h].token /\ pc[h] = "executing"
           /\ status'[t] # status[t] => status'[t] # "ABSENT"
           /\ terms'[t] # terms[t] => status[t] = "ABSENT"
           /\ now' = now
<1> DEFINE Frame ==
       /\ status'[t] # status[t] =>
            /\ t = call[h].token
            /\ pc[h] \in {"inserting", "expiring", "confirming", "executed",
                          "failing", "cancelling"}
       /\ ran'[t] # ran[t] => t = call[h].token /\ pc[h] = "executing"
       /\ status'[t] # status[t] => status'[t] # "ABSENT"
       /\ terms'[t] # terms[t] => status[t] = "ABSENT"
       /\ now' = now
<1>1. UNCHANGED <<now, status, terms, ran>> => Frame
  OBVIOUS
<1>2. ASSUME NEW at, NEW new \in Statuses, NEW to, Update(h, at, new, to),
             at \in {"inserting", "expiring", "confirming", "executed", "failing", "cancelling"}
      PROVE  Frame
  BY <1>2 DEF Update, IInv, TypeOK, Statuses
<1>3. CASE InsertRequest(h) \/ Expire(h) \/ MarkConfirmed(h) \/ MarkExecuted(h)
           \/ MarkFailed(h) \/ MarkCancelled(h)
  BY <1>2, <1>3 DEF InsertRequest, Expire, MarkConfirmed, MarkExecuted, MarkFailed,
                    MarkCancelled, Statuses
<1>4. CASE AuditRequest(h) \/ AuditSuccess(h) \/ AuditFailure(h) \/ AuditCancelled(h)
  BY <1>1, <1>4 DEF AuditRequest, AuditSuccess, AuditFailure, AuditCancelled, Record
<1>5. CASE FindUser(h) \/ TouchProfile(h) \/ Decline(h) \/ ResolveUnusable(h)
           \/ ResolveExpired(h) \/ ResolveReady(h) \/ Report(h)
  BY <1>1, <1>5 DEF FindUser, TouchProfile, Decline, ResolveUnusable, ResolveExpired,
                    ResolveReady, Report
<1>6. ASSUME NEW u \in Tokens, NEW type \in ActionTypes, NEW ttl \in TTLs,
             Propose(h, u, type, ttl)
      PROVE  Frame
  BY <1>6 DEF Propose, Fresh, IInv, TypeOK
<1>7. CASE Execute(h)
  BY <1>7 DEF Execute, IInv, TypeOK
<1>8. CASE Throw(h)
  <2>1. UNCHANGED <<now, terms, ran>>
    BY <1>8 DEF Throw
  <2>2. \/ UNCHANGED status
        \/ \E s \in Writing(pc[h]) : status' = [status EXCEPT ![call[h].token] = s]
    BY <1>8 DEF Throw
  <2>3. QED
    BY <2>1, <2>2 DEF Writing, IInv, TypeOK
<1>9. QED
  BY <1>3, <1>4, <1>5, <1>6, <1>7, <1>8 DEF Advance

\* The steps around the handlers touch no row and no effect.
LEMMA EnvironmentFrame ==
    ASSUME [Next]_vars, ~(\E h \in Handlers : Advance(h) \/ Throw(h))
    PROVE  UNCHANGED <<status, terms, ran>>
BY DEF Next, Receive, CrashAndRestart, Tick, AdministerAccount, vars

\* A token is moved and its effect run only by its requester, holding the permission.
THEOREM RequesterOnly == Spec => OnlyTheRequesterMovesAToken
<1> DEFINE Moved(t) ==
       status[t] # "ABSENT" /\ (status'[t] # status[t] \/ ran'[t] # ran[t])
       => \E h \in Handlers :
            /\ pc[h] \notin {"idle", "received", "touching"}
            /\ call[h].token = t /\ call[h].actor = terms[t].actor
            /\ \/ Permits(call[h].role, terms[t].type)
               \/ pc[h] = "expiring" /\ ran'[t] = ran[t]
<1>1. ASSUME IInv, [Next]_vars, NEW t \in Tokens PROVE Moved(t)
  <2>1. SUFFICES ASSUME NEW h \in Handlers, Advance(h) \/ Throw(h), status[t] # "ABSENT",
                        status'[t] # status[t] \/ ran'[t] # ran[t]
                 PROVE  /\ pc[h] \notin {"idle", "received", "touching"}
                        /\ call[h].token = t /\ call[h].actor = terms[t].actor
                        /\ \/ Permits(call[h].role, terms[t].type)
                           \/ pc[h] = "expiring" /\ ran'[t] = ran[t]
    BY <1>1, EnvironmentFrame
  <2>2. /\ t = call[h].token
        /\ pc[h] \in {"inserting", "expiring", "confirming", "executing", "executed",
                      "failing", "cancelling"}
        /\ pc[h] = "expiring" => ran'[t] = ran[t]
    BY <1>1, <2>1, HandlerFrame
  <2>3. pc[h] # "inserting"
    BY <1>1, <2>1, <2>2 DEF IInv, InsertsAreFresh
  <2>4. QED
    BY <1>1, <2>1, <2>2, <2>3
       DEF IInv, LocalsAreSound, WorkingPcs, ConfirmPcs, CancelPcs, TryPcs
<1>2. IInv /\ [Next]_vars => [\A t \in Tokens : Moved(t)]_vars
  BY <1>1
<1> HIDE DEF Moved
<1>3. Spec => [][\A t \in Tokens : Moved(t)]_vars
  BY InitInv, NextInv, <1>2, PTL DEF Spec
<1>4. QED
  BY <1>3 DEF Moved, OnlyTheRequesterMovesAToken

\* Nobody gets past the check of a lapsed token.
LEMMA NoLateClearance ==
    ASSUME IInv, NEW h \in Handlers, Advance(h) \/ Throw(h), NEW t \in Tokens,
           Lapsed(t), NEW g \in Handlers
    PROVE  ~Cleared(g, t)'
<1> SUFFICES ASSUME Cleared(g, t)' PROVE FALSE
  OBVIOUS
<1>1. ~Cleared(g, t) /\ terms[t].expiresAt <= now /\ terms[t] \in Terms /\ now \in Nat
  BY ConstantsAssumption DEF Lapsed, IInv, InsertsAreFresh, TypeOK
<1>2. pc'[g] \in {"confirming", "executing"} /\ call'[g].token = t
  BY DEF Cleared
<1> USE DEF IInv, TypeOK
<1>3. ASSUME NEW to, Goto(h, to), to \notin {"confirming", "executing"} PROVE FALSE
  BY <1>1, <1>2, <1>3 DEF Goto, Cleared
<1>4. CASE ResolveReady(h)
  <2>1. CASE g = h
    BY <1>1, <1>2, <1>4, <2>1 DEF ResolveReady, Ready, Goto, Terms
  <2>2. CASE g # h
    BY <1>1, <1>2, <1>4, <2>2 DEF ResolveReady, Goto, Cleared
  <2>3. QED
    BY <2>1, <2>2
<1>5. CASE MarkConfirmed(h)
  BY <1>1, <1>2, <1>5 DEF MarkConfirmed, Update, Goto, Cleared
<1>6. CASE TouchProfile(h)
  BY <1>1, <1>2, <1>6 DEF TouchProfile, Cleared
<1>7. ASSUME NEW u \in Tokens, NEW type \in ActionTypes, NEW ttl \in TTLs,
             Propose(h, u, type, ttl)
      PROVE  FALSE
  BY <1>1, <1>2, <1>7 DEF Propose, Cleared
<1>8. CASE FindUser(h) \/ Decline(h) \/ ResolveUnusable(h) \/ ResolveExpired(h)
           \/ Execute(h) \/ Report(h) \/ Throw(h)
  BY <1>3, <1>8 DEF FindUser, Decline, ResolveUnusable, ResolveExpired, Execute, Report, Throw
<1>9. CASE InsertRequest(h) \/ Expire(h) \/ MarkExecuted(h) \/ MarkFailed(h)
           \/ MarkCancelled(h)
  BY <1>3, <1>9 DEF InsertRequest, Expire, MarkExecuted, MarkFailed, MarkCancelled, Update
<1>10. CASE AuditRequest(h) \/ AuditSuccess(h) \/ AuditFailure(h) \/ AuditCancelled(h)
  BY <1>3, <1>10 DEF AuditRequest, AuditSuccess, AuditFailure, AuditCancelled, Record
<1>11. QED
  BY <1>4, <1>5, <1>6, <1>7, <1>8, <1>9, <1>10 DEF Advance

\* Once lapsed, a token's effect can never run.
THEOREM LapsedForGood == Spec => LapsedStaysLapsed
<1> DEFINE Stays(t) == Lapsed(t) => Lapsed(t)' /\ ran'[t] = ran[t]
<1>1. ASSUME IInv, [Next]_vars, NEW t \in Tokens, Lapsed(t)
      PROVE  Lapsed(t)' /\ ran'[t] = ran[t]
  <2>1. ASSUME NEW h \in Handlers, Advance(h) \/ Throw(h)
        PROVE  Lapsed(t)' /\ ran'[t] = ran[t]
    <3>1. ran'[t] = ran[t]
      BY <1>1, <2>1, HandlerFrame DEF Lapsed, Cleared
    <3>2. status'[t] # "ABSENT"
      BY <1>1, <2>1, HandlerFrame DEF Lapsed
    <3>3. terms'[t] = terms[t] /\ now' = now
      BY <1>1, <2>1, HandlerFrame DEF Lapsed
    <3>4. QED
      BY <1>1, <2>1, <3>1, <3>2, <3>3, NoLateClearance DEF Lapsed
  <2>2. CASE ~(\E h \in Handlers : Advance(h) \/ Throw(h))
    <3>1. UNCHANGED <<status, terms, ran>>
      BY <1>1, <2>2, EnvironmentFrame
    <3>2. now' \in Nat /\ now' >= now /\ now \in Nat
      BY <1>1, <2>2, ConstantsAssumption
         DEF Next, Receive, CrashAndRestart, Tick, AdministerAccount, vars, IInv, TypeOK
    <3>3. terms[t].expiresAt \in Nat
      BY <1>1 DEF Lapsed, IInv, InsertsAreFresh, Terms
    <3>4. ASSUME NEW g \in Handlers, Cleared(g, t)' PROVE Cleared(g, t)
      <4>1. pc'[g] \in {"confirming", "executing"} /\ call'[g].token = t
        BY <3>4 DEF Cleared
      <4>2. CASE \E h \in Handlers, op \in Ops, a \in Actors, u \in Tokens \cup {None} :
                   Receive(h, op, a, u)
        <5>1. PICK h \in Handlers, op \in Ops, a \in Actors, u \in Tokens \cup {None} :
                 Receive(h, op, a, u)
          BY <4>2
        <5>2. g # h
          BY <1>1, <4>1, <5>1 DEF Receive, IInv, TypeOK
        <5>3. pc'[g] = pc[g] /\ call'[g] = call[g]
          BY <1>1, <5>1, <5>2 DEF Receive, IInv, TypeOK
        <5>4. QED
          BY <4>1, <5>3 DEF Cleared
      <4>3. CASE CrashAndRestart
        BY <4>1, <4>3 DEF CrashAndRestart
      <4>4. CASE Tick
        BY <4>1, <4>4 DEF Tick, Cleared
      <4>5. CASE \E a \in Administered : AdministerAccount(a)
        BY <4>1, <4>5 DEF AdministerAccount, Cleared
      <4>6. CASE UNCHANGED vars
        BY <4>1, <4>6 DEF vars, Cleared
      <4>7. QED
        BY <1>1, <2>2, <4>2, <4>3, <4>4, <4>5, <4>6 DEF Next
    <3>5. QED
      BY <1>1, <3>1, <3>2, <3>3, <3>4 DEF Lapsed
  <2>3. QED
    BY <2>1, <2>2
<1>2. IInv /\ [Next]_vars => [\A t \in Tokens : Stays(t)]_vars
  BY <1>1
<1> HIDE DEF Stays
<1>3. Spec => [][\A t \in Tokens : Stays(t)]_vars
  BY InitInv, NextInv, <1>2, PTL DEF Spec
<1>4. QED
  BY <1>3 DEF Stays, LapsedStaysLapsed

\* What a step of h makes of a handler that is not idle after it: only an authorization
\* changes what it knows of its sender.
LEMMA HandlerMoves ==
    ASSUME IInv, NEW h \in Handlers, Advance(h) \/ Throw(h), NEW g \in Handlers, pc'[g] # "idle"
    PROVE  /\ pc[g] # "idle" /\ call'[g].actor = call[g].actor
           /\ \/ pc'[g] = pc[g] /\ call'[g] = call[g]
              \/ g = h /\ FindUser(h) /\ pc'[g] = "touching" /\ account'[call[g].actor].status = "ACTIVE"
              \/ g = h /\ TouchProfile(h) /\ call'[g].role = account[call[g].actor].role
              \/ /\ pc[g] \notin {"received", "touching"}
                 /\ call'[g].role = call[g].role
<1> DEFINE Moved ==
       /\ pc[g] # "idle" /\ call'[g].actor = call[g].actor
       /\ \/ pc'[g] = pc[g] /\ call'[g] = call[g]
          \/ g = h /\ FindUser(h) /\ pc'[g] = "touching" /\ account'[call[g].actor].status = "ACTIVE"
          \/ g = h /\ TouchProfile(h) /\ call'[g].role = account[call[g].actor].role
          \/ /\ pc[g] \notin {"received", "touching"}
             /\ call'[g].role = call[g].role
<1> USE DEF IInv, TypeOK
<1>1. ASSUME NEW to, Goto(h, to), pc[h] \notin {"idle", "received", "touching"} PROVE Moved
  BY <1>1 DEF Goto
<1>2. CASE FindUser(h)
  BY <1>2 DEF FindUser, Goto
<1>3. CASE TouchProfile(h)
  <2>1. pc[h] = "touching" /\ call[h] \in Calls
    BY <1>3 DEF TouchProfile
  <2>2. call'[h].actor = call[h].actor /\ call'[h].role = account[call[h].actor].role
    BY <1>3, <2>1 DEF TouchProfile, Calls
  <2>3. g # h => pc'[g] = pc[g] /\ call'[g] = call[g]
    BY <1>3 DEF TouchProfile
  <2>4. QED
    BY <1>3, <2>1, <2>2, <2>3
<1>4. ASSUME NEW u \in Tokens, NEW type \in ActionTypes, NEW ttl \in TTLs,
             Propose(h, u, type, ttl)
      PROVE  Moved
  <2>1. pc[h] = "authorized" /\ call[h] \in Calls
    BY <1>4 DEF Propose
  <2>2. call'[h].actor = call[h].actor /\ call'[h].role = call[h].role
    BY <1>4, <2>1 DEF Propose, Calls
  <2>3. g # h => pc'[g] = pc[g] /\ call'[g] = call[g]
    BY <1>4 DEF Propose
  <2>4. QED
    BY <2>1, <2>2, <2>3
<1>5. CASE Decline(h) \/ ResolveUnusable(h) \/ ResolveExpired(h) \/ ResolveReady(h)
           \/ Execute(h) \/ Report(h)
  BY <1>1, <1>5 DEF Decline, ResolveUnusable, ResolveExpired, ResolveReady, Ready, Pending,
                    Resolving, Execute, Report
<1>6. CASE InsertRequest(h) \/ Expire(h) \/ MarkConfirmed(h) \/ MarkExecuted(h)
           \/ MarkFailed(h) \/ MarkCancelled(h)
  BY <1>1, <1>6 DEF InsertRequest, Expire, MarkConfirmed, MarkExecuted, MarkFailed,
                    MarkCancelled, Update
<1>7. CASE AuditRequest(h) \/ AuditSuccess(h) \/ AuditFailure(h) \/ AuditCancelled(h)
  BY <1>1, <1>7 DEF AuditRequest, AuditSuccess, AuditFailure, AuditCancelled, Record
<1>8. CASE Throw(h)
  <2>1. pc[h] \in {"received", "touching"} => Goto(h, "idle")
    BY <1>8 DEF Throw, TryPcs
  <2>2. CASE pc[h] \in {"received", "touching"}
    BY <2>1, <2>2 DEF Goto
  <2>3. CASE pc[h] \notin {"received", "touching"}
    BY <1>1, <1>8, <2>3 DEF Throw
  <2>4. QED
    BY <2>2, <2>3
<1>9. QED
  BY <1>2, <1>3, <1>4, <1>5, <1>6, <1>7, <1>8 DEF Advance

\* A step of a handler leaves a revocation in force and does not run the token.
LEMMA RevokedUnderHandler ==
    ASSUME IInv, NEW h \in Handlers, Advance(h) \/ Throw(h), NEW t \in Tokens,
           status[t] # "ABSENT", account'[terms[t].actor] = account[terms[t].actor]
    PROVE  /\ Barred(t) => Barred(t)' /\ ran'[t] = ran[t]
           /\ Demoted(t) => Demoted(t)' /\ ran'[t] = ran[t]
<1>1. /\ ran'[t] # ran[t] => t = call[h].token /\ pc[h] = "executing"
      /\ status'[t] # "ABSENT" /\ terms'[t] = terms[t]
  BY HandlerFrame
<1>2. pc[h] = "executing" /\ t = call[h].token =>
        terms[t].actor = call[h].actor /\ Permits(call[h].role, terms[t].type)
  BY DEF IInv, LocalsAreSound, WorkingPcs, ConfirmPcs, TryPcs
<1>3. ASSUME Barred(t) PROVE Barred(t)' /\ ran'[t] = ran[t]
  <2>1. ran'[t] = ran[t]
    BY <1>1, <1>2, <1>3 DEF Barred
  <2>2. ASSUME NEW g \in Handlers, pc'[g] # "idle", call'[g].actor = terms[t].actor
        PROVE  pc'[g] = "received"
    BY <1>3, <2>2, HandlerMoves DEF Barred, TouchProfile
  <2>3. QED
    BY <1>1, <1>3, <2>1, <2>2 DEF Barred
<1>4. ASSUME Demoted(t) PROVE Demoted(t)' /\ ran'[t] = ran[t]
  <2>1. ran'[t] = ran[t]
    BY <1>1, <1>2, <1>4 DEF Demoted
  <2>2. ASSUME NEW g \in Handlers, pc'[g] \notin {"idle", "received", "touching"},
               call'[g].actor = terms[t].actor
        PROVE  ~Permits(call'[g].role, terms[t].type)
    BY <1>4, <2>2, HandlerMoves DEF Demoted
  <2>3. QED
    BY <1>1, <1>4, <2>1, <2>2 DEF Demoted
<1>5. QED
  BY <1>3, <1>4

\* A revocation holds against updates already on their way and whatever overlaps.
THEOREM RevokedForGood == Spec => RevocationHolds
<1> DEFINE Holds(t) ==
       /\ status[t] # "ABSENT"
       /\ account'[terms[t].actor] = account[terms[t].actor]
       => /\ Barred(t) => Barred(t)' /\ ran'[t] = ran[t]
          /\ Demoted(t) => Demoted(t)' /\ ran'[t] = ran[t]
<1>1. ASSUME IInv, [Next]_vars, NEW t \in Tokens PROVE Holds(t)
  <2>1. CASE \E h \in Handlers : Advance(h) \/ Throw(h)
    BY <1>1, <2>1, RevokedUnderHandler
  <2>2. CASE ~(\E h \in Handlers : Advance(h) \/ Throw(h))
    <3>1. UNCHANGED <<status, terms, ran>>
      BY <1>1, <2>2, EnvironmentFrame
    <3>2. ASSUME NEW g \in Handlers
          PROVE  \/ pc'[g] \in {"idle", "received"}
                 \/ pc'[g] = pc[g] /\ call'[g] = call[g]
      <4>1. CASE \E h \in Handlers, op \in Ops, a \in Actors, u \in Tokens \cup {None} :
                   Receive(h, op, a, u)
        <5>1. PICK h \in Handlers, op \in Ops, a \in Actors, u \in Tokens \cup {None} :
                 Receive(h, op, a, u)
          BY <4>1
        <5>2. CASE g = h
          BY <1>1, <5>1, <5>2 DEF Receive, IInv, TypeOK
        <5>3. CASE g # h
          BY <1>1, <5>1, <5>3 DEF Receive, IInv, TypeOK
        <5>4. QED
          BY <5>2, <5>3
      <4>2. CASE CrashAndRestart
        BY <4>2 DEF CrashAndRestart
      <4>3. CASE Tick
        BY <4>3 DEF Tick
      <4>4. CASE \E a \in Administered : AdministerAccount(a)
        BY <4>4 DEF AdministerAccount
      <4>5. CASE UNCHANGED vars
        BY <4>5 DEF vars
      <4>6. QED
        BY <1>1, <2>2, <4>1, <4>2, <4>3, <4>4, <4>5 DEF Next
    <3>3. QED
      BY <3>1, <3>2 DEF Barred, Demoted
  <2>3. QED
    BY <2>1, <2>2
<1>2. IInv /\ [Next]_vars => [\A t \in Tokens : Holds(t)]_vars
  BY <1>1
<1> HIDE DEF Holds
<1>3. Spec => [][\A t \in Tokens : Holds(t)]_vars
  BY InitInv, NextInv, <1>2, PTL DEF Spec
<1>4. QED
  BY <1>3 DEF Holds, RevocationHolds

-----------------------------------------------------------------------------
(* What the audit log owes.                                                  *)

OwedPlaces == {"auditing", "failing", "auditingFailure", "auditingCancel"}

\* A step of h that settles no row as the audit log must tell, and leaves no place where
\* an entry was owed for t.
LEMMA OwedFrame ==
    ASSUME NEW h \in Handlers, NEW t \in Tokens, Owed(t),
           \A g \in Handlers : g # h => pc'[g] = pc[g] /\ call'[g] = call[g],
           audit[t] \subseteq audit'[t], faults \in Nat, faults' \in Nat, faults <= faults',
           \/ status'[t] \notin {"EXECUTED", "FAILED", "CANCELLED"}
           \/ status'[t] = status[t] /\ ~(pc[h] \in OwedPlaces /\ call[h].token = t)
    PROVE  Owed(t)'
<1>1. CASE status'[t] \notin {"EXECUTED", "FAILED", "CANCELLED"}
  BY <1>1 DEF Owed
<1>2. CASE status'[t] = status[t] /\ ~(pc[h] \in OwedPlaces /\ call[h].token = t)
  <2>1. ASSUME NEW place \in OwedPlaces, Underway(t, place) PROVE Underway(t, place)'
    BY <1>2, <2>1 DEF Underway
  <2>2. (faults > 0 => faults' > 0) /\ (faults > 1 => faults' > 1)
    OBVIOUS
  <2>3. QED
    BY <1>2, <2>1, <2>2 DEF Owed, OwedPlaces
<1>3. QED
  BY <1>1, <1>2

\* The handlers other than the one that moves, and the one that moves.
LEMMA GotoFrame ==
    ASSUME TypeOK, NEW h \in Handlers, NEW to, Goto(h, to)
    PROVE  /\ \A g \in Handlers : g # h => pc'[g] = pc[g] /\ call'[g] = call[g]
           /\ pc'[h] = to
           /\ to # "idle" => call'[h] = call[h]
BY DEF TypeOK, Goto

LEMMA UpdateOwed ==
    ASSUME IInv, NEW h \in Handlers, NEW at, NEW new, NEW to, Update(h, at, new, to),
           NEW t \in Tokens, Owed(t),
           \/ at \notin OwedPlaces /\ new \notin {"EXECUTED", "FAILED", "CANCELLED"}
           \/ at = "executed" /\ new = "EXECUTED" /\ to = "auditing"
           \/ at = "failing" /\ new = "FAILED" /\ to = "auditingFailure"
           \/ at = "cancelling" /\ new = "CANCELLED" /\ to = "auditingCancel"
    PROVE  Owed(t)'
<1>1. TypeOK /\ pc[h] = at /\ Goto(h, to) /\ UNCHANGED <<audit, faults>> /\ faults \in Nat
  BY DEF IInv, TypeOK, Update, ghosts
<1>2. status'[t] = IF t = call[h].token THEN new ELSE status[t]
  BY DEF IInv, TypeOK, Update
<1>3. CASE t # call[h].token \/ new \notin {"EXECUTED", "FAILED", "CANCELLED"}
  BY <1>1, <1>2, <1>3, GotoFrame, OwedFrame
<1>4. CASE t = call[h].token /\ new \in {"EXECUTED", "FAILED", "CANCELLED"}
  <2>1. pc'[h] = to /\ call'[h].token = t
    BY <1>1, <1>4, GotoFrame
  <2>2. Underway(t, to)'
    BY <2>1 DEF Underway
  <2>3. QED
    BY <1>2, <1>4, <2>2 DEF Owed
<1>5. QED
  BY <1>3, <1>4

LEMMA RecordOwed ==
    ASSUME IInv, NEW h \in Handlers, NEW at, NEW result, NEW to, Record(h, at, result, to),
           NEW t \in Tokens, Owed(t),
           \/ at \notin OwedPlaces
           \/ at = "auditing" /\ result = "SUCCESS"
           \/ at = "auditingFailure" /\ result = "FAILED"
           \/ at = "auditingCancel" /\ result = "CANCELLED"
    PROVE  Owed(t)'
<1>1. TypeOK /\ pc[h] = at /\ Goto(h, to) /\ UNCHANGED <<status, faults>> /\ faults \in Nat
  BY DEF IInv, TypeOK, Record, ghosts
<1>2. audit'[t] = IF t = call[h].token THEN audit[t] \cup {result} ELSE audit[t]
  BY DEF IInv, TypeOK, Record
<1>3. CASE t # call[h].token \/ at \notin OwedPlaces
  BY <1>1, <1>2, <1>3, GotoFrame, OwedFrame
<1>4. CASE t = call[h].token /\ at \in OwedPlaces
  <2>1. result \in audit'[t] /\ audit[t] \subseteq audit'[t]
    BY <1>2, <1>4
  <2>2. ASSUME NEW place, place # at, Underway(t, place) PROVE Underway(t, place)'
    BY <1>1, <2>2, GotoFrame DEF Underway
  <2>3. QED
    BY <1>1, <1>4, <2>1, <2>2 DEF Owed, OwedPlaces
<1>5. QED
  BY <1>3, <1>4

LEMMA ThrowOwed ==
    ASSUME IInv, NEW h \in Handlers, Throw(h), NEW t \in Tokens, Owed(t)
    PROVE  Owed(t)'
<1>1. TypeOK /\ UNCHANGED audit /\ faults \in Nat /\ faults' = faults + 1
      /\ Goto(h, IF pc[h] \in TryPcs THEN "failing" ELSE "idle")
  BY DEF IInv, TypeOK, Throw
<1>2. status'[t] = status[t] \/ (t = call[h].token /\ status'[t] \in Writing(pc[h]))
  BY DEF IInv, TypeOK, Throw
<1>3. faults' > 0 /\ (faults > 0 => faults' > 1) /\ faults' \in Nat /\ faults <= faults'
  BY <1>1
<1>4. CASE t # call[h].token
  BY <1>1, <1>2, <1>3, <1>4, GotoFrame, OwedFrame
<1>5. CASE t = call[h].token /\ pc[h] \in TryPcs
  <2>1. pc'[h] = "failing" /\ call'[h].token = t
    BY <1>1, <1>5, GotoFrame
  <2>2. Underway(t, "failing")'
    BY <2>1 DEF Underway
  <2>3. QED
    BY <1>3, <2>2 DEF Owed
<1>6. CASE t = call[h].token /\ pc[h] \notin TryPcs
  <2>1. ASSUME status'[t] = "EXECUTED", "SUCCESS" \notin audit'[t]
        PROVE  faults' > 1 \/ Underway(t, "auditing")' \/ Underway(t, "failing")'
    <3>1. status[t] = "EXECUTED" /\ "SUCCESS" \notin audit[t]
      BY <1>1, <1>2, <1>6, <2>1 DEF Writing, TryPcs
    <3>2. CASE faults > 0
      BY <1>3, <3>2
    <3>3. CASE Underway(t, "auditing")
      BY <1>1, <1>6, <3>3, GotoFrame DEF Underway, TryPcs
    <3>4. QED
      BY <1>1, <3>1, <3>2, <3>3 DEF Owed
  <2>2. QED
    BY <1>3, <2>1 DEF Owed
<1>7. QED
  BY <1>4, <1>5, <1>6

LEMMA AdvanceOwed ==
    ASSUME IInv, NEW h \in Handlers, Advance(h), NEW t \in Tokens, Owed(t)
    PROVE  Owed(t)'
<1>1. TypeOK /\ faults \in Nat
  BY DEF IInv, TypeOK
<1>2. ASSUME NEW to, Goto(h, to), pc[h] \notin OwedPlaces, UNCHANGED <<status, audit, faults>>
      PROVE  Owed(t)'
  BY <1>1, <1>2, GotoFrame, OwedFrame
<1>3. CASE FindUser(h) \/ Decline(h) \/ ResolveUnusable(h) \/ ResolveExpired(h)
           \/ ResolveReady(h) \/ Execute(h) \/ Report(h)
  BY <1>2, <1>3 DEF FindUser, Decline, ResolveUnusable, ResolveExpired, ResolveReady, Ready,
                    Pending, Resolving, Execute, Report, OwedPlaces, ghosts
<1>4. CASE TouchProfile(h)
  <2>1. /\ pc[h] = "touching" /\ UNCHANGED <<status, audit, faults>>
        /\ \A g \in Handlers : g # h => pc'[g] = pc[g] /\ call'[g] = call[g]
    BY <1>1, <1>4 DEF TouchProfile, TypeOK, ghosts
  <2>2. QED
    BY <1>1, <2>1, OwedFrame DEF OwedPlaces
<1>5. ASSUME NEW u \in Tokens, NEW type \in ActionTypes, NEW ttl \in TTLs,
             Propose(h, u, type, ttl)
      PROVE  Owed(t)'
  <2>1. /\ pc[h] = "authorized" /\ UNCHANGED <<status, audit, faults>>
        /\ \A g \in Handlers : g # h => pc'[g] = pc[g] /\ call'[g] = call[g]
    BY <1>1, <1>5 DEF Propose, TypeOK, ghosts
  <2>2. QED
    BY <1>1, <2>1, OwedFrame DEF OwedPlaces
<1>6. CASE InsertRequest(h) \/ Expire(h) \/ MarkConfirmed(h) \/ MarkExecuted(h)
           \/ MarkFailed(h) \/ MarkCancelled(h)
  BY <1>6, UpdateOwed DEF InsertRequest, Expire, MarkConfirmed, MarkExecuted, MarkFailed,
                          MarkCancelled, OwedPlaces
<1>7. CASE AuditRequest(h) \/ AuditSuccess(h) \/ AuditFailure(h) \/ AuditCancelled(h)
  BY <1>7, RecordOwed DEF AuditRequest, AuditSuccess, AuditFailure, AuditCancelled, OwedPlaces
<1>8. QED
  BY <1>3, <1>4, <1>5, <1>6, <1>7 DEF Advance

LEMMA CrashFrame ==
    ASSUME NEW h \in Handlers, Advance(h) \/ Throw(h)
    PROVE  crashes' = crashes
BY DEF Advance, Throw, FindUser, TouchProfile, Propose, Decline, InsertRequest, AuditRequest,
       ResolveUnusable, ResolveExpired, Expire, ResolveReady, MarkConfirmed, Execute,
       MarkExecuted, AuditSuccess, Report, MarkFailed, AuditFailure, MarkCancelled,
       AuditCancelled, Update, Record, ghosts

LEMMA NextOwed ==
    ASSUME IInv, AuditsAreOwed, [Next]_vars
    PROVE  AuditsAreOwed'
<1> SUFFICES ASSUME crashes' = 0, NEW t \in Tokens PROVE Owed(t)'
  BY DEF AuditsAreOwed
<1>1. CASE CrashAndRestart
  BY <1>1, ConstantsAssumption DEF CrashAndRestart, IInv, TypeOK
<1>2. CASE \E h \in Handlers : Advance(h) \/ Throw(h)
  <2>1. crashes' = crashes
    BY <1>2, CrashFrame
  <2>2. QED
    BY <1>2, <2>1, AdvanceOwed, ThrowOwed DEF AuditsAreOwed
<1>3. ASSUME NEW h \in Handlers, NEW op \in Ops, NEW a \in Actors,
             NEW u \in Tokens \cup {None}, Receive(h, op, a, u)
      PROVE  Owed(t)'
  <2>1. /\ pc[h] = "idle" /\ UNCHANGED <<status, audit, faults, crashes>>
        /\ \A g \in Handlers : g # h => pc'[g] = pc[g] /\ call'[g] = call[g]
        /\ faults \in Nat
    BY <1>3 DEF Receive, IInv, TypeOK, ghosts
  <2>2. Owed(t)
    BY <2>1 DEF AuditsAreOwed
  <2>3. QED
    BY <2>1, <2>2, OwedFrame DEF OwedPlaces
<1>4. CASE Tick \/ (\E a \in Administered : AdministerAccount(a)) \/ UNCHANGED vars
  <2>1. UNCHANGED <<status, audit, faults, crashes, pc, call>>
    BY <1>4 DEF Tick, AdministerAccount, vars, ghosts
  <2>2. QED
    BY <2>1 DEF AuditsAreOwed, Owed, Underway
<1>5. QED
  BY <1>1, <1>2, <1>3, <1>4 DEF Next

\* Unless the process dies, and however handlers overlap, a token nobody works on has the
\* audit entry of its verdict, or as many calls failed as it takes to lose it
\* (handleConfirmationCallback, handleCancellationCallback).
THEOREM VerdictsAudited == Spec => []VerdictsAreAudited
<1>1. Init => AuditsAreOwed
  BY DEF Init, AuditsAreOwed, Owed
<1>2. IInv /\ AuditsAreOwed => VerdictsAreAudited
  <2> SUFFICES ASSUME IInv, AuditsAreOwed, NEW t \in Tokens, AtRest(t), crashes = 0
               PROVE  /\ status[t] = "EXECUTED"  => "SUCCESS" \in audit[t] \/ faults > 1
                      /\ status[t] = "FAILED"    => "FAILED" \in audit[t] \/ faults > 0
                      /\ status[t] = "CANCELLED" => "CANCELLED" \in audit[t] \/ faults > 0
    BY DEF VerdictsAreAudited
  <2>1. \A place \in OwedPlaces : ~Underway(t, place)
    BY DEF AtRest, Underway, OwedPlaces
  <2>2. QED
    BY <2>1 DEF AuditsAreOwed, Owed, OwedPlaces
<1>3. QED
  BY InitInv, NextInv, NextOwed, <1>1, <1>2, PTL DEF Spec
=============================================================================
