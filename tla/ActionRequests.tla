---------------------------- MODULE ActionRequests ----------------------------
(***************************************************************************)
(* The confirmation flow every mutation of TeleOps goes through: a handler *)
(* writes a PENDING ActionRequest row and shows its token on a keyboard;   *)
(* a later callback confirms or cancels it.                                *)
(*                                                                         *)
(* A handler is one Telegram update being processed.  Node runs a handler  *)
(* from one await to the next without interruption, and Telegraf starts    *)
(* the handlers of a batch of updates together and polls on after 90 s, so *)
(* handlers interleave at every await: each action below is the code       *)
(* between two awaits, ending in the database or Telegram call it awaits.  *)
(*                                                                         *)
(* The effect itself (docker, pg_dump, git, a settings write) is opaque    *)
(* here: it refuses before acting, acts and throws, or acts and returns.   *)
(***************************************************************************)
EXTENDS Naturals, Rbac

CONSTANTS
    Actors,         \* users known to the bot
    OwnerId,        \* the actor named by TELEGRAM_OWNER_USER_ID
    Tokens,         \* tokens randomUUID can return
    Handlers,       \* slots for updates processed at the same time
    ActionTypes,    \* families of actions offered
    GrantableRoles, \* roles an administrator assigns in this instance
    Administered,   \* accounts an administrator changes in this instance
    TTLs,           \* values of the confirmation TTL setting
    MaxTime,        \* bound on the clock
    MaxFaults,      \* bound on failed database and Telegram calls
    MaxCrashes,     \* bound on process crashes
    None            \* absence of a row, a token, a role or a call

ASSUME ConstantsAssumption ==
    /\ OwnerId \in Actors /\ Administered \subseteq Actors
    /\ ActionTypes \subseteq ActionFamilies
    /\ GrantableRoles \subseteq ManagedRoles
    /\ TTLs \subseteq Nat \ {0}
    /\ MaxTime \in Nat /\ MaxFaults \in Nat /\ MaxCrashes \in Nat

Ops == {"request", "confirm", "cancel"}
Statuses == {"PENDING", "CONFIRMED", "CANCELLED", "EXPIRED", "EXECUTED", "FAILED"}
Accounts == [role: Roles, status: {"ACTIVE", "DISABLED"}]
Terms == [actor: Actors, type: ActionTypes, expiresAt: Nat]
Calls == [op: Ops, actor: Actors, token: Tokens \cup {None}, role: Roles \cup {None}]
AuditResults == {"STARTED", "SUCCESS", "FAILED", "CANCELLED"}

ASSUME NoneAssumption ==
    None \notin Calls /\ None \notin Terms /\ None \notin Tokens /\ None \notin Roles

VARIABLES
    now,        \* Date.now()
    account,    \* User rows: role and status of every actor
    status,     \* ActionRequest.status by token, "ABSENT" when there is no row
    terms,      \* the row's actor, action and deadline; drafted before the insert
    audit,      \* results recorded in AuditLog for the token's request
    pc,         \* where each handler is suspended
    call,       \* the handler's arguments and locals
    ran,        \* ghost: ran[t][h], how often handler slot h ran t's effect
    faults,     \* ghost: calls that failed so far
    crashes     \* ghost: crashes so far

vars == <<now, account, status, terms, audit, pc, call, ran, faults, crashes>>
ghosts == <<ran, faults, crashes>>

\* Suspended inside handleConfirmationCallback's try block.
TryPcs == {"confirming", "executing", "executed", "auditing", "reporting"}
\* Past resolveForActor and the permission check on a confirmation.
ConfirmPcs == TryPcs \cup {"failing", "auditingFailure"}
CancelPcs == {"cancelling", "auditingCancel"}
RequestPcs == {"inserting", "auditingRequest"}
Pcs == {"idle", "received", "touching", "authorized", "expiring"}
         \cup ConfirmPcs \cup CancelPcs \cup RequestPcs

TypeOK ==
    /\ now \in 0..MaxTime
    /\ account \in [Actors -> Accounts]
    /\ status \in [Tokens -> Statuses \cup {"ABSENT"}]
    /\ terms \in [Tokens -> Terms \cup {None}]
    /\ audit \in [Tokens -> SUBSET AuditResults]
    /\ pc \in [Handlers -> Pcs]
    /\ call \in [Handlers -> Calls \cup {None}]
    /\ \A h \in Handlers : pc[h] = "idle" <=> call[h] = None
    /\ ran \in [Tokens -> [Handlers -> Nat]]
    /\ faults \in 0..MaxFaults
    /\ crashes \in 0..MaxCrashes

\* What ensureOwnerUser writes for TELEGRAM_OWNER_USER_ID, at boot and on contact.
OwnerAccount == [role |-> "OWNER", status |-> "ACTIVE"]

Init ==
    /\ now = 0
    /\ \E grant \in [Actors -> GrantableRoles] :
          account = [a \in Actors |-> IF a = OwnerId THEN OwnerAccount
                                      ELSE [role |-> grant[a], status |-> "ACTIVE"]]
    /\ status = [t \in Tokens |-> "ABSENT"]
    /\ terms = [t \in Tokens |-> None]
    /\ audit = [t \in Tokens |-> {}]
    /\ pc = [h \in Handlers |-> "idle"]
    /\ call = [h \in Handlers |-> None]
    /\ ran = [t \in Tokens |-> [h \in Handlers |-> 0]]
    /\ faults = 0
    /\ crashes = 0

(***************************************************************************)
(* Building blocks.                                                        *)
(***************************************************************************)
\* Mutated form of Goto: a returning handler keeps its locals.
Goto_KeepLocals(h, to) ==
    /\ pc' = [pc EXCEPT ![h] = to]
    /\ UNCHANGED call

\* Handler h is suspended at one place and resumes to be suspended at another;
\* a handler that returns forgets its locals.
Goto(h, to) ==
    /\ pc' = [pc EXCEPT ![h] = to]
    /\ call' = IF to = "idle" THEN [call EXCEPT ![h] = None] ELSE call

\* An unconditional update by id: neither the status nor the row's version is a
\* condition of the write.
Update(h, at, new, to) ==
    /\ pc[h] = at
    /\ status' = [status EXCEPT ![call[h].token] = new]
    /\ Goto(h, to)
    /\ UNCHANGED <<now, account, terms, audit, ghosts>>

Record(h, at, result, to) ==
    /\ pc[h] = at
    /\ audit' = [audit EXCEPT ![call[h].token] = @ \cup {result}]
    /\ Goto(h, to)
    /\ UNCHANGED <<now, account, status, terms, ghosts>>

(***************************************************************************)
(* Receiving an update and authorizing its sender.                         *)
(***************************************************************************)
\* Telegraf starts a handler; an old keyboard may hold any token, even one
\* whose row is gone.
Receive(h, op, a, t) ==
    /\ pc[h] = "idle"
    /\ (op = "request") <=> (t = None)
    /\ pc' = [pc EXCEPT ![h] = "received"]
    /\ call' = [call EXCEPT ![h] = [op |-> op, actor |-> a, token |-> t, role |-> None]]
    /\ UNCHANGED <<now, account, status, terms, audit, ghosts>>

\* Mutated form of FindUser: a disabled account is let through.
FindUser_AnyStatus(h) ==
    /\ pc[h] = "received"
    /\ Goto(h, "touching")
    /\ UNCHANGED <<now, account, status, terms, audit, ghosts>>

\* The owner's row is rewritten on every contact; anyone else's is read and must
\* be ACTIVE.
FindUser(h) ==
    /\ pc[h] = "received"
    /\ account' = IF call[h].actor = OwnerId
                    THEN [account EXCEPT ![OwnerId] = OwnerAccount]
                    ELSE account
    /\ Goto(h, IF account'[call[h].actor].status = "ACTIVE" THEN "touching" ELSE "idle")
    /\ UNCHANGED <<now, status, terms, audit, ghosts>>

\* touchTelegramProfile returns the fresh row: its role is the one every later
\* check of this handler uses, and its status is not looked at again.
TouchProfile(h) ==
    /\ pc[h] = "touching"
    /\ pc' = [pc EXCEPT ![h] = "authorized"]
    /\ call' = [call EXCEPT ![h].role = account[call[h].actor].role]
    /\ UNCHANGED <<now, account, status, terms, audit, ghosts>>

(***************************************************************************)
(* Asking for a mutation.                                                  *)
(***************************************************************************)
\* A token no row carries and no insert is about to use.
Fresh(t) ==
    /\ status[t] = "ABSENT"
    /\ \A h \in Handlers : ~(pc[h] = "inserting" /\ call[h].token = t)

\* Date.now() is read before the TTL setting is awaited, so the deadline counts
\* from here and not from the insert.
Propose(h, t, type, ttl) ==
    /\ pc[h] = "authorized" /\ call[h].op = "request"
    /\ Permits(call[h].role, type)
    /\ Fresh(t)
    /\ terms' = [terms EXCEPT ![t] =
                    [actor |-> call[h].actor, type |-> type, expiresAt |-> now + ttl]]
    /\ pc' = [pc EXCEPT ![h] = "inserting"]
    /\ call' = [call EXCEPT ![h].token = t]
    /\ UNCHANGED <<now, account, status, audit, ghosts>>

\* No permission, a malformed command, dangerous actions off, no such target.
Decline(h) ==
    /\ pc[h] = "authorized" /\ call[h].op = "request"
    /\ Goto(h, "idle")
    /\ UNCHANGED <<now, account, status, terms, audit, ghosts>>

InsertRequest(h) == Update(h, "inserting", "PENDING", "auditingRequest")
AuditRequest(h) == Record(h, "auditingRequest", "STARTED", "idle")

(***************************************************************************)
(* resolveForActor and the permission check, for confirm and cancel alike. *)
(***************************************************************************)
Resolving(h) == pc[h] = "authorized" /\ call[h].op \in {"confirm", "cancel"}

ResolveUnusable(h) ==
    /\ Resolving(h)
    /\ LET t == call[h].token
       IN  \/ status[t] # "PENDING"                     \* not_found, already_used
           \/ status[t] = "PENDING" /\ terms[t].actor # call[h].actor  \* wrong_actor
    /\ Goto(h, "idle")
    /\ UNCHANGED <<now, account, status, terms, audit, ghosts>>

\* Mutated forms of Pending: only an executed token counts as used; the requester is not
\* compared.
Pending_NotExecuted(h) ==
    /\ Resolving(h)
    /\ status[call[h].token] \notin {"ABSENT", "EXECUTED"}
    /\ terms[call[h].token].actor = call[h].actor
Pending_AnyActor(h) ==
    /\ Resolving(h)
    /\ status[call[h].token] = "PENDING"

Pending(h) ==
    /\ Resolving(h)
    /\ status[call[h].token] = "PENDING"
    /\ terms[call[h].token].actor = call[h].actor

ResolveExpired(h) ==
    /\ Pending(h)
    /\ terms[call[h].token].expiresAt <= now
    /\ Goto(h, "expiring")
    /\ UNCHANGED <<now, account, status, terms, audit, ghosts>>

Expire(h) == Update(h, "expiring", "EXPIRED", "idle")

\* Mutated form of Ready: the deadline itself still counts.
Ready_AtDeadline(h) == Pending(h) /\ now <= terms[call[h].token].expiresAt

Ready(h) == Pending(h) /\ now < terms[call[h].token].expiresAt

ResolveReady(h) ==
    /\ Ready(h)
    /\ Goto(h, IF ~Permits(call[h].role, terms[call[h].token].type) THEN "idle"
               ELSE IF call[h].op = "confirm" THEN "confirming" ELSE "cancelling")
    /\ UNCHANGED <<now, account, status, terms, audit, ghosts>>

(***************************************************************************)
(* handleConfirmationCallback.                                             *)
(***************************************************************************)
\* Mutated form of MarkConfirmed: the effect starts without the row being marked.
MarkConfirmed_NoWrite(h) ==
    /\ pc[h] = "confirming"
    /\ Goto(h, "executing")
    /\ UNCHANGED <<now, account, status, terms, audit, ghosts>>

MarkConfirmed(h) == Update(h, "confirming", "CONFIRMED", "executing")

\* Mutated form of Execute: a throwing effect is not caught.
Execute_Uncaught(h) ==
    /\ pc[h] = "executing"
    /\ ran' = [ran EXCEPT ![call[h].token][h] = @ + 1]
    /\ \E to \in {"executed", "idle"} : Goto(h, to)
    /\ UNCHANGED <<now, account, status, terms, audit, faults, crashes>>

\* The effect is refused before it acts (dangerous actions switched off, target
\* gone, a deployment already running), acts and throws, or acts and returns.
Execute(h) ==
    /\ pc[h] = "executing"
    /\ \/ /\ UNCHANGED ran
          /\ Goto(h, "failing")
       \/ /\ ran' = [ran EXCEPT ![call[h].token][h] = @ + 1]
          /\ \E to \in {"executed", "failing"} : Goto(h, to)
    /\ UNCHANGED <<now, account, status, terms, audit, faults, crashes>>

\* Mutated form of MarkExecuted: success goes straight to the report.
MarkExecuted_Unaudited(h) == Update(h, "executed", "EXECUTED", "reporting")

MarkExecuted(h) == Update(h, "executed", "EXECUTED", "auditing")
AuditSuccess(h) == Record(h, "auditing", "SUCCESS", "reporting")

\* answerCbQuery and renderScreen: nothing is stored.
Report(h) ==
    /\ pc[h] = "reporting"
    /\ Goto(h, "idle")
    /\ UNCHANGED <<now, account, status, terms, audit, ghosts>>

\* Mutated form of MarkFailed: a failed request is opened again for a retry.
MarkFailed_Reopen(h) == Update(h, "failing", "PENDING", "auditingFailure")

MarkFailed(h) == Update(h, "failing", "FAILED", "auditingFailure")
AuditFailure(h) == Record(h, "auditingFailure", "FAILED", "idle")

(***************************************************************************)
(* handleCancellationCallback.                                             *)
(***************************************************************************)
MarkCancelled(h) == Update(h, "cancelling", "CANCELLED", "auditingCancel")
AuditCancelled(h) == Record(h, "auditingCancel", "CANCELLED", "idle")

(***************************************************************************)
(* Failures.                                                               *)
(***************************************************************************)
\* The status a suspended update by id is about to write.
Writing(place) ==
    CASE place = "inserting"  -> {"PENDING"}
      [] place = "confirming" -> {"CONFIRMED"}
      [] place = "executed"   -> {"EXECUTED"}
      [] place = "failing"    -> {"FAILED"}
      [] place = "cancelling" -> {"CANCELLED"}
      [] place = "expiring"   -> {"EXPIRED"}
      [] OTHER                -> {}

\* An awaited database or Telegram call rejects, and the write it carried was
\* applied (its acknowledgement was lost) or was not.  Inside the try block the
\* rejection leads to the catch clause; anywhere else it ends the handler in
\* bot.catch.
Throw(h) ==
    /\ pc[h] \notin {"idle", "executing"}
    /\ faults < MaxFaults
    /\ faults' = faults + 1
    /\ \/ UNCHANGED status
       \/ \E s \in Writing(pc[h]) : status' = [status EXCEPT ![call[h].token] = s]
    /\ Goto(h, IF pc[h] \in TryPcs THEN "failing" ELSE "idle")
    /\ UNCHANGED <<now, account, terms, audit, ran, crashes>>

\* The process dies and is started again: every handler is gone, the database
\* stays, dropPendingUpdates discards what Telegram had queued, and the owner's
\* row is bootstrapped.
CrashAndRestart ==
    /\ crashes < MaxCrashes
    /\ crashes' = crashes + 1
    /\ pc' = [h \in Handlers |-> "idle"]
    /\ call' = [h \in Handlers |-> None]
    /\ account' = [account EXCEPT ![OwnerId] = OwnerAccount]
    /\ UNCHANGED <<now, status, terms, audit, ran, faults>>

(***************************************************************************)
(* What happens around the flow.                                           *)
(***************************************************************************)
Tick ==
    /\ now < MaxTime
    /\ now' = now + 1
    /\ UNCHANGED <<account, status, terms, audit, pc, call, ghosts>>

\* An administrator's own confirmed request changes an account, the owner's among them:
\* createManagedUser looks at nothing, and what updateUserStatus and updateManagedUserRole
\* looked at may have changed when they write.
AdministerAccount(a) ==
    /\ \E to \in Administrated(account[a], GrantableRoles) : account' = [account EXCEPT ![a] = to]
    /\ UNCHANGED <<now, status, terms, audit, pc, call, ghosts>>

\* The code between two awaits of handler h.
Advance(h) ==
    \/ FindUser(h)
    \/ TouchProfile(h)
    \/ \E t \in Tokens, type \in ActionTypes, ttl \in TTLs : Propose(h, t, type, ttl)
    \/ Decline(h)
    \/ InsertRequest(h)
    \/ AuditRequest(h)
    \/ ResolveUnusable(h)
    \/ ResolveExpired(h)
    \/ Expire(h)
    \/ ResolveReady(h)
    \/ MarkConfirmed(h)
    \/ Execute(h)
    \/ MarkExecuted(h)
    \/ AuditSuccess(h)
    \/ Report(h)
    \/ MarkFailed(h)
    \/ AuditFailure(h)
    \/ MarkCancelled(h)
    \/ AuditCancelled(h)

Next ==
    \/ \E h \in Handlers : Advance(h) \/ Throw(h)
    \/ \E h \in Handlers, op \in Ops, a \in Actors, t \in Tokens \cup {None} :
          Receive(h, op, a, t)
    \/ CrashAndRestart
    \/ Tick
    \/ \E a \in Administered : AdministerAccount(a)

Spec == Init /\ [][Next]_vars

\* The families whose effect has no time limit: an engine call through dockerode or a
\* pg_dump may never come back.
Unlimited == {"docker", "backup"}

\* Suspended in a call that may never come back: such an effect, or the list of containers
\* that a docker request starts from.
MayHang(h) ==
    \/ pc[h] = "executing" /\ terms[call[h].token].type \in Unlimited
    \/ pc[h] = "authorized" /\ call[h].op = "request"

\* Every other call settles: the commands of a deployment are killed after 120 s, its probe
\* has a timeout, and the database and Telegram clients answer or reject.
Fairness == \A h \in Handlers : WF_vars(~MayHang(h) /\ (Advance(h) \/ Throw(h)))
FairSpec == Spec /\ Fairness

(***************************************************************************)
(* Properties.                                                             *)
(***************************************************************************)
\* Handlers that may still run t's effect without asking again.
Cleared(h, t) ==
    /\ pc[h] \in {"confirming", "executing"}
    /\ call[h].token = t

AtRest(t) == \A h \in Handlers : pc[h] # "idle" => call[h].token # t

\* One handler runs a token's effect at most once, whatever crashes, failed writes
\* and other handlers do: a token is used twice only by handlers that overlap
\* (resolveForActor reads the status, markConfirmed writes it unconditionally).
RunsOnlyByOverlap == \A t \in Tokens, h \in Handlers : ran[t][h] <= 1

\* A token's effect runs at most once: the single-use promise of DECISIONS.md 9.
SingleUse ==
    /\ RunsOnlyByOverlap
    /\ \A t \in Tokens, g, h \in Handlers : ran[t][g] > 0 /\ ran[t][h] > 0 => g = h

\* Once its handlers are done, a verdict has its entry in the audit log: it takes a
\* crash or two failed calls to lose the entry of an executed request (the first
\* one turns it FAILED), a crash or one failed call for the others.
VerdictsAreAudited ==
    \A t \in Tokens :
        AtRest(t) /\ crashes = 0 =>
          /\ status[t] = "EXECUTED"  => "SUCCESS" \in audit[t] \/ faults > 1
          /\ status[t] = "FAILED"    => "FAILED" \in audit[t] \/ faults > 0
          /\ status[t] = "CANCELLED" => "CANCELLED" \in audit[t] \/ faults > 0

\* Only a callback of the token's own requester that holds the required permission
\* moves an issued token or runs its effect; lapsing alone needs no permission.
OnlyTheRequesterMovesAToken ==
    [][\A t \in Tokens :
         status[t] # "ABSENT" /\ (status'[t] # status[t] \/ ran'[t] # ran[t])
         => \E h \in Handlers :
              /\ pc[h] \notin {"idle", "received", "touching"}
              /\ call[h].token = t /\ call[h].actor = terms[t].actor
              /\ \/ Permits(call[h].role, terms[t].type)
                 \/ pc[h] = "expiring" /\ ran'[t] = ran[t]]_vars

\* The deadline passed and no callback is between the check and the effect.
Lapsed(t) ==
    /\ status[t] # "ABSENT"
    /\ terms[t].expiresAt <= now
    /\ \A h \in Handlers : ~Cleared(h, t)

\* Once the deadline passes and no callback is already past the check, the effect
\* can never run again, whatever TTL changes, retries or crashes follow.
LapsedStaysLapsed ==
    [][\A t \in Tokens : Lapsed(t) => Lapsed(t)' /\ ran'[t] = ran[t]]_vars

\* The requester was disabled and none of their updates is past findByTelegramUserId.
Barred(t) ==
    /\ status[t] # "ABSENT"
    /\ account[terms[t].actor].status # "ACTIVE"
    /\ \A h \in Handlers :
          pc[h] # "idle" /\ call[h].actor = terms[t].actor => pc[h] = "received"

\* The requester lost the permission and none of their updates carries a role read
\* before that.
Demoted(t) ==
    /\ status[t] # "ABSENT"
    /\ ~Permits(account[terms[t].actor].role, terms[t].type)
    /\ \A h \in Handlers :
          /\ pc[h] \notin {"idle", "received", "touching"}
          /\ call[h].actor = terms[t].actor
          => ~Permits(call[h].role, terms[t].type)

\* A revocation holds: until the account itself changes again, a token issued before
\* it cannot be run, although its row still says PENDING.
RevocationHolds ==
    [][\A t \in Tokens :
         /\ status[t] # "ABSENT"
         /\ account'[terms[t].actor] = account[terms[t].actor]
         => /\ Barred(t) => Barred(t)' /\ ran'[t] = ran[t]
            /\ Demoted(t) => Demoted(t)' /\ ran'[t] = ran[t]]_vars

\* With one update at a time, the stored status tells whether the effect ran:
\* an open or turned-down request has no effect behind it, an executed one has.
StatusTellsEffect ==
    \A t \in Tokens :
        /\ status[t] \in {"ABSENT", "PENDING", "CANCELLED", "EXPIRED"}
             => \A h \in Handlers : ran[t][h] = 0
        /\ status[t] = "EXECUTED" => \E h \in Handlers : ran[t][h] > 0

\* A handler of the token is suspended at the place.
Underway(t, place) == \E h \in Handlers : pc[h] = place /\ call[h].token = t

\* An approved request gets its verdict once its effect has ended, well or badly, and the
\* effect itself cannot hold it up if it has a time limit: only a crash, a failed call or an
\* engine call or a pg_dump that never comes back leaves it CONFIRMED for ever.
EveryApprovalIsSettled ==
    \A t \in Tokens :
        status[t] = "CONFIRMED" /\ ~(Underway(t, "executing") /\ terms[t].type \in Unlimited)
          ~> status[t] # "CONFIRMED" \/ faults + crashes > 0

(***************************************************************************)
(* The inductive invariant behind the safety properties.                   *)
(***************************************************************************)
\* Past resolveForActor, on a token whose row exists.
WorkingPcs == {"expiring", "auditingRequest"} \cup ConfirmPcs \cup CancelPcs

\* What a suspended handler's locals are worth: its token, the role it read, and,
\* past the check, the authority it found.
LocalsAreSound ==
    \A h \in Handlers : pc[h] # "idle" =>
        /\ (call[h].op # "request" \/ pc[h] \in WorkingPcs \cup {"inserting"})
             => call[h].token \in Tokens
        /\ pc[h] \notin {"received", "touching"} => call[h].role \in Roles
        /\ pc[h] \in WorkingPcs =>
             /\ status[call[h].token] # "ABSENT"
             /\ terms[call[h].token].actor = call[h].actor
        /\ pc[h] \in ConfirmPcs \cup CancelPcs =>
             Permits(call[h].role, terms[call[h].token].type)

\* A token belongs to one insert, and to none once its row exists.
InsertsAreFresh ==
    /\ \A t \in Tokens : status[t] # "ABSENT" => terms[t] \in Terms
    /\ \A h \in Handlers : pc[h] = "inserting" =>
          /\ status[call[h].token] = "ABSENT"
          /\ terms[call[h].token] \in Terms
          /\ terms[call[h].token].actor = call[h].actor
    /\ \A g, h \in Handlers :
          /\ pc[g] = "inserting" /\ pc[h] = "inserting"
          /\ call[g].token = call[h].token
          => g = h

\* An open token has never been run, an executing handler has closed it, and a
\* cleared handler has not run it before.
RunsAreAccounted ==
    /\ \A t \in Tokens : status[t] \in {"ABSENT", "PENDING"} =>
          \A h \in Handlers : ran[t][h] = 0
    /\ \A h \in Handlers : pc[h] = "executing" =>
          status[call[h].token] \notin {"ABSENT", "PENDING"}
    /\ \A h \in Handlers, t \in Tokens : Cleared(h, t) => ran[t][h] = 0

IInv == TypeOK /\ LocalsAreSound /\ InsertsAreFresh /\ RunsAreAccounted /\ RunsOnlyByOverlap

\* An audit entry still missing is owed by a handler at work, or lost to failed calls.
Owed(t) ==
    /\ status[t] = "EXECUTED" /\ "SUCCESS" \notin audit[t] =>
          faults > 1 \/ Underway(t, "auditing") \/ (faults > 0 /\ Underway(t, "failing"))
    /\ status[t] = "FAILED" /\ "FAILED" \notin audit[t] =>
          faults > 0 \/ Underway(t, "auditingFailure")
    /\ status[t] = "CANCELLED" /\ "CANCELLED" \notin audit[t] =>
          faults > 0 \/ Underway(t, "auditingCancel")
AuditsAreOwed == crashes = 0 => \A t \in Tokens : Owed(t)

\* The tokens whose effect has been run.
Used == {t \in Tokens : \E h \in Handlers : ran[t][h] > 0}

\* The token's life as its row and its effect tell it.
Phase == [t \in Tokens |->
            CASE status[t] = "ABSENT" -> "unissued"
              [] status[t] = "PENDING" -> "offered"
              [] status[t] = "CONFIRMED" /\ t \notin Used -> "taken"
              [] OTHER -> "closed"]

Approval == INSTANCE OneShotApproval WITH phase <- Phase, spent <- Used

\* The handlers that may still run each token's effect, and where the token is for them.
ClearedFor == [t \in Tokens |-> {h \in Handlers : Cleared(h, t)}]
Stage == [t \in Tokens |->
            CASE status[t] = "ABSENT" -> "unissued"
              [] status[t] = "PENDING" -> "open"
              [] OTHER -> "answered"]

Overlapping == INSTANCE OverlappingApproval
                 WITH phase <- Stage, cleared <- ClearedFor, runs <- ran

\* However updates overlap, fail and die, a token runs once at most for each handler that
\* found it open, and for no other: an answer, once stored, is final for whoever comes
\* later (resolveForActor; the updates by id never open a row again).
AnswersAreFinal == Overlapping!Spec

\* Handling one update at a time, the flow implements the one-shot token.
ImplementsApproval == Approval!Spec
=============================================================================
