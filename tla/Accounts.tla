------------------------------- MODULE Accounts -------------------------------
(***************************************************************************)
(* The User table: AuthBootstrapService installs the owner at start-up,    *)
(* AuthService looks up or registers the sender of every update, and       *)
(* administrators change accounts through confirmed requests.              *)
(*                                                                         *)
(* Handlers interleave at every await, as in ActionRequests; here the      *)
(* reads and writes of UsersService are separate steps, and the request    *)
(* row is reduced to whether it can still be confirmed.                    *)
(***************************************************************************)
EXTENDS Naturals, Sequences, Rbac

CONSTANTS
    Ids,            \* Telegram users; rows are never deleted, so an id names a row too
    Handlers,       \* slots for updates processed at the same time
    AssignedRoles,  \* roles administrators assign in this instance
    MaxAsks,        \* bound on requests
    MaxFailures,    \* bound on failed database calls and crashes
    None            \* no row, no sender, no role

Statuses == {"ACTIVE", "DISABLED", "PENDING"}
Accounts == [role: Roles, status: Statuses]

ASSUME AccountsConstants ==
    /\ AssignedRoles \subseteq ManagedRoles
    /\ MaxAsks \in Nat /\ MaxFailures \in Nat
    /\ None \notin Accounts /\ None \notin Ids /\ None \notin Roles

\* What a request asks for: a status (user.activate, user.disable), a role
\* (user.role.set) or an account with a role (user.create).
Changes ==
    [op: {"status"}, target: Ids, value: {"ACTIVE", "DISABLED"}]
        \cup [op: {"role", "create"}, target: Ids, value: AssignedRoles]
Requests == [actor: Ids, change: Changes, open: BOOLEAN]

\* actor: the sender; role: its role, from the row touchTelegramProfile returns; request:
\* the token in hand; drafted: the change about to be requested; read: the target's row.
Calls == [actor: Ids \cup {None}, role: Roles \cup {None}, request: 0..MaxAsks,
          read: Accounts \cup {None}]

VARIABLES
    row,        \* User rows: role and status by Telegram id
    ownerId,    \* TELEGRAM_OWNER_USER_ID of the running process
    boot,       \* where AuthBootstrapService is
    asked,      \* ActionRequest rows of user actions, by creation
    pc,         \* where each handler is suspended
    call,       \* its locals
    managed,    \* ghost: handlers whose sender's row had a managing role since they began
    failures    \* ghost: failed calls and crashes so far

vars == <<row, ownerId, boot, asked, pc, call, managed, failures>>

\* Suspended in a call on behalf of a request.
ConfirmPcs == {"confirming", "reading", "writing", "creating"}
Pcs == {"idle", "received", "promoting", "registering", "touching", "authorized"}
          \cup ConfirmPcs

Account(r, s) == [role |-> r, status |-> s]
Owners == {i \in Ids : row[i] # None /\ row[i].role = "OWNER"}

Actor(h) == call[h].actor
Change(h) == asked[call[h].request].change

Blank == [actor |-> None, role |-> None, request |-> 0, read |-> None]

\* The locals handler h needs where it is.
Fits(h) ==
    /\ pc[h] = "idle" => call[h] = Blank
    /\ pc[h] # "idle" => Actor(h) \in Ids
    /\ pc[h] = "promoting" => Actor(h) = ownerId
    /\ pc[h] = "registering" => Actor(h) # ownerId
    /\ pc[h] \in {"received", "registering"} => call[h].read = None
    /\ pc[h] = "touching" => row[Actor(h)] # None
    /\ pc[h] \in {"authorized"} \cup ConfirmPcs => call[h].role # None
    /\ pc[h] \in ConfirmPcs => call[h].request \in DOMAIN asked
    /\ pc[h] \in {"reading", "writing"} => Change(h).op # "create"
    /\ pc[h] = "creating" => Change(h).op = "create"
    /\ pc[h] = "writing" => call[h].read # None /\ row[Change(h).target] # None

TypeOK ==
    /\ row \in [Ids -> Accounts \cup {None}]
    /\ ownerId \in Ids
    /\ boot \in {"demoting", "promoting", "done"}
    /\ asked \in Seq(Requests) /\ Len(asked) <= MaxAsks
    /\ pc \in [Handlers -> Pcs]
    /\ call \in [Handlers -> Calls]
    /\ \A h \in Handlers : Fits(h)
    /\ boot # "done" => \A h \in Handlers : pc[h] = "idle"
    /\ managed \subseteq Handlers
    /\ failures \in 0..MaxFailures

\* The bot is started on a table earlier processes may have left.
Init ==
    /\ row \in [Ids -> Accounts \cup {None}]
    /\ \A i, j \in Owners : i = j
    /\ \A i \in Owners : row[i].status # "PENDING"
    /\ ownerId \in Ids
    /\ boot = "demoting"
    /\ asked = <<>>
    /\ pc = [h \in Handlers |-> "idle"]
    /\ call = [h \in Handlers |-> Blank]
    /\ managed = {}
    /\ failures = 0

(***************************************************************************)
(* Building blocks.                                                        *)
(***************************************************************************)
Goto(h, to, c) ==
    /\ pc' = [pc EXCEPT ![h] = to]
    /\ call' = [call EXCEPT ![h] = c]

\* Mutated form of Finish: a handler keeps its locals.
Finish_KeepLocals(h) ==
    /\ pc' = [pc EXCEPT ![h] = "idle"]
    /\ UNCHANGED call

Finish(h) == Goto(h, "idle", Blank)

MayManageUsers(h) == Permits(call[h].role, "user")

\* What updateUserStatus and updateManagedUserRole write.
Written(account, change) ==
    IF change.op = "status" THEN [account EXCEPT !.status = change.value]
                            ELSE [account EXCEPT !.role = change.value]

\* Mutated form of Refused: the owner's row is an account like any other.
Refused_Anyone(account, change) == FALSE

\* The checks of UsersService on the row it read.
Refused(account, change) ==
    /\ account.role = "OWNER"
    /\ change.op = "status" => change.value # "ACTIVE"

(***************************************************************************)
(* The writes to the table, where they are applied.                        *)
(***************************************************************************)
\* Mutated form of DemoteOthers: the rows of earlier owners are left alone.
DemoteOthers_None == UNCHANGED row

\* ensureOwnerUser: updateMany on the other owners, then an upsert.
DemoteOthers ==
    row' = [i \in Ids |-> IF i \in Owners \ {ownerId} THEN [row[i] EXCEPT !.role = "ADMIN"]
                            ELSE row[i]]

InstallOwner == row' = [row EXCEPT ![ownerId] = Account("OWNER", "ACTIVE")]

\* The effect of the call handler h is suspended in.
Effect(h) ==
    CASE pc[h] = "received" /\ Actor(h) = ownerId -> DemoteOthers /\ UNCHANGED asked
      [] pc[h] = "promoting" -> InstallOwner /\ UNCHANGED asked
      [] pc[h] = "registering" ->
            /\ row' = [row EXCEPT ![Actor(h)] = Account("VIEWER", "PENDING")]
            /\ UNCHANGED asked
      [] pc[h] = "confirming" ->
            asked' = [asked EXCEPT ![call[h].request].open = FALSE] /\ UNCHANGED row
      [] pc[h] = "writing" ->
            /\ row' = [row EXCEPT ![Change(h).target] = Written(@, Change(h))]
            /\ UNCHANGED asked
      [] pc[h] = "creating" ->
            /\ row' = [row EXCEPT ![Change(h).target] = Account(Change(h).value, "ACTIVE")]
            /\ UNCHANGED asked
      [] OTHER -> UNCHANGED <<row, asked>>

(***************************************************************************)
(* Start-up: the owner's bootstrap, before any update is handled.          *)
(***************************************************************************)
BootDemote ==
    /\ boot = "demoting"
    /\ DemoteOthers
    /\ boot' = "promoting"
    /\ UNCHANGED <<ownerId, asked, pc, call, failures>>

BootPromote ==
    /\ boot = "promoting"
    /\ InstallOwner
    /\ boot' = "done"
    /\ UNCHANGED <<ownerId, asked, pc, call, failures>>

\* A rejected call ends the process, its write applied or not; it is started again.
BootFails ==
    /\ boot # "done"
    /\ failures < MaxFailures
    /\ failures' = failures + 1
    /\ \/ UNCHANGED row
       \/ boot = "demoting" /\ DemoteOthers
       \/ boot = "promoting" /\ InstallOwner
    /\ boot' = "demoting"
    /\ UNCHANGED <<ownerId, asked, pc, call>>

\* The process dies and is started again, perhaps with another owner.
CrashAndRestart ==
    /\ failures < MaxFailures
    /\ failures' = failures + 1
    /\ ownerId' \in Ids
    /\ boot' = "demoting"
    /\ pc' = [h \in Handlers |-> "idle"]
    /\ call' = [h \in Handlers |-> Blank]
    /\ UNCHANGED <<row, asked>>

(***************************************************************************)
(* authorizeTelegramContext.                                               *)
(***************************************************************************)
Receive(h, i) ==
    /\ boot = "done" /\ pc[h] = "idle"
    /\ Goto(h, "received", [Blank EXCEPT !.actor = i])
    /\ UNCHANGED <<row, ownerId, boot, asked, failures>>

\* The owner is installed again on every update it sends.
DemoteOtherOwners(h) ==
    /\ pc[h] = "received" /\ Actor(h) = ownerId
    /\ Effect(h)
    /\ Goto(h, "promoting", call[h])
    /\ UNCHANGED <<ownerId, boot, failures>>

Promote(h) ==
    /\ pc[h] = "promoting"
    /\ Effect(h)
    /\ Goto(h, "touching", call[h])
    /\ UNCHANGED <<ownerId, boot, failures>>

\* Anyone else is looked up; the profile update of an account that is not active changes
\* nothing kept here and is left out.
FindUser(h) ==
    /\ pc[h] = "received" /\ Actor(h) # ownerId
    /\ \/ row[Actor(h)] = None /\ Goto(h, "registering", call[h])
       \/ /\ row[Actor(h)] # None /\ row[Actor(h)].status = "ACTIVE"
          /\ Goto(h, "touching", call[h])
       \/ /\ row[Actor(h)] # None /\ row[Actor(h)].status # "ACTIVE"
          /\ Finish(h)
    /\ UNCHANGED <<row, ownerId, boot, asked, failures>>

\* createPendingTelegramUser: the upsert overwrites a row that appeared in between.
RegisterPending(h) ==
    /\ pc[h] = "registering"
    /\ Effect(h)
    /\ Finish(h)
    /\ UNCHANGED <<ownerId, boot, failures>>

\* touchTelegramProfile returns the row: its role counts from here on, its status is not
\* looked at again.
TouchProfile(h) ==
    /\ pc[h] = "touching"
    /\ Goto(h, "authorized", [call[h] EXCEPT !.role = row[Actor(h)].role])
    /\ UNCHANGED <<row, ownerId, boot, asked, failures>>

(***************************************************************************)
(* What an authorized update does to accounts.                             *)
(***************************************************************************)
\* It opens a screen, or is refused.
Leave(h) ==
    /\ pc[h] = "authorized"
    /\ Finish(h)
    /\ UNCHANGED <<row, ownerId, boot, asked, failures>>

\* The request is written: createPendingRequest.
Insert(h, change) ==
    /\ Len(asked) < MaxAsks
    /\ asked' = Append(asked, [actor |-> Actor(h), change |-> change, open |-> TRUE])
    /\ Finish(h)
    /\ UNCHANGED <<row, ownerId, boot, failures>>

\* handleUserStatusRequest.  The lookup before the request is part of this step: a change
\* between the two leaves the same request behind as one after it.
AskStatus(h, i, s) ==
    /\ pc[h] = "authorized" /\ MayManageUsers(h)
    /\ row[i] # None /\ row[i].status # s
    /\ row[i].role = "OWNER" => s = "ACTIVE"
    /\ Insert(h, [op |-> "status", target |-> i, value |-> s])

\* /adduser and /setrole: nothing is looked up.
AskRole(h, op, i, r) ==
    /\ pc[h] = "authorized" /\ MayManageUsers(h)
    /\ Insert(h, [op |-> op, target |-> i, value |-> r])

\* Mutated form of Confirm: what the sender was allowed to ask for it may confirm.
Confirm_Unchecked(h, t) ==
    /\ pc[h] = "authorized"
    /\ asked[t].actor = Actor(h) /\ asked[t].open
    /\ Goto(h, "confirming", [call[h] EXCEPT !.request = t])
    /\ UNCHANGED <<row, ownerId, boot, asked, failures>>

\* The sender presents a token of its own that is still pending, and may still use it.
Confirm(h, t) ==
    /\ pc[h] = "authorized" /\ MayManageUsers(h)
    /\ asked[t].actor = Actor(h) /\ asked[t].open
    /\ Goto(h, "confirming", [call[h] EXCEPT !.request = t])
    /\ UNCHANGED <<row, ownerId, boot, asked, failures>>

\* markConfirmed, up to the first call of UsersService.
MarkConfirmed(h) ==
    /\ pc[h] = "confirming"
    /\ Effect(h)
    /\ Goto(h, IF Change(h).op = "create" THEN "creating" ELSE "reading", call[h])
    /\ UNCHANGED <<ownerId, boot, failures>>

\* updateUserStatus and updateManagedUserRole: a missing row and the owner's make them
\* throw, a row that is as wanted makes them return.
ReadTarget(h) ==
    /\ pc[h] = "reading"
    /\ LET account == row[Change(h).target]
       IN  \/ /\ \/ account = None
                 \/ account # None /\ Refused(account, Change(h))
                 \/ account # None /\ Written(account, Change(h)) = account
              /\ Finish(h)
           \/ /\ account # None
              /\ ~Refused(account, Change(h)) /\ Written(account, Change(h)) # account
              /\ Goto(h, "writing", [call[h] EXCEPT !.read = account])
    /\ UNCHANGED <<row, ownerId, boot, asked, failures>>

\* Their update, by id: one field, whatever the row has become.  Settling the request
\* afterwards changes no account.
WriteTarget(h) ==
    /\ pc[h] = "writing"
    /\ Effect(h)
    /\ Finish(h)
    /\ UNCHANGED <<ownerId, boot, failures>>

\* createManagedUser: an upsert that looks at nothing.
CreateManagedUser(h) ==
    /\ pc[h] = "creating"
    /\ Effect(h)
    /\ Finish(h)
    /\ UNCHANGED <<ownerId, boot, failures>>

\* The call rejects, its write applied or not.
Throw(h) ==
    /\ pc[h] # "idle"
    /\ failures < MaxFailures
    /\ failures' = failures + 1
    /\ UNCHANGED <<row, asked>> \/ Effect(h)
    /\ Finish(h)
    /\ UNCHANGED <<ownerId, boot>>

Authorize(h) ==
    \/ DemoteOtherOwners(h)
    \/ Promote(h)
    \/ FindUser(h)
    \/ RegisterPending(h)
    \/ TouchProfile(h)

Ask(h) ==
    \/ \E i \in Ids, s \in {"ACTIVE", "DISABLED"} : AskStatus(h, i, s)
    \/ \E op \in {"role", "create"}, i \in Ids, r \in AssignedRoles : AskRole(h, op, i, r)

Execute(h) ==
    \/ \E t \in DOMAIN asked : Confirm(h, t)
    \/ MarkConfirmed(h)
    \/ ReadTarget(h)
    \/ WriteTarget(h)
    \/ CreateManagedUser(h)

\* The ghost: handlers at work whose sender is, or was since they began, a manager.
Watch ==
    managed' = {h \in Handlers :
        /\ pc'[h] # "idle"
        /\ \/ h \in managed
           \/ row'[call'[h].actor] # None /\ Permits(row'[call'[h].actor].role, "user")}

Step ==
    \/ BootDemote \/ BootPromote \/ BootFails \/ CrashAndRestart
    \/ \E h \in Handlers :
          \/ \E i \in Ids : Receive(h, i)
          \/ Authorize(h) \/ Leave(h) \/ Ask(h) \/ Execute(h) \/ Throw(h)

Next == Step /\ Watch

Spec == Init /\ [][Next]_vars

(***************************************************************************)
(* Properties.                                                             *)
(***************************************************************************)
\* One account is the owner's: while a process runs it is the one its environment names,
\* whatever owners earlier processes had and wherever their start-up was cut short
\* (ensureOwnerUser demotes and installs in two calls).
OneOwner ==
    /\ \A i, j \in Owners : i = j
    /\ boot # "demoting" => Owners \subseteq {ownerId}

\* The owner's row is the owner's: no administrator takes the role from it.
OwnerKeepsRole == boot = "done" => row[ownerId] # None /\ row[ownerId].role = "OWNER"

Book == INSTANCE AccountBook

\* The row handler h is about to write has changed since it was read: a lost update.
Aim(h) == IF pc[h] = "registering" THEN Actor(h) ELSE Change(h).target
Stale(h) == pc[h] \in {"registering", "writing"} /\ row[Aim(h)] # call[h].read
LostUpdate(h) ==
    /\ Stale(h) /\ pc'[h] # pc[h]
    /\ \A i \in Ids \ {Aim(h)} : row'[i] = row[i]

\* Overlapping handlers, failing calls and restarts bend the rules of the account table
\* in one way only: a write to one row that changed after it was read.
FollowsBook == [][Book!Next \/ \E h \in Handlers : LostUpdate(h)]_<<row, ownerId>>

\* With one handler the account table follows its book.
ImplementsBook == Book!Spec

\* Accounts change by the confirmations of managers only: whoever changes one had a role
\* with users.manage at some moment since its update arrived.  A token or keyboard kept
\* from before a demotion changes nothing.
OnlyManagersChangeAccounts ==
    [][\A h \in Handlers :
          pc[h] \in {"writing", "creating"} /\ pc'[h] # pc[h] /\ row' # row
          => h \in managed]_vars

\* Everyone has an account that was approved, and nobody is about to be registered.
AllKnown ==
    /\ \A i \in Ids : row[i] # None /\ row[i].status # "PENDING"
    /\ \A h \in Handlers : pc[h] # "registering"

\* The owner is reinstated, and an owner of the past goes on as an administrator.
OwnerChange(i) ==
    \/ i = ownerId /\ row'[i] = Account("OWNER", "ACTIVE")
    \/ i # ownerId /\ row[i].role = "OWNER" /\ row'[i] = [row[i] EXCEPT !.role = "ADMIN"]

\* What ActionRequests takes for granted of the accounts behind it: once everyone has one
\* they are changed one at a time, as the request of an administrator asks, whatever the
\* row has become since it was read, or as the owner's reinstatement does.
ChangesAreKnown ==
    [][AllKnown =>
         /\ AllKnown'
         /\ \/ row' = row
            \/ \E i \in Ids :
                  /\ row'[i] \in Administrated(row[i], AssignedRoles) \/ OwnerChange(i)
                  /\ \A j \in Ids \ {i} : row'[j] = row[j]]_vars

(***************************************************************************)
(* What the properties above lack to be inductive.                         *)
(***************************************************************************)
\* What was read let the write pass, and whoever confirms was let through as a manager.
WritesAreVetted ==
    \A h \in Handlers :
        /\ pc[h] = "writing" => ~Refused(call[h].read, Change(h))
        /\ pc[h] \in ConfirmPcs => MayManageUsers(h)
        /\ pc[h] \in {"authorized"} \cup ConfirmPcs /\ MayManageUsers(h) => h \in managed

IInv == TypeOK /\ OneOwner /\ WritesAreVetted

\* With one handler no read is ever stale.
NothingStale == \A h \in Handlers : ~Stale(h)
===============================================================================
