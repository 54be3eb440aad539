---------------------------- MODULE AccountsProofs ----------------------------
(***************************************************************************)
(* Theorems about Accounts, for every set of users and handler slots and   *)
(* every number of requests, failed calls and crashes.                     *)
(***************************************************************************)
EXTENDS Accounts, TLAPS

-----------------------------------------------------------------------------
(* Building blocks.                                                          *)

LEMMA ConstantFacts ==
    /\ AssignedRoles \subseteq ManagedRoles /\ ManagedRoles \subseteq Roles \ {"OWNER"}
    /\ MaxAsks \in Nat /\ MaxFailures \in Nat
    /\ None \notin Accounts /\ None \notin Ids /\ None \notin Roles
    /\ Blank \in Calls
    /\ \A r \in Roles, s \in Statuses : Account(r, s) \in Accounts
BY AccountsConstants DEF ManagedRoles, Blank, Calls, Account, Accounts

\* Rows stay, requests keep what they ask for and the process keeps its owner.
Stays ==
    /\ \A i \in Ids : row[i] # None => row'[i] # None
    /\ \A t \in DOMAIN asked : t \in DOMAIN asked' /\ asked'[t].change = asked[t].change
    /\ ownerId' = ownerId

\* A handler that does not move keeps what it needs.
LEMMA FitsStays ==
    ASSUME TypeOK, Stays, NEW g \in Handlers, pc'[g] = pc[g], call'[g] = call[g]
    PROVE  Fits(g)'
<1>1. Fits(g)
  BY DEF TypeOK
<1>2. pc[g] \in {"reading", "writing", "creating"} => Change(g)' = Change(g)
  BY <1>1 DEF Fits, Change, Stays, ConfirmPcs
<1>3. pc[g] = "writing" => Change(g).target \in Ids
  <2>1. pc[g] = "writing" => asked[call[g].request] \in Requests
    BY <1>1 DEF Fits, TypeOK, ConfirmPcs
  <2>2. QED
    BY <2>1 DEF Requests, Changes, Change
<1>4. QED
  BY <1>1, <1>2, <1>3 DEF Fits, Stays, Actor, ConfirmPcs

\* One handler moves to a place whose needs are met.
LEMMA GotoType ==
    ASSUME TypeOK, Stays, NEW h \in Handlers, NEW to \in Pcs, NEW c \in Calls,
           Goto(h, to, c), Fits(h)'
    PROVE  /\ pc' \in [Handlers -> Pcs] /\ call' \in [Handlers -> Calls]
           /\ pc'[h] = to /\ call'[h] = c
           /\ \A g \in Handlers : Fits(g)'
           /\ \A g \in Handlers : g # h => pc'[g] = pc[g] /\ call'[g] = call[g]
<1>1. /\ pc' \in [Handlers -> Pcs] /\ call' \in [Handlers -> Calls]
      /\ pc'[h] = to /\ call'[h] = c
      /\ \A g \in Handlers : g # h => pc'[g] = pc[g] /\ call'[g] = call[g]
  BY DEF TypeOK, Goto
<1>2. \A g \in Handlers : g # h => Fits(g)'
  BY <1>1, FitsStays
<1>3. QED
  BY <1>1, <1>2

LEMMA FinishType ==
    ASSUME TypeOK, Stays, NEW h \in Handlers, Finish(h)
    PROVE  /\ pc' \in [Handlers -> Pcs] /\ call' \in [Handlers -> Calls]
           /\ pc'[h] = "idle" /\ call'[h] = Blank
           /\ \A g \in Handlers : Fits(g)'
           /\ \A g \in Handlers : g # h => pc'[g] = pc[g] /\ call'[g] = call[g]
<1>1. Goto(h, "idle", Blank) /\ "idle" \in Pcs /\ Blank \in Calls
  BY ConstantFacts DEF Finish, Pcs
<1>2. pc'[h] = "idle" /\ call'[h] = Blank
  BY <1>1 DEF Goto, TypeOK
<1>3. Fits(h)'
  BY <1>2 DEF Fits, ConfirmPcs
<1>4. QED
  BY <1>1, <1>3, GotoType

\* What a handler knows in a call on behalf of a request.
LEMMA RequestFacts ==
    ASSUME TypeOK, NEW h \in Handlers, pc[h] \in ConfirmPcs
    PROVE  /\ call[h].request \in DOMAIN asked
           /\ asked[call[h].request] \in Requests
           /\ Change(h) \in Changes /\ Change(h).target \in Ids
           /\ Change(h).op = "status" => Change(h).value \in {"ACTIVE", "DISABLED"}
           /\ Change(h).op # "status" => Change(h).value \in AssignedRoles
<1>1. Fits(h) /\ call[h].request \in DOMAIN asked
  BY DEF TypeOK, Fits
<1>2. asked[call[h].request] \in Requests
  BY <1>1 DEF TypeOK
<1>3. Change(h) \in Changes
  BY <1>2 DEF Requests, Change
<1>4. QED
  BY <1>1, <1>2, <1>3 DEF Changes

\* A field written keeps an account an account, and its owner's role apart.
LEMMA WrittenType ==
    ASSUME NEW account \in Accounts, NEW change \in Changes, change.op # "create"
    PROVE  /\ Written(account, change) \in Accounts
           /\ Written(account, change).role = "OWNER" => account.role = "OWNER"
<1>1. CASE change.op = "status"
  BY <1>1 DEF Written, Accounts, Changes, Statuses
<1>2. CASE change.op # "status"
  <2>1. change.value \in AssignedRoles
    BY <1>2 DEF Changes
  <2>2. change.value \in Roles /\ change.value # "OWNER"
    BY <2>1, ConstantFacts
  <2>3. QED
    BY <1>2, <2>2 DEF Written, Accounts
<1>3. QED
  BY <1>1, <1>2

-----------------------------------------------------------------------------
(* The writes.                                                               *)

RowType == row' \in [Ids -> Accounts \cup {None}]
RowsStay == \A i \in Ids : row[i] # None => row'[i] # None
AskedType == asked' \in Seq(Requests) /\ Len(asked') <= MaxAsks
AskedStay == \A t \in DOMAIN asked : t \in DOMAIN asked' /\ asked'[t].change = asked[t].change

LEMMA DemoteType ==
    ASSUME TypeOK, DemoteOthers
    PROVE  RowType /\ RowsStay /\ Owners' \subseteq {ownerId}
<1>1. \A i \in Ids : row[i] \in Accounts \cup {None}
  BY DEF TypeOK
<1>2. ASSUME NEW i \in Owners PROVE [row[i] EXCEPT !.role = "ADMIN"] \in Accounts
  BY <1>1, <1>2 DEF Owners, Accounts, Roles
<1>3. ASSUME NEW i \in Owners PROVE [row[i] EXCEPT !.role = "ADMIN"].role = "ADMIN"
  BY <1>1 DEF Owners, Accounts
<1>4. QED
  BY <1>1, <1>2, <1>3, ConstantFacts DEF DemoteOthers, RowType, RowsStay, Owners, TypeOK

LEMMA InstallType ==
    ASSUME TypeOK, InstallOwner, Owners \subseteq {ownerId}
    PROVE  RowType /\ RowsStay /\ Owners' \subseteq {ownerId}
<1>1. Account("OWNER", "ACTIVE") \in Accounts
  BY ConstantFacts DEF Roles, Statuses
<1>2. QED
  BY <1>1, ConstantFacts DEF InstallOwner, RowType, RowsStay, Owners, TypeOK

\* The effects of handlers.
LEMMA EffectType ==
    ASSUME TypeOK, OneOwner, NEW h \in Handlers, pc[h] # "idle", Effect(h)
    PROVE  RowType /\ RowsStay /\ AskedType /\ AskedStay /\ Owners' \subseteq {ownerId}
<1>1. boot = "done" /\ Owners \subseteq {ownerId}
  BY DEF TypeOK, OneOwner
<1>2. UNCHANGED row => RowType /\ RowsStay /\ Owners' \subseteq {ownerId}
  BY <1>1 DEF RowType, RowsStay, TypeOK, Owners
<1>3. UNCHANGED asked => AskedType /\ AskedStay
  BY DEF AskedType, AskedStay, TypeOK
<1>4. CASE pc[h] = "received" /\ Actor(h) = ownerId
  BY <1>3, <1>4, DemoteType DEF Effect
<1>5. CASE pc[h] = "promoting"
  BY <1>1, <1>3, <1>5, InstallType DEF Effect
<1>6. CASE pc[h] = "registering"
  <2>1. Actor(h) \in Ids
    BY <1>6 DEF TypeOK, Fits
  <2>2. row' = [row EXCEPT ![Actor(h)] = Account("VIEWER", "PENDING")] /\ UNCHANGED asked
    BY <1>6 DEF Effect
  <2>3. Account("VIEWER", "PENDING") \in Accounts /\ Account("VIEWER", "PENDING").role # "OWNER"
    BY ConstantFacts DEF Roles, Statuses, Account
  <2>4. RowType /\ RowsStay /\ Owners' \subseteq {ownerId}
    BY <1>1, <2>1, <2>2, <2>3, ConstantFacts DEF RowType, RowsStay, Owners, TypeOK
  <2>5. QED
    BY <1>3, <2>2, <2>4
<1>7. CASE pc[h] = "confirming"
  <2>1. asked' = [asked EXCEPT ![call[h].request].open = FALSE] /\ UNCHANGED row
    BY <1>7 DEF Effect
  <2>2. call[h].request \in DOMAIN asked /\ asked[call[h].request] \in Requests
    BY <1>7, RequestFacts DEF ConfirmPcs
  <2>3. /\ [asked[call[h].request] EXCEPT !.open = FALSE] \in Requests
        /\ [asked[call[h].request] EXCEPT !.open = FALSE].change = Change(h)
    BY <2>2 DEF Requests, Change
  <2>4. AskedType
    BY <2>1, <2>2, <2>3 DEF AskedType, TypeOK
  <2>5. AskedStay
    BY <2>1, <2>2, <2>3 DEF AskedStay, TypeOK, Change
  <2>6. QED
    BY <1>2, <2>1, <2>4, <2>5
<1>8. CASE pc[h] = "writing"
  <2>1. row' = [row EXCEPT ![Change(h).target] = Written(@, Change(h))] /\ UNCHANGED asked
    BY <1>8 DEF Effect
  <2>2. Change(h).target \in Ids /\ Change(h) \in Changes
    BY <1>8, RequestFacts DEF ConfirmPcs
  <2>3. Change(h).op # "create" /\ row[Change(h).target] \in Accounts
    BY <1>8, <2>2 DEF TypeOK, Fits
  <2>4. /\ Written(row[Change(h).target], Change(h)) \in Accounts
        /\ Written(row[Change(h).target], Change(h)).role = "OWNER"
             => row[Change(h).target].role = "OWNER"
    BY <2>2, <2>3, WrittenType
  <2>5. RowType /\ RowsStay /\ Owners' \subseteq {ownerId}
    BY <1>1, <2>1, <2>2, <2>3, <2>4, ConstantFacts DEF RowType, RowsStay, Owners, TypeOK
  <2>6. QED
    BY <1>3, <2>1, <2>5
<1>9. CASE pc[h] = "creating"
  <2>1. /\ row' = [row EXCEPT ![Change(h).target] = Account(Change(h).value, "ACTIVE")]
        /\ UNCHANGED asked
    BY <1>9 DEF Effect
  <2>2. /\ Change(h).target \in Ids
        /\ Change(h).op # "status" => Change(h).value \in AssignedRoles
    BY <1>9, RequestFacts DEF ConfirmPcs
  <2>3. Change(h).op = "create"
    BY <1>9 DEF TypeOK, Fits
  <2>4. Change(h).value \in Roles \ {"OWNER"}
    BY <2>2, <2>3, ConstantFacts
  <2>5. /\ Account(Change(h).value, "ACTIVE") \in Accounts
        /\ Account(Change(h).value, "ACTIVE").role # "OWNER"
    BY <2>4, ConstantFacts DEF Statuses, Account
  <2>6. RowType /\ RowsStay /\ Owners' \subseteq {ownerId}
    BY <1>1, <2>1, <2>2, <2>5, ConstantFacts DEF RowType, RowsStay, Owners, TypeOK
  <2>7. QED
    BY <1>3, <2>1, <2>6
<1>10. CASE /\ ~(pc[h] = "received" /\ Actor(h) = ownerId)
            /\ pc[h] \notin {"promoting", "registering", "confirming", "writing", "creating"}
  <2>1. UNCHANGED <<row, asked>>
    BY <1>10 DEF Effect
  <2>2. QED
    BY <1>2, <1>3, <2>1
<1>11. QED
  BY <1>4, <1>5, <1>6, <1>7, <1>8, <1>9, <1>10

-----------------------------------------------------------------------------
(* The steps of a handler.                                                   *)

\* What every step of handler h leaves in order.
Kept(h) ==
    /\ RowType /\ AskedType /\ Stays /\ Owners' \subseteq {ownerId}
    /\ boot = "done" /\ boot' = "done" /\ failures' \in 0..MaxFailures
    /\ pc' \in [Handlers -> Pcs] /\ call' \in [Handlers -> Calls]
    /\ \A g \in Handlers : Fits(g)'
    /\ \A g \in Handlers : g # h => pc'[g] = pc[g] /\ call'[g] = call[g]

\* Why h may go on after it.
Vetted(h) ==
    /\ pc'[h] = "writing" => ~Refused(call'[h].read, Change(h)')
    /\ pc'[h] \in ConfirmPcs => MayManageUsers(h)'
    /\ pc'[h] \in {"authorized"} \cup ConfirmPcs /\ MayManageUsers(h)' =>
          \/ h \in managed
          \/ row'[Actor(h)'] # None /\ Permits(row'[Actor(h)'].role, "user")

\* A step in which h stays at work.
LEMMA GotoKept ==
    ASSUME IInv, NEW h \in Handlers, NEW to \in Pcs, NEW c \in Calls, Goto(h, to, c), Fits(h)',
           RowType, RowsStay, AskedType, AskedStay, Owners' \subseteq {ownerId},
           boot = "done", UNCHANGED <<ownerId, boot, failures>>
    PROVE  Kept(h) /\ pc'[h] = to /\ call'[h] = c
<1>1. TypeOK /\ Stays
  BY DEF IInv, Stays, RowsStay, AskedStay
<1>2. failures' \in 0..MaxFailures
  BY DEF IInv, TypeOK
<1>3. QED
  BY <1>1, <1>2, GotoType DEF Kept

\* A step that is its last.
LEMMA FinishKept ==
    ASSUME IInv, NEW h \in Handlers, Finish(h),
           RowType, RowsStay, AskedType, AskedStay, Owners' \subseteq {ownerId},
           boot = "done", UNCHANGED <<ownerId, boot>>, failures' \in 0..MaxFailures
    PROVE  Kept(h) /\ Vetted(h)
<1>1. TypeOK /\ Stays
  BY DEF IInv, Stays, RowsStay, AskedStay
<1>2. Kept(h) /\ pc'[h] = "idle"
  BY <1>1, FinishType DEF Kept
<1>3. QED
  BY <1>2 DEF Vetted, ConfirmPcs

LEMMA Untouched ==
    ASSUME IInv, boot = "done", UNCHANGED <<row, ownerId>>
    PROVE  RowType /\ RowsStay /\ Owners' \subseteq {ownerId}
BY DEF IInv, TypeOK, OneOwner, RowType, RowsStay, Owners

LEMMA UntouchedAsked ==
    ASSUME IInv, UNCHANGED asked
    PROVE  AskedType /\ AskedStay
BY DEF IInv, TypeOK, AskedType, AskedStay

LEMMA ReceiveStep ==
    ASSUME IInv, NEW h \in Handlers, NEW i \in Ids, Receive(h, i)
    PROVE  Kept(h) /\ Vetted(h)
<1> DEFINE c == [Blank EXCEPT !.actor = i]
<1>1. c \in Calls /\ c.actor = i /\ c.read = None /\ "received" \in Pcs
  BY ConstantFacts DEF Blank, Calls, Pcs
<1>2. Goto(h, "received", c) /\ boot = "done" /\ UNCHANGED <<row, ownerId, boot, asked, failures>>
  BY DEF Receive
<1> HIDE DEF c
<1>3. pc'[h] = "received" /\ call'[h] = c
  BY <1>2 DEF Goto, IInv, TypeOK
<1>4. Fits(h)'
  BY <1>1, <1>3 DEF Fits, Actor, ConfirmPcs
<1>5. Kept(h)
  BY <1>1, <1>2, <1>4, Untouched, UntouchedAsked, GotoKept
<1>6. QED
  BY <1>3, <1>5 DEF Vetted, ConfirmPcs

LEMMA AtWork ==
    ASSUME IInv, NEW h \in Handlers, pc[h] # "idle"
    PROVE  /\ boot = "done" /\ Actor(h) \in Ids /\ call[h] \in Calls /\ Fits(h)
           /\ TypeOK /\ OneOwner /\ Owners \subseteq {ownerId}
BY DEF IInv, TypeOK, OneOwner, Fits

LEMMA AuthorizeStep ==
    ASSUME IInv, NEW h \in Handlers, Authorize(h)
    PROVE  Kept(h) /\ Vetted(h)
<1>0. /\ boot = "done" /\ Actor(h) \in Ids /\ call[h] \in Calls /\ Fits(h)
      /\ TypeOK /\ OneOwner /\ Owners \subseteq {ownerId} /\ pc[h] # "idle"
  BY AtWork DEF Authorize, DemoteOtherOwners, Promote, FindUser, RegisterPending, TouchProfile
<1>p. {"promoting", "touching", "registering", "authorized"} \subseteq Pcs
  BY DEF Pcs
<1>1. CASE DemoteOtherOwners(h)
  <2>1. /\ RowType /\ RowsStay /\ AskedType /\ AskedStay /\ Owners' \subseteq {ownerId}
        /\ Goto(h, "promoting", call[h]) /\ UNCHANGED <<ownerId, boot, failures>>
        /\ Actor(h) = ownerId
    BY <1>0, <1>1, EffectType DEF DemoteOtherOwners
  <2>2. pc'[h] = "promoting" /\ call'[h] = call[h]
    BY <1>0, <2>1 DEF Goto, TypeOK
  <2>3. Fits(h)'
    BY <1>0, <2>1, <2>2 DEF Fits, Actor, ConfirmPcs
  <2>4. Kept(h)
    BY <1>0, <1>p, <2>1, <2>3, GotoKept
  <2>5. QED
    BY <2>2, <2>4 DEF Vetted, ConfirmPcs
<1>2. CASE Promote(h)
  <2>1. /\ RowType /\ RowsStay /\ AskedType /\ AskedStay /\ Owners' \subseteq {ownerId}
        /\ Goto(h, "touching", call[h]) /\ UNCHANGED <<ownerId, boot, failures>>
    BY <1>0, <1>2, EffectType DEF Promote
  <2>2. pc'[h] = "touching" /\ call'[h] = call[h]
    BY <1>0, <2>1 DEF Goto, TypeOK
  <2>3. row'[Actor(h)] # None
    <3>1. Actor(h) = ownerId /\ InstallOwner
      BY <1>0, <1>2 DEF Promote, Fits, Effect
    <3>2. Account("OWNER", "ACTIVE") # None
      BY ConstantFacts DEF Roles, Statuses
    <3>3. QED
      BY <1>0, <3>1, <3>2 DEF InstallOwner, TypeOK
  <2>4. Fits(h)'
    BY <1>0, <2>2, <2>3 DEF Fits, Actor, ConfirmPcs
  <2>5. Kept(h)
    BY <1>0, <1>p, <2>1, <2>4, GotoKept
  <2>6. QED
    BY <2>2, <2>5 DEF Vetted, ConfirmPcs
<1>3. CASE FindUser(h)
  <2>1. /\ pc[h] = "received" /\ Actor(h) # ownerId
        /\ UNCHANGED <<row, ownerId, boot, asked, failures>>
    BY <1>3 DEF FindUser
  <2>2. CASE Finish(h)
    <3>1. failures' \in 0..MaxFailures
      BY <1>0, <2>1 DEF TypeOK
    <3>2. QED
      BY <1>0, <2>1, <2>2, <3>1, Untouched, UntouchedAsked, FinishKept
  <2>3. CASE row[Actor(h)] = None /\ Goto(h, "registering", call[h])
    <3>1. pc'[h] = "registering" /\ call'[h] = call[h]
      BY <1>0, <2>3 DEF Goto, TypeOK
    <3>2. Fits(h)'
      BY <1>0, <2>1, <3>1 DEF Fits, Actor, ConfirmPcs
    <3>3. Kept(h)
      BY <1>0, <1>p, <2>1, <2>3, <3>2, Untouched, UntouchedAsked, GotoKept
    <3>4. QED
      BY <3>1, <3>3 DEF Vetted, ConfirmPcs
  <2>4. CASE row[Actor(h)] # None /\ Goto(h, "touching", call[h])
    <3>1. pc'[h] = "touching" /\ call'[h] = call[h]
      BY <1>0, <2>4 DEF Goto, TypeOK
    <3>2. Fits(h)'
      BY <1>0, <2>1, <2>4, <3>1 DEF Fits, Actor, ConfirmPcs
    <3>3. Kept(h)
      BY <1>0, <1>p, <2>1, <2>4, <3>2, Untouched, UntouchedAsked, GotoKept
    <3>4. QED
      BY <3>1, <3>3 DEF Vetted, ConfirmPcs
  <2>5. QED
    BY <1>3, <2>2, <2>3, <2>4 DEF FindUser
<1>4. CASE RegisterPending(h)
  <2>1. /\ RowType /\ RowsStay /\ AskedType /\ AskedStay /\ Owners' \subseteq {ownerId}
        /\ Finish(h) /\ UNCHANGED <<ownerId, boot, failures>>
    BY <1>0, <1>4, EffectType DEF RegisterPending
  <2>2. failures' \in 0..MaxFailures
    BY <1>0, <2>1 DEF TypeOK
  <2>3. QED
    BY <1>0, <2>1, <2>2, FinishKept
<1>5. CASE TouchProfile(h)
  <2> DEFINE c == [call[h] EXCEPT !.role = row[Actor(h)].role]
  <2>1. row[Actor(h)] \in Accounts
    BY <1>0, <1>5 DEF TouchProfile, Fits, TypeOK
  <2>2. c \in Calls /\ c.actor = Actor(h) /\ c.role = row[Actor(h)].role /\ c.role # None
    BY <1>0, <2>1, ConstantFacts DEF Calls, Actor, Accounts
  <2>3. Goto(h, "authorized", c) /\ UNCHANGED <<row, ownerId, boot, asked, failures>>
    BY <1>5 DEF TouchProfile
  <2> HIDE DEF c
  <2>4. pc'[h] = "authorized" /\ call'[h] = c
    BY <1>0, <2>3 DEF Goto, TypeOK
  <2>5. Fits(h)'
    BY <1>0, <2>2, <2>4 DEF Fits, Actor, ConfirmPcs
  <2>6. Kept(h)
    BY <1>0, <1>p, <2>2, <2>3, <2>5, Untouched, UntouchedAsked, GotoKept
  <2>7. QED
    BY <2>1, <2>2, <2>3, <2>4, <2>6, ConstantFacts DEF Vetted, ConfirmPcs, MayManageUsers, Actor
<1>6. QED
  BY <1>1, <1>2, <1>3, <1>4, <1>5 DEF Authorize

LEMMA LeaveStep ==
    ASSUME IInv, NEW h \in Handlers, Leave(h)
    PROVE  Kept(h) /\ Vetted(h)
<1>1. boot = "done" /\ failures' \in 0..MaxFailures
  BY AtWork DEF Leave, IInv, TypeOK
<1>2. QED
  BY <1>1, Untouched, UntouchedAsked, FinishKept DEF Leave

LEMMA InsertStep ==
    ASSUME IInv, NEW h \in Handlers, pc[h] # "idle", NEW change \in Changes, Insert(h, change)
    PROVE  Kept(h) /\ Vetted(h)
<1> DEFINE request == [actor |-> Actor(h), change |-> change, open |-> TRUE]
<1>1. boot = "done" /\ Actor(h) \in Ids /\ TypeOK /\ failures' \in 0..MaxFailures
  BY AtWork DEF Insert, TypeOK
<1>2. request \in Requests
  BY <1>1 DEF Requests
<1>3. asked' = Append(asked, request) /\ Len(asked) < MaxAsks
  BY DEF Insert
<1> HIDE DEF request
<1>4. AskedType
  BY <1>1, <1>2, <1>3, ConstantFacts DEF AskedType, TypeOK
<1>5. AskedStay
  BY <1>1, <1>2, <1>3 DEF AskedStay, TypeOK
<1>6. QED
  BY <1>1, <1>4, <1>5, Untouched, FinishKept DEF Insert

LEMMA AskStep ==
    ASSUME IInv, NEW h \in Handlers, Ask(h)
    PROVE  Kept(h) /\ Vetted(h)
<1>1. ASSUME NEW i \in Ids, NEW s \in {"ACTIVE", "DISABLED"}, AskStatus(h, i, s)
      PROVE  Kept(h) /\ Vetted(h)
  <2>1. [op |-> "status", target |-> i, value |-> s] \in Changes
    BY DEF Changes
  <2>2. QED
    BY <1>1, <2>1, InsertStep DEF AskStatus
<1>2. ASSUME NEW op \in {"role", "create"}, NEW i \in Ids, NEW r \in AssignedRoles,
             AskRole(h, op, i, r)
      PROVE  Kept(h) /\ Vetted(h)
  <2>1. [op |-> op, target |-> i, value |-> r] \in Changes
    BY DEF Changes
  <2>2. QED
    BY <1>2, <2>1, InsertStep DEF AskRole
<1>3. QED
  BY <1>1, <1>2 DEF Ask

LEMMA ConfirmStep ==
    ASSUME IInv, NEW h \in Handlers, NEW t \in DOMAIN asked, Confirm(h, t)
    PROVE  Kept(h) /\ Vetted(h)
<1> DEFINE c == [call[h] EXCEPT !.request = t]
<1>0. /\ boot = "done" /\ Actor(h) \in Ids /\ call[h] \in Calls /\ Fits(h) /\ TypeOK
      /\ pc[h] = "authorized"
  BY AtWork DEF Confirm
<1>1. t \in 0..MaxAsks
  BY <1>0, ConstantFacts DEF TypeOK
<1>2. c \in Calls /\ c.actor = Actor(h) /\ c.role = call[h].role /\ c.request = t
  BY <1>0, <1>1 DEF Calls, Actor
<1>3. /\ Goto(h, "confirming", c) /\ UNCHANGED <<row, ownerId, boot, asked, failures>>
      /\ MayManageUsers(h)
  BY DEF Confirm
<1> HIDE DEF c
<1>4. pc'[h] = "confirming" /\ call'[h] = c
  BY <1>0, <1>3 DEF Goto, TypeOK
<1>5. Fits(h)'
  BY <1>0, <1>2, <1>3, <1>4 DEF Fits, Actor, ConfirmPcs
<1>6. "confirming" \in Pcs
  BY DEF Pcs, ConfirmPcs
<1>7. Kept(h)
  BY <1>0, <1>2, <1>3, <1>5, <1>6, Untouched, UntouchedAsked, GotoKept
<1>8. MayManageUsers(h)' /\ h \in managed
  BY <1>0, <1>2, <1>3, <1>4 DEF MayManageUsers, IInv, WritesAreVetted
<1>9. QED
  BY <1>4, <1>7, <1>8 DEF Vetted

LEMMA ExecuteStep ==
    ASSUME IInv, NEW h \in Handlers, Execute(h)
    PROVE  Kept(h) /\ Vetted(h)
<1>1. CASE \E t \in DOMAIN asked : Confirm(h, t)
  BY <1>1, ConfirmStep
<1>2. CASE MarkConfirmed(h)
  <2>0. /\ boot = "done" /\ Actor(h) \in Ids /\ call[h] \in Calls /\ Fits(h)
        /\ TypeOK /\ OneOwner /\ pc[h] = "confirming"
    BY <1>2, AtWork DEF MarkConfirmed
  <2> DEFINE to == IF Change(h).op = "create" THEN "creating" ELSE "reading"
  <2>1. /\ RowType /\ RowsStay /\ AskedType /\ AskedStay /\ Owners' \subseteq {ownerId}
        /\ Goto(h, to, call[h]) /\ UNCHANGED <<ownerId, boot, failures>>
    BY <1>2, <2>0, EffectType DEF MarkConfirmed
  <2>2. pc'[h] = to /\ call'[h] = call[h]
    BY <2>0, <2>1 DEF Goto, TypeOK
  <2>3. call[h].request \in DOMAIN asked' /\ Change(h)' = Change(h)
    BY <2>0, <2>1, <2>2, RequestFacts DEF AskedStay, Change, ConfirmPcs
  <2>4. Fits(h)'
    BY <2>0, <2>2, <2>3 DEF Fits, Actor, ConfirmPcs
  <2>5. to \in Pcs /\ to \in ConfirmPcs /\ to # "writing"
    BY DEF Pcs, ConfirmPcs
  <2> HIDE DEF to
  <2>6. Kept(h)
    BY <2>0, <2>1, <2>4, <2>5, GotoKept
  <2>7. MayManageUsers(h)' /\ h \in managed
    BY <2>0, <2>2 DEF MayManageUsers, IInv, WritesAreVetted, ConfirmPcs
  <2>8. QED
    BY <2>2, <2>5, <2>6, <2>7 DEF Vetted
<1>3. CASE ReadTarget(h)
  <2>0. /\ boot = "done" /\ Actor(h) \in Ids /\ call[h] \in Calls /\ Fits(h)
        /\ TypeOK /\ pc[h] = "reading" /\ UNCHANGED <<row, ownerId, boot, asked, failures>>
        /\ failures' \in 0..MaxFailures
    BY <1>3, AtWork DEF ReadTarget, TypeOK
  <2>1. CASE Finish(h)
    BY <2>0, <2>1, Untouched, UntouchedAsked, FinishKept
  <2>2. CASE /\ row[Change(h).target] # None /\ ~Refused(row[Change(h).target], Change(h))
             /\ Goto(h, "writing", [call[h] EXCEPT !.read = row[Change(h).target]])
    <3> DEFINE c == [call[h] EXCEPT !.read = row[Change(h).target]]
    <3>1. Change(h).target \in Ids
      BY <2>0, RequestFacts DEF ConfirmPcs
    <3>2. row[Change(h).target] \in Accounts
      BY <2>0, <2>2, <3>1 DEF TypeOK
    <3>3. /\ c \in Calls /\ c.actor = Actor(h) /\ c.role = call[h].role
          /\ c.request = call[h].request /\ c.read = row[Change(h).target]
      BY <2>0, <3>2 DEF Calls, Actor
    <3>4. Goto(h, "writing", c)
      BY <2>2
    <3> HIDE DEF c
    <3>5. pc'[h] = "writing" /\ call'[h] = c
      BY <2>0, <3>4 DEF Goto, TypeOK
    <3>6. Change(h)' = Change(h)
      BY <2>0, <3>3, <3>5 DEF Change
    <3>7. Fits(h)'
      BY <2>0, <2>2, <3>3, <3>5, <3>6 DEF Fits, Actor, ConfirmPcs
    <3>8. "writing" \in Pcs
      BY DEF Pcs, ConfirmPcs
    <3>9. Kept(h)
      BY <2>0, <3>3, <3>4, <3>7, <3>8, Untouched, UntouchedAsked, GotoKept
    <3>10. MayManageUsers(h)' /\ h \in managed
      BY <2>0, <3>3, <3>5 DEF MayManageUsers, IInv, WritesAreVetted, ConfirmPcs
    <3>11. ~Refused(call'[h].read, Change(h)')
      BY <2>2, <3>3, <3>5, <3>6 DEF Refused
    <3>12. QED
      BY <3>9, <3>10, <3>11 DEF Vetted
  <2>3. QED
    BY <1>3, <2>1, <2>2 DEF ReadTarget
<1>4. CASE WriteTarget(h) \/ CreateManagedUser(h)
  <2>1. /\ boot = "done" /\ TypeOK /\ OneOwner /\ pc[h] # "idle"
        /\ Effect(h) /\ Finish(h) /\ UNCHANGED <<ownerId, boot, failures>>
        /\ failures' \in 0..MaxFailures
    BY <1>4, AtWork DEF WriteTarget, CreateManagedUser, TypeOK
  <2>2. QED
    BY <2>1, EffectType, FinishKept
<1>5. QED
  BY <1>1, <1>2, <1>3, <1>4 DEF Execute

LEMMA ThrowStep ==
    ASSUME IInv, NEW h \in Handlers, Throw(h)
    PROVE  Kept(h) /\ Vetted(h)
<1>1. /\ boot = "done" /\ TypeOK /\ OneOwner /\ pc[h] # "idle"
      /\ Finish(h) /\ UNCHANGED <<ownerId, boot>>
  BY AtWork DEF Throw
<1>2. failures' \in 0..MaxFailures
  BY <1>1, ConstantFacts DEF Throw, TypeOK
<1>3. RowType /\ RowsStay /\ Owners' \subseteq {ownerId} /\ AskedType /\ AskedStay
  BY <1>1, EffectType, Untouched, UntouchedAsked DEF Throw
<1>4. QED
  BY <1>1, <1>2, <1>3, FinishKept

-----------------------------------------------------------------------------
(* The invariant.                                                            *)

\* A step of one handler keeps it.
LEMMA HandlerInv ==
    ASSUME IInv, Watch, NEW h \in Handlers, Kept(h), Vetted(h)
    PROVE  IInv'
<1>1. TypeOK'
  BY DEF Kept, RowType, AskedType, Stays, Watch, IInv, TypeOK
<1>2. OneOwner'
  BY DEF Kept, Stays, OneOwner
<1>3. ASSUME NEW g \in Handlers
      PROVE  /\ pc'[g] = "writing" => ~Refused(call'[g].read, Change(g)')
             /\ pc'[g] \in ConfirmPcs => MayManageUsers(g)'
             /\ pc'[g] \in {"authorized"} \cup ConfirmPcs /\ MayManageUsers(g)'
                  => \/ g \in managed
                     \/ row'[Actor(g)'] # None /\ Permits(row'[Actor(g)'].role, "user")
  <2>1. CASE g = h
    BY <2>1 DEF Vetted
  <2>2. CASE g # h
    <3>1. pc'[g] = pc[g] /\ call'[g] = call[g] /\ MayManageUsers(g)' = MayManageUsers(g)
      BY <2>2 DEF Kept, MayManageUsers
    <3>2. pc[g] \in ConfirmPcs => Change(g)' = Change(g)
      BY <3>1, RequestFacts DEF IInv, Kept, Stays, Change
    <3>3. /\ pc[g] = "writing" => ~Refused(call[g].read, Change(g))
          /\ pc[g] \in ConfirmPcs => MayManageUsers(g)
          /\ pc[g] \in {"authorized"} \cup ConfirmPcs /\ MayManageUsers(g) => g \in managed
      BY DEF IInv, WritesAreVetted
    <3>4. pc[g] = "writing" => pc[g] \in ConfirmPcs
      BY DEF ConfirmPcs
    <3>5. pc[g] = "writing" => ~Refused(call'[g].read, Change(g)')
      BY <3>1, <3>2, <3>3, <3>4 DEF Refused
    <3>6. QED
      BY <3>1, <3>3, <3>5
  <2>3. QED
    BY <2>1, <2>2
<1>4. ASSUME NEW g \in Handlers, pc'[g] \in {"authorized"} \cup ConfirmPcs, MayManageUsers(g)'
      PROVE  g \in managed'
  <2>1. pc'[g] # "idle"
    BY <1>4 DEF ConfirmPcs
  <2>2. CASE g \in managed
    BY <2>1, <2>2 DEF Watch
  <2>3. CASE row'[Actor(g)'] # None /\ Permits(row'[Actor(g)'].role, "user")
    BY <2>1, <2>3 DEF Watch, Actor
  <2>4. QED
    BY <1>3, <1>4, <2>2, <2>3
<1>5. WritesAreVetted'
  BY <1>3, <1>4 DEF WritesAreVetted
<1>6. QED
  BY <1>1, <1>2, <1>5 DEF IInv

\* So do the steps around the handlers, after which every handler is idle.
LEMMA IdleInv ==
    ASSUME IInv, Watch, RowType, OneOwner', ownerId' \in Ids, boot' \in {"demoting", "promoting", "done"}, UNCHANGED asked,
           failures' \in 0..MaxFailures, pc' \in [Handlers -> Pcs], call' \in [Handlers -> Calls],
           \A h \in Handlers : pc'[h] = "idle" /\ call'[h] = Blank
    PROVE  IInv'
<1>1. \A h \in Handlers : Fits(h)'
  BY DEF Fits, ConfirmPcs
<1>2. TypeOK'
  BY <1>1 DEF RowType, Watch, IInv, TypeOK
<1>3. WritesAreVetted'
  BY DEF WritesAreVetted, ConfirmPcs
<1>4. QED
  BY <1>2, <1>3 DEF IInv

LEMMA BootInv ==
    ASSUME IInv, Watch, BootDemote \/ BootPromote \/ BootFails
    PROVE  IInv'
<1>0. /\ TypeOK /\ OneOwner /\ boot # "done"
      /\ \A h \in Handlers : pc[h] = "idle" /\ call[h] = Blank
  BY DEF IInv, TypeOK, Fits, BootDemote, BootPromote, BootFails
<1>1. UNCHANGED row => RowType /\ Owners' = Owners
  BY <1>0 DEF TypeOK, RowType, Owners
<1>2. DemoteOthers => RowType /\ Owners' \subseteq {ownerId}
  BY <1>0, DemoteType
<1>3. boot = "promoting" /\ InstallOwner => RowType /\ Owners' \subseteq {ownerId}
  BY <1>0, InstallType DEF OneOwner
<1>4. /\ RowType /\ OneOwner' /\ boot' \in {"demoting", "promoting", "done"}
      /\ UNCHANGED <<ownerId, asked, pc, call>>
  BY <1>0, <1>1, <1>2, <1>3 DEF BootDemote, BootPromote, BootFails, OneOwner
<1>5. failures' \in 0..MaxFailures
  BY <1>0, ConstantFacts DEF BootDemote, BootPromote, BootFails, TypeOK
<1>6. QED
  BY <1>0, <1>4, <1>5, IdleInv DEF TypeOK

LEMMA CrashInv ==
    ASSUME IInv, Watch, CrashAndRestart
    PROVE  IInv'
<1>1. TypeOK /\ OneOwner /\ Owners' = Owners /\ boot' = "demoting"
  BY DEF IInv, CrashAndRestart, Owners
<1>2. RowType /\ OneOwner'
  BY <1>1 DEF RowType, OneOwner, CrashAndRestart, TypeOK
<1>3. failures' \in 0..MaxFailures
  BY <1>1, ConstantFacts DEF CrashAndRestart, TypeOK
<1>4. "idle" \in Pcs /\ Blank \in Calls
  BY ConstantFacts DEF Pcs
<1>5. /\ pc' \in [Handlers -> Pcs] /\ call' \in [Handlers -> Calls]
      /\ \A h \in Handlers : pc'[h] = "idle" /\ call'[h] = Blank
  BY <1>4 DEF CrashAndRestart
<1>6. QED
  BY <1>2, <1>3, <1>5, IdleInv DEF CrashAndRestart

\* Which handler acts, when it is one.
LEMMA StepCases ==
    ASSUME IInv, Step
    PROVE  \/ BootDemote \/ BootPromote \/ BootFails
           \/ CrashAndRestart
           \/ \E h \in Handlers : Kept(h) /\ Vetted(h)
BY ReceiveStep, AuthorizeStep, LeaveStep, AskStep, ExecuteStep, ThrowStep DEF Step

LEMMA InitInv == Init => IInv
<1> SUFFICES ASSUME Init PROVE IInv
  OBVIOUS
<1>1. "idle" \in Pcs /\ Blank \in Calls
  BY ConstantFacts DEF Pcs
<1>2. /\ pc \in [Handlers -> Pcs] /\ call \in [Handlers -> Calls]
      /\ \A h \in Handlers : pc[h] = "idle" /\ call[h] = Blank
  BY <1>1 DEF Init
<1>3. \A h \in Handlers : Fits(h)
  BY <1>2 DEF Fits, ConfirmPcs
<1>4. asked \in Seq(Requests) /\ Len(asked) <= MaxAsks /\ failures \in 0..MaxFailures
  BY ConstantFacts DEF Init
<1>5. TypeOK
  BY <1>2, <1>3, <1>4 DEF TypeOK, Init
<1>6. OneOwner /\ WritesAreVetted
  BY <1>2 DEF OneOwner, WritesAreVetted, Init, ConfirmPcs
<1>7. QED
  BY <1>5, <1>6 DEF IInv

LEMMA NextInv == IInv /\ [Next]_vars => IInv'
<1> SUFFICES ASSUME IInv, [Next]_vars PROVE IInv'
  OBVIOUS
<1>1. CASE Next
  BY <1>1, StepCases, BootInv, CrashInv, HandlerInv DEF Next
<1>2. CASE UNCHANGED vars
  BY <1>2 DEF vars, IInv, TypeOK, OneOwner, WritesAreVetted, Fits, Owners, Actor, Change,
              MayManageUsers, Refused, ConfirmPcs
<1>3. QED
  BY <1>1, <1>2

THEOREM Invariance == Spec => []IInv
BY InitInv, NextInv, PTL DEF Spec

\* Variables have their types; a handler is where its locals fit (every handler).
THEOREM TypeCorrect == Spec => []TypeOK
<1>1. IInv => TypeOK
  BY DEF IInv
<1>2. QED
  BY <1>1, Invariance, PTL

\* Whatever owners earlier processes had, and wherever ensureOwnerUser was cut short, one
\* account at most is the owner's, and after the first half of the start-up it is the one
\* the environment names.
THEOREM OneOwnerAlways == Spec => []OneOwner
<1>1. IInv => OneOwner
  BY DEF IInv
<1>2. QED
  BY <1>1, Invariance, PTL

-----------------------------------------------------------------------------
(* The book.                                                                 *)

BookStep ==
    Book!Next \/ (\E h \in Handlers : LostUpdate(h)) \/ UNCHANGED <<row, ownerId>>

LEMMA DemoteIsDethrone ==
    ASSUME DemoteOthers, UNCHANGED ownerId
    PROVE  Book!Next
<1>1. Book!Dethrone
  BY DEF DemoteOthers, Owners, Book!Dethrone, Book!Owners
<1>2. QED
  BY <1>1 DEF Book!Next

LEMMA InstallIsCrown ==
    ASSUME InstallOwner, UNCHANGED ownerId, Owners \subseteq {ownerId}
    PROVE  Book!Next
<1>1. Book!Crown
  BY DEF InstallOwner, Owners, Account, Book!Crown, Book!Owners, Book!Account
<1>2. QED
  BY <1>1 DEF Book!Next

\* A write that is not a lost update is one the book allows.
LEMMA WriteInBook ==
    ASSUME IInv, NEW h \in Handlers, pc[h] = "writing", Effect(h), UNCHANGED ownerId, ~Stale(h)
    PROVE  Book!Next
<1> DEFINE i == Change(h).target
<1>1. /\ Fits(h) /\ i \in Ids /\ TypeOK
      /\ Change(h).op = "status" => Change(h).value \in {"ACTIVE", "DISABLED"}
      /\ Change(h).op # "status" => Change(h).value \in AssignedRoles
  BY RequestFacts DEF IInv, TypeOK, ConfirmPcs
<1>2. row[i] = call[h].read /\ ~Refused(row[i], Change(h))
  BY DEF Stale, Aim, IInv, WritesAreVetted
<1>3. row[i] # None /\ row' = [row EXCEPT ![i] = Written(@, Change(h))]
  BY <1>1, <1>2 DEF Fits, Effect
<1>4. CASE Change(h).op = "status"
  <2>1. row[i].role = "OWNER" => Change(h).value = "ACTIVE"
    BY <1>2, <1>4 DEF Refused
  <2>2. row' = [row EXCEPT ![i].status = Change(h).value]
    BY <1>3, <1>4 DEF Written
  <2>3. Book!SetStatus(i, Change(h).value)
    BY <1>3, <2>1, <2>2 DEF Book!SetStatus
  <2>4. QED
    BY <1>1, <1>4, <2>3 DEF Book!Next
<1>5. CASE Change(h).op # "status"
  <2>1. row[i].role # "OWNER"
    BY <1>2, <1>5 DEF Refused
  <2>2. row' = [row EXCEPT ![i].role = Change(h).value]
    BY <1>3, <1>5 DEF Written
  <2>3. Book!SetRole(i, Change(h).value) /\ Change(h).value \in ManagedRoles
    BY <1>1, <1>3, <1>5, <2>1, <2>2, ConstantFacts DEF Book!SetRole
  <2>4. QED
    BY <1>1, <2>3 DEF Book!Next, Book!ManagedRoles, ManagedRoles, Book!Roles, Roles
<1>6. QED
  BY <1>4, <1>5

LEMMA EffectInBook ==
    ASSUME IInv, NEW h \in Handlers, pc[h] # "idle", Effect(h), UNCHANGED ownerId,
           pc'[h] # pc[h]
    PROVE  BookStep
<1>0. /\ TypeOK /\ Fits(h) /\ Actor(h) \in Ids /\ Owners \subseteq {ownerId}
  BY AtWork
<1>1. CASE pc[h] = "received" /\ Actor(h) = ownerId
  BY <1>1, DemoteIsDethrone DEF Effect, BookStep
<1>2. CASE pc[h] = "promoting"
  BY <1>0, <1>2, InstallIsCrown DEF Effect, BookStep
<1>3. CASE pc[h] = "registering"
  <2>1. row' = [row EXCEPT ![Actor(h)] = Account("VIEWER", "PENDING")] /\ call[h].read = None
    BY <1>0, <1>3 DEF Effect, Fits
  <2>2. CASE row[Actor(h)] = None
    <3>1. Book!Register(Actor(h))
      BY <1>0, <1>3, <2>1, <2>2 DEF Fits, Account, Book!Register, Book!Account
    <3>2. QED
      BY <1>0, <3>1 DEF BookStep, Book!Next
  <2>3. CASE row[Actor(h)] # None
    <3>1. Stale(h) /\ Aim(h) = Actor(h)
      BY <1>3, <2>1, <2>3 DEF Stale, Aim
    <3>2. \A i \in Ids \ {Aim(h)} : row'[i] = row[i]
      BY <1>0, <2>1, <3>1 DEF TypeOK
    <3>3. QED
      BY <3>1, <3>2 DEF LostUpdate, BookStep
  <2>4. QED
    BY <2>2, <2>3
<1>4. CASE pc[h] = "writing"
  <2>1. CASE Stale(h)
    <3>1. row' = [row EXCEPT ![Aim(h)] = Written(@, Change(h))]
      BY <1>4 DEF Effect, Aim
    <3>2. \A i \in Ids \ {Aim(h)} : row'[i] = row[i]
      BY <1>0, <3>1 DEF TypeOK
    <3>3. QED
      BY <2>1, <3>2 DEF LostUpdate, BookStep
  <2>2. CASE ~Stale(h)
    BY <1>4, <2>2, WriteInBook DEF BookStep
  <2>3. QED
    BY <2>1, <2>2
<1>5. CASE pc[h] = "creating"
  <2>1. /\ Change(h).target \in Ids /\ Change(h).op = "create"
        /\ Change(h).op # "status" => Change(h).value \in AssignedRoles
    BY <1>0, <1>5, RequestFacts DEF Fits, ConfirmPcs
  <2>2. row' = [row EXCEPT ![Change(h).target] = Account(Change(h).value, "ACTIVE")]
    BY <1>5 DEF Effect
  <2>3. Change(h).value \in ManagedRoles /\ Book!Provision(Change(h).target, Change(h).value)
    BY <2>1, <2>2, ConstantFacts DEF Account, Book!Provision, Book!Account
  <2>4. QED
    BY <2>1, <2>3 DEF BookStep, Book!Next, Book!ManagedRoles, ManagedRoles, Book!Roles, Roles
<1>6. CASE /\ ~(pc[h] = "received" /\ Actor(h) = ownerId)
           /\ pc[h] \notin {"promoting", "registering", "writing", "creating"}
  BY <1>6 DEF Effect, BookStep
<1>7. QED
  BY <1>1, <1>2, <1>3, <1>4, <1>5, <1>6

LEMMA NextInBook ==
    ASSUME IInv, Next
    PROVE  BookStep
<1>0. TypeOK
  BY DEF IInv
<1>1. CASE BootDemote \/ BootPromote \/ BootFails
  <2>1. boot = "promoting" => Owners \subseteq {ownerId}
    BY DEF IInv, OneOwner
  <2>2. QED
    BY <1>1, <2>1, DemoteIsDethrone, InstallIsCrown
       DEF BootDemote, BootPromote, BootFails, BookStep
<1>2. CASE CrashAndRestart
  BY <1>2 DEF CrashAndRestart, BookStep, Book!Next, Book!Appoint
<1>3. ASSUME NEW h \in Handlers, UNCHANGED <<row, ownerId>>
      PROVE  BookStep
  BY <1>3 DEF BookStep
<1>4. ASSUME NEW h \in Handlers, NEW to, NEW c, Goto(h, to, c), to # pc[h], pc[h] # "idle",
             UNCHANGED ownerId, Effect(h)
      PROVE  BookStep
  <2>1. pc'[h] # pc[h]
    BY <1>0, <1>4 DEF Goto, TypeOK
  <2>2. QED
    BY <1>4, <2>1, EffectInBook
<1>5. ASSUME NEW h \in Handlers, Authorize(h)
      PROVE  BookStep
  BY <1>3, <1>4, <1>5 DEF Authorize, DemoteOtherOwners, Promote, FindUser, RegisterPending,
                          TouchProfile, Finish
<1>6. ASSUME NEW h \in Handlers, Execute(h)
      PROVE  BookStep
  <2>1. CASE MarkConfirmed(h)
    BY <1>4, <2>1 DEF MarkConfirmed
  <2>2. CASE WriteTarget(h) \/ CreateManagedUser(h)
    BY <1>4, <2>2 DEF WriteTarget, CreateManagedUser, Finish
  <2>3. CASE ReadTarget(h) \/ \E t \in DOMAIN asked : Confirm(h, t)
    BY <1>3, <2>3 DEF ReadTarget, Confirm
  <2>4. QED
    BY <1>6, <2>1, <2>2, <2>3 DEF Execute
<1>7. ASSUME NEW h \in Handlers, Throw(h)
      PROVE  BookStep
  BY <1>3, <1>4, <1>7 DEF Throw, Finish
<1>8. ASSUME NEW h \in Handlers, Ask(h) \/ Leave(h) \/ \E i \in Ids : Receive(h, i)
      PROVE  BookStep
  BY <1>3, <1>8 DEF Ask, AskStatus, AskRole, Insert, Leave, Receive
<1>9. QED
  BY <1>1, <1>2, <1>5, <1>6, <1>7, <1>8 DEF Next, Step

\* Overlapping handlers, failing calls and restarts bend the rules of the account table in
\* one way only: a write to one row that changed after it was read.
THEOREM BookIsFollowed == Spec => FollowsBook
<1>1. ASSUME IInv, [Next]_vars
      PROVE  [Book!Next \/ \E h \in Handlers : LostUpdate(h)]_<<row, ownerId>>
  <2>1. CASE Next
    BY <1>1, <2>1, NextInBook DEF BookStep
  <2>2. CASE UNCHANGED vars
    BY <2>2 DEF vars
  <2>3. QED
    BY <1>1, <2>1, <2>2
<1>2. QED
  BY <1>1, Invariance, PTL DEF Spec, FollowsBook

\* A token or keyboard kept from before a demotion changes no account: whoever changes one
\* had a managing role at some moment since its update arrived.
THEOREM ManagersOnly == Spec => OnlyManagersChangeAccounts
<1> DEFINE ByManagers ==
        \A h \in Handlers :
          pc[h] \in {"writing", "creating"} /\ pc'[h] # pc[h] /\ row' # row => h \in managed
<1>1. IInv => ByManagers
  BY DEF IInv, WritesAreVetted, ConfirmPcs
<1>2. QED
  BY <1>1, Invariance, PTL DEF Spec, OnlyManagersChangeAccounts

-----------------------------------------------------------------------------
(* One update at a time.                                                     *)

LEMMA OneHandlerNeverStale ==
    ASSUME NEW only, Handlers = {only}, IInv, NothingStale, [Next]_vars
    PROVE  NothingStale'
<1>0. /\ TypeOK /\ only \in Handlers /\ ~Stale(only) /\ Fits(only)
  BY DEF IInv, TypeOK, NothingStale
<1> SUFFICES ASSUME pc'[only] \in {"registering", "writing"} PROVE row'[Aim(only)'] = call'[only].read
  BY DEF NothingStale, Stale
<1>1. CASE UNCHANGED vars
  BY <1>0, <1>1 DEF vars, Stale, Aim, Actor, Change
<1>2. CASE BootDemote \/ BootPromote \/ BootFails \/ CrashAndRestart
  BY <1>0, <1>2 DEF BootDemote, BootPromote, BootFails, CrashAndRestart, TypeOK
<1>3. ASSUME NEW to, NEW c, Goto(only, to, c), to \notin {"registering", "writing"}
      PROVE  FALSE
  BY <1>0, <1>3 DEF Goto, TypeOK
<1>4. CASE FindUser(only)
  <2>1. row[Actor(only)] = None /\ Goto(only, "registering", call[only]) /\ UNCHANGED row
    BY <1>3, <1>4 DEF FindUser, Finish
  <2>2. pc'[only] = "registering" /\ call'[only] = call[only]
    BY <1>0, <2>1 DEF Goto, TypeOK
  <2>3. call[only].read = None
    BY <1>0, <1>4 DEF FindUser, Fits
  <2>4. QED
    BY <2>1, <2>2, <2>3 DEF Aim, Actor
<1>5. CASE ReadTarget(only)
  <2> DEFINE c == [call[only] EXCEPT !.read = row[Change(only).target]]
  <2>1. Goto(only, "writing", c) /\ UNCHANGED <<row, asked>>
    BY <1>3, <1>5 DEF ReadTarget, Finish
  <2>2. call[only] \in Calls
    BY <1>0 DEF TypeOK
  <2>3. c.read = row[Change(only).target] /\ c.request = call[only].request
    BY <2>2 DEF Calls
  <2> HIDE DEF c
  <2>4. pc'[only] = "writing" /\ call'[only] = c
    BY <1>0, <2>1 DEF Goto, TypeOK
  <2>5. QED
    BY <2>1, <2>3, <2>4 DEF Aim, Change
<1>6. CASE Step /\ ~FindUser(only) /\ ~ReadTarget(only)
  <2>1. CASE Authorize(only)
    BY <1>3, <1>6, <2>1 DEF Authorize, DemoteOtherOwners, Promote, RegisterPending,
                            TouchProfile, Finish
  <2>2. CASE \E t \in DOMAIN asked : Confirm(only, t)
    BY <1>3, <2>2 DEF Confirm
  <2>3. CASE MarkConfirmed(only)
    <3> DEFINE to == IF Change(only).op = "create" THEN "creating" ELSE "reading"
    <3>1. to \notin {"registering", "writing"} /\ Goto(only, to, call[only])
      BY <2>3 DEF MarkConfirmed
    <3>2. QED
      BY <1>3, <3>1
  <2>4. CASE WriteTarget(only) \/ CreateManagedUser(only) \/ Throw(only) \/ Leave(only) \/ Ask(only)
    BY <1>3, <2>4 DEF WriteTarget, CreateManagedUser, Throw, Leave, Ask, AskStatus, AskRole,
                      Insert, Finish
  <2>5. CASE \E i \in Ids : Receive(only, i)
    BY <1>3, <2>5 DEF Receive
  <2>6. QED
    BY <1>2, <1>6, <2>1, <2>2, <2>3, <2>4, <2>5 DEF Step, Execute
<1>7. QED
  BY <1>1, <1>4, <1>5, <1>6 DEF Next

\* While updates are handled one at a time the account table follows its book: AccountBook
\* is implemented, whatever fails and however often the bot is restarted.
THEOREM OneHandlerImplementsBook ==
    ASSUME NEW only, Handlers = {only}
    PROVE  Spec => ImplementsBook
<1>1. Init => NothingStale
  BY DEF Init, NothingStale, Stale
<1>2. IInv /\ NothingStale /\ [Next]_vars => NothingStale'
  BY OneHandlerNeverStale
<1>3. Spec => [](IInv /\ NothingStale)
  BY <1>1, <1>2, Invariance, PTL DEF Spec
<1>4. Init => Book!Init
  BY DEF Init, Book!Init, Owners, Book!Owners, Accounts, Book!Accounts, Statuses,
         Book!Statuses, Roles, Book!Roles
<1>5. ASSUME IInv, NothingStale, [Next]_vars
      PROVE  [Book!Next]_(Book!vars)
  <2>1. CASE Next
    <3>1. \A h \in Handlers : ~LostUpdate(h)
      BY <1>5 DEF NothingStale, LostUpdate
    <3>2. QED
      BY <1>5, <2>1, <3>1, NextInBook DEF BookStep, Book!vars
  <2>2. CASE UNCHANGED vars
    BY <2>2 DEF vars, Book!vars
  <2>3. QED
    BY <1>5, <2>1, <2>2
<1>6. QED
  BY <1>3, <1>4, <1>5, PTL DEF Spec, ImplementsBook, Book!Spec

-----------------------------------------------------------------------------
(* What the confirmation flow takes for granted of the accounts.             *)

RowKnown ==
    \/ row' = row
    \/ \E i \in Ids :
          /\ row'[i] \in Administrated(row[i], AssignedRoles) \/ OwnerChange(i)
          /\ \A j \in Ids \ {i} : row'[j] = row[j]

\* One owner of the past at most is there to be demoted.
LEMMA DemoteIsKnown ==
    ASSUME IInv, DemoteOthers
    PROVE  RowKnown
<1>1. TypeOK /\ \A i, j \in Owners : i = j
  BY DEF IInv, OneOwner
<1>2. CASE Owners \ {ownerId} = {}
  <2>1. row \in [Ids -> Accounts \cup {None}] /\ row' = [i \in Ids |-> row[i]]
    BY <1>1, <1>2 DEF DemoteOthers, TypeOK
  <2>2. QED
    BY <2>1 DEF RowKnown
<1>3. ASSUME NEW i \in Owners \ {ownerId} PROVE RowKnown
  <2>1. i \in Ids /\ i # ownerId /\ row[i].role = "OWNER"
    BY <1>3 DEF Owners
  <2>2. row'[i] = [row[i] EXCEPT !.role = "ADMIN"]
    BY <1>3, <2>1 DEF DemoteOthers
  <2>3. \A j \in Ids \ {i} : row'[j] = row[j]
    BY <1>1, <1>3 DEF DemoteOthers
  <2>4. QED
    BY <2>1, <2>2, <2>3 DEF RowKnown, OwnerChange
<1>4. QED
  BY <1>2, <1>3

LEMMA InstallIsKnown ==
    ASSUME TypeOK, InstallOwner
    PROVE  RowKnown
<1>1. ownerId \in Ids /\ row'[ownerId] = Account("OWNER", "ACTIVE")
      /\ \A j \in Ids \ {ownerId} : row'[j] = row[j]
  BY DEF InstallOwner, TypeOK
<1>2. QED
  BY <1>1 DEF RowKnown, OwnerChange

\* Whatever the row has become since it was read, one field of it is written, or all of it.
LEMMA EffectIsKnown ==
    ASSUME IInv, AllKnown, NEW h \in Handlers, pc[h] # "idle", Effect(h)
    PROVE  RowKnown
<1>0. TypeOK /\ Fits(h)
  BY AtWork
<1>1. CASE pc[h] = "received" /\ Actor(h) = ownerId
  BY <1>1, DemoteIsKnown DEF Effect
<1>2. CASE pc[h] = "promoting"
  BY <1>0, <1>2, InstallIsKnown DEF Effect
<1>3. CASE pc[h] = "registering"
  BY <1>3 DEF AllKnown
<1>4. CASE pc[h] \in {"writing", "creating"}
  <2> DEFINE i == Change(h).target
             v == Change(h).value
             to == IF pc[h] = "writing" THEN Written(row[i], Change(h)) ELSE Account(v, "ACTIVE")
  <2>1. /\ i \in Ids
        /\ pc[h] = "writing" => Change(h).op # "create"
        /\ pc[h] = "creating" => Change(h).op = "create"
        /\ Change(h).op = "status" => v \in {"ACTIVE", "DISABLED"}
        /\ Change(h).op # "status" => v \in AssignedRoles
    BY <1>0, <1>4, RequestFacts DEF Fits, ConfirmPcs
  <2>2. row' = [row EXCEPT ![i] = to]
    BY <1>4 DEF Effect
  <2>3. to \in Administrated(row[i], AssignedRoles)
    <3>1. CASE pc[h] = "writing" /\ Change(h).op = "status"
      BY <2>1, <3>1 DEF Written, Administrated
    <3>2. CASE pc[h] = "writing" /\ Change(h).op # "status"
      BY <2>1, <3>2 DEF Written, Administrated
    <3>3. CASE pc[h] = "creating"
      BY <2>1, <3>3 DEF Account, Administrated
    <3>4. QED
      BY <1>4, <3>1, <3>2, <3>3
  <2> HIDE DEF i, to
  <2>4. row'[i] = to /\ \A j \in Ids \ {i} : row'[j] = row[j]
    BY <1>0, <2>1, <2>2 DEF TypeOK
  <2>5. QED
    BY <2>1, <2>3, <2>4 DEF RowKnown
<1>5. CASE /\ ~(pc[h] = "received" /\ Actor(h) = ownerId)
           /\ pc[h] \notin {"promoting", "registering", "writing", "creating"}
  BY <1>5 DEF Effect, RowKnown
<1>6. QED
  BY <1>1, <1>2, <1>3, <1>4, <1>5

\* Known accounts stay known.
LEMMA KnownRowStays ==
    ASSUME IInv, IInv', AllKnown, RowKnown
    PROVE  \A i \in Ids : row'[i] # None /\ row'[i].status # "PENDING"
<1>1. \A j \in Ids : row[j] \in Accounts /\ row[j].status # "PENDING"
  BY DEF AllKnown, IInv, TypeOK
<1>2. CASE row' = row
  BY <1>2 DEF AllKnown
<1>3. ASSUME NEW i \in Ids,
             row'[i] \in Administrated(row[i], AssignedRoles) \/ OwnerChange(i),
             \A j \in Ids \ {i} : row'[j] = row[j]
      PROVE  \A j \in Ids : row'[j] # None /\ row'[j].status # "PENDING"
  <2>1. row'[i] \in Accounts /\ row'[i].status # "PENDING"
    <3>1. PICK a \in Accounts : a = row[i] /\ a.status # "PENDING"
      BY <1>1
    <3>2. PICK b : b = row'[i]
      OBVIOUS
    <3>3. \A r \in Roles, s \in {"ACTIVE", "DISABLED"} :
             /\ [role |-> r, status |-> s] \in Accounts /\ [role |-> r, status |-> s].status = s
             /\ [a EXCEPT !.status = s] \in Accounts /\ [a EXCEPT !.status = s].status = s
             /\ [a EXCEPT !.role = r] \in Accounts /\ [a EXCEPT !.role = r].status = a.status
      BY <3>1 DEF Accounts, Statuses
    <3>4. AssignedRoles \subseteq Roles /\ "ADMIN" \in Roles /\ "OWNER" \in Roles
      BY ConstantFacts DEF Roles
    <3>5. CASE b \in Administrated(a, AssignedRoles)
      <4>1. \/ \E s \in {"ACTIVE", "DISABLED"} : b = [a EXCEPT !.status = s]
            \/ \E r \in AssignedRoles : b = [a EXCEPT !.role = r]
            \/ \E r \in AssignedRoles : b = [role |-> r, status |-> "ACTIVE"]
        BY <3>5 DEF Administrated
      <4>2. ASSUME NEW s \in {"ACTIVE", "DISABLED"}, b = [a EXCEPT !.status = s]
            PROVE  b \in Accounts /\ b.status # "PENDING"
        <5>1. s # "PENDING"
          OBVIOUS
        <5>2. QED
          BY <3>3, <3>4, <4>2, <5>1
      <4>3. ASSUME NEW r \in AssignedRoles, b = [a EXCEPT !.role = r]
            PROVE  b \in Accounts /\ b.status # "PENDING"
        BY <3>1, <3>3, <3>4, <4>3
      <4>4. ASSUME NEW r \in AssignedRoles, b = [role |-> r, status |-> "ACTIVE"]
            PROVE  b \in Accounts /\ b.status # "PENDING"
        BY <3>3, <3>4, <4>4
      <4>5. b \in Accounts /\ b.status # "PENDING"
        BY <4>1, <4>2, <4>3, <4>4
      <4>6. QED
        BY <3>2, <4>5
    <3>6. CASE OwnerChange(i)
      <4>1. \/ b = [role |-> "OWNER", status |-> "ACTIVE"]
            \/ b = [a EXCEPT !.role = "ADMIN"]
        BY <3>1, <3>2, <3>6 DEF OwnerChange, Account
      <4>2. b \in Accounts /\ b.status # "PENDING"
        BY <3>1, <3>3, <3>4, <4>1
      <4>3. QED
        BY <3>2, <4>2
    <3>7. QED
      BY <1>3, <3>1, <3>2, <3>5, <3>6
  <2>2. QED
    BY <1>1, <1>3, <2>1, ConstantFacts
<1>4. QED
  BY <1>2, <1>3 DEF RowKnown

\* Whom the lookup finds is not registered.
LEMMA NobodyRegisters ==
    ASSUME IInv, AllKnown, Next
    PROVE  RowKnown /\ \A h \in Handlers : pc'[h] # "registering"
<1>0. TypeOK /\ \A h \in Handlers : pc[h] # "registering"
  BY DEF IInv, AllKnown
<1>1. CASE BootDemote \/ BootPromote \/ BootFails \/ CrashAndRestart
  BY <1>0, <1>1, DemoteIsKnown, InstallIsKnown
     DEF BootDemote, BootPromote, BootFails, CrashAndRestart, RowKnown
<1>2. ASSUME NEW h \in Handlers, NEW to, NEW c, Goto(h, to, c), to # "registering"
      PROVE  \A g \in Handlers : pc'[g] # "registering"
  BY <1>0, <1>2 DEF Goto, TypeOK
<1>3. ASSUME NEW h \in Handlers, pc[h] # "idle", UNCHANGED row \/ Effect(h) PROVE RowKnown
  BY <1>3, EffectIsKnown DEF RowKnown
<1>4. ASSUME NEW h \in Handlers, FindUser(h)
      PROVE  RowKnown /\ \A g \in Handlers : pc'[g] # "registering"
  <2>1. Actor(h) \in Ids /\ row[Actor(h)] # None
    BY <1>4, AtWork DEF FindUser, AllKnown
  <2>2. UNCHANGED row /\ (Goto(h, "touching", call[h]) \/ Goto(h, "idle", Blank))
    BY <1>4, <2>1 DEF FindUser, Finish
  <2>3. QED
    BY <1>2, <2>2 DEF RowKnown
<1>5. ASSUME NEW h \in Handlers, Authorize(h), ~FindUser(h)
      PROVE  RowKnown /\ \A g \in Handlers : pc'[g] # "registering"
  BY <1>2, <1>3, <1>5
     DEF Authorize, DemoteOtherOwners, Promote, RegisterPending, TouchProfile, Finish
<1>6. ASSUME NEW h \in Handlers, Execute(h)
      PROVE  RowKnown /\ \A g \in Handlers : pc'[g] # "registering"
  <2>1. CASE MarkConfirmed(h)
    <3> DEFINE to == IF Change(h).op = "create" THEN "creating" ELSE "reading"
    <3>1. to # "registering" /\ Goto(h, to, call[h]) /\ pc[h] # "idle" /\ Effect(h)
      BY <2>1 DEF MarkConfirmed
    <3> HIDE DEF to
    <3>2. QED
      BY <1>2, <1>3, <3>1
  <2>2. CASE WriteTarget(h) \/ CreateManagedUser(h)
    BY <1>2, <1>3, <2>2 DEF WriteTarget, CreateManagedUser, Finish
  <2>3. CASE ReadTarget(h)
    <3>1. /\ UNCHANGED row
          /\ \/ Goto(h, "idle", Blank)
             \/ \E c : Goto(h, "writing", c)
      BY <2>3 DEF ReadTarget, Finish
    <3>2. QED
      BY <1>2, <3>1 DEF RowKnown
  <2>4. CASE \E t \in DOMAIN asked : Confirm(h, t)
    <3>1. UNCHANGED row /\ \E c : Goto(h, "confirming", c)
      BY <2>4 DEF Confirm
    <3>2. QED
      BY <1>2, <3>1 DEF RowKnown
  <2>5. QED
    BY <1>6, <2>1, <2>2, <2>3, <2>4 DEF Execute
<1>7. ASSUME NEW h \in Handlers, Throw(h) \/ Leave(h) \/ Ask(h)
      PROVE  RowKnown /\ \A g \in Handlers : pc'[g] # "registering"
  <2>1. Finish(h)
    BY <1>7 DEF Throw, Leave, Ask, AskStatus, AskRole, Insert
  <2>2. pc[h] # "idle" /\ (UNCHANGED row \/ Effect(h))
    BY <1>7 DEF Throw, Leave, Ask, AskStatus, AskRole, Insert
  <2>3. QED
    BY <1>2, <1>3, <2>1, <2>2 DEF Finish
<1>8. ASSUME NEW h \in Handlers, NEW i \in Ids, Receive(h, i)
      PROVE  RowKnown /\ \A g \in Handlers : pc'[g] # "registering"
  BY <1>2, <1>8 DEF Receive, RowKnown
<1>9. QED
  BY <1>1, <1>4, <1>5, <1>6, <1>7, <1>8 DEF Next, Step

\* What ActionRequests takes for granted of the accounts behind it: once everyone has one
\* they are changed one at a time, as the request of an administrator asks or as the
\* owner's reinstatement does, however the handlers that change them overlap.
THEOREM AccountsAreAsAssumed == Spec => ChangesAreKnown
<1> DEFINE Known == AllKnown => AllKnown' /\ RowKnown
<1>1. IInv /\ IInv' /\ [Next]_vars => [Known]_vars
  <2> SUFFICES ASSUME IInv, IInv', Next, AllKnown PROVE AllKnown' /\ RowKnown
    OBVIOUS
  <2>1. RowKnown /\ \A h \in Handlers : pc'[h] # "registering"
    BY NobodyRegisters
  <2>2. QED
    BY <2>1, KnownRowStays DEF AllKnown
<1>2. Spec => [][Known]_vars
  BY <1>1, Invariance, PTL DEF Spec
<1>3. QED
  BY <1>2, PTL DEF ChangesAreKnown, RowKnown
===============================================================================
