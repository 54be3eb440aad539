------------------------------ MODULE AccountBook ------------------------------
(***************************************************************************)
(* What the account table of TeleOps promises: accounts register           *)
(* themselves once, everything else is the decision of an administrator,   *)
(* and the owner's row is beyond all of them but one, the creation of an   *)
(* account under the owner's own id.                                       *)
(***************************************************************************)
EXTENDS Rbac

CONSTANTS Ids, None

Statuses == {"ACTIVE", "DISABLED", "PENDING"}
Accounts == [role: Roles, status: Statuses]

VARIABLES row, ownerId

vars == <<row, ownerId>>

Account(r, s) == [role |-> r, status |-> s]
Owners == {i \in Ids : row[i] # None /\ row[i].role = "OWNER"}

Init ==
    /\ row \in [Ids -> Accounts \cup {None}]
    /\ \A i, j \in Owners : i = j
    /\ \A i \in Owners : row[i].status # "PENDING"
    /\ ownerId \in Ids

Register(i) ==
    /\ row[i] = None /\ i # ownerId
    /\ row' = [row EXCEPT ![i] = Account("VIEWER", "PENDING")]
    /\ UNCHANGED ownerId

SetStatus(i, s) ==
    /\ row[i] # None
    /\ row[i].role = "OWNER" => s = "ACTIVE"
    /\ row' = [row EXCEPT ![i].status = s]
    /\ UNCHANGED ownerId

SetRole(i, r) ==
    /\ row[i] # None /\ row[i].role # "OWNER"
    /\ row' = [row EXCEPT ![i].role = r]
    /\ UNCHANGED ownerId

Provision(i, r) ==
    /\ row' = [row EXCEPT ![i] = Account(r, "ACTIVE")]
    /\ UNCHANGED ownerId

\* An owner of the past goes on as an administrator; the present one is reinstated.
Dethrone ==
    /\ row' = [i \in Ids |-> IF i \in Owners \ {ownerId} THEN [row[i] EXCEPT !.role = "ADMIN"]
                               ELSE row[i]]
    /\ UNCHANGED ownerId

Crown ==
    /\ Owners \subseteq {ownerId}
    /\ row' = [row EXCEPT ![ownerId] = Account("OWNER", "ACTIVE")]
    /\ UNCHANGED ownerId

\* The bot is started with another owner in its environment.
Appoint ==
    /\ ownerId' \in Ids
    /\ UNCHANGED row

Next ==
    \/ \E i \in Ids :
          \/ Register(i)
          \/ \E s \in {"ACTIVE", "DISABLED"} : SetStatus(i, s)
          \/ \E r \in ManagedRoles : SetRole(i, r) \/ Provision(i, r)
    \/ Dethrone
    \/ Crown
    \/ Appoint

Spec == Init /\ [][Next]_vars
================================================================================
