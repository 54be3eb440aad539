--------------------------- MODULE OneShotApproval ---------------------------
(***************************************************************************)
(* What a confirmation token promises: it is offered once, at most one     *)
(* confirmation takes it, a taken token is spent on at most one run of the *)
(* effect, and a token that is closed stays closed.                        *)
(***************************************************************************)
CONSTANT Tokens

VARIABLES
    phase,      \* phase[t]: where the token is in its life
    spent       \* the tokens whose effect has been run

Phases == {"unissued", "offered", "taken", "closed"}

Init ==
    /\ phase = [t \in Tokens |-> "unissued"]
    /\ spent = {}

Move(t, from, to) ==
    /\ phase[t] \in from
    /\ phase' = [phase EXCEPT ![t] = to]

Offer(t) == Move(t, {"unissued"}, "offered") /\ UNCHANGED spent
Take(t)  == Move(t, {"offered"}, "taken") /\ UNCHANGED spent
Drop(t)  == Move(t, {"offered", "taken"}, "closed") /\ UNCHANGED spent
Spend(t) ==
    /\ t \notin spent
    /\ Move(t, {"taken"}, "closed")
    /\ spent' = spent \cup {t}

Next == \E t \in Tokens : Offer(t) \/ Take(t) \/ Spend(t) \/ Drop(t)

Spec == Init /\ [][Next]_<<phase, spent>>
=============================================================================
