-------------------------- MODULE OverlappingApproval --------------------------
(***************************************************************************)
(* What is left of a token's promise when updates overlap.  An open token  *)
(* clears every handler that finds it open; each of them runs the effect   *)
(* once at most, and not before the token has its answer.  An answered     *)
(* token stays answered and clears nobody any more: a token runs as often  *)
(* as handlers were cleared while it was open.                             *)
(***************************************************************************)
EXTENDS Naturals

CONSTANTS Tokens, Handlers

VARIABLES
    phase,      \* phase[t]: unissued, open or answered
    cleared,    \* cleared[t]: the handlers that may still run the effect
    runs        \* runs[t][h]: how often handler h ran it

Init ==
    /\ phase = [t \in Tokens |-> "unissued"]
    /\ cleared = [t \in Tokens |-> {}]
    /\ runs = [t \in Tokens |-> [h \in Handlers |-> 0]]

Offer(t) ==
    /\ phase[t] = "unissued"
    /\ phase' = [phase EXCEPT ![t] = "open"]
    /\ UNCHANGED <<cleared, runs>>

Clear(t, h) ==
    /\ phase[t] = "open"
    /\ runs[t][h] = 0
    /\ cleared' = [cleared EXCEPT ![t] = @ \cup {h}]
    /\ UNCHANGED <<phase, runs>>

Answer(t) ==
    /\ phase[t] = "open"
    /\ phase' = [phase EXCEPT ![t] = "answered"]
    /\ UNCHANGED <<cleared, runs>>

Run(t, h) ==
    /\ phase[t] = "answered" /\ h \in cleared[t]
    /\ runs' = [runs EXCEPT ![t][h] = @ + 1]
    /\ cleared' = [cleared EXCEPT ![t] = @ \ {h}]
    /\ UNCHANGED phase

\* The effect is refused, or the answer fails: it may have been stored.
GiveUp(t, h) ==
    /\ h \in cleared[t]
    /\ cleared' = [cleared EXCEPT ![t] = @ \ {h}]
    /\ phase' \in {phase, [phase EXCEPT ![t] = "answered"]}
    /\ UNCHANGED runs

\* The process dies.
Forget ==
    /\ cleared' = [t \in Tokens |-> {}]
    /\ UNCHANGED <<phase, runs>>

Next ==
    \/ \E t \in Tokens : Offer(t) \/ Answer(t)
    \/ \E t \in Tokens, h \in Handlers : Clear(t, h) \/ Run(t, h) \/ GiveUp(t, h)
    \/ Forget

Spec == Init /\ [][Next]_<<phase, cleared, runs>>
================================================================================
