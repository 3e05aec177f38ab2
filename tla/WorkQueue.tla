------------------------------ MODULE WorkQueue ------------------------------
(***************************************************************************)
(* What a persistent queue of this repository promises its callers.        *)
(* Tickets are numbered in the order in which they are put; the oldest     *)
(* waiting ticket is taken first, a taken ticket is in nobody else's hand, *)
(* and once finished it never comes back.  A ticket that is taken may also *)
(* stay in hand for ever: nothing here promises that it is finished.       *)
(***************************************************************************)
EXTENDS Naturals

VARIABLES
    issued,     \* tickets 1..issued have been put
    waiting,    \* tickets that can be taken
    inHand      \* tickets that were taken and neither finished nor returned

vars == <<issued, waiting, inHand>>

Finished == (1 .. issued) \ (waiting \cup inHand)

Init ==
    /\ issued = 0
    /\ waiting = {}
    /\ inHand = {}

Put ==
    /\ issued' = issued + 1
    /\ waiting' = waiting \cup {issued + 1}
    /\ UNCHANGED inHand

Take(t) ==
    /\ t \in waiting
    /\ \A u \in waiting : t <= u
    /\ waiting' = waiting \ {t}
    /\ inHand' = inHand \cup {t}
    /\ UNCHANGED issued

Finish(t) ==
    /\ t \in inHand
    /\ inHand' = inHand \ {t}
    /\ UNCHANGED <<issued, waiting>>

GiveBack(t) ==
    /\ t \in inHand
    /\ inHand' = inHand \ {t}
    /\ waiting' = waiting \cup {t}
    /\ UNCHANGED issued

Next ==
    \/ Put
    \/ \E t \in waiting : Take(t)
    \/ \E t \in inHand : Finish(t) \/ GiveBack(t)

Spec == Init /\ [][Next]_vars
==============================================================================
