----------------------------- MODULE BlockStream ------------------------------
(***************************************************************************)
(* What the block channel of Subscribe promises its receiver: numbers are  *)
(* delivered in order, a number that is passed over was given up before,   *)
(* and after the stream closes nothing more is delivered or given up.  A   *)
(* number may be delivered again, and delivery may restart below all       *)
(* numbers delivered so far, when a node that lags takes over.             *)
(***************************************************************************)
EXTENDS Integers

CONSTANT Blocks  \* block numbers

VARIABLES sent,   \* numbers put on the channel
          lost,   \* numbers given up
          open    \* the channel is open

streamVars == <<sent, lost, open>>

Init == sent = {} /\ lost = {} /\ open = TRUE

\* n is the next number, or the stream starts (again) below everything sent.
InTurn(n) == n - 1 \in sent \union lost \/ \A m \in sent : n < m

Deliver(n) ==
    /\ open /\ InTurn(n)
    /\ sent' = sent \union {n}
    /\ UNCHANGED <<lost, open>>

GiveUp(S) ==
    /\ open
    /\ S \intersect sent = {}
    /\ lost' = lost \union S
    /\ UNCHANGED <<sent, open>>

CloseStream ==
    /\ open /\ open' = FALSE
    /\ UNCHANGED <<sent, lost>>

Next == \/ \E n \in Blocks : Deliver(n)
        \/ \E S \in SUBSET Blocks : GiveUp(S)
        \/ CloseStream

Spec == Init /\ [][Next]_streamVars
===============================================================================
