----------------------------- MODULE EventQueue -----------------------------
(***************************************************************************)
(* What the event logger promises to those who log, without threads, locks *)
(* or diagnostics: accepted events wait in order; they are handed over for *)
(* sending in order, all that wait at a time, and at once when there are   *)
(* Capacity of them; what was handed over is over in the end, delivered or *)
(* given up.  Module Logger is shown to implement it.                      *)
(***************************************************************************)
EXTENDS Integers, Sequences

CONSTANT Capacity

VARIABLES
    accepted,   \* number of events accepted
    waiting,    \* the events that wait, by their numbers
    handed      \* the batches handed over, each with whether it is over

queueVars == <<accepted, waiting, handed>>

Init ==
    /\ accepted = 0
    /\ waiting = <<>>
    /\ handed = <<>>

HandOver(evs) ==
    /\ waiting' = <<>>
    /\ handed' = Append(handed, [evs |-> evs, over |-> FALSE])

Accept ==
    LET evs == Append(waiting, accepted + 1) IN
    /\ accepted' = accepted + 1
    /\ IF Len(evs) >= Capacity
       THEN HandOver(evs)
       ELSE waiting' = evs /\ UNCHANGED handed

Flush ==
    /\ waiting # <<>>
    /\ HandOver(waiting)
    /\ UNCHANGED accepted

End(i) ==
    /\ ~handed[i].over
    /\ handed' = [handed EXCEPT ![i].over = TRUE]
    /\ UNCHANGED <<accepted, waiting>>

Next == Accept \/ Flush \/ \E i \in DOMAIN handed : End(i)

Spec == Init /\ [][Next]_queueVars
=============================================================================
