----------------------------- MODULE RelayChannel -----------------------------
(***************************************************************************)
(* What one direction of a proxy promises: a first-in first-out channel    *)
(* of numbered things that may lose what waits in it, and neither makes    *)
(* anything up, nor reorders, nor repeats, nor takes in later what was     *)
(* sent before.  Things are numbered as they are sent, so first in is      *)
(* least, and a set is enough to say what waits.                           *)
(***************************************************************************)
EXTENDS Naturals, Sequences

VARIABLES offered,    \* how many things the sender has sent
          waiting,    \* what was taken in and is neither delivered nor lost
          delivered   \* what came out, in order

channel == <<offered, waiting, delivered>>

Init == offered = 0 /\ waiting = {} /\ delivered = <<>>

\* More things are sent, and some of them taken in.
Offer ==
    /\ offered' > offered
    /\ waiting \subseteq waiting'
    /\ waiting' \ waiting \subseteq (offered + 1)..offered'
    /\ UNCHANGED delivered

\* The first leaves.
Deliver ==
    /\ \E first \in waiting :
          /\ \A x \in waiting : first <= x
          /\ delivered' = Append(delivered, first)
          /\ waiting' = waiting \ {first}
    /\ UNCHANGED offered

\* Some of them are lost.
Lose ==
    /\ waiting' \subseteq waiting
    /\ UNCHANGED <<offered, delivered>>

Next == Offer \/ Deliver \/ Lose

Spec == Init /\ [][Next]_channel

\* What was delivered came out once each and in the order it was sent in, and
\* what waits was sent after all of it.
InOrder ==
    /\ \A i, j \in DOMAIN delivered : i < j => delivered[i] < delivered[j]
    /\ \A i \in DOMAIN delivered, x \in waiting : delivered[i] < x
    /\ \A x \in waiting : x \in 1..offered
    /\ \A i \in DOMAIN delivered : delivered[i] \in 1..offered
===============================================================================
