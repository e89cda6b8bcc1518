-------------------------------- MODULE Beacons --------------------------------
(***************************************************************************)
(* What a station that does not forward promises on the air: CAMs, each    *)
(* followed by its own DENM before the next CAM, for ever.  gen is the     *)
(* parity of the CAM, which tells one message from the next.               *)
(***************************************************************************)
EXTENDS Naturals

VARIABLES air,    \* the last packet sent
          silent  \* no such station: it stays at its initial state

vars == <<air, silent>>

Init == air = [kind |-> "none", gen |-> 0] /\ silent \in BOOLEAN

SendCam == /\ air.kind \in {"none", "denm"}
           /\ air' = [kind |-> "cam", gen |-> 1 - air.gen]

SendDenm == /\ air.kind = "cam"
            /\ air' = [air EXCEPT !.kind = "denm"]

Next == ~silent /\ (SendCam \/ SendDenm) /\ UNCHANGED silent

Spec == Init /\ [][Next]_vars

FairSpec == Spec /\ WF_vars(Next)
===============================================================================
