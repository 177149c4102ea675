----------------------------- MODULE MCVescDriver -----------------------------
(***************************************************************************)
(* Values for VescDriver: limits in order, of which those of the duty cycle *)
(* are not configured, and limits out of order and out of range; a command *)
(* inside and one outside of them; and a line with nothing on it when it   *)
(* is opened.                                                              *)
(***************************************************************************)
EXTENDS VescDriver

Between(lo, hi) == [min |-> lo, max |-> hi]

Car == [k \in CommandKinds |->
          CASE k = "duty_cycle" -> Between(0, 0)
            [] k = "servo"      -> Between(1, 2)
            [] OTHER            -> Between(-2, 2)]

Careless == [k \in CommandKinds |-> Between(3, -1)]

MCConfigs == {Car, Careless}

MCValues == {1, -3}
CleanLine == {<<>>}
=============================================================================
