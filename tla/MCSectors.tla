------------------------------ MODULE MCSectors ------------------------------
(***************************************************************************)
(* Sectors for TLC.  The values are small enough to stand in the cfg: two  *)
(* overtaking sectors, so that one flag can be taken for the other's, and  *)
(* speeds that are left alone or halved, told apart down to an eighth.     *)
(***************************************************************************)
EXTENDS Sectors
=============================================================================
