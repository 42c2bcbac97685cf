------------------------ MODULE MCMultistageBarrier ------------------------
(***************************************************************************)
(* Model values for MultistageBarrier: the cfg files choose how many       *)
(* threads there are and how many of them are registered at the start.     *)
(***************************************************************************)
EXTENDS MultistageBarrier
=============================================================================
