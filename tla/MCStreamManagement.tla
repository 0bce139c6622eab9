------------------------- MODULE MCStreamManagement -------------------------
(***************************************************************************)
(* Instances of StreamManagement for TLC.  The thresholds of the code, a   *)
(* queue longer than 5 whose length is a multiple of 4, are scaled down to *)
(* 1 and 2 so that a short queue meets them; the counters wrap at W = 3.   *)
(***************************************************************************)
EXTENDS StreamManagement
=============================================================================
