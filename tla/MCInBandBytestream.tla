------------------------- MODULE MCInBandBytestream -------------------------
(***************************************************************************)
(* Instances of InBandBytestream for TLC.  Sequence numbers wrap after two *)
(* blocks, and a transfer may take more.                                   *)
(***************************************************************************)
EXTENDS InBandBytestream
=============================================================================
