---------------------------- MODULE MCPlcCollect ----------------------------
(* The block of the device and the diagnosis area come in different ranges. *)
EXTENDS PlcCollect

MCRangeOf(e) == e
=============================================================================
