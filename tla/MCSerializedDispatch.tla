------------------------ MODULE MCSerializedDispatch ------------------------
(***************************************************************************)
(* An instance of SerializedDispatch for TLC.                              *)
(***************************************************************************)
EXTENDS SerializedDispatchProperties

CONSTANTS t1, t2, t3, k1, k2
=============================================================================
