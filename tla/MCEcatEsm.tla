------------------------------ MODULE MCEcatEsm ------------------------------
(***************************************************************************)
(* An instance of EcatEsm with both synchronisation types.  One code that  *)
(* names no state, with the bit of OP, stands for BOOT and for the others. *)
(***************************************************************************)
EXTENDS EcatEsm

AnySync == {"SM_SYNCHRON", "FREERUN"}
AnyTarget == State \cup {"UNKNOWN_OP"}

=============================================================================
