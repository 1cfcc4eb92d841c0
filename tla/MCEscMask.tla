------------------------------ MODULE MCEscMask ------------------------------
(***************************************************************************)
(* EscMask with a short LED period.                                        *)
(***************************************************************************)
EXTENDS EscMask

=============================================================================
