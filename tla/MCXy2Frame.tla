----------------------------- MODULE MCXy2Frame -----------------------------
(***************************************************************************)
(* Xy2Frame with codes of three bits in frames of six.                     *)
(***************************************************************************)
EXTENDS Xy2Frame

=============================================================================
