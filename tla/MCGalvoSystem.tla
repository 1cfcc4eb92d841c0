---------------------------- MODULE MCGalvoSystem ----------------------------
(***************************************************************************)
(* A small instance of GalvoSystem: a one-bit sequence number, so that it  *)
(* wraps at once, and at most two frames under way.                        *)
(***************************************************************************)
EXTENDS GalvoSystem

=============================================================================
