----------------------------- MODULE MCMailbox -----------------------------
(***************************************************************************)
(* Mailbox with a few buffers, requests, losses and stops.                 *)
(***************************************************************************)
EXTENDS Mailbox

=============================================================================
