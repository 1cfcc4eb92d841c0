-------------------------- MODULE ResponseChannel --------------------------
(***************************************************************************)
(* What the slave's mailbox promises to a master that uses the mailbox     *)
(* data link layer, without saying how: the responses of a session reach   *)
(* the master in the order they were made, each exactly once and unchanged.*)
(* A session ends when the mailbox is stopped.                             *)
(*                                                                         *)
(* Mailbox implements this module.                                         *)
(***************************************************************************)
EXTENDS Integers

CONSTANT Contents     (* what a response can say                           *)

VARIABLES
  made,     (* responses made in this session                              *)
  got,      (* responses the master has accepted                           *)
  unread    (* the others, with their position in the session              *)

vars == <<made, got, unread>>

Start == made = 0 /\ got = 0 /\ unread = {}

Make ==
  \E c \in Contents :
    /\ made' = made + 1
    /\ unread' = unread \cup {[no |-> made + 1, is |-> c]}
    /\ UNCHANGED got

(* The master accepts the oldest response. *)
Deliver ==
  \E r \in unread :
    /\ r.no = got + 1
    /\ got' = r.no
    /\ unread' = unread \ {r}
    /\ UNCHANGED made

Stop == made' = 0 /\ got' = 0 /\ unread' = {}

Next == Make \/ Deliver \/ Stop

Spec == Start /\ [][Next]_vars

=============================================================================
