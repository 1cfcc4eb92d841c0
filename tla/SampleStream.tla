----------------------------- MODULE SampleStream -----------------------------
(***************************************************************************)
(* What the trajectory master may rely on, whatever the bus and the slave  *)
(* lose: commands are numbered as they are sent; the galvo takes some of   *)
(* them, in the order they were sent and none twice; and what the slave    *)
(* confirms it has taken, always in an answer to a later command.          *)
(***************************************************************************)
EXTENDS Integers

VARIABLES
  sent,     (* number of the last command sent                             *)
  applied,  (* number of the last command the galvo took                   *)
  acked     (* number of the last command the master saw confirmed         *)

stream == <<sent, applied, acked>>

Init == sent = 0 /\ applied = 0 /\ acked = 0

Send == sent' = sent + 1 /\ UNCHANGED <<applied, acked>>

(* Commands may be skipped, but never taken again. *)
Apply ==
  /\ applied < sent
  /\ applied' \in applied + 1 .. sent
  /\ UNCHANGED <<sent, acked>>

(* A confirmation is older than the command it answers. *)
Confirm ==
  /\ acked' \in acked + 1 .. applied
  /\ acked' < sent
  /\ UNCHANGED <<sent, applied>>

(* A new master has seen nothing yet. *)
Forget == acked' = 0 /\ UNCHANGED <<sent, applied>>

Next == Send \/ Apply \/ Confirm \/ Forget

Spec == Init /\ [][Next]_stream

=============================================================================
