--------------------------- MODULE TargetFollower ---------------------------
(***************************************************************************)
(* What the XY2-100 interpolator promises to the trajectory planner,       *)
(* without saying how: after a new goal the mirror position moves, tick    *)
(* by tick and never backwards or past the goal, so that the goal is       *)
(* reached within Frames ticks and then held.                              *)
(*                                                                         *)
(* GalvoXY2 implements this module (its module instantiates it with a      *)
(* refinement mapping).                                                    *)
(***************************************************************************)
EXTENDS Integers

CONSTANTS
  Axis,    (* the deflection axes                                          *)
  Origin,  (* the position and goal at power-up                            *)
  Goals,   (* the positions that can be commanded                          *)
  Frames   (* ticks a movement may take                                    *)

VARIABLES
  pos,     (* the position the mirrors are driven to                       *)
  goal,    (* the position last commanded                                  *)
  left     (* ticks until the goal has to be reached                       *)

vars == <<pos, goal, left>>

(* v lies on the way from a to b, whichever is greater. *)
Between(v, a, b) == (a <= v /\ v <= b) \/ (b <= v /\ v <= a)

Init ==
  /\ pos = Origin
  /\ goal = Origin
  /\ left = 0

(* A new movement starts from wherever the mirrors are now. *)
Retarget ==
  /\ goal' \in Goals
  /\ left' = Frames
  /\ pos' = pos

(* One tick: advance towards the goal, and be there when time is up. *)
Advance ==
  /\ left' = IF left > 0 THEN left - 1 ELSE 0
  /\ \A a \in Axis : Between(pos'[a], pos[a], goal[a])
  /\ left' = 0 => pos' = goal
  /\ goal' = goal

Next == Retarget \/ Advance

Spec == Init /\ [][Next]_vars

=============================================================================
