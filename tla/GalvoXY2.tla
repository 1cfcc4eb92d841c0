------------------------------ MODULE GalvoXY2 ------------------------------
(***************************************************************************)
(* The slave's XY2-100 interpolator (Core/Src/galvo_xy2_100.c).            *)
(*                                                                         *)
(* Two contexts share the static GalvoState: GalvoXY2_SetTarget, called    *)
(* with each output PDO from PDI_Isr or (free run) from the main loop, and *)
(* GalvoXY2_TimerTick, called from the TIM7 interrupt 100 000 times per    *)
(* second.  In the main loop TIM7 can preempt SetTarget between its        *)
(* comparison and __disable_irq, so SetTarget is two actions.              *)
(***************************************************************************)
EXTENDS Integers

CONSTANTS
  INTERP_FRAMES,  (* XY2_INTERP_FRAMES: ticks per movement (10)            *)
  STALE_FRAMES,   (* XY2_STALE_FRAMES: ticks until a target is stale (500) *)
  MinCode,        (* the int16_t range of a mirror code                    *)
  MaxCode,
  Points,         (* the points the master commands                        *)
  Sequences,      (* the sequence numbers it gives them                    *)
  COUNTER_MOD,    (* frame_counter wraps here (2^16)                       *)
  NoCall,         (* no call of GalvoXY2_SetTarget is in progress          *)
  NoFrame         (* a tick that keeps SYNC low                            *)

Axis == {"x", "y"}
Code == MinCode .. MaxCode
Origin == [a \in Axis |-> 0]

(* GALVO_CONTROL_ENABLE and a control bit the slave ignores. *)
ControlBits == {"ENABLE", "OTHER"}
(* GALVO_STATUS_ENABLED and GALVO_STATUS_STALE. *)
StatusBits == {"ENABLED", "STALE"}

Command == [point : Points, sequence : Sequences, flags : SUBSET ControlBits]

ASSUME GalvoAssumptions ==
  /\ INTERP_FRAMES \in Nat \ {0}
  /\ STALE_FRAMES \in Nat
  /\ INTERP_FRAMES <= STALE_FRAMES
  /\ COUNTER_MOD \in Nat \ {0}
  /\ MinCode \in Int /\ MaxCode \in Int
  /\ MinCode <= 0 /\ 0 <= MaxCode
  /\ Points \subseteq [Axis -> Code]
  /\ Origin \in Points
  /\ 0 \in Sequences /\ Sequences \subseteq Nat
  /\ NoCall \notin Command
  /\ NoFrame \notin [Axis -> Code]

VARIABLES
  current,             (* current_x, current_y                             *)
  start,               (* start_x, start_y                                 *)
  target,              (* target_x, target_y                               *)
  sequence,            (* sequence of the target                           *)
  control_flags,       (* control bits of the target                       *)
  status,              (* status bits, rewritten by every tick             *)
  frame_counter,       (* ticks, modulo COUNTER_MOD                        *)
  frames_since_update, (* ticks since the target, up to STALE_FRAMES       *)
  interp_index,        (* interpolation steps already made                 *)
  call,                (* arguments of a SetTarget about to disable irqs   *)
  wire                 (* what the last tick put on the XY2-100 wire       *)

motion == <<current, start, target, interp_index>>
vars == <<current, start, target, sequence, control_flags, status,
          frame_counter, frames_since_update, interp_index, call, wire>>

-----------------------------------------------------------------------------
(* C integer division truncates towards zero. *)
Quotient(n, d) == IF n >= 0 THEN n \div d ELSE -((-n) \div d)

(* Faulty variant: one frame too few in the divisor. *)
InterpolateShort(s, t, step) == s + Quotient((t - s) * step, INTERP_FRAMES - 1)

(* The point reached after step of INTERP_FRAMES steps from s to t. *)
Interpolate(s, t, step) == s + Quotient((t - s) * step, INTERP_FRAMES)

(* The cast (int16_t) of an int32_t. *)
Int16(v) == MinCode + ((v - MinCode) % (MaxCode - MinCode + 1))

-----------------------------------------------------------------------------
Init ==
  /\ current = Origin
  /\ start = Origin
  /\ target = Origin
  /\ sequence = 0
  /\ control_flags = {}
  /\ status = {"STALE"}
  /\ frame_counter = 0
  /\ frames_since_update = STALE_FRAMES
  /\ interp_index = INTERP_FRAMES
  /\ call = NoCall
  /\ wire = NoFrame

(* Faulty variant: every output PDO counts as a new command. *)
IsNewAlways(c) == c \in Command

(* The comparison that decides whether a command is new. *)
IsNew(c) ==
  \/ c.sequence # sequence
  \/ \E a \in Axis : c.point[a] # Int16(target[a])
  \/ c.flags # control_flags

(* GalvoXY2_SetTarget up to __disable_irq; an old command returns at once. *)
SetTargetCompare(c) ==
  /\ call = NoCall
  /\ IsNew(c)
  /\ call' = c
  /\ UNCHANGED <<current, start, target, sequence, control_flags, status,
                 frame_counter, frames_since_update, interp_index, wire>>

(* Faulty variant: the new movement starts where the old one should end. *)
SetTargetStoreFromTarget ==
  /\ call # NoCall
  /\ start' = target /\ target' = call.point
  /\ sequence' = call.sequence /\ control_flags' = call.flags
  /\ frames_since_update' = 0 /\ interp_index' = 0
  /\ call' = NoCall
  /\ UNCHANGED <<current, status, frame_counter, wire>>

(* Faulty variant: the interpolation goes on where it was. *)
SetTargetStoreNoRestart ==
  /\ call # NoCall
  /\ start' = current /\ target' = call.point
  /\ sequence' = call.sequence /\ control_flags' = call.flags
  /\ frames_since_update' = 0
  /\ call' = NoCall
  /\ UNCHANGED <<interp_index, current, status, frame_counter, wire>>

(* GalvoXY2_SetTarget with interrupts disabled. *)
SetTargetStore ==
  /\ call # NoCall
  /\ start' = current
  /\ target' = call.point
  /\ sequence' = call.sequence
  /\ control_flags' = call.flags
  /\ frames_since_update' = 0
  /\ interp_index' = 0
  /\ call' = NoCall
  /\ UNCHANGED <<current, status, frame_counter, wire>>

(* Faulty variant: one interpolation step too many. *)
NextPointPastEnd ==
  [a \in Axis |-> IF interp_index <= INTERP_FRAMES
                  THEN Interpolate(start[a], target[a], interp_index + 1)
                  ELSE target[a]]

(* Where the tick drives the mirrors. *)
NextPoint ==
  [a \in Axis |-> IF interp_index < INTERP_FRAMES
                  THEN Interpolate(start[a], target[a], interp_index + 1)
                  ELSE target[a]]

(* Faulty variant: the STALE bit is never taken back. *)
NextStatusSticky ==
  (IF "ENABLE" \in control_flags THEN {"ENABLED"} ELSE {})
    \cup (IF frames_since_update < STALE_FRAMES THEN status \cap {"STALE"} ELSE {"STALE"})

(* The status the tick reports. *)
NextStatus ==
  (IF "ENABLE" \in control_flags THEN {"ENABLED"} ELSE {})
    \cup (IF frames_since_update < STALE_FRAMES THEN {} ELSE {"STALE"})

(* GalvoXY2_TimerTick, in the TIM7 interrupt. *)
TimerTick ==
  /\ current' = NextPoint
  /\ interp_index' = IF interp_index < INTERP_FRAMES
                     THEN interp_index + 1 ELSE interp_index
  /\ wire' = IF "ENABLE" \in control_flags
             THEN [a \in Axis |-> Int16(current'[a])] ELSE NoFrame
  /\ frames_since_update' = IF frames_since_update < STALE_FRAMES
                            THEN frames_since_update + 1
                            ELSE frames_since_update
  /\ status' = NextStatus
  /\ frame_counter' = (frame_counter + 1) % COUNTER_MOD
  /\ UNCHANGED <<start, target, sequence, control_flags, call>>

SetTarget == (\E c \in Command : SetTargetCompare(c)) \/ SetTargetStore

Next == SetTarget \/ TimerTick

(* TIM7 never stops, and a SetTarget that was preempted is resumed. *)
Spec == Init /\ [][Next]_vars /\ WF_vars(TimerTick) /\ WF_vars(SetTargetStore)

-----------------------------------------------------------------------------
(* Every variable keeps the range its C type and the code give it; the     *)
(* mirror positions stay int16_t codes although they are kept in int32_t.  *)
TypeOK ==
  /\ current \in [Axis -> Code]
  /\ start \in [Axis -> Code]
  /\ target \in Points
  /\ sequence \in Sequences
  /\ control_flags \in SUBSET ControlBits
  /\ status \in SUBSET StatusBits
  /\ frame_counter \in 0 .. COUNTER_MOD - 1
  /\ frames_since_update \in 0 .. STALE_FRAMES
  /\ interp_index \in 0 .. INTERP_FRAMES
  /\ call \in Command \cup {NoCall}
  /\ wire \in [Axis -> Code] \cup {NoFrame}

(* Whatever the interleaving of SetTarget and TIM7, the position driven is *)
(* the one the line from start to target has after interp_index steps: a   *)
(* target is never combined with the start of another movement.            *)
OnTrack ==
  \A a \in Axis : current[a] = Interpolate(start[a], target[a], interp_index)

(* The interpolation and the staleness counter run in lockstep from the    *)
(* same SetTarget, so a slave that has gone stale has finished its move.   *)
Lockstep ==
  interp_index = IF frames_since_update < INTERP_FRAMES
                 THEN frames_since_update ELSE INTERP_FRAMES

(* When the slave reports STALE the mirrors rest on the last target,       *)
(* unless a new target came in since the tick that wrote the status.       *)
StaleAtRest ==
  "STALE" \in status => current = target \/ frames_since_update = 0

(* The distance from one code to another, and the most one tick may cover  *)
(* of a movement: its share, rounded up.                                   *)
Distance(u, v) == IF u <= v THEN v - u ELSE u - v
Share(a) == (Distance(start[a], target[a]) + INTERP_FRAMES - 1) \div INTERP_FRAMES

SmallStep == \A a \in Axis : Distance(current[a], current'[a]) <= Share(a)

(* No tick moves a mirror by more than its share of the movement, rounded  *)
(* up: a new target in the middle of a movement does not make a jump.      *)
BoundedStep == [][SmallStep]_vars

(* Once the commands stop changing, the mirrors come to rest on the target *)
(* and the slave reports that it has no fresh data.                        *)
Settles ==
  <>[][FALSE]_<<target, sequence, control_flags>>
    => <>[](current = target /\ "STALE" \in status)

(* The interpolator is a target follower that needs INTERP_FRAMES ticks.   *)
Follower == INSTANCE TargetFollower
              WITH Goals <- Points, Frames <- INTERP_FRAMES,
                   pos <- current, goal <- target,
                   left <- INTERP_FRAMES - interp_index
FollowsTarget == Follower!Spec

=============================================================================
