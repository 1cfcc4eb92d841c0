--------------------------- MODULE GalvoXY2Proofs ---------------------------
(***************************************************************************)
(* Proofs about the interpolator, for every number of frames, every range  *)
(* of codes and every set of commanded points.                             *)
(***************************************************************************)
EXTENDS GalvoXY2, TLAPS

-----------------------------------------------------------------------------
(* Integer division.                                                       *)

(* The defining equation of \div and % on naturals. *)
LEMMA DivMod ==
  ASSUME NEW a \in Nat, NEW n \in Nat \ {0}
  PROVE  /\ a \div n \in Nat
         /\ a % n \in 0 .. n - 1
         /\ a = n * (a \div n) + (a % n)
  OBVIOUS

(* \div is monotone in the dividend. *)
LEMMA DivMonotone ==
  ASSUME NEW a \in Nat, NEW b \in Nat, NEW n \in Nat \ {0}, a <= b
  PROVE  a \div n <= b \div n
  OBVIOUS

(* Dividing a multiple is exact. *)
LEMMA DivExact ==
  ASSUME NEW d \in Nat, NEW n \in Nat \ {0}
  PROVE  (d * n) \div n = d
  OBVIOUS

(* A dividend moved by at most c times the divisor moves the quotient by   *)
(* at most c.                                                              *)
LEMMA DivShift ==
  ASSUME NEW a \in Nat, NEW w \in Nat, NEW c \in Nat, NEW n \in Nat \ {0},
         w <= n * c
  PROVE  (a + w) \div n <= (a \div n) + c
<1> DEFINE p == a \div n
           q == (a + w) \div n
<1>1. /\ p \in Nat /\ q \in Nat
      /\ a < n * (p + 1)
      /\ n * q <= a + w
  <2>1. p \in Nat /\ a % n \in 0 .. n - 1 /\ a = n * p + (a % n)
    BY DivMod
  <2>2. a + w \in Nat
    OBVIOUS
  <2>3. q \in Nat /\ (a + w) % n \in 0 .. n - 1 /\ a + w = n * q + ((a + w) % n)
    BY <2>2, DivMod
  <2> HIDE DEF p, q
  <2> QED BY <2>1, <2>3
<1> HIDE DEF p, q
<1>2. n * q < n * (p + c + 1)
  BY <1>1
<1>3. ~(q >= p + c + 1)
  BY <1>1, <1>2
<1>4. q <= p + c
  BY <1>1, <1>3
<1> QED BY <1>4 DEF p, q

(* Rounding up: n times the quotient of w + n - 1 reaches w. *)
LEMMA DivCeiling ==
  ASSUME NEW w \in Nat, NEW n \in Nat \ {0}
  PROVE  w <= n * ((w + n - 1) \div n) /\ (w + n - 1) \div n \in Nat
  BY DivMod

-----------------------------------------------------------------------------
(* The interpolation.                                                      *)

(* C division of a multiple is exact, for negative dividends too. *)
LEMMA QuotientExact ==
  ASSUME NEW w \in Int, NEW n \in Nat \ {0}
  PROVE  Quotient(w * n, n) = w
<1>1. CASE w >= 0
  <2>1. w \in Nat /\ w * n >= 0
    BY <1>1
  <2> QED BY <2>1, DivExact DEF Quotient
<1>2. CASE w < 0
  <2>1. -w \in Nat /\ ~(w * n >= 0) /\ -(w * n) = (-w) * n
    BY <1>2
  <2>2. (-(w * n)) \div n = -w
    BY <2>1, DivExact
  <2> QED BY <2>1, <2>2 DEF Quotient
<1> QED BY <1>1, <1>2

(* The quotient of k parts of w by n lies between that of fewer parts and  *)
(* w itself.                                                               *)
LEMMA QuotientBetween ==
  ASSUME NEW w \in Int, NEW n \in Nat \ {0},
         NEW j \in 0 .. n, NEW k \in 0 .. n, j <= k
  PROVE  /\ Quotient(w * k, n) \in Int
         /\ \/ Quotient(w * j, n) <= Quotient(w * k, n) /\ Quotient(w * k, n) <= w
            \/ w <= Quotient(w * k, n) /\ Quotient(w * k, n) <= Quotient(w * j, n)
<1>1. CASE w >= 0
  <2>1. /\ w * j \in Nat /\ w * k \in Nat /\ w * n \in Nat
        /\ w * j <= w * k /\ w * k <= w * n
    BY <1>1
  <2>2. (w * j) \div n <= (w * k) \div n /\ (w * k) \div n <= (w * n) \div n
    BY <2>1, DivMonotone
  <2>3. (w * n) \div n = w
    BY <1>1, DivExact
  <2> QED BY <2>1, <2>2, <2>3, DivMod DEF Quotient
<1>2. CASE w < 0
  <2> DEFINE v == -w
  <2>1. /\ v \in Nat
        /\ v * j \in Nat /\ v * k \in Nat /\ v * n \in Nat
        /\ v * j <= v * k /\ v * k <= v * n
    BY <1>2
  <2>2. (v * j) \div n <= (v * k) \div n /\ (v * k) \div n <= (v * n) \div n
    BY <2>1, DivMonotone
  <2>3. (v * n) \div n = v
    BY <2>1, DivExact
  <2>4. -(w * j) = v * j /\ -(w * k) = v * k
    BY <1>2
  <2>5. \A p \in Nat : p = 0 => p \div n = 0
    OBVIOUS
  <2>6. Quotient(w * j, n) = -((v * j) \div n) /\ Quotient(w * k, n) = -((v * k) \div n)
    BY <2>1, <2>4, <2>5 DEF Quotient
  <2>7. (v * j) \div n \in Nat /\ (v * k) \div n \in Nat
    BY <2>1, DivMod
  <2> HIDE DEF v
  <2>8. w = -v
    BY DEF v
  <2> QED BY <2>1, <2>2, <2>3, <2>6, <2>7, <2>8
<1> QED BY <1>1, <1>2

(* One part more of w moves the quotient by at most c, if n times c covers  *)
(* w, and it moves it towards w.                                           *)
LEMMA QuotientStep ==
  ASSUME NEW w \in Int, NEW n \in Nat \ {0}, NEW k \in Nat, NEW c \in Nat,
         w <= n * c, -w <= n * c
  PROVE  /\ Quotient(w * k, n) \in Int
         /\ Quotient(w * (k + 1), n) \in Int
         /\ Distance(Quotient(w * k, n), Quotient(w * (k + 1), n)) <= c
<1>1. ASSUME NEW v \in Nat, v <= n * c
      PROVE  /\ v * k \in Nat /\ v * (k + 1) \in Nat
             /\ (v * k) \div n \in Nat /\ (v * (k + 1)) \div n \in Nat
             /\ (v * k) \div n <= (v * (k + 1)) \div n
             /\ (v * (k + 1)) \div n <= ((v * k) \div n) + c
  <2>1. v * k \in Nat /\ v * (k + 1) = (v * k) + v /\ v * (k + 1) \in Nat
    OBVIOUS
  <2>2. v * k <= v * (k + 1)
    BY <2>1
  <2>3. (v * k) \div n \in Nat /\ (v * (k + 1)) \div n \in Nat
    BY <2>1, DivMod
  <2>4. (v * k) \div n <= (v * (k + 1)) \div n
    BY <2>1, <2>2, DivMonotone
  <2>5. ((v * k) + v) \div n <= ((v * k) \div n) + c
    BY <1>1, <2>1, DivShift
  <2> QED BY <2>1, <2>3, <2>4, <2>5
<1>2. CASE w >= 0
  <2>1. w \in Nat
    BY <1>2
  <2>2. /\ w * k \in Nat /\ w * (k + 1) \in Nat
        /\ (w * k) \div n \in Nat /\ (w * (k + 1)) \div n \in Nat
        /\ (w * k) \div n <= (w * (k + 1)) \div n
        /\ (w * (k + 1)) \div n <= ((w * k) \div n) + c
    BY <1>1, <2>1
  <2>3. /\ Quotient(w * k, n) = (w * k) \div n
        /\ Quotient(w * (k + 1), n) = (w * (k + 1)) \div n
    BY <2>2 DEF Quotient
  <2> QED BY <2>2, <2>3 DEF Distance
<1>3. CASE w < 0
  <2> DEFINE v == -w
  <2>1. v \in Nat
    BY <1>3
  <2>2. /\ v * k \in Nat /\ v * (k + 1) \in Nat
        /\ (v * k) \div n \in Nat /\ (v * (k + 1)) \div n \in Nat
        /\ (v * k) \div n <= (v * (k + 1)) \div n
        /\ (v * (k + 1)) \div n <= ((v * k) \div n) + c
    BY <1>1, <2>1
  <2>3. -(w * k) = v * k /\ -(w * (k + 1)) = v * (k + 1)
    BY <1>3
  <2>4. \A p \in Nat : p = 0 => p \div n = 0
    OBVIOUS
  <2>5. /\ Quotient(w * k, n) = -((v * k) \div n)
        /\ Quotient(w * (k + 1), n) = -((v * (k + 1)) \div n)
    BY <2>2, <2>3, <2>4 DEF Quotient
  <2> HIDE DEF v
  <2> QED BY <2>2, <2>5 DEF Distance
<1> QED BY <1>2, <1>3

(* No interpolation step leaves the stretch between the point before it    *)
(* and the target; the last step is the target.                            *)
LEMMA InterpolateBetween ==
  ASSUME NEW s \in Int, NEW t \in Int,
         NEW j \in 0 .. INTERP_FRAMES, NEW k \in 0 .. INTERP_FRAMES, j <= k
  PROVE  /\ Interpolate(s, t, k) \in Int
         /\ Follower!Between(Interpolate(s, t, k), Interpolate(s, t, j), t)
<1> DEFINE w == t - s
<1>1. w \in Int /\ INTERP_FRAMES \in Nat \ {0} /\ t = s + w
  BY GalvoAssumptions
<1>2. /\ Quotient(w * k, INTERP_FRAMES) \in Int
      /\ Quotient(w * j, INTERP_FRAMES) \in Int
      /\ \/ /\ Quotient(w * j, INTERP_FRAMES) <= Quotient(w * k, INTERP_FRAMES)
            /\ Quotient(w * k, INTERP_FRAMES) <= w
         \/ /\ w <= Quotient(w * k, INTERP_FRAMES)
            /\ Quotient(w * k, INTERP_FRAMES) <= Quotient(w * j, INTERP_FRAMES)
  BY <1>1, QuotientBetween
<1>3. /\ Interpolate(s, t, k) = s + Quotient(w * k, INTERP_FRAMES)
      /\ Interpolate(s, t, j) = s + Quotient(w * j, INTERP_FRAMES)
  BY DEF Interpolate
<1> QED BY <1>1, <1>2, <1>3 DEF Follower!Between

(* The first and the last point of an interpolation. *)
LEMMA InterpolateEnds ==
  ASSUME NEW s \in Int, NEW t \in Int
  PROVE  Interpolate(s, t, 0) = s /\ Interpolate(s, t, INTERP_FRAMES) = t
<1>1. INTERP_FRAMES \in Nat \ {0} /\ t - s \in Int
  BY GalvoAssumptions
<1>2. Quotient((t - s) * INTERP_FRAMES, INTERP_FRAMES) = t - s
  BY <1>1, QuotientExact
<1>3. Quotient((t - s) * 0, INTERP_FRAMES) = 0
  BY <1>1 DEF Quotient
<1> QED BY <1>1, <1>2, <1>3 DEF Interpolate

-----------------------------------------------------------------------------
(* The inductive invariant.                                                *)

(* A status with the STALE bit was written by a tick that found the        *)
(* staleness counter at its end; only SetTarget has moved it since.        *)
StaleSettled == "STALE" \in status => frames_since_update \in {0, STALE_FRAMES}

IInv == TypeOK /\ OnTrack /\ Lockstep /\ StaleSettled

(* A code cast to int16_t is a code. *)
LEMMA Int16Range ==
  ASSUME NEW v \in Int
  PROVE  Int16(v) \in Code
  BY GalvoAssumptions DEF Int16, Code

(* The cast changes no code. *)
LEMMA Int16Identity ==
  ASSUME NEW v \in Code
  PROVE  Int16(v) = v
  BY GalvoAssumptions DEF Int16, Code

(* The point a tick drives to lies between the point driven now and the    *)
(* target, and is the point of the next interpolation step.                *)
LEMMA NextPointBetween ==
  ASSUME TypeOK, OnTrack
  PROVE  /\ NextPoint \in [Axis -> Code]
         /\ \A a \in Axis :
              /\ Follower!Between(NextPoint[a], current[a], target[a])
              /\ interp_index < INTERP_FRAMES =>
                   NextPoint[a] = Interpolate(start[a], target[a], interp_index + 1)
              /\ interp_index = INTERP_FRAMES => NextPoint[a] = target[a]
<1>1. ASSUME NEW a \in Axis
      PROVE  /\ NextPoint[a] \in Code
             /\ Follower!Between(NextPoint[a], current[a], target[a])
  <2>1. /\ start[a] \in Int /\ target[a] \in Code /\ current[a] \in Code
        /\ target[a] \in Int
        /\ current[a] = Interpolate(start[a], target[a], interp_index)
        /\ interp_index \in 0 .. INTERP_FRAMES
    BY GalvoAssumptions DEF TypeOK, OnTrack, Code
  <2>2. CASE interp_index < INTERP_FRAMES
    <3>1. NextPoint[a] = Interpolate(start[a], target[a], interp_index + 1)
      BY <2>2 DEF NextPoint
    <3>2. interp_index + 1 \in 0 .. INTERP_FRAMES /\ interp_index <= interp_index + 1
      BY <2>1, <2>2, GalvoAssumptions
    <3>3. /\ NextPoint[a] \in Int
          /\ Follower!Between(NextPoint[a], current[a], target[a])
      BY <2>1, <3>1, <3>2, InterpolateBetween
    <3> QED BY <2>1, <3>3, GalvoAssumptions DEF Follower!Between, Code
  <2>3. CASE ~(interp_index < INTERP_FRAMES)
    <3>1. NextPoint[a] = target[a]
      BY <2>3 DEF NextPoint
    <3> QED BY <2>1, <3>1, GalvoAssumptions DEF Follower!Between, Code
  <2> QED BY <2>2, <2>3
<1>2. NextPoint \in [Axis -> Code]
  BY <1>1 DEF NextPoint
<1>3. INTERP_FRAMES \in Nat
  BY GalvoAssumptions
<1> QED BY <1>1, <1>2, <1>3 DEF NextPoint

(* The state after GalvoXY2_Init. *)
LEMMA InitInv == Init => IInv
<1> SUFFICES ASSUME Init PROVE IInv
  OBVIOUS
<1>1. TypeOK
  <2>1. Origin \in [Axis -> Code] /\ Origin \in Points
    BY GalvoAssumptions DEF Origin, Code
  <2> QED BY <2>1, GalvoAssumptions DEF Init, TypeOK, StatusBits
<1>2. OnTrack
  <2>1. 0 \in Int
    OBVIOUS
  <2>2. Interpolate(0, 0, INTERP_FRAMES) = 0
    BY <2>1, InterpolateEnds
  <2> QED BY <2>2 DEF Init, OnTrack, Origin
<1>3. Lockstep /\ StaleSettled
  BY GalvoAssumptions DEF Init, Lockstep, StaleSettled
<1> QED BY <1>1, <1>2, <1>3 DEF IInv

(* Every step keeps the invariant. *)
LEMMA NextInv == IInv /\ [Next]_vars => IInv'
<1> SUFFICES ASSUME IInv, [Next]_vars PROVE IInv'
  OBVIOUS
<1>1. ASSUME NEW c \in Command, SetTargetCompare(c) PROVE IInv'
  BY <1>1 DEF SetTargetCompare, IInv, TypeOK, OnTrack, Lockstep, StaleSettled
<1>2. CASE SetTargetStore
  <2>1. call \in Command
    BY <1>2 DEF SetTargetStore, IInv, TypeOK
  <2>2. TypeOK'
    BY <1>2, <2>1, GalvoAssumptions DEF SetTargetStore, IInv, TypeOK, Command
  <2>3. OnTrack'
    <3> SUFFICES ASSUME NEW a \in Axis
                 PROVE  current'[a] = Interpolate(start'[a], target'[a], interp_index')
      BY DEF OnTrack
    <3>1. current[a] \in Int /\ target'[a] \in Int
      BY <2>2, GalvoAssumptions DEF IInv, TypeOK, Code
    <3>2. Interpolate(current[a], target'[a], 0) = current[a]
      BY <3>1, InterpolateEnds
    <3> QED BY <1>2, <3>2 DEF SetTargetStore
  <2>4. Lockstep' /\ StaleSettled'
    BY <1>2, GalvoAssumptions DEF SetTargetStore, Lockstep, StaleSettled
  <2> QED BY <2>2, <2>3, <2>4 DEF IInv
<1>3. CASE TimerTick
  <2>1. /\ NextPoint \in [Axis -> Code]
        /\ \A a \in Axis :
              /\ interp_index < INTERP_FRAMES =>
                   NextPoint[a] = Interpolate(start[a], target[a], interp_index + 1)
              /\ interp_index = INTERP_FRAMES => NextPoint[a] = target[a]
    BY NextPointBetween DEF IInv
  <2>2. TypeOK'
    <3>1. current' \in [Axis -> Code]
      BY <1>3, <2>1 DEF TimerTick
    <3>2. wire' \in [Axis -> Code] \cup {NoFrame}
      <4>1. \A a \in Axis : current'[a] \in Int
        BY <3>1, GalvoAssumptions DEF Code
      <4>2. [a \in Axis |-> Int16(current'[a])] \in [Axis -> Code]
        BY <4>1, Int16Range
      <4> QED BY <1>3, <4>2 DEF TimerTick
    <3>3. frame_counter' \in 0 .. COUNTER_MOD - 1
      BY <1>3, GalvoAssumptions DEF TimerTick, IInv, TypeOK
    <3>4. /\ frames_since_update' \in 0 .. STALE_FRAMES
          /\ interp_index' \in 0 .. INTERP_FRAMES
      BY <1>3, GalvoAssumptions DEF TimerTick, IInv, TypeOK
    <3>5. status' \in SUBSET StatusBits
      BY <1>3 DEF TimerTick, NextStatus, StatusBits
    <3> QED BY <1>3, <3>1, <3>2, <3>3, <3>4, <3>5 DEF TimerTick, IInv, TypeOK
  <2>3. OnTrack'
    <3> SUFFICES ASSUME NEW a \in Axis
                 PROVE  current'[a] = Interpolate(start'[a], target'[a], interp_index')
      BY DEF OnTrack
    <3>1. /\ start[a] \in Int /\ target[a] \in Int
          /\ interp_index \in 0 .. INTERP_FRAMES /\ INTERP_FRAMES \in Nat
      BY GalvoAssumptions DEF IInv, TypeOK, Code
    <3>2. Interpolate(start[a], target[a], INTERP_FRAMES) = target[a]
      BY <3>1, InterpolateEnds
    <3>3. current'[a] = NextPoint[a] /\ start' = start /\ target' = target
      BY <1>3 DEF TimerTick
    <3>4. CASE interp_index < INTERP_FRAMES
      BY <1>3, <2>1, <3>3, <3>4 DEF TimerTick
    <3>5. CASE interp_index = INTERP_FRAMES
      BY <1>3, <2>1, <3>1, <3>2, <3>3, <3>5 DEF TimerTick
    <3> QED BY <3>1, <3>4, <3>5
  <2>4. Lockstep'
    BY <1>3, GalvoAssumptions DEF TimerTick, IInv, TypeOK, Lockstep
  <2>5. StaleSettled'
    BY <1>3, GalvoAssumptions DEF TimerTick, NextStatus, IInv, TypeOK, StaleSettled
  <2> QED BY <2>2, <2>3, <2>4, <2>5 DEF IInv
<1>4. CASE UNCHANGED vars
  BY <1>4 DEF vars, IInv, TypeOK, OnTrack, Lockstep, StaleSettled
<1> QED BY <1>1, <1>2, <1>3, <1>4 DEF Next, SetTarget

(* The invariant holds in every reachable state. *)
THEOREM Invariance == Spec => []IInv
<1> QED BY InitInv, NextInv, PTL DEF Spec

(* Every variable keeps its range; in particular the int32_t positions     *)
(* stay int16_t codes, whatever targets arrive in the middle of a move.    *)
THEOREM TypeCorrect == Spec => []TypeOK
<1>1. IInv => TypeOK
  BY DEF IInv
<1> QED BY <1>1, Invariance, PTL

(* The position driven is always the point of the current movement.        *)
THEOREM AlwaysOnTrack == Spec => []OnTrack
<1>1. IInv => OnTrack
  BY DEF IInv
<1> QED BY <1>1, Invariance, PTL

(* The interpolation step and the staleness counter never drift apart.     *)
THEOREM AlwaysLockstep == Spec => []Lockstep
<1>1. IInv => Lockstep
  BY DEF IInv
<1> QED BY <1>1, Invariance, PTL

(* A slave that reports STALE rests on its target.                         *)
THEOREM StaleMeansAtRest == Spec => []StaleAtRest
<1>1. IInv => StaleAtRest
  <2> SUFFICES ASSUME IInv, "STALE" \in status, frames_since_update # 0
               PROVE  current = target
    BY DEF StaleAtRest
  <2>1. interp_index = INTERP_FRAMES
    BY GalvoAssumptions DEF IInv, StaleSettled, Lockstep
  <2>2. ASSUME NEW a \in Axis PROVE current[a] = target[a]
    <3>1. start[a] \in Int /\ target[a] \in Int
      BY GalvoAssumptions DEF IInv, TypeOK, Code
    <3> QED BY <2>1, <3>1, InterpolateEnds DEF IInv, OnTrack
  <2>3. current \in [Axis -> Code] /\ target \in [Axis -> Code]
    BY GalvoAssumptions DEF IInv, TypeOK
  <2> QED BY <2>2, <2>3
<1> QED BY <1>1, Invariance, PTL

-----------------------------------------------------------------------------
(* What a step may do.                                                     *)

(* One interpolation step is a share of the movement. *)
LEMMA InterpolateStep ==
  ASSUME NEW s \in Int, NEW t \in Int, NEW k \in Nat
  PROVE  Distance(Interpolate(s, t, k), Interpolate(s, t, k + 1))
           <= (Distance(s, t) + INTERP_FRAMES - 1) \div INTERP_FRAMES
<1> DEFINE n == INTERP_FRAMES
           w == t - s
           c == (Distance(s, t) + n - 1) \div n
<1>1. /\ n \in Nat \ {0} /\ w \in Int /\ Distance(s, t) \in Nat
      /\ w <= Distance(s, t) /\ -w <= Distance(s, t)
  BY GalvoAssumptions DEF Distance
<1>2. Distance(s, t) <= n * c /\ c \in Nat
  BY <1>1, DivCeiling
<1> HIDE DEF c
<1>3. n * c \in Int /\ w <= n * c /\ -w <= n * c
  BY <1>1, <1>2
<1>4. /\ Quotient(w * k, n) \in Int
      /\ Quotient(w * (k + 1), n) \in Int
      /\ Distance(Quotient(w * k, n), Quotient(w * (k + 1), n)) <= c
  <2> HIDE DEF n, w
  <2> QED BY <1>1, <1>2, <1>3, QuotientStep
<1>5. /\ Interpolate(s, t, k) = s + Quotient(w * k, n)
      /\ Interpolate(s, t, k + 1) = s + Quotient(w * (k + 1), n)
  BY DEF Interpolate
<1>6. Distance(Interpolate(s, t, k), Interpolate(s, t, k + 1)) <= c
  BY <1>4, <1>5 DEF Distance
<1> QED BY <1>6 DEF c

(* No step, whichever targets interrupt a movement, makes a mirror jump.   *)
THEOREM StepsAreSmall == Spec => BoundedStep
<1>1. IInv /\ [Next]_vars => [SmallStep]_vars
  <2> SUFFICES ASSUME IInv, [Next]_vars, NEW a \in Axis
               PROVE  Distance(current[a], current'[a]) <= Share(a)
    BY DEF SmallStep
  <2>1. /\ start[a] \in Int /\ target[a] \in Int /\ current[a] \in Int
        /\ interp_index \in 0 .. INTERP_FRAMES /\ INTERP_FRAMES \in Nat \ {0}
        /\ current[a] = Interpolate(start[a], target[a], interp_index)
    BY GalvoAssumptions DEF IInv, TypeOK, OnTrack, Code
  <2>2. Share(a) \in Nat
    <3>1. Distance(start[a], target[a]) \in Nat
      BY <2>1 DEF Distance
    <3> QED BY <2>1, <3>1, DivCeiling DEF Share
  <2>3. CASE current'[a] = current[a]
    BY <2>1, <2>2, <2>3 DEF Distance
  <2>4. CASE TimerTick
    <3>1. current'[a] = NextPoint[a]
      BY <2>4 DEF TimerTick
    <3>2. CASE interp_index < INTERP_FRAMES
      <4>1. NextPoint[a] = Interpolate(start[a], target[a], interp_index + 1)
        BY <3>2 DEF NextPoint
      <4>2. interp_index \in Nat
        BY <2>1
      <4> QED BY <2>1, <3>1, <4>1, <4>2, InterpolateStep DEF Share
    <3>3. CASE interp_index = INTERP_FRAMES
      <4>1. NextPoint[a] = target[a]
        BY <2>1, <3>3 DEF NextPoint
      <4>2. current[a] = target[a]
        BY <2>1, <3>3, InterpolateEnds
      <4> QED BY <2>3, <3>1, <4>1, <4>2
    <3> QED BY <2>1, <3>2, <3>3
  <2>5. CASE SetTarget \/ UNCHANGED vars
    BY <2>3, <2>5 DEF SetTarget, SetTargetCompare, SetTargetStore, vars
  <2> QED BY <2>4, <2>5 DEF Next
<1> QED BY <1>1, Invariance, PTL DEF Spec, BoundedStep

(* The interpolator implements the target follower: every target is a new  *)
(* goal, and every tick goes towards it and is there when time is up.      *)
THEOREM Refinement == Spec => FollowsTarget
<1>1. Init => Follower!Init
  BY GalvoAssumptions DEF Init, Follower!Init
<1>2. IInv /\ [Next]_vars => [Follower!Next]_Follower!vars
  <2> SUFFICES ASSUME IInv, [Next]_vars
               PROVE  Follower!Next \/ UNCHANGED Follower!vars
    OBVIOUS
  <2>1. /\ INTERP_FRAMES \in Nat \ {0} /\ interp_index \in 0 .. INTERP_FRAMES
        /\ current \in [Axis -> Code] /\ target \in [Axis -> Code]
    BY GalvoAssumptions DEF IInv, TypeOK
  <2>2. ASSUME NEW c \in Command, SetTargetCompare(c)
        PROVE  UNCHANGED Follower!vars
    BY <2>2 DEF SetTargetCompare, Follower!vars
  <2>3. CASE SetTargetStore
    <3>1. call \in Command
      BY <2>3 DEF SetTargetStore, IInv, TypeOK
    <3>2. Follower!Retarget
      BY <2>1, <2>3, <3>1 DEF SetTargetStore, Command, Follower!Retarget
    <3> QED BY <3>2 DEF Follower!Next
  <2>4. CASE TimerTick
    <3>1. /\ current' = NextPoint /\ target' = target
          /\ interp_index' = IF interp_index < INTERP_FRAMES
                             THEN interp_index + 1 ELSE interp_index
      BY <2>4 DEF TimerTick
    <3>2. /\ NextPoint \in [Axis -> Code]
          /\ \A a \in Axis :
               /\ Follower!Between(NextPoint[a], current[a], target[a])
               /\ interp_index < INTERP_FRAMES =>
                    NextPoint[a] = Interpolate(start[a], target[a], interp_index + 1)
               /\ interp_index = INTERP_FRAMES => NextPoint[a] = target[a]
      BY NextPointBetween DEF IInv
    <3>3. \A a \in Axis : Interpolate(start[a], target[a], INTERP_FRAMES) = target[a]
      <4>1. \A a \in Axis : start[a] \in Int /\ target[a] \in Int
        BY GalvoAssumptions DEF IInv, TypeOK, Code
      <4> QED BY <4>1, InterpolateEnds
    <3>4. INTERP_FRAMES - interp_index' = 0 => NextPoint = target
      <4> SUFFICES ASSUME INTERP_FRAMES - interp_index' = 0, NEW a \in Axis
                   PROVE  NextPoint[a] = target[a]
        BY <2>1, <3>2
      <4>1. CASE interp_index < INTERP_FRAMES
        <5>1. interp_index + 1 = INTERP_FRAMES
          BY <2>1, <3>1, <4>1
        <5> QED BY <3>2, <3>3, <4>1, <5>1
      <4>2. CASE interp_index = INTERP_FRAMES
        BY <3>2, <4>2
      <4> QED BY <2>1, <4>1, <4>2
    <3>5. INTERP_FRAMES - interp_index' =
            IF INTERP_FRAMES - interp_index > 0
            THEN (INTERP_FRAMES - interp_index) - 1 ELSE 0
      BY <2>1, <3>1
    <3>6. Follower!Advance
      BY <3>1, <3>2, <3>4, <3>5 DEF Follower!Advance
    <3> QED BY <3>6 DEF Follower!Next
  <2>5. CASE UNCHANGED vars
    BY <2>5 DEF vars, Follower!vars
  <2> QED BY <2>2, <2>3, <2>4, <2>5 DEF Next, SetTarget
<1> QED BY <1>1, <1>2, Invariance, PTL DEF Spec, FollowsTarget, Follower!Spec

=============================================================================
