------------------------------ MODULE Xy2Frame ------------------------------
(***************************************************************************)
(* The XY2-100 frame on the wire: xy2_pack_word, xy2_write_bit and         *)
(* xy2_send_frame of Core/Src/galvo_xy2_100.c, one action per write to a   *)
(* pin, and the branch of GalvoXY2_TimerTick that sends no frame.  The     *)
(* galvo driver is external: it takes a data bit of each axis with every   *)
(* falling edge of CLK while SYNC is high, and the frame with the falling  *)
(* edge of SYNC.                                                           *)
(***************************************************************************)
EXTENDS Integers, Sequences, FiniteSets

CONSTANTS
  CODE_BITS,    (* bits of a mirror code (16)                              *)
  FRAME_BITS,   (* XY2_FRAME_BITS (20)                                     *)
  NoCodes,      (* no frame yet                                            *)
  Broken        (* what the driver makes of a frame it cannot read         *)

Axis == {"x", "y"}
Bit == {0, 1}

(* int16_t codes and their uint16_t images. *)
Code == -(2 ^ (CODE_BITS - 1)) .. 2 ^ (CODE_BITS - 1) - 1
Unsigned(c) == c % 2 ^ CODE_BITS

ASSUME FrameAssumptions ==
  /\ CODE_BITS \in Nat \ {0}
  /\ FRAME_BITS \in Nat /\ FRAME_BITS > CODE_BITS
  /\ NoCodes \notin [Axis -> Code \cup {Broken}]
  /\ Broken \notin Code

VARIABLES
  pc,           (* what the tick does next                                 *)
  codes,        (* x_code and y_code                                       *)
  bit,          (* the loop variable of xy2_send_frame                     *)
  sync, clk,    (* the levels of the pins                                  *)
  data,         (* ... of X and Y                                          *)
  shift,        (* external: the bits of each axis taken in this frame     *)
  taken         (* external: the codes of the last frame                   *)

vars == <<pc, codes, bit, sync, clk, data, shift, taken>>

-----------------------------------------------------------------------------
BitOf(word, i) == (word \div 2 ^ i) % 2
Ones(word, n) == {i \in 0 .. n - 1 : BitOf(word, i) = 1}

(* Faulty variant: the parity leaves the sign bit out. *)
xy2_pack_wordUnsigned(c) == Unsigned(c) * 2 + (Cardinality(Ones(c, CODE_BITS - 1)) % 2)

(* The code, shifted, and a last bit that makes the parity even.           *)
xy2_pack_word(c) == Unsigned(c) * 2 + (Cardinality(Ones(Unsigned(c), CODE_BITS)) % 2)

-----------------------------------------------------------------------------
(* The galvo driver.                                                       *)

(* The bits came highest first; the lowest is the parity.                  *)
Value(bits) ==
  LET n == Len(bits)
      weight[i \in 0 .. n] == IF i = 0 THEN 0 ELSE 2 * weight[i - 1] + bits[i]
  IN  weight[n]

Decode(bits) ==
  LET payload == (Value(bits) \div 2) % 2 ^ CODE_BITS
  IN  CASE Len(bits) # FRAME_BITS -> Broken
        [] Len(bits) = FRAME_BITS /\ Cardinality({i \in DOMAIN bits : bits[i] = 1}) % 2 = 1
             -> Broken
        [] OTHER -> IF payload < 2 ^ (CODE_BITS - 1) THEN payload ELSE payload - 2 ^ CODE_BITS

Driver ==
  /\ shift' = CASE ~sync -> [a \in Axis |-> <<>>]
                [] sync /\ clk /\ ~clk' -> [a \in Axis |-> Append(shift[a], data[a])]
                [] OTHER -> shift
  /\ taken' = IF sync /\ ~sync' THEN [a \in Axis |-> Decode(shift[a])] ELSE taken

-----------------------------------------------------------------------------
(* GalvoXY2_Init *)
Init ==
  /\ pc = "idle" /\ codes = NoCodes /\ bit = -1
  /\ sync = FALSE /\ clk = FALSE /\ data = [a \in Axis |-> 0]
  /\ shift = [a \in Axis |-> <<>>] /\ taken = NoCodes

At(here, next) == pc = here /\ pc' = next

(* GalvoXY2_TimerTick with GALVO_CONTROL_ENABLE calls xy2_send_frame.      *)
EnabledTick ==
  /\ At("idle", "sync")
  /\ codes' \in [Axis -> Code]
  /\ UNCHANGED <<bit, sync, clk, data>> /\ Driver

(* ... and without it takes SYNC and CLK low. *)
DisabledTick ==
  /\ At("idle", "idle")
  /\ sync' = FALSE /\ clk' = FALSE
  /\ UNCHANGED <<codes, bit, data>> /\ Driver

(* Faulty variant: the loop starts with bit FRAME_BITS. *)
RaiseSyncTooMany ==
  /\ At("sync", "x")
  /\ sync' = TRUE /\ bit' = FRAME_BITS
  /\ UNCHANGED <<codes, clk, data>> /\ Driver

RaiseSync ==
  /\ At("sync", "x")
  /\ sync' = TRUE /\ bit' = FRAME_BITS - 1
  /\ UNCHANGED <<codes, clk, data>> /\ Driver

WritePin(a) == data' = [data EXCEPT ![a] = BitOf(xy2_pack_word(codes[a]), bit)]

(* xy2_write_bit: X, Y, CLK up, CLK down. *)
WriteX == At("x", "y") /\ WritePin("x") /\ UNCHANGED <<codes, bit, sync, clk>> /\ Driver

(* Faulty variant: the Y bit is written once CLK is up. *)
WriteYLate ==
  \/ At("y", "up") /\ UNCHANGED <<codes, bit, sync, clk, data>> /\ Driver
  \/ pc = "down" /\ pc' = pc /\ WritePin("y") /\ UNCHANGED <<codes, bit, sync, clk>> /\ Driver

WriteY == At("y", "up") /\ WritePin("y") /\ UNCHANGED <<codes, bit, sync, clk>> /\ Driver

RaiseClk ==
  /\ At("up", "down")
  /\ clk' = TRUE
  /\ UNCHANGED <<codes, bit, sync, data>> /\ Driver

(* Faulty variant: SYNC goes low with CLK still high after the last bit.   *)
LowerClkNotLast ==
  /\ At("down", IF bit > 0 THEN "x" ELSE "end")
  /\ clk' = (bit = 0) /\ bit' = bit - 1
  /\ UNCHANGED <<codes, sync, data>> /\ Driver

LowerClk ==
  /\ At("down", IF bit > 0 THEN "x" ELSE "end")
  /\ clk' = FALSE /\ bit' = bit - 1
  /\ UNCHANGED <<codes, sync, data>> /\ Driver

LowerSync ==
  /\ At("end", "idle")
  /\ sync' = FALSE
  /\ UNCHANGED <<codes, bit, clk, data>> /\ Driver

Next ==
  \/ EnabledTick \/ DisabledTick \/ RaiseSync \/ WriteX \/ WriteY \/ RaiseClk
  \/ LowerClk \/ LowerSync

Spec == Init /\ [][Next]_vars

-----------------------------------------------------------------------------
(* The ranges; the driver never has more bits than a frame. *)
TypeOK ==
  /\ pc \in {"idle", "sync", "x", "y", "up", "down", "end"}
  /\ codes \in [Axis -> Code] \cup {NoCodes}
  /\ bit \in -1 .. FRAME_BITS - 1
  /\ sync \in BOOLEAN /\ clk \in BOOLEAN
  /\ data \in [Axis -> Bit]
  /\ \A a \in Axis : shift[a] \in Seq(Bit) /\ Len(shift[a]) <= FRAME_BITS
  /\ taken \in [Axis -> Code \cup {Broken}] \cup {NoCodes}

(* When the tick is over the driver has exactly the codes of the last      *)
(* frame: 20 bits, even parity, the sign restored.                         *)
FrameArrives == pc = "idle" => taken = codes

(* While CLK is high, and when it falls, the data lines do not move.       *)
DataStable == [][clk => data' = data]_vars

(* SYNC frames the clock: it changes only while CLK is low.                *)
SyncFramesClock == [][sync' # sync => ~clk /\ ~clk']_vars

=============================================================================
