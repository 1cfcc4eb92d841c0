--------------------------- MODULE GalvoSystemProofs ---------------------------
(***************************************************************************)
(* Theorems about GalvoSystem for every trajectory, number of samples,     *)
(* width of the sequence number and limit of lost frames.                  *)
(***************************************************************************)
EXTENDS GalvoSystem, SequenceTheorems, TLAPS

(* The counters of the program are below their limits where it goes on.    *)
Counting ==
  /\ master = "running" => lost_in_row < MAX_LOST_FRAMES
  /\ master \in {"configured", "starting"} => tries < START_TRIES

(* The process data in q lie between low (excluded) and high, ascending.   *)
Ordered(q, low, high) ==
  /\ \A i \in 1 .. Len(q) :
       q[i].request = "none" => low < q[i].number /\ q[i].number <= high
  /\ \A i, j \in 1 .. Len(q) :
       i < j /\ q[i].request = "none" /\ q[j].request = "none"
         => q[i].number < q[j].number

(* A number is confirmed after it is answered, answered after it is mapped *)
(* and mapped after it is in SM2; what is on the bus is newer.             *)
Chain ==
  /\ inputs.number <= tx.number
  /\ tx.number <= Obj0x7010.number
  /\ Obj0x7010.number <= buffer.number
  /\ buffer.number <= sent
  /\ Ordered(bus, buffer.number, sent)

IInv == TypeOK /\ Counting /\ Chain /\ TargetIsLatest

-----------------------------------------------------------------------------
(* Taking the first frame from the bus. *)
LEMMA OrderedTail ==
  ASSUME NEW q \in Seq(Frame), q # << >>, NEW low \in Nat, NEW high \in Nat,
         Ordered(q, low, high)
  PROVE  /\ Tail(q) \in Seq(Frame) /\ Head(q) \in Frame
         /\ Ordered(Tail(q), low, high)
         /\ Head(q).request = "none" =>
              /\ low < Head(q).number /\ Head(q).number <= high
              /\ Ordered(Tail(q), Head(q).number, high)
<1>1. /\ Tail(q) \in Seq(Frame) /\ Head(q) = q[1] /\ Len(q) \in Nat \ {0}
      /\ Len(Tail(q)) = Len(q) - 1
      /\ \A i \in 1 .. Len(Tail(q)) : Tail(q)[i] = q[i + 1]
  BY HeadTailProperties, EmptySeq, LenProperties
<1>2. Head(q) \in Frame
  BY <1>1, ElementOfSeq
<1>3. \A i \in 1 .. Len(q) : q[i] \in Frame
  BY ElementOfSeq
<1>4. \A i \in 1 .. Len(Tail(q)) : i + 1 \in 1 .. Len(q) /\ 1 < i + 1
  BY <1>1
<1>5. 1 \in 1 .. Len(q)
  BY <1>1
<1>6. Ordered(Tail(q), low, high)
  BY <1>1, <1>4 DEF Ordered
<1>7. ASSUME Head(q).request = "none"
      PROVE  /\ low < Head(q).number /\ Head(q).number <= high
             /\ Ordered(Tail(q), Head(q).number, high)
  BY <1>1, <1>4, <1>5, <1>6, <1>7 DEF Ordered
<1> QED BY <1>1, <1>2, <1>6, <1>7

(* A new frame goes to the end of the bus. *)
LEMMA OrderedFrame ==
  ASSUME NEW q \in Seq(Frame), NEW low \in Nat, NEW high \in Nat, low <= high,
         Ordered(q, low, high), NEW pdo \in Pdo
  PROVE  LET r == Append(q, [request |-> "none", number |-> high + 1, pdo |-> pdo])
         IN  r \in Seq(Frame) /\ Ordered(r, low, high + 1)
<1> DEFINE f == [request |-> "none", number |-> high + 1, pdo |-> pdo]
           r == Append(q, f)
<1>1. f \in Frame
  BY DEF Frame
<1>2. /\ r \in Seq(Frame) /\ Len(r) = Len(q) + 1 /\ Len(q) \in Nat
      /\ \A i \in 1 .. Len(q) : r[i] = q[i]
      /\ r[Len(q) + 1] = f
  BY <1>1, AppendProperties, LenProperties
<1>3. \A i \in 1 .. Len(q) : q[i].number \in Nat
  <2>1. \A i \in 1 .. Len(q) : q[i] \in Frame
    BY ElementOfSeq
  <2> QED BY <2>1 DEF Frame
<1>4. \A i \in 1 .. Len(r) : i \in 1 .. Len(q) \/ i = Len(q) + 1
  BY <1>2
<1> HIDE DEF r
<1>5. \A i \in 1 .. Len(r) :
        r[i].request = "none" => low < r[i].number /\ r[i].number <= high + 1
  BY <1>2, <1>3, <1>4 DEF Ordered
<1>6. ASSUME NEW i \in 1 .. Len(r), NEW j \in 1 .. Len(r), i < j,
             r[i].request = "none", r[j].request = "none"
      PROVE  r[i].number < r[j].number
  <2>1. i \in 1 .. Len(q)
    BY <1>2, <1>6
  <2>2. CASE j \in 1 .. Len(q)
    BY <1>2, <1>6, <2>1, <2>2 DEF Ordered
  <2>3. CASE j = Len(q) + 1
    BY <1>2, <1>3, <1>6, <2>1, <2>3 DEF Ordered
  <2> QED BY <1>4, <2>2, <2>3
<1> QED BY <1>2, <1>5, <1>6 DEF Ordered, r

(* A request has no place in the order. *)
LEMMA OrderedRequest ==
  ASSUME NEW q \in Seq(Frame), NEW low \in Nat, NEW high \in Nat,
         Ordered(q, low, high), NEW request \in Request
  PROVE  /\ Append(q, AlControl(request)) \in Seq(Frame)
         /\ Ordered(Append(q, AlControl(request)), low, high)
<1> DEFINE f == AlControl(request)
           r == Append(q, f)
<1>1. f \in Frame /\ f.request # "none"
  BY SystemAssumptions DEF Frame, AlControl, Request, StopPdo, Pdo
<1>2. /\ r \in Seq(Frame) /\ Len(r) = Len(q) + 1 /\ Len(q) \in Nat
      /\ \A i \in 1 .. Len(q) : r[i] = q[i]
      /\ r[Len(q) + 1] = f
  BY <1>1, AppendProperties, LenProperties
<1>4. \A i \in 1 .. Len(r) : i \in 1 .. Len(q) \/ i = Len(q) + 1
  BY <1>2
<1> HIDE DEF r, f
<1> QED BY <1>1, <1>2, <1>4 DEF Ordered, r, f

(* What follows an exchange keeps the program's counters in their ranges   *)
(* and the bus in order.                                                   *)
LEMMA ContinueKeeps ==
  ASSUME TypeOK, Counting, NEW wkc \in Int,
         NEW onTheWay \in Seq(Frame), NEW low \in Nat,
         Ordered(onTheWay, low, sent), Continue(wkc, onTheWay)
  PROVE  /\ master' \in {"off", "starting", "running", "stopping"}
         /\ sequence' \in 0 .. SEQ_MOD - 1
         /\ lost_in_row' \in 0 .. MAX_LOST_FRAMES
         /\ tries' \in 0 .. START_TRIES
         /\ Counting'
         /\ bus' \in Seq(Frame) /\ Ordered(bus', low, sent)
<1>1. sent \in Nat
  BY DEF TypeOK
<1>2. \A request \in Request :
        /\ Append(onTheWay, AlControl(request)) \in Seq(Frame)
        /\ Ordered(Append(onTheWay, AlControl(request)), low, sent)
  BY <1>1, OrderedRequest
<1>3. bus' \in Seq(Frame) /\ Ordered(bus', low, sent)
  <2>1. bus' = onTheWay \/ \E request \in Request : bus' = Append(onTheWay, AlControl(request))
    BY DEF Continue, Request
  <2> QED BY <1>2, <2>1
<1>4. /\ master' \in {"off", "starting", "running", "stopping"}
      /\ sequence' \in 0 .. SEQ_MOD - 1
      /\ lost_in_row' \in 0 .. MAX_LOST_FRAMES
      /\ tries' \in 0 .. START_TRIES
      /\ Counting'
  <2> USE SystemAssumptions DEF TypeOK, Counting
  <2>1. CASE master = "configured" /\ master' = "starting"
             /\ UNCHANGED <<sequence, lost_in_row, tries>>
    BY <2>1
  <2>2. CASE master = "starting" /\ master' = "running" /\ sequence' = 0
             /\ lost_in_row' = 0 /\ UNCHANGED tries
    BY <2>2
  <2>3. CASE master = "starting" /\ tries' = tries + 1
             /\ master' = (IF tries' < START_TRIES THEN "starting" ELSE "off")
             /\ UNCHANGED <<sequence, lost_in_row>>
    BY <2>3
  <2>4. CASE master = "running" /\ CountLoss(wkc) /\ UNCHANGED <<sequence, tries>>
    BY <2>4 DEF CountLoss
  <2>5. CASE master = "stopping" /\ master' = "off"
             /\ UNCHANGED <<sequence, lost_in_row, tries>>
    BY <2>5
  <2> QED BY <2>1, <2>2, <2>3, <2>4, <2>5 DEF Continue
<1> QED BY <1>3, <1>4

-----------------------------------------------------------------------------
(* The invariant holds in the beginning. *)
LEMMA InitInvariant == Init => IInv
<1> SUFFICES ASSUME Init PROVE IInv
  OBVIOUS
<1>0. StopPdo \in Pdo
  BY SystemAssumptions DEF StopPdo, Pdo
<1>1. TypeOK
  <2>1. /\ master \in {"off", "configured", "starting", "running", "stopping"}
        /\ sent \in Nat /\ sequence \in 0 .. SEQ_MOD - 1
        /\ lost_in_row \in 0 .. MAX_LOST_FRAMES /\ tries \in 0 .. START_TRIES
        /\ control \in Request \cup {"none"}
        /\ state \in {"INIT", "SAFEOP", "OP"}
        /\ isr \in {"idle", "inputs", "recheck", "ack"}
    BY SystemAssumptions DEF Init
  <2>2. /\ inputs \in [number : Nat, sequence : 0 .. SEQ_MOD - 1, enabled : BOOLEAN]
        /\ tx \in [number : Nat, sequence : 0 .. SEQ_MOD - 1, enabled : BOOLEAN]
    BY SystemAssumptions DEF Init, NoInputs
  <2>3. buffer \in Numbered /\ Obj0x7010 \in Numbered /\ target \in Pdo
    BY <1>0 DEF Init, Numbered
  <2>4. bus \in Seq(Frame)
    BY EmptySeq DEF Init
  <2>5. {waiting, sm2, event, edge, bEcatWaitForAlControlRes, bEcatFirstOutputsReceived,
         wire} \subseteq BOOLEAN
    BY DEF Init
  <2> QED BY <2>1, <2>2, <2>3, <2>4, <2>5 DEF TypeOK
<1>2. Counting
  BY DEF Init, Counting
<1>3. Ordered(bus, buffer.number, sent)
  BY EmptySeq DEF Init, Ordered
<1>4. Chain
  BY <1>3 DEF Init, Chain, NoInputs
<1>5. TargetIsLatest
  BY DEF Init, TargetIsLatest
<1> QED BY <1>1, <1>2, <1>4, <1>5 DEF IInv

(* Sending begins a new exchange. *)
LEMMA SendKeeps ==
  ASSUME IInv, NEW pdo \in Pdo, SendProcessData(pdo), sequence' \in 0 .. SEQ_MOD - 1
  PROVE  IInv'
<1>1. bus' \in Seq(Frame) /\ Ordered(bus', buffer.number, sent')
  <2>1. sent \in Nat /\ buffer.number \in Nat /\ bus \in Seq(Frame)
        /\ buffer.number <= sent /\ Ordered(bus, buffer.number, sent)
    BY DEF IInv, TypeOK, Numbered, Chain
  <2> QED BY <2>1, OrderedFrame DEF SendProcessData
<1>2. TypeOK'
  BY <1>1 DEF IInv, TypeOK, SendProcessData, slave, esc, machine, galvo
<1>3. Counting'
  BY DEF IInv, Counting, SendProcessData
<1>4. Chain'
  BY <1>1 DEF IInv, TypeOK, Numbered, Chain, SendProcessData, slave, esc, galvo
<1>5. TargetIsLatest'
  BY DEF IInv, TargetIsLatest, SendProcessData, slave, galvo
<1> QED BY <1>2, <1>3, <1>4, <1>5 DEF IInv

(* The master's own steps. *)
LEMMA MasterKeeps == IInv /\ Master => IInv'
<1> SUFFICES ASSUME IInv, Master PROVE IInv'
  OBVIOUS
<1>0. StopPdo \in Pdo
  BY SystemAssumptions DEF StopPdo, Pdo
<1>1. CASE SendZeroes
  BY <1>0, <1>1, SendKeeps DEF SendZeroes, IInv, TypeOK
<1>2. CASE SendSample
  <2>1. sequence' \in 0 .. SEQ_MOD - 1
    BY <1>2, SystemAssumptions DEF SendSample, IInv, TypeOK
  <2>2. PICK point \in Points, laser \in BOOLEAN :
          SendProcessData([point |-> point, sequence |-> sequence, enable |-> laser])
    BY <1>2 DEF SendSample
  <2>3. [point |-> point, sequence |-> sequence, enable |-> laser] \in Pdo
    BY DEF Pdo, IInv, TypeOK
  <2> QED BY <2>1, <2>2, <2>3, SendKeeps
<1>3. CASE EndTrajectory
  BY <1>3 DEF EndTrajectory, IInv, TypeOK, Counting, Chain, TargetIsLatest,
              slave, esc, machine, galvo
<1>4. CASE SendStop
  BY <1>0, <1>4, SendKeeps DEF SendStop, IInv, TypeOK
<1>5. CASE Timeout
  <2>1. /\ bus \in Seq(Frame) /\ buffer.number \in Nat
        /\ Ordered(bus, buffer.number, sent) /\ TypeOK /\ Counting
    BY DEF IInv, TypeOK, Chain, Numbered
  <2>2. /\ master' \in {"off", "starting", "running", "stopping"}
        /\ sequence' \in 0 .. SEQ_MOD - 1
        /\ lost_in_row' \in 0 .. MAX_LOST_FRAMES
        /\ tries' \in 0 .. START_TRIES
        /\ Counting'
        /\ bus' \in Seq(Frame) /\ Ordered(bus', buffer.number, sent)
    BY <1>5, <2>1, ContinueKeeps DEF Timeout
  <2>3. TypeOK'
    BY <1>5, <2>1, <2>2 DEF Timeout, TypeOK, slave, esc, machine, galvo
  <2>4. Chain' /\ TargetIsLatest'
    BY <1>5, <2>2 DEF Timeout, IInv, Chain, TargetIsLatest, slave, esc, galvo
  <2> QED BY <2>2, <2>3, <2>4 DEF IInv
<1> QED BY <1>1, <1>2, <1>3, <1>4, <1>5 DEF Master

(* A new program, and the end of one from outside. *)
LEMMA ProgramKeeps == IInv /\ (Configure \/ Kill) => IInv'
<1> SUFFICES ASSUME IInv, Configure \/ Kill PROVE IInv'
  OBVIOUS
<1>1. CASE Configure
  <2>1. TypeOK'
    <3>1. inputs' \in [number : Nat, sequence : 0 .. SEQ_MOD - 1, enabled : BOOLEAN]
      BY <1>1, SystemAssumptions DEF Configure, NoInputs
    <3>2. {waiting', sm2', event', edge', bEcatWaitForAlControlRes',
           bEcatFirstOutputsReceived', wire'} \subseteq BOOLEAN
      BY <1>1 DEF Configure, StartsSlave, galvo, IInv, TypeOK
    <3>3. tries' \in 0 .. START_TRIES
      BY <1>1, SystemAssumptions DEF Configure
    <3>4. UNCHANGED <<sent, sequence, lost_in_row, bus, buffer, tx, isr, Obj0x7010, target>>
      BY <1>1 DEF Configure, galvo
    <3>5. master' = "configured" /\ control' = "none" /\ state' = "SAFEOP"
      BY <1>1 DEF Configure, StartsSlave
    <3> QED BY <3>1, <3>2, <3>3, <3>4, <3>5 DEF IInv, TypeOK
  <2>2. Counting'
    BY <1>1, SystemAssumptions DEF Configure, Counting
  <2>3. Chain'
    BY <1>1 DEF IInv, TypeOK, Numbered, Chain, Configure, StartsSlave, NoInputs, galvo
  <2>4. TargetIsLatest'
    BY <1>1 DEF IInv, TargetIsLatest, Configure, galvo
  <2> QED BY <2>1, <2>2, <2>3, <2>4 DEF IInv
<1>2. CASE Kill
  BY <1>2 DEF Kill, IInv, TypeOK, Counting, Chain, TargetIsLatest, slave, esc, machine, galvo
<1> QED BY <1>1, <1>2

(* The bus. *)
LEMMA BusKeeps == IInv /\ Bus => IInv'
<1> SUFFICES ASSUME IInv, Bus PROVE IInv'
  OBVIOUS
<1> DEFINE f == Head(bus)
<1>1. bus # << >> /\ bus \in Seq(Frame) /\ buffer.number \in Nat /\ sent \in Nat
      /\ Ordered(bus, buffer.number, sent)
  BY DEF Bus, Exchange, WriteAlControl, Lose, IInv, TypeOK, Chain, Numbered
<1>2. /\ Tail(bus) \in Seq(Frame) /\ f \in Frame
      /\ Ordered(Tail(bus), buffer.number, sent)
      /\ f.request = "none" =>
           /\ buffer.number < f.number /\ f.number <= sent
           /\ Ordered(Tail(bus), f.number, sent)
  BY <1>1, OrderedTail
<1>3. CASE Exchange
  <2>1. f.request = "none"
    BY <1>3 DEF Exchange
  <2>2. f.number \in Nat /\ f.pdo \in Pdo
    BY <1>2 DEF Frame
  <2>3. /\ buffer' \in Numbered /\ buffer.number <= buffer'.number /\ buffer'.number <= sent
        /\ Ordered(Tail(bus), buffer'.number, sent)
        /\ event' \in BOOLEAN /\ edge' \in BOOLEAN
    <3>1. CASE state # "INIT" /\ sm2
      BY <1>1, <1>2, <1>3, <2>1, <2>2, <3>1 DEF Exchange, WriteOutputs, Numbered
    <3>2. CASE ~(state # "INIT" /\ sm2)
      BY <1>1, <1>2, <1>3, <3>2 DEF Exchange, WriteOutputs, IInv, TypeOK, Chain
    <3> QED BY <3>1, <3>2
  <2>4. CASE bus' = Tail(bus) /\ UNCHANGED <<program, inputs>>
    <3>1. TypeOK'
      BY <1>2, <1>3, <2>3, <2>4 DEF Exchange, IInv, TypeOK, program, machine, galvo
    <3>2. Counting' /\ TargetIsLatest'
      BY <1>3, <2>4 DEF Exchange, IInv, Counting, TargetIsLatest, program, galvo
    <3>3. Chain'
      BY <1>2, <1>3, <2>3, <2>4 DEF Exchange, IInv, TypeOK, Numbered, Chain, program, galvo
    <3> QED BY <3>1, <3>2, <3>3 DEF IInv
  <2>5. CASE /\ Answered(f) /\ waiting' = FALSE
             /\ inputs' = IF state = "INIT" THEN inputs ELSE tx
             /\ Continue(WorkingCounter, Tail(bus)) /\ UNCHANGED sent
    <3>1. WorkingCounter \in Int
      BY DEF WorkingCounter, IInv, TypeOK
    <3>2. buffer'.number \in Nat /\ TypeOK /\ Counting
      BY <2>3 DEF Numbered, IInv
    <3>3. /\ master' \in {"off", "starting", "running", "stopping"}
          /\ sequence' \in 0 .. SEQ_MOD - 1
          /\ lost_in_row' \in 0 .. MAX_LOST_FRAMES
          /\ tries' \in 0 .. START_TRIES
          /\ Counting'
          /\ bus' \in Seq(Frame) /\ Ordered(bus', buffer'.number, sent)
      BY <1>2, <2>3, <2>5, <3>1, <3>2, ContinueKeeps
    <3>4. TypeOK'
      BY <1>3, <2>3, <2>5, <3>2, <3>3 DEF Exchange, TypeOK, machine, galvo
    <3>5. Chain'
      BY <1>3, <2>3, <2>5, <3>3 DEF Exchange, IInv, TypeOK, Numbered, Chain, galvo
    <3>6. TargetIsLatest'
      BY <1>3 DEF Exchange, IInv, TargetIsLatest, galvo
    <3> QED BY <3>3, <3>4, <3>5, <3>6 DEF IInv
  <2> QED BY <1>3, <2>4, <2>5 DEF Exchange
<1>4. CASE WriteAlControl
  <2>1. control' \in Request
    BY <1>2, <1>4 DEF WriteAlControl, Frame
  <2>2. TypeOK'
    BY <1>2, <1>4, <2>1 DEF WriteAlControl, IInv, TypeOK, program, esc, machine, galvo
  <2>3. Counting' /\ Chain' /\ TargetIsLatest'
    BY <1>2, <1>4 DEF WriteAlControl, IInv, Counting, Chain, TargetIsLatest, program, esc, galvo
  <2> QED BY <2>2, <2>3 DEF IInv
<1>5. CASE Lose
  <2>1. TypeOK'
    BY <1>2, <1>5 DEF Lose, IInv, TypeOK, program, slave, esc, machine, galvo
  <2>2. Counting' /\ Chain' /\ TargetIsLatest'
    BY <1>2, <1>5 DEF Lose, IInv, Counting, Chain, TargetIsLatest, program, slave, esc, galvo
  <2> QED BY <2>1, <2>2 DEF IInv
<1> QED BY <1>3, <1>4, <1>5 DEF Bus

(* The process data interrupt and TIM7. *)
LEMMA InterruptsKeep == IInv /\ (PDI_Isr \/ TimerTick) => IInv'
<1> SUFFICES ASSUME IInv, PDI_Isr \/ TimerTick PROVE IInv'
  OBVIOUS
<1> USE DEF IInv
<1>1. CASE ReadOutputs
  <2>1. /\ Obj0x7010' \in Numbered /\ target' \in Pdo /\ target' = Obj0x7010'.pdo
        /\ Obj0x7010.number <= Obj0x7010'.number /\ Obj0x7010'.number <= buffer.number
    <3>1. CASE event /\ state = "OP"
      <4>1. Obj0x7010' = buffer /\ buffer \in Numbered /\ target \in Pdo
            /\ Obj0x7010.number <= buffer.number
        BY <1>1, <3>1 DEF ReadOutputs, MapOutputs, TypeOK, Chain
      <4>2. buffer.pdo \in Pdo /\ buffer.number \in Nat
        BY <4>1 DEF Numbered
      <4>3. target' = buffer.pdo
        <5>1. CASE IsNew(buffer.pdo)
          BY <1>1, <3>1, <5>1 DEF ReadOutputs, MapOutputs
        <5>2. CASE ~IsNew(buffer.pdo)
          <6>1. target' = target
            BY <1>1, <3>1, <5>2 DEF ReadOutputs, MapOutputs
          <6>2. target = buffer.pdo
            BY <4>1, <4>2, <5>2 DEF IsNew, Pdo
          <6> QED BY <6>1, <6>2
        <5> QED BY <5>1, <5>2
      <4> QED BY <4>1, <4>2, <4>3
    <3>2. CASE ~(event /\ state = "OP")
      BY <1>1, <3>2 DEF ReadOutputs, TypeOK, Chain, TargetIsLatest, Numbered
    <3> QED BY <3>1, <3>2
  <2>2. TypeOK'
    BY <1>1, <2>1 DEF ReadOutputs, At, TypeOK, program
  <2>3. Counting' /\ TargetIsLatest'
    BY <1>1, <2>1 DEF ReadOutputs, Counting, TargetIsLatest, program
  <2>4. Chain'
    BY <1>1, <2>1 DEF ReadOutputs, TypeOK, Numbered, Chain, program
  <2> QED BY <2>2, <2>3, <2>4
<1>2. CASE WriteInputs
  <2>1. InputPdo \in [number : Nat, sequence : 0 .. SEQ_MOD - 1, enabled : BOOLEAN]
    BY DEF InputPdo, TypeOK, Numbered, Pdo
  <2>2. TypeOK'
    BY <1>2, <2>1 DEF WriteInputs, At, TypeOK, program, esc, machine, galvo
  <2>3. Counting' /\ Chain' /\ TargetIsLatest'
    BY <1>2 DEF WriteInputs, InputPdo, TypeOK, Numbered, Counting, Chain, TargetIsLatest,
                program, esc, galvo
  <2> QED BY <2>2, <2>3
<1>3. CASE DropOutputs
  BY <1>3 DEF DropOutputs, At, TypeOK, Counting, Chain, TargetIsLatest, program, machine, galvo
<1>4. CASE ACK_ESC_INT
  BY <1>4 DEF ACK_ESC_INT, At, TypeOK, Counting, Chain, TargetIsLatest, program, machine, galvo
<1>5. CASE TimerTick
  <2>1. target.enable \in BOOLEAN
    BY DEF TypeOK, Pdo
  <2> QED BY <1>5, <2>1 DEF TimerTick, TypeOK, Counting, Chain, TargetIsLatest, program, esc, machine
<1> QED BY <1>1, <1>2, <1>3, <1>4, <1>5 DEF PDI_Isr

(* The slave's main loop. *)
LEMMA MainLoopKeeps == IInv /\ (MainLoop \/ CheckIfEcatError) => IInv'
<1> SUFFICES ASSUME IInv, MainLoop \/ CheckIfEcatError PROVE IInv'
  OBVIOUS
<1> USE DEF IInv
<1>1. CASE HandleAlControl
  BY <1>1 DEF HandleAlControl, TypeOK, Counting, Chain, TargetIsLatest, program, galvo
<1>2. CASE HandlePending
  BY <1>2 DEF HandlePending, TypeOK, Counting, Chain, TargetIsLatest, program, esc, galvo
<1>3. CASE RefreshInputs
  <2>1. InputPdo \in [number : Nat, sequence : 0 .. SEQ_MOD - 1, enabled : BOOLEAN]
    BY DEF InputPdo, TypeOK, Numbered, Pdo
  <2>2. TypeOK'
    BY <1>3, <2>1 DEF RefreshInputs, TypeOK, program, esc, machine, galvo
  <2>3. Counting' /\ Chain' /\ TargetIsLatest'
    BY <1>3 DEF RefreshInputs, InputPdo, TypeOK, Numbered, Counting, Chain, TargetIsLatest,
                program, esc, galvo
  <2> QED BY <2>2, <2>3
<1>4. CASE CheckIfEcatError
  BY <1>4 DEF CheckIfEcatError, TypeOK, Counting, Chain, TargetIsLatest, program, galvo
<1> QED BY <1>1, <1>2, <1>3, <1>4 DEF MainLoop

(* Every step keeps the invariant. *)
LEMMA StepKeeps == IInv /\ [Next]_vars => IInv'
<1>1. IInv /\ UNCHANGED vars => IInv'
  BY DEF vars, program, slave, esc, machine, galvo, IInv, TypeOK, Counting, Chain, TargetIsLatest
<1> QED BY <1>1, MasterKeeps, ProgramKeeps, BusKeeps, InterruptsKeep, MainLoopKeeps DEF Next

LEMMA Invariance == Spec => []IInv
<1> QED BY InitInvariant, StepKeeps, PTL DEF Spec

-----------------------------------------------------------------------------
(* The variables of the master, the bus and the slave keep their ranges in *)
(* every run: GalvoSystem's type invariant.                                *)
THEOREM TypeCorrect == Spec => []TypeOK
<1>1. IInv => TypeOK
  BY DEF IInv
<1> QED BY <1>1, Invariance, PTL

(* GalvoXY2_SetTarget, which passes over commands it takes for old, never  *)
(* passes over one it should take: the target is the last output PDO       *)
(* mapped, wherever the sequence number wraps.                             *)
THEOREM TargetFollows == Spec => []TargetIsLatest
<1>1. IInv => TargetIsLatest
  BY DEF IInv
<1> QED BY <1>1, Invariance, PTL

-----------------------------------------------------------------------------
(* What changes the numbers of the stream, action by action. *)
LEMMA ProgramRefines == IInv /\ (Configure \/ Master \/ Kill)
                          => Stream!Next \/ UNCHANGED Stream!stream
<1> SUFFICES ASSUME IInv, Configure \/ Master \/ Kill
             PROVE  Stream!Next \/ UNCHANGED Stream!stream
  OBVIOUS
<1>1. CASE Configure
  <2>1. Stream!Forget
    BY <1>1 DEF Configure, NoInputs, galvo, Stream!Forget
  <2> QED BY <2>1 DEF Stream!Next
<1>2. CASE SendZeroes \/ SendSample \/ SendStop
  <2>1. PICK pdo : SendProcessData(pdo)
    BY <1>2 DEF SendZeroes, SendSample, SendStop
  <2>2. Stream!Send
    BY <2>1 DEF SendProcessData, slave, galvo, Stream!Send
  <2> QED BY <2>2 DEF Stream!Next
<1>3. CASE EndTrajectory \/ Timeout \/ Kill
  BY <1>3 DEF EndTrajectory, Timeout, Kill, slave, galvo, Stream!stream
<1> QED BY <1>1, <1>2, <1>3 DEF Master

LEMMA BusRefines == IInv /\ Bus => Stream!Next \/ UNCHANGED Stream!stream
<1> SUFFICES ASSUME IInv, Bus PROVE Stream!Next \/ UNCHANGED Stream!stream
  OBVIOUS
<1>1. /\ bus # << >> /\ bus \in Seq(Frame) /\ sent \in Nat /\ buffer.number \in Nat
      /\ inputs.number \in Nat /\ tx.number \in Nat /\ Obj0x7010.number \in Nat
      /\ Ordered(bus, buffer.number, sent)
      /\ inputs.number <= tx.number /\ tx.number <= Obj0x7010.number
      /\ Obj0x7010.number <= buffer.number
  BY DEF Bus, Exchange, WriteAlControl, Lose, IInv, TypeOK, Chain, Numbered
<1>2. CASE Exchange
  <2>1. UNCHANGED <<Obj0x7010, sent>>
    BY <1>2 DEF Exchange, program, galvo
  <2>2. CASE UNCHANGED inputs
    BY <2>1, <2>2 DEF Stream!stream
  <2>3. CASE inputs' = tx /\ tx.number # inputs.number
    <3>1. Head(bus).request = "none"
      BY <1>2 DEF Exchange
    <3>2. buffer.number < Head(bus).number /\ Head(bus).number <= sent
          /\ Head(bus).number \in Nat
      BY <1>1, <3>1, OrderedTail DEF Frame
    <3>3. Stream!Confirm
      BY <1>1, <2>1, <2>3, <3>2 DEF Stream!Confirm
    <3> QED BY <3>3 DEF Stream!Next
  <2>4. CASE inputs' = tx /\ tx.number = inputs.number
    BY <2>1, <2>4 DEF Stream!stream
  <2> QED BY <1>2, <2>2, <2>3, <2>4 DEF Exchange
<1>3. CASE WriteAlControl \/ Lose
  BY <1>3 DEF WriteAlControl, Lose, program, slave, galvo, Stream!stream
<1> QED BY <1>2, <1>3 DEF Bus

LEMMA SlaveRefines ==
  IInv /\ (PDI_Isr \/ TimerTick \/ MainLoop \/ CheckIfEcatError)
    => Stream!Next \/ UNCHANGED Stream!stream
<1> SUFFICES ASSUME IInv, PDI_Isr \/ TimerTick \/ MainLoop \/ CheckIfEcatError
             PROVE  Stream!Next \/ UNCHANGED Stream!stream
  OBVIOUS
<1>1. CASE ReadOutputs
  <2>1. UNCHANGED <<sent, inputs>>
    BY <1>1 DEF ReadOutputs, program
  <2>2. /\ sent \in Nat /\ buffer.number \in Nat /\ Obj0x7010.number \in Nat
        /\ Obj0x7010.number <= buffer.number /\ buffer.number <= sent
    BY DEF IInv, TypeOK, Chain, Numbered
  <2>3. CASE Obj0x7010'.number = Obj0x7010.number
    BY <2>1, <2>3 DEF Stream!stream
  <2>4. CASE Obj0x7010'.number # Obj0x7010.number
    <3>1. Obj0x7010' = buffer
      BY <1>1, <2>4 DEF ReadOutputs, MapOutputs
    <3>2. Stream!Apply
      BY <2>1, <2>2, <2>4, <3>1 DEF Stream!Apply
    <3> QED BY <3>2 DEF Stream!Next
  <2> QED BY <2>3, <2>4
<1>2. CASE WriteInputs \/ DropOutputs \/ ACK_ESC_INT \/ TimerTick
  BY <1>2 DEF WriteInputs, DropOutputs, ACK_ESC_INT, TimerTick, program, galvo, Stream!stream
<1>3. CASE MainLoop \/ CheckIfEcatError
  BY <1>3 DEF MainLoop, HandleAlControl, HandlePending, RefreshInputs, CheckIfEcatError,
              program, galvo, Stream!stream
<1> QED BY <1>1, <1>2, <1>3 DEF PDI_Isr

(* The system implements SampleStream: whatever is lost, late, dropped or  *)
(* sent by a new master, the galvo takes the commands in order, none       *)
(* twice, and the slave confirms only what it took.                        *)
THEOREM Refinement == Spec => DeliversInOrder
<1>1. Init => Stream!Init
  BY DEF Init, NoInputs, Stream!Init
<1>2. IInv /\ [Next]_vars => [Stream!Next]_Stream!stream
  <2>1. CASE UNCHANGED vars
    BY <2>1 DEF vars, program, slave, galvo, Stream!stream
  <2> QED BY <2>1, ProgramRefines, BusRefines, SlaveRefines DEF Next
<1> QED BY <1>1, <1>2, Invariance, PTL DEF Spec, DeliversInOrder, Stream!Spec

=============================================================================
