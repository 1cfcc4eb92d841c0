-------------------------- MODULE PdiInterruptProofs --------------------------
(***************************************************************************)
(* Theorems about PdiInterrupt for every number of PDOs and every width of *)
(* the counter of exceeded cycles.                                         *)
(***************************************************************************)
EXTENDS PdiInterrupt, TLAPS

(* The answer is behind only while outputs are on their way to it. *)
EchoInv ==
  /\ applied <= pdo /\ echo <= applied
  /\ isr \notin {"print", "inputs"} => echo = applied

IInv == TypeOK /\ EchoInv /\ PendingIsEntered

-----------------------------------------------------------------------------
LEMMA InitInvariant == Init => IInv
<1> SUFFICES ASSUME Init PROVE IInv
  OBVIOUS
<1>1. TypeOK
  <2>1. /\ pdo \in 0 .. MAX_PDO /\ applied \in 0 .. MAX_PDO /\ echo \in 0 .. MAX_PDO
        /\ u16CycleExceededCounter \in 0 .. COUNTER_MOD - 1
    BY PdiAssumptions DEF Init
  <2>2. {event, exti, nvic, tim7, lost, u8SyncError} \subseteq BOOLEAN
    BY DEF Init
  <2> QED BY <2>1, <2>2 DEF Init, TypeOK, Phase
<1>2. EchoInv /\ PendingIsEntered
  BY DEF Init, EchoInv, PendingIsEntered
<1> QED BY <1>1, <1>2 DEF IInv

LEMMA StepKeeps == IInv /\ [Next]_vars => IInv'
<1> SUFFICES ASSUME IInv, [Next]_vars PROVE IInv'
  OBVIOUS
<1> USE DEF IInv, TypeOK, EchoInv, PendingIsEntered, Phase, At, hardware, timer, report
<1>1. CASE MasterWrites
  <2>1. pdo' \in 0 .. MAX_PDO /\ pdo' = pdo + 1
    BY <1>1, PdiAssumptions DEF MasterWrites
  <2>2. {event', exti', nvic'} \subseteq BOOLEAN
    BY <1>1 DEF MasterWrites
  <2> QED BY <1>1, <2>1, <2>2 DEF MasterWrites
<1>2. CASE EXTI3_IRQHandler
  BY <1>2 DEF EXTI3_IRQHandler
<1>3. CASE HAL_GPIO_EXTI_IRQHandler
  <2>1. isr = "entered" /\ isr' \in {"check", "idle"} /\ exti' = FALSE /\ ~exti'
    BY <1>3 DEF HAL_GPIO_EXTI_IRQHandler
  <2>2. UNCHANGED <<pdo, event, nvic, timer, report, applied, echo>>
    BY <1>3 DEF HAL_GPIO_EXTI_IRQHandler
  <2>3. TypeOK'
    BY <2>1, <2>2
  <2>4. EchoInv' /\ PendingIsEntered'
    BY <2>1, <2>2
  <2> QED BY <2>3, <2>4
<1>4. CASE ReadOutputs
  <2>1. isr = "check" /\ isr' \in {"print", "inputs"} /\ applied' \in {applied, pdo}
    BY <1>4 DEF ReadOutputs
  <2>2. event' = FALSE /\ UNCHANGED <<pdo, exti, nvic, timer, report, echo>>
    BY <1>4 DEF ReadOutputs
  <2>3. TypeOK'
    BY <2>1, <2>2
  <2>4. EchoInv' /\ PendingIsEntered'
    BY <2>1, <2>2
  <2> QED BY <2>3, <2>4
<1>5. CASE PrintOutputs
  BY <1>5 DEF PrintOutputs
<1>6. CASE WriteInputs
  BY <1>6 DEF WriteInputs
<1>7. CASE CheckCycle
  <2>1. u16CycleExceededCounter' \in 0 .. COUNTER_MOD - 1
    BY <1>7, PdiAssumptions DEF CheckCycle
  <2> QED BY <1>7, <2>1 DEF CheckCycle
<1>8. CASE DropOutputs
  BY <1>8 DEF DropOutputs
<1>9. CASE COE_UpdateSyncErrorStatus
  BY <1>9 DEF COE_UpdateSyncErrorStatus
<1>10. CASE ACK_ESC_INT
  BY <1>10 DEF ACK_ESC_INT
<1>11. CASE Tim7Period
  BY <1>11 DEF Tim7Period
<1>12. CASE TIM7_IRQHandler
  BY <1>12 DEF TIM7_IRQHandler
<1>13. CASE UNCHANGED vars
  BY <1>13 DEF vars
<1> QED BY <1>1, <1>2, <1>3, <1>4, <1>5, <1>6, <1>7, <1>8, <1>9, <1>10, <1>11, <1>12,
           <1>13 DEF Next, Isr

LEMMA Invariance == Spec => []IInv
<1> QED BY InitInvariant, StepKeeps, PTL DEF Spec

(* PdiInterrupt's type invariant: whatever is written during the           *)
(* interrupt, the numbers and the counter keep their ranges.               *)
THEOREM TypeCorrect == Spec => []TypeOK
<1>1. IInv => TypeOK
  BY DEF IInv
<1> QED BY <1>1, Invariance, PTL

(* The sequence number in the input PDO is that of a target               *)
(* GalvoXY2_SetTarget was given, and the last one when the interrupt is    *)
(* over.                                                                   *)
THEOREM EchoIsApplied == Spec => []EchoConfirms
<1>1. IInv => EchoConfirms
  BY DEF IInv, EchoInv, EchoConfirms
<1> QED BY <1>1, Invariance, PTL

(* The two clearings of EXTI line 3 never leave a pending line that the    *)
(* NVIC would not enter.                                                   *)
THEOREM PendingEntered == Spec => []PendingIsEntered
<1>1. IInv => PendingIsEntered
  BY DEF IInv
<1> QED BY <1>1, Invariance, PTL

-----------------------------------------------------------------------------
(* Every exceeded cycle costs a PDO of its own, so the counter cannot wrap *)
(* before COUNTER_MOD of them, and is above zero once outputs are gone.    *)
LossInv ==
  /\ u16CycleExceededCounter <= pdo
  /\ event /\ isr # "drop" => u16CycleExceededCounter < pdo
  /\ isr = "drop" => u16CycleExceededCounter > 0
  /\ ~event /\ applied # pdo => u16CycleExceededCounter > 0
  /\ isr \notin {"drop", "error"} => (u8SyncError <=> u16CycleExceededCounter > 0)

LEMMA LossStep ==
  ASSUME MAX_PDO < COUNTER_MOD, IInv, LossInv, [Next]_vars
  PROVE  LossInv'
<1> USE DEF LossInv, IInv, TypeOK, At, hardware, timer, report
<1>1. CASE MasterWrites
  BY <1>1 DEF MasterWrites
<1>2. CASE EXTI3_IRQHandler
  BY <1>2 DEF EXTI3_IRQHandler
<1>3. CASE HAL_GPIO_EXTI_IRQHandler
  BY <1>3 DEF HAL_GPIO_EXTI_IRQHandler
<1>4. CASE ReadOutputs
  BY <1>4 DEF ReadOutputs
<1>5. CASE PrintOutputs
  BY <1>5 DEF PrintOutputs
<1>6. CASE WriteInputs
  BY <1>6 DEF WriteInputs
<1>7. CASE CheckCycle
  <2>1. CASE event
    <3>1. u16CycleExceededCounter + 1 < COUNTER_MOD
      BY <1>7, <2>1, PdiAssumptions DEF CheckCycle
    <3>2. u16CycleExceededCounter' = u16CycleExceededCounter + 1
      BY <1>7, <2>1, <3>1, PdiAssumptions DEF CheckCycle
    <3> QED BY <1>7, <2>1, <3>2 DEF CheckCycle
  <2>2. CASE ~event
    BY <1>7, <2>2 DEF CheckCycle
  <2> QED BY <2>1, <2>2
<1>8. CASE DropOutputs
  BY <1>8 DEF DropOutputs
<1>9. CASE COE_UpdateSyncErrorStatus
  BY <1>9 DEF COE_UpdateSyncErrorStatus
<1>10. CASE ACK_ESC_INT
  BY <1>10 DEF ACK_ESC_INT
<1>11. CASE Tim7Period
  BY <1>11 DEF Tim7Period
<1>12. CASE TIM7_IRQHandler
  BY <1>12 DEF TIM7_IRQHandler
<1>13. CASE UNCHANGED vars
  BY <1>13 DEF vars
<1> QED BY <1>1, <1>2, <1>3, <1>4, <1>5, <1>6, <1>7, <1>8, <1>9, <1>10, <1>11, <1>12,
           <1>13 DEF Next, Isr

(* As long as u16CycleExceededCounter cannot wrap, outputs that are gone   *)
(* from SM2 and never reached the galvo are reported as a sync error.      *)
THEOREM LossReported ==
  ASSUME MAX_PDO < COUNTER_MOD
  PROVE  Spec => []LossIsReported
<1>1. Init => LossInv
  <2> SUFFICES ASSUME Init PROVE LossInv
    OBVIOUS
  <2>1. ~event /\ isr = "idle" /\ ~u8SyncError
    BY DEF Init
  <2>2. pdo = 0 /\ applied = 0 /\ u16CycleExceededCounter = 0
    BY DEF Init
  <2> QED BY <2>1, <2>2 DEF LossInv
<1>2. IInv /\ LossInv /\ [Next]_vars => LossInv'
  BY LossStep
<1>3. LossInv => LossIsReported
  BY DEF LossInv, LossIsReported
<1> QED BY <1>1, <1>2, <1>3, Invariance, PTL DEF Spec

=============================================================================
