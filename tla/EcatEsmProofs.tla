---------------------------- MODULE EcatEsmProofs ----------------------------
(***************************************************************************)
(* Theorems about EcatEsm for every timeout, every set of synchronisation  *)
(* types and every set of requests.                                        *)
(***************************************************************************)
EXTENDS EcatEsm, TLAPS

(* The handlers an outcome of AL_ControlInd calls fit the states it        *)
(* connects, and its code tells of its error.                              *)
Fits(from, o) ==
  /\ o.state \in State /\ o.code \in Code /\ o.err \in BOOLEAN /\ o.pending \in BOOLEAN
  /\ from = "OP" /\ ~o.stopOutput <=> o.state = "OP"
  /\ (from \in {"SAFEOP", "OP"} /\ ~o.stopInput) \/ o.startInput
       <=> o.state \in {"SAFEOP", "OP"}
  /\ (from # "INIT" /\ ~o.stopMailbox) \/ o.startMailbox <=> o.state # "INIT"
  /\ o.state \in {"INIT", "PREOP"} =>
       o.stopInput \/ (from \in {"INIT", "PREOP"} /\ ~o.enableSm2)
  /\ o.startInput => from = "PREOP"
  /\ o.pending => from = "SAFEOP" /\ o.state = "SAFEOP" /\ ~o.err
  /\ o.err <=> o.code # "NOERROR"
  /\ o.state = "OP" => ~o.err

(* The invariant, first of what the slave's handlers change.  OP is never  *)
(* an error state.                                                         *)
Local ==
  /\ alStatus \in [state : State, err : BOOLEAN, code : Code]
  /\ nAlStatus \in [state : State, err : BOOLEAN]
  /\ EsmTimeoutCounter \in -1 .. ESM_TIMEOUT
  /\ {outputEvent, sm2Disabled, bEcatWaitForAlControlRes, bEcatFirstOutputsReceived,
      bEcatOutputUpdateRunning, bEcatInputUpdateRunning, bEscIntEnabled, bMbxRunning,
      EcatWdValue} \subseteq BOOLEAN
  /\ HandlersMatchState /\ RegisterAgrees /\ PendingArmed /\ ErrorHasCode
  /\ nAlStatus.state = "OP" => ~nAlStatus.err

(* A request that ECAT_Main has seen is still there when it is handled. *)
Shared ==
  /\ control \in Request \cup {NoRequest}
  /\ smEnabled \in SUBSET Channel /\ smChanged \in SUBSET Channel
  /\ {wdExpired, fresh} \subseteq BOOLEAN
  /\ phase \in Phase
  /\ seen \in [sm1 : BOOLEAN, control : BOOLEAN, change : BOOLEAN]
  /\ seen.control => control \in Request

IInv == Local /\ Shared

-----------------------------------------------------------------------------
(* The outcomes, one kind after the other. *)
LEMMA FallBackFits ==
  ASSUME NEW from \in State, NEW req,
         NEW code \in {"INVALIDMBXCFGINPREOP", "INVALIDSMOUTCFG"}
  PROVE  Fits(from, FallBack(from, req, code)) /\ FallBack(from, req, code).state # "OP"
<1> DEFINE o == FallBack(from, req, code)
<1>1. o.err = TRUE /\ o.code = code /\ o.pending = FALSE
      /\ ~o.startInput /\ ~o.startMailbox /\ ~o.enableSm2
  BY DEF FallBack, Fails, Remain
<1>2. /\ o.stopOutput <=> from = "OP"
      /\ o.stopInput <=> from \in {"SAFEOP", "OP"}
      /\ o.stopMailbox <=> from # "INIT" /\ code = "INVALIDMBXCFGINPREOP"
  BY DEF FallBack, Fails, Remain
<1>3. o.state = CASE from = "INIT" -> "INIT"
                  [] from # "INIT" /\ code = "INVALIDMBXCFGINPREOP" -> "INIT"
                  [] OTHER -> "PREOP"
  BY DEF FallBack, Fails, Remain
<1> HIDE DEF o
<1> QED BY <1>1, <1>2, <1>3 DEF Fits, o, State, Code

LEMMA StartMailboxFits == ASSUME NEW o \in StartMailbox PROVE Fits("INIT", o)
<1>1. ~o.pending /\ o.pending \in BOOLEAN /\ o.err \in BOOLEAN
      /\ ~o.startInput /\ ~o.enableSm2 /\ (o.err <=> ~o.startMailbox)
  BY DEF StartMailbox, Fails, Remain
<1>2. /\ o.state = (IF o.startMailbox THEN "PREOP" ELSE "INIT")
      /\ o.code = (IF o.startMailbox THEN "NOERROR" ELSE "INVALIDMBXCFGINPREOP")
  BY DEF StartMailbox, Fails, Remain
<1> QED BY <1>1, <1>2 DEF Fits, State, Code

LEMMA StartInputsFits == ASSUME NEW o \in StartInputs PROVE Fits("PREOP", o)
<1>1. ~o.pending /\ o.pending \in BOOLEAN /\ o.err \in BOOLEAN
      /\ ~o.stopMailbox /\ ~o.startMailbox
      /\ (o.err <=> ~o.startInput) /\ (o.enableSm2 <=> o.startInput)
  BY DEF StartInputs, Fails, Remain
<1>2. /\ o.state = (IF o.startInput THEN "SAFEOP" ELSE "PREOP")
      /\ o.code = (IF o.startInput THEN "NOERROR" ELSE "INVALIDSMOUTCFG")
  BY DEF StartInputs, Fails, Remain
<1> QED BY <1>1, <1>2 DEF Fits, State, Code

LEMMA StartOutputsFits == ASSUME NEW o \in StartOutputs PROVE Fits("SAFEOP", o)
BY DEF StartOutputs, Remain, Fits, State, Code

LEMMA RefuseMappingFits == Fits("PREOP", RefuseMapping)
BY DEF RefuseMapping, Fails, Remain, Fits, State, Code

LEMMA StepDownFits ==
  ASSUME NEW from \in State, NEW req \in State, Rank[req] < Rank[from],
         NEW code \in {"NOERROR", "SMWATCHDOG"}, NEW o \in StepDown(from, req, code)
  PROVE  Fits(from, o) /\ o.state = req
<1>1. /\ o.pending = FALSE /\ o.state = req /\ o.code = code
      /\ o.err \in BOOLEAN /\ (o.err <=> code # "NOERROR")
      /\ ~o.startInput /\ ~o.startMailbox /\ ~o.enableSm2
  BY DEF StepDown, Fails, Remain
<1>2. /\ o.stopOutput <=> from = "OP"
      /\ o.stopInput <=> from \in {"SAFEOP", "OP"} /\ req \in {"INIT", "PREOP"}
      /\ o.stopMailbox <=> req = "INIT"
  BY DEF StepDown, Fails, Remain
<1>3. /\ req # "OP" /\ from # "INIT" /\ req # from
      /\ req = "SAFEOP" => from = "OP"
      /\ from = "PREOP" => req = "INIT"
  BY DEF Rank, State
<1> QED BY <1>1, <1>2, <1>3 DEF Fits, State, Code

LEMMA ConfirmFits ==
  ASSUME NEW from \in State, NEW o \in Confirm(from)
  PROVE  Fits(from, o) /\ o.state = from
<1>1. /\ o.pending = FALSE /\ o.err = FALSE /\ o.code = "NOERROR" /\ o.state = from
      /\ ~o.stopOutput /\ ~o.stopInput /\ ~o.startInput /\ ~o.startMailbox /\ ~o.stopMailbox
      /\ o.enableSm2 <=> from \in {"SAFEOP", "OP"}
  BY DEF Confirm, Remain
<1> QED BY <1>1 DEF Fits, State, Code

LEMMA RefuseFits ==
  ASSUME NEW from \in State, NEW req, NEW o \in Refuse(from, req)
  PROVE  Fits(from, o)
<1>1. /\ o.pending = FALSE /\ o.err = TRUE /\ o.code = "INVALIDALCONTROL"
      /\ o.state = IF from = "OP" THEN "SAFEOP" ELSE from
  BY DEF Refuse, Fails, Remain
<1>2. /\ o.stopOutput <=> from = "OP"
      /\ ~o.stopInput /\ ~o.startInput /\ ~o.startMailbox /\ ~o.stopMailbox /\ ~o.enableSm2
  BY DEF Refuse, Fails, Remain
<1> QED BY <1>1, <1>2 DEF Fits, State, Code

(* Every outcome fits; a request for INIT leads to INIT or stays below, and *)
(* a slave that leaves OP for SAFEOP leaves OP.                            *)
LEMMA OutcomesFit ==
  ASSUME NEW from \in State, NEW req, NEW code \in {"NOERROR", "SMWATCHDOG"},
         NEW o \in Outcomes(from, req, code)
  PROVE  /\ Fits(from, o)
         /\ req = "INIT" => o.state = "INIT"
         /\ from = "OP" /\ req = "SAFEOP" => o.state # "OP"
<1> DEFINE fault == CheckSmSettings(from, req)
<1>1. /\ fault \in {"NOERROR", "INVALIDMBXCFGINPREOP", "INVALIDSMOUTCFG"}
      /\ req = "INIT" => fault = "NOERROR"
  BY DEF CheckSmSettings, ChecksSettings, ChecksMailbox, ChecksProcessData
<1> HIDE DEF fault
<1>2. CASE fault # "NOERROR"
  <2>1. o = FallBack(from, req, fault)
    BY <1>2 DEF Outcomes, fault
  <2> QED BY <1>1, <1>2, <2>1, FallBackFits
<1>3. CASE fault = "NOERROR" /\ req = from
  <2>1. o \in Confirm(from)
    <3>1. ~(Rank[req] < Rank[from])
      BY <1>3 DEF Rank, State
    <3> QED BY <1>3, <3>1 DEF Outcomes, fault
  <2> QED BY <1>3, <2>1, ConfirmFits
<1>4. CASE fault = "NOERROR" /\ from = "INIT" /\ req = "PREOP"
  <2>1. o \in StartMailbox
    BY <1>4 DEF Outcomes, fault, State, Rank
  <2> QED BY <1>4, <2>1, StartMailboxFits
<1>5. CASE fault = "NOERROR" /\ from = "PREOP" /\ req = "SAFEOP"
  <2>1. o \in StartInputs
    BY <1>5 DEF Outcomes, fault, State, Rank
  <2> QED BY <1>5, <2>1, StartInputsFits
<1>6. CASE fault = "NOERROR" /\ from = "SAFEOP" /\ req = "OP"
  <2>1. o \in StartOutputs
    BY <1>6 DEF Outcomes, fault, State, Rank
  <2> QED BY <1>6, <2>1, StartOutputsFits
<1>7. CASE fault = "NOERROR" /\ req \in State /\ Rank[req] < Rank[from]
  <2>1. o \in StepDown(from, req, code)
    <3>1. req # from /\ ~(from = "INIT" /\ req = "PREOP")
          /\ ~(from = "PREOP" /\ req = "SAFEOP") /\ ~(from = "SAFEOP" /\ req = "OP")
      BY <1>7 DEF Rank, State
    <3> QED BY <1>7, <3>1 DEF Outcomes, fault
  <2> QED BY <1>7, <2>1, StepDownFits
<1>8. CASE /\ fault = "NOERROR" /\ req # from
           /\ ~(from = "INIT" /\ req = "PREOP")
           /\ ~(from = "PREOP" /\ req = "SAFEOP") /\ ~(from = "SAFEOP" /\ req = "OP")
           /\ ~(req \in State /\ Rank[req] < Rank[from])
  <2>1. o \in Refuse(from, req)
    BY <1>8 DEF Outcomes, fault
  <2>2. req # "INIT" /\ ~(from = "OP" /\ req = "SAFEOP")
    BY <1>8 DEF Rank, State
  <2> QED BY <2>1, <2>2, RefuseFits
<1> QED BY <1>1, <1>2, <1>3, <1>4, <1>5, <1>6, <1>7, <1>8

-----------------------------------------------------------------------------
(* Carrying out an outcome that fits. *)
LEMMA PerformKeeps ==
  ASSUME Local, NEW o, Fits(nAlStatus.state, o), Perform(o)
  PROVE  Local' /\ nAlStatus'.state = o.state
<1> DEFINE from == nAlStatus.state
<1>1. /\ from \in State /\ nAlStatus.err \in BOOLEAN
      /\ alStatus.state = from
      /\ bEcatOutputUpdateRunning <=> from = "OP"
      /\ bEcatInputUpdateRunning <=> from \in {"SAFEOP", "OP"}
      /\ bMbxRunning <=> from # "INIT"
      /\ EcatWdValue \in BOOLEAN
  BY DEF Local, HandlersMatchState, RegisterAgrees
<1>2. /\ nAlStatus' = [state |-> o.state, err |-> o.err]
      /\ bEcatWaitForAlControlRes' = o.pending
      /\ o.pending => UNCHANGED alStatus
      /\ ~o.pending => alStatus' = [state |-> o.state, err |-> o.err, code |-> o.code]
  BY DEF Perform, SetALStatus, Fits
<1>3. alStatus' \in [state : State, err : BOOLEAN, code : Code]
      /\ nAlStatus' \in [state : State, err : BOOLEAN]
  BY <1>2 DEF Local, Fits
<1>4. EsmTimeoutCounter' \in -1 .. ESM_TIMEOUT /\ (o.pending => EsmTimeoutCounter' >= 0)
  BY EsmAssumptions DEF Perform, Fits
<1>5. /\ bEcatOutputUpdateRunning' = (bEcatOutputUpdateRunning /\ ~o.stopOutput)
      /\ bEcatInputUpdateRunning' = ((bEcatInputUpdateRunning /\ ~o.stopInput) \/ o.startInput)
      /\ bMbxRunning' = ((bMbxRunning /\ ~o.stopMailbox) \/ o.startMailbox)
  BY DEF Perform
<1>6. HandlersMatchState'
  BY <1>1, <1>2, <1>5 DEF HandlersMatchState, Fits
<1>7. /\ sm2Disabled' = ((sm2Disabled /\ ~o.enableSm2) \/ o.disableSm2 \/ o.stopInput)
      /\ outputEvent' = (outputEvent /\ ~sm2Disabled')
      /\ bEcatFirstOutputsReceived' =
           (bEcatFirstOutputsReceived /\ ~(o.stopOutput \/ o.stopInput \/ o.startInput))
  BY DEF Perform
<1>8. EcatWdValue' \in BOOLEAN /\ bEscIntEnabled' \in BOOLEAN
  BY <1>1 DEF Perform
<1>9. {outputEvent', sm2Disabled', bEcatWaitForAlControlRes', bEcatFirstOutputsReceived',
       bEcatOutputUpdateRunning', bEcatInputUpdateRunning', bEscIntEnabled', bMbxRunning',
       EcatWdValue'} \subseteq BOOLEAN
  BY <1>2, <1>5, <1>7, <1>8 DEF Fits
<1>10. RegisterAgrees' /\ PendingArmed' /\ ErrorHasCode'
  <2>1. CASE o.pending
    <3>1. /\ o.state = "SAFEOP" /\ from = "SAFEOP" /\ o.err = FALSE
          /\ bEcatWaitForAlControlRes'
      BY <1>2, <2>1 DEF Fits
    <3>2. UNCHANGED alStatus /\ nAlStatus' = [state |-> "SAFEOP", err |-> FALSE]
      BY <1>2, <2>1, <3>1
    <3> QED BY <1>1, <1>4, <2>1, <3>1, <3>2
            DEF Local, RegisterAgrees, PendingArmed, ErrorHasCode
  <2>2. CASE ~o.pending
    BY <1>2, <2>2 DEF RegisterAgrees, PendingArmed, ErrorHasCode, Fits
  <2> QED BY <2>1, <2>2
<1>11. nAlStatus'.state = o.state /\ (nAlStatus'.state = "OP" => ~nAlStatus'.err)
  BY <1>2 DEF Fits
<1> QED BY <1>3, <1>4, <1>6, <1>9, <1>10, <1>11 DEF Local

(* A request leaves the slave's variables consistent, whoever makes it; an *)
(* error is overcome only with an acknowledgement or on the way to INIT.   *)
LEMMA ControlKeeps ==
  ASSUME Local, smChanged \in SUBSET Channel, NEW req, NEW ack,
         NEW code \in {"NOERROR", "SMWATCHDOG"}, AL_ControlInd(req, ack, code)
  PROVE  /\ Local' /\ smChanged' \in SUBSET Channel
         /\ nAlStatus.err /\ ~ack => UNCHANGED status \/ nAlStatus'.state = "INIT"
         /\ nAlStatus.state = "OP" /\ req = "SAFEOP" => nAlStatus'.state # "OP"
<1>1. CASE ErrorBlocks(req, ack)
  <2>1. nAlStatus.err /\ EsmTimeoutCounter' = -1
        /\ UNCHANGED <<status, bEcatWaitForAlControlRes, running, settings, channels, outputs>>
    BY <1>1 DEF AL_ControlInd, ErrorBlocks
  <2>2. ~bEcatWaitForAlControlRes /\ nAlStatus.state # "OP"
    BY <2>1 DEF Local, PendingArmed
  <2>3. -1 \in -1 .. ESM_TIMEOUT
    BY EsmAssumptions
  <2> QED BY <2>1, <2>2, <2>3 DEF Local, HandlersMatchState, RegisterAgrees, PendingArmed,
                 ErrorHasCode, status, running, settings, channels, outputs
<1>2. CASE ~ErrorBlocks(req, ack)
  <2>1. nAlStatus.err /\ ~ack => req = "INIT"
    BY <1>2 DEF ErrorBlocks
  <2>2. nAlStatus.state \in State
    BY DEF Local
  <2>3. CASE /\ GeneratesMapping(nAlStatus.state, req)
             /\ Perform(RefuseMapping) /\ UNCHANGED smChanged
    <3>1. nAlStatus.state = "PREOP" /\ req = "SAFEOP"
      BY <2>3 DEF GeneratesMapping
    <3> QED BY <2>1, <2>3, <3>1, RefuseMappingFits, PerformKeeps
  <2>4. ASSUME NEW o \in Outcomes(nAlStatus.state, req, code), Perform(o),
               smChanged' = smChanged \ Acknowledged(nAlStatus.state, req)
        PROVE  /\ Local' /\ smChanged' \in SUBSET Channel
               /\ nAlStatus.err /\ ~ack => nAlStatus'.state = "INIT"
               /\ nAlStatus.state = "OP" /\ req = "SAFEOP" => nAlStatus'.state # "OP"
    BY <2>1, <2>2, <2>4, OutcomesFit, PerformKeeps
  <2> QED BY <1>2, <2>3, <2>4 DEF AL_ControlInd
<1> QED BY <1>1, <1>2

-----------------------------------------------------------------------------
LEMMA InitInvariant == Init => IInv
<1> SUFFICES ASSUME Init PROVE IInv
  OBVIOUS
<1>1. alStatus \in [state : State, err : BOOLEAN, code : Code]
      /\ nAlStatus \in [state : State, err : BOOLEAN]
      /\ EsmTimeoutCounter \in -1 .. ESM_TIMEOUT
  BY EsmAssumptions DEF Init, State, Code
<1>2. {outputEvent, sm2Disabled, bEcatWaitForAlControlRes, bEcatFirstOutputsReceived,
       bEcatOutputUpdateRunning, bEcatInputUpdateRunning, bEscIntEnabled, bMbxRunning,
       EcatWdValue, wdExpired, fresh} \subseteq BOOLEAN
  BY DEF Init
<1>3. HandlersMatchState /\ RegisterAgrees /\ PendingArmed /\ ErrorHasCode
  BY DEF Init, HandlersMatchState, RegisterAgrees, PendingArmed, ErrorHasCode
<1>4. Local
  BY <1>1, <1>2, <1>3 DEF Local, Init
<1>5. seen \in [sm1 : BOOLEAN, control : BOOLEAN, change : BOOLEAN] /\ ~seen.control
  BY DEF Init, Unread
<1>6. Shared
  BY <1>2, <1>5 DEF Init, Shared, Phase
<1> QED BY <1>4, <1>6 DEF IInv

(* What the invariant says of the slave's variables depends on them only. *)
LEMMA LocalStays ==
  Local /\ UNCHANGED <<status, pending, running, settings, sm2Disabled, outputs>> => Local'
BY DEF Local, status, pending, running, settings, outputs, HandlersMatchState, RegisterAgrees,
       PendingArmed, ErrorHasCode

(* The same but for the flags of the outputs. *)
LEMMA OutputsStay ==
  ASSUME Local, UNCHANGED <<status, pending, running, settings, sm2Disabled>>,
         bEcatFirstOutputsReceived' \in BOOLEAN, outputEvent' \in BOOLEAN
  PROVE  Local'
BY DEF Local, status, pending, running, settings, HandlersMatchState, RegisterAgrees,
       PendingArmed, ErrorHasCode

(* The master, the ESC and the interrupts. *)
LEMMA BusKeeps ==
  IInv /\ (Master \/ WatchdogExpires \/ PDI_Isr \/ ECAT_CheckTimer) => IInv'
<1> SUFFICES ASSUME IInv, Master \/ WatchdogExpires \/ PDI_Isr \/ ECAT_CheckTimer
             PROVE  Local' /\ Shared'
  BY DEF IInv
<1> USE DEF IInv
<1>1. bEcatFirstOutputsReceived \in BOOLEAN
  BY DEF Local
<1>2. CASE WriteAlControl
  <2>1. Local'
    BY <1>2, LocalStays DEF WriteAlControl, local, channels
  <2>2. Shared'
    BY <1>2 DEF WriteAlControl, Shared, local, channels
  <2> QED BY <2>1, <2>2
<1>3. ASSUME NEW ch \in Channel, WriteSyncManager(ch) PROVE Local' /\ Shared'
  <2>1. Local'
    BY <1>3, LocalStays DEF WriteSyncManager
  <2>2. Shared'
    BY <1>3 DEF WriteSyncManager, Shared
  <2> QED BY <2>1, <2>2
<1>4. CASE WriteOutputs
  <2>1. Local'
    BY <1>1, <1>4, OutputsStay DEF WriteOutputs, channels
  <2>2. Shared'
    BY <1>4 DEF WriteOutputs, Shared, channels
  <2> QED BY <2>1, <2>2
<1>5. CASE WatchdogExpires
  <2>1. Local'
    BY <1>5, LocalStays DEF WatchdogExpires, local, channels
  <2>2. Shared'
    BY <1>5 DEF WatchdogExpires, Shared, local, channels
  <2> QED BY <2>1, <2>2
<1>6. CASE PDI_Isr
  <2>1. Local'
    BY <1>6, OutputsStay DEF PDI_Isr, channels
  <2>2. Shared'
    BY <1>6 DEF PDI_Isr, Shared, bus, channels
  <2> QED BY <2>1, <2>2
<1>7. CASE ECAT_CheckTimer
  <2>1. EsmTimeoutCounter' \in 0 .. ESM_TIMEOUT
    BY <1>7, EsmAssumptions DEF ECAT_CheckTimer, Local
  <2>2. Local'
    BY <1>7, <2>1, EsmAssumptions DEF ECAT_CheckTimer, Local, status, running, settings, channels, outputs,
          HandlersMatchState, RegisterAgrees, PendingArmed, ErrorHasCode
  <2>3. Shared'
    BY <1>7 DEF ECAT_CheckTimer, Shared, bus, channels
  <2> QED BY <2>2, <2>3
<1> QED BY <1>2, <1>3, <1>4, <1>5, <1>6, <1>7 DEF Master

(* AL_ControlRes. *)
LEMMA ResponseKeeps == Local /\ AL_ControlRes => Local' /\ UNCHANGED channels
<1> SUFFICES ASSUME Local, AL_ControlRes PROVE Local' /\ UNCHANGED channels
  OBVIOUS
<1>1. CASE bEcatWaitForAlControlRes /\ RejectPending
  <2>1. nAlStatus.state = "SAFEOP"
    BY <1>1 DEF Local, PendingArmed
  <2>2. /\ alStatus' = [state |-> "SAFEOP", err |-> TRUE, code |-> "SMWATCHDOG"]
        /\ nAlStatus' = [state |-> "SAFEOP", err |-> TRUE]
        /\ bEcatWaitForAlControlRes' = FALSE /\ bEcatFirstOutputsReceived' = FALSE
        /\ bEcatOutputUpdateRunning' = FALSE
        /\ UNCHANGED <<EsmTimeoutCounter, bEcatInputUpdateRunning, bMbxRunning, settings,
                       channels, outputEvent>>
    BY <1>1 DEF RejectPending, SetALStatus
  <2>3. HandlersMatchState' /\ RegisterAgrees' /\ PendingArmed' /\ ErrorHasCode'
    BY <2>1, <2>2 DEF Local, HandlersMatchState, RegisterAgrees, PendingArmed, ErrorHasCode
  <2> QED BY <2>2, <2>3 DEF Local, State, Code, settings, channels
<1>2. CASE bEcatWaitForAlControlRes /\ CompletePending
  <2>1. nAlStatus.state = "SAFEOP"
    BY <1>2 DEF Local, PendingArmed
  <2>2. /\ alStatus' = [state |-> "OP", err |-> FALSE, code |-> "NOERROR"]
        /\ nAlStatus' = [state |-> "OP", err |-> FALSE]
        /\ bEcatWaitForAlControlRes' = FALSE
        /\ bEcatOutputUpdateRunning' = TRUE
        /\ UNCHANGED <<EsmTimeoutCounter, bEcatInputUpdateRunning, bMbxRunning, settings,
                       channels, outputs>>
    BY <1>2 DEF CompletePending, SetALStatus
  <2>3. HandlersMatchState' /\ RegisterAgrees' /\ PendingArmed' /\ ErrorHasCode'
    BY <2>1, <2>2 DEF Local, HandlersMatchState, RegisterAgrees, PendingArmed, ErrorHasCode
  <2> QED BY <2>2, <2>3 DEF Local, State, Code, settings, channels, outputs
<1>3. CASE UNCHANGED local
  BY <1>3, LocalStays DEF local, channels
<1> QED BY <1>1, <1>2, <1>3 DEF AL_ControlRes

(* One round of MainLoop, place by place. *)
LEMMA MainLoopKeeps == IInv /\ MainLoop => IInv'
<1> SUFFICES ASSUME IInv, MainLoop PROVE Local' /\ Shared'
  BY DEF IInv
<1> USE DEF IInv, At
<1>1. CASE PollOutputs
  <2>1. bEcatFirstOutputsReceived' \in BOOLEAN /\ outputEvent' \in BOOLEAN
    BY <1>1 DEF PollOutputs, Local, outputs
  <2>2. Local'
    BY <1>1, <2>1, OutputsStay DEF PollOutputs, channels
  <2>3. Shared'
    BY <1>1 DEF PollOutputs, Shared, Phase, bus, channels
  <2> QED BY <2>2, <2>3
<1>2. CASE ReadSm1Activate
  <2>1. seen' \in [sm1 : BOOLEAN, control : BOOLEAN, change : BOOLEAN] /\ ~seen'.control
    BY <1>2 DEF ReadSm1Activate, Unread
  <2>2. Local'
    BY <1>2, LocalStays DEF ReadSm1Activate
  <2>3. smChanged' \in SUBSET Channel
    BY <1>2 DEF ReadSm1Activate, Shared
  <2>4. Shared'
    BY <1>2, <2>1, <2>3 DEF ReadSm1Activate, Shared, Phase, bus
  <2> QED BY <2>2, <2>4
<1>3. CASE ReadAlEvents
  <2>1. seen' \in [sm1 : BOOLEAN, control : BOOLEAN, change : BOOLEAN]
        /\ (seen'.control <=> control # NoRequest)
    BY <1>3 DEF ReadAlEvents, Shared
  <2>2. Local'
    BY <1>3, LocalStays DEF ReadAlEvents, local, channels
  <2>3. Shared'
    BY <1>3, <2>1 DEF ReadAlEvents, Shared, Phase, bus, local, channels
  <2> QED BY <2>2, <2>3
<1>4. CASE HandleAlControl
  <2>1. CASE seen.control /\ ~bEcatWaitForAlControlRes
    <3>1. /\ AL_ControlInd(control.state, control.ack, "NOERROR")
          /\ control' = NoRequest
          /\ seen' = [seen EXCEPT !.control = FALSE, !.change = FALSE]
      BY <1>4, <2>1 DEF HandleAlControl
    <3>2. Local' /\ smChanged' \in SUBSET Channel
      BY <3>1, ControlKeeps DEF Shared
    <3>3. Shared'
      BY <1>4, <3>1, <3>2 DEF HandleAlControl, Shared, Phase
    <3> QED BY <3>2, <3>3
  <2>2. CASE ~(seen.control /\ ~bEcatWaitForAlControlRes)
    <3>1. UNCHANGED <<local, control, seen>>
      BY <1>4, <2>2 DEF HandleAlControl
    <3>2. Local'
      BY <3>1, LocalStays DEF local, channels
    <3>3. Shared'
      BY <1>4, <3>1 DEF HandleAlControl, Shared, Phase, local, channels
    <3> QED BY <3>2, <3>3
  <2> QED BY <2>1, <2>2
<1>5. CASE HandleSmChange
  <2>1. AL_ControlInd(nAlStatus.state, FALSE, "NOERROR") \/ UNCHANGED local
    BY <1>5 DEF HandleSmChange
  <2>2. Local' /\ smChanged' \in SUBSET Channel
    BY <2>1, ControlKeeps, LocalStays DEF Shared, local, channels
  <2>3. seen' \in [sm1 : BOOLEAN, control : BOOLEAN, change : BOOLEAN] /\ ~seen'.control
    BY <1>5 DEF HandleSmChange, Shared, Unread
  <2>4. Shared'
    BY <1>5, <2>2, <2>3 DEF HandleSmChange, Shared, Phase, bus
  <2> QED BY <2>2, <2>4
<1>6. CASE HandlePending
  <2>1. Local' /\ UNCHANGED channels
    BY <1>6, ResponseKeeps DEF HandlePending
  <2>2. Shared'
    BY <1>6, <2>1 DEF HandlePending, Shared, Phase, bus, channels
  <2> QED BY <2>1, <2>2
<1>7. CASE CheckMailboxEnabled
  <2>1. AL_ControlInd(nAlStatus.state, FALSE, "NOERROR") \/ UNCHANGED local
    BY <1>7 DEF CheckMailboxEnabled
  <2>2. Local' /\ smChanged' \in SUBSET Channel
    BY <2>1, ControlKeeps, LocalStays DEF Shared, local, channels
  <2>3. seen' \in [sm1 : BOOLEAN, control : BOOLEAN, change : BOOLEAN] /\ ~seen'.control
    BY <1>7 DEF CheckMailboxEnabled, Shared, Unread
  <2>4. Shared'
    BY <1>7, <2>2, <2>3 DEF CheckMailboxEnabled, Shared, Phase, bus
  <2> QED BY <2>2, <2>4
<1>8. CASE CheckIfEcatError
  <2>1. ASSUME AL_ControlInd("SAFEOP", FALSE, "SMWATCHDOG")
        PROVE  Local' /\ smChanged' \in SUBSET Channel
    BY <2>1, ControlKeeps DEF Shared
  <2>2. ASSUME bEcatFirstOutputsReceived' = FALSE,
               UNCHANGED <<status, pending, running, settings, channels, outputEvent>>
        PROVE  Local' /\ smChanged' \in SUBSET Channel
    BY <2>2, OutputsStay DEF Local, Shared, channels
  <2>3. ASSUME UNCHANGED local
        PROVE  Local' /\ smChanged' \in SUBSET Channel
    BY <2>3, LocalStays DEF Shared, local, channels
  <2>4. Local' /\ smChanged' \in SUBSET Channel
    BY <1>8, <2>1, <2>2, <2>3 DEF CheckIfEcatError, Shared, channels, local
  <2>5. fresh' \in BOOLEAN
    BY <1>8 DEF CheckIfEcatError, Shared
  <2>6. Shared'
    BY <1>8, <2>4, <2>5 DEF CheckIfEcatError, Shared, Phase
  <2> QED BY <2>4, <2>6
<1> QED BY <1>1, <1>2, <1>3, <1>4, <1>5, <1>6, <1>7, <1>8 DEF MainLoop

LEMMA Invariance == Spec => []IInv
<1>1. IInv /\ UNCHANGED vars => IInv'
  BY LocalStays DEF vars, bus, local, channels, IInv, Shared
<1> QED BY <1>1, InitInvariant, BusKeeps, MainLoopKeeps, PTL DEF Spec, Next

-----------------------------------------------------------------------------
(* The registers and flags keep their ranges: EcatEsm's type invariant,    *)
(* whatever the master asks for or sets up.                                *)
THEOREM TypeCorrect == Spec => []TypeOK
<1>1. IInv => TypeOK
  BY DEF IInv, Local, Shared, TypeOK
<1> QED BY <1>1, Invariance, PTL

LEMMA Consistent ==
  Spec => [](HandlersMatchState /\ RegisterAgrees /\ PendingArmed /\ ErrorHasCode)
<1>1. IInv => HandlersMatchState /\ RegisterAgrees /\ PendingArmed /\ ErrorHasCode
  BY DEF IInv, Local
<1> QED BY <1>1, Invariance, PTL

(* The mailbox, input and output handlers run exactly in their states:     *)
(* AL_ControlInd, AL_ControlRes and the fall-backs start and stop them so. *)
THEOREM HandlersFollow == Spec => []HandlersMatchState
BY Consistent, PTL

(* What the master reads from AL Status is the state the slave is in.      *)
THEOREM RegisterShows == Spec => []RegisterAgrees
BY Consistent, PTL

(* A pending transition always has its timeout counting: AL_ControlInd's   *)
(* early returns never leave it without.                                   *)
THEOREM PendingHasTimeout == Spec => []PendingArmed
BY Consistent, PTL

(* An error in AL Status comes with its reason, and a reason with an error. *)
THEOREM ErrorHasReason == Spec => []ErrorHasCode
BY Consistent, PTL

(* Once in error, the state rises only on a request of the master that     *)
(* acknowledges it: no round of MainLoop raises it by itself.              *)
THEOREM RisesOnlyAcknowledged == Spec => ErrorNeedsAck
<1>1. ASSUME IInv, Next, Rank[nAlStatus'.state] > Rank[nAlStatus.state], nAlStatus.err
      PROVE  control # NoRequest /\ control.ack
  <2>1. Local /\ smChanged \in SUBSET Channel /\ nAlStatus.state \in State
        /\ nAlStatus.state # "OP" /\ ~bEcatWaitForAlControlRes
    BY <1>1 DEF IInv, Local, Shared, PendingArmed
  <2>2. ~UNCHANGED status /\ nAlStatus'.state # "INIT"
    BY <1>1, <2>1 DEF status, Rank, State
  <2>3. CASE Master \/ WatchdogExpires \/ PDI_Isr \/ ECAT_CheckTimer
    BY <2>2, <2>3 DEF Master, WriteAlControl, WriteSyncManager, WriteOutputs, WatchdogExpires,
                      PDI_Isr, ECAT_CheckTimer, local
  <2>4. CASE PollOutputs \/ ReadSm1Activate \/ ReadAlEvents
    BY <2>2, <2>4 DEF PollOutputs, ReadSm1Activate, ReadAlEvents, local
  <2>5. CASE HandleAlControl
    <3>1. AL_ControlInd(control.state, control.ack, "NOERROR") /\ seen.control
      BY <2>2, <2>5 DEF HandleAlControl, local
    <3>2. control.ack
      BY <1>1, <2>1, <2>2, <3>1, ControlKeeps
    <3> QED BY <1>1, <3>1, <3>2, EsmAssumptions DEF IInv, Shared
  <2>6. ASSUME NEW req, NEW code \in {"NOERROR", "SMWATCHDOG"}, AL_ControlInd(req, FALSE, code)
        PROVE  FALSE
    BY <1>1, <2>1, <2>2, <2>6, ControlKeeps
  <2>7. CASE HandleSmChange \/ CheckMailboxEnabled
    BY <2>2, <2>6, <2>7 DEF HandleSmChange, CheckMailboxEnabled, local
  <2>8. CASE HandlePending
    BY <2>1, <2>2, <2>8 DEF HandlePending, AL_ControlRes, local
  <2>9. CASE CheckIfEcatError
    BY <2>2, <2>6, <2>9 DEF CheckIfEcatError, local
  <2> QED BY <1>1, <2>3, <2>4, <2>5, <2>7, <2>8, <2>9 DEF Next, MainLoop
<1>2. IInv /\ [Next]_vars =>
        [Rank[nAlStatus'.state] > Rank[nAlStatus.state] /\ nAlStatus.err
           => control # NoRequest /\ control.ack]_vars
  BY <1>1
<1> QED BY <1>2, Invariance, PTL DEF Spec, ErrorNeedsAck

(* A transition to OP that is pending ends with OP, with an error, or      *)
(* because the mailbox was found disabled.                                 *)
THEOREM PendingIsAnswered == Spec => PendingAnswered
<1>1. ASSUME IInv, Next, bEcatWaitForAlControlRes, ~bEcatWaitForAlControlRes'
      PROVE  alStatus'.state = "OP" \/ alStatus'.err \/ ~seen.sm1
  <2>1. nAlStatus.state = "SAFEOP" /\ ~bEcatOutputUpdateRunning
    BY <1>1 DEF IInv, Local, PendingArmed, HandlersMatchState
  <2>2. CASE Master \/ WatchdogExpires \/ PDI_Isr \/ ECAT_CheckTimer
    BY <1>1, <2>2 DEF Master, WriteAlControl, WriteSyncManager, WriteOutputs, WatchdogExpires,
                      PDI_Isr, ECAT_CheckTimer, local, pending
  <2>3. CASE PollOutputs \/ ReadSm1Activate \/ ReadAlEvents \/ HandleAlControl \/ HandleSmChange
    BY <1>1, <2>3 DEF PollOutputs, ReadSm1Activate, ReadAlEvents, HandleAlControl,
                      HandleSmChange, local, pending
  <2>4. CASE HandlePending
    <3>1. RejectPending \/ CompletePending
      BY <1>1, <2>4 DEF HandlePending, AL_ControlRes, local, pending
    <3>2. \/ alStatus' = [state |-> "SAFEOP", err |-> TRUE, code |-> "SMWATCHDOG"]
          \/ alStatus' = [state |-> "OP", err |-> FALSE, code |-> "NOERROR"]
      BY <3>1 DEF RejectPending, CompletePending, SetALStatus
    <3> QED BY <3>2
  <2>5. CASE CheckMailboxEnabled
    BY <1>1, <2>5 DEF CheckMailboxEnabled, local, pending
  <2>6. CASE CheckIfEcatError
    BY <1>1, <2>1, <2>6 DEF CheckIfEcatError, local, pending
  <2> QED BY <1>1, <2>2, <2>3, <2>4, <2>5, <2>6 DEF Next, MainLoop
<1>2. IInv /\ [Next]_vars =>
        [bEcatWaitForAlControlRes /\ ~bEcatWaitForAlControlRes'
           => alStatus'.state = "OP" \/ alStatus'.err \/ ~seen.sm1]_vars
  BY <1>1
<1> QED BY <1>2, Invariance, PTL DEF Spec, PendingAnswered

-----------------------------------------------------------------------------
(* In SM-synchronous mode outputs that are waiting or counted as received  *)
(* are fresh: the mode is selected with SM2 closed and no outputs left     *)
(* from free run, and in it an event keeps the watchdog from expiring.     *)
Fresh ==
  /\ nAlStatus.state \in {"INIT", "PREOP"} => sm2Disabled
  /\ sm2Disabled => ~outputEvent
  /\ bEscIntEnabled /\ outputEvent => fresh /\ ~wdExpired
  /\ bEscIntEnabled /\ bEcatFirstOutputsReceived => fresh

LEMMA PerformFresh ==
  ASSUME Local, Fresh,
         NEW o, Fits(nAlStatus.state, o), Perform(o)
  PROVE  /\ bEscIntEnabled' /\ ~bEscIntEnabled => ~(outputEvent' \/ bEcatFirstOutputsReceived')
         /\ nAlStatus'.state \in {"INIT", "PREOP"} => sm2Disabled'
         /\ sm2Disabled' => ~outputEvent'
         /\ outputEvent' => outputEvent
         /\ bEcatFirstOutputsReceived' => bEcatFirstOutputsReceived
         /\ nAlStatus.state = "OP" /\ nAlStatus'.state # "OP" => ~bEcatFirstOutputsReceived'
<1>1. nAlStatus'.state = o.state /\ nAlStatus.state \in State
  BY PerformKeeps DEF Local
<1>2. /\ sm2Disabled' = ((sm2Disabled /\ ~o.enableSm2) \/ o.disableSm2 \/ o.stopInput)
      /\ outputEvent' = (outputEvent /\ ~sm2Disabled')
      /\ bEcatFirstOutputsReceived' =
           (bEcatFirstOutputsReceived /\ ~(o.stopOutput \/ o.stopInput \/ o.startInput))
      /\ ~o.startInput => bEscIntEnabled' = (bEscIntEnabled /\ ~o.stopInput)
  BY DEF Perform
<1>3. bEscIntEnabled' /\ ~bEscIntEnabled => o.startInput /\ ~outputEvent
  BY <1>2 DEF Fresh, Fits
<1> QED BY <1>3, <1>1, <1>2 DEF Fresh, Fits

LEMMA ControlFresh ==
  ASSUME Local, Fresh, NEW req, NEW ack,
         NEW code \in {"NOERROR", "SMWATCHDOG"}, AL_ControlInd(req, ack, code)
  PROVE  /\ bEscIntEnabled' /\ ~bEscIntEnabled => ~(outputEvent' \/ bEcatFirstOutputsReceived')
         /\ nAlStatus'.state \in {"INIT", "PREOP"} => sm2Disabled'
         /\ sm2Disabled' => ~outputEvent'
         /\ outputEvent' => outputEvent
         /\ bEcatFirstOutputsReceived' => bEcatFirstOutputsReceived
         /\ nAlStatus'.state = "OP" => nAlStatus.state = "OP"
         /\ nAlStatus.state = "OP" /\ req = "SAFEOP" => ~bEcatFirstOutputsReceived'
<1>1. nAlStatus.state \in State /\ (nAlStatus.state = "OP" => ~nAlStatus.err)
  BY DEF Local
<1>2. CASE ErrorBlocks(req, ack)
  BY <1>1, <1>2 DEF AL_ControlInd, ErrorBlocks, Fresh, status, settings, channels, outputs
<1>3. ASSUME NEW o, Fits(nAlStatus.state, o), Perform(o),
             nAlStatus.state = "OP" /\ req = "SAFEOP" => o.state # "OP"
      PROVE  /\ bEscIntEnabled' /\ ~bEscIntEnabled => ~(outputEvent' \/ bEcatFirstOutputsReceived')
             /\ nAlStatus'.state \in {"INIT", "PREOP"} => sm2Disabled'
             /\ sm2Disabled' => ~outputEvent'
             /\ outputEvent' => outputEvent
             /\ bEcatFirstOutputsReceived' => bEcatFirstOutputsReceived
             /\ nAlStatus'.state = "OP" => nAlStatus.state = "OP"
             /\ nAlStatus.state = "OP" /\ req = "SAFEOP" => ~bEcatFirstOutputsReceived'
  <2>1. nAlStatus'.state = o.state
    BY <1>3, PerformKeeps
  <2>2. nAlStatus'.state = "OP" => nAlStatus.state = "OP"
    BY <1>3, <2>1 DEF Fits
  <2> QED BY <1>3, <2>1, <2>2, PerformFresh
<1>4. CASE ~ErrorBlocks(req, ack)
  <2>1. CASE GeneratesMapping(nAlStatus.state, req) /\ Perform(RefuseMapping)
    <3>1. nAlStatus.state = "PREOP"
      BY <2>1 DEF GeneratesMapping
    <3> QED BY <1>3, <2>1, <3>1, RefuseMappingFits
  <2>2. CASE \E o \in Outcomes(nAlStatus.state, req, code) : Perform(o)
    BY <1>1, <1>3, <2>2, OutcomesFit
  <2> QED BY <1>4, <2>1, <2>2 DEF AL_ControlInd
<1> QED BY <1>2, <1>4

LEMMA FreshStep ==
  ASSUME IInv, Fresh, [Next]_vars
  PROVE  Fresh' /\ (nAlStatus.state # "OP" /\ nAlStatus'.state = "OP" /\ bEscIntEnabled => fresh)
<1>1. Local /\ nAlStatus.state \in State /\ (bEcatOutputUpdateRunning <=> nAlStatus.state = "OP")
  BY DEF IInv, Local, HandlersMatchState
<1>2. CASE UNCHANGED vars
  BY <1>2 DEF vars, local, bus, status, settings, channels, outputs, Fresh
<1>3. CASE Master
  BY <1>3 DEF Master, WriteAlControl, WriteSyncManager, WriteOutputs, local, status, settings,
              channels, outputs, Fresh
<1>4. CASE WatchdogExpires
  BY <1>4 DEF WatchdogExpires, local, status, settings, channels, outputs, Fresh
<1>5. CASE PDI_Isr
  BY <1>5 DEF PDI_Isr, bus, status, settings, channels, Fresh
<1>6. CASE ECAT_CheckTimer
  BY <1>6 DEF ECAT_CheckTimer, bus, status, settings, channels, outputs, Fresh
<1>7. CASE PollOutputs
  BY <1>7 DEF PollOutputs, bus, status, settings, channels, outputs, Fresh
<1>8. CASE ReadSm1Activate \/ ReadAlEvents
  BY <1>8 DEF ReadSm1Activate, ReadAlEvents, local, bus, status, settings, channels, outputs,
              Fresh
<1>9. ASSUME NEW req, NEW ack, AL_ControlInd(req, ack, "NOERROR"), UNCHANGED <<wdExpired, fresh>>
      PROVE  Fresh' /\ (nAlStatus'.state = "OP" => nAlStatus.state = "OP")
  BY <1>1, <1>9, ControlFresh DEF Fresh
<1>10. ASSUME UNCHANGED local, UNCHANGED <<wdExpired, fresh>>
       PROVE  Fresh' /\ UNCHANGED nAlStatus
  BY <1>10 DEF local, status, settings, channels, outputs, Fresh
<1>11. CASE HandleAlControl \/ HandleSmChange \/ CheckMailboxEnabled
  BY <1>9, <1>10, <1>11 DEF HandleAlControl, HandleSmChange, CheckMailboxEnabled, bus
<1>12. CASE HandlePending
  <2>1. UNCHANGED <<wdExpired, fresh>>
    BY <1>12 DEF HandlePending, bus
  <2>2. CASE UNCHANGED local
    BY <1>10, <2>1, <2>2
  <2>3. CASE bEcatWaitForAlControlRes /\ (RejectPending \/ CompletePending)
    <3>1. /\ nAlStatus'.state \in {"SAFEOP", "OP"}
          /\ nAlStatus'.state = "OP" => bEcatFirstOutputsReceived
          /\ bEcatFirstOutputsReceived' => bEcatFirstOutputsReceived
          /\ UNCHANGED <<settings, channels, outputEvent>>
      BY <2>3 DEF RejectPending, CompletePending, SetALStatus, outputs
    <3> QED BY <2>1, <3>1 DEF Fresh, settings, channels
  <2> QED BY <1>12, <2>2, <2>3 DEF HandlePending, AL_ControlRes
<1>13. CASE CheckIfEcatError
  <2>1. CASE WatchdogFailed /\ bEcatOutputUpdateRunning
    <3>1. AL_ControlInd("SAFEOP", FALSE, "SMWATCHDOG") /\ wdExpired /\ UNCHANGED wdExpired
      BY <1>13, <2>1 DEF CheckIfEcatError, WatchdogFailed
    <3> QED BY <1>1, <2>1, <3>1, ControlFresh DEF Fresh
  <2>2. CASE WatchdogFailed /\ ~bEcatOutputUpdateRunning
    BY <1>13, <2>2 DEF CheckIfEcatError, WatchdogFailed, status, settings, channels, Fresh
  <2>3. CASE ~WatchdogFailed
    BY <1>10, <1>13, <2>3 DEF CheckIfEcatError
  <2> QED BY <2>1, <2>2, <2>3
<1> QED BY <1>2, <1>3, <1>4, <1>5, <1>6, <1>7, <1>8, <1>11, <1>12, <1>13 DEF Next, MainLoop

(* In SM-synchronous mode, which this master selects, OP is entered only   *)
(* on outputs written since the watchdog was last seen expired.            *)
THEOREM OpOnFreshOutputs == Spec => OpNeedsFreshOutputs
<1>1. Init => Fresh
  BY DEF Init, Fresh
<1>2. IInv /\ Fresh /\ [Next]_vars => Fresh'
  BY FreshStep
<1>3. IInv /\ Fresh /\ [Next]_vars =>
        [nAlStatus.state # "OP" /\ nAlStatus'.state = "OP" /\ bEscIntEnabled => fresh]_vars
  BY FreshStep
<1> QED BY <1>1, <1>2, <1>3, Invariance, PTL DEF Spec, OpNeedsFreshOutputs

=============================================================================
