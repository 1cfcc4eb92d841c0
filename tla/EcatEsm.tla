------------------------------- MODULE EcatEsm -------------------------------
(***************************************************************************)
(* The EtherCAT state machine of the slave (SSC/Src/ecatslv.c), driven by  *)
(* MainLoop (SSC/Src/ecatappl.c) while the master writes the AL Control    *)
(* register, the Sync Manager settings and the outputs, the ESC runs its   *)
(* process data watchdog, PDI_Isr takes SM2 events and TIM2 counts the     *)
(* milliseconds of a pending transition.                                   *)
(*                                                                         *)
(* Distributed clocks are off, as they are unless the master activates the *)
(* sync unit; the application's own handlers (APPL_Start..., APPL_Stop...) *)
(* return NOERROR at once, as they all do in SSC-Device.c.  So the only    *)
(* transition that is ever pending is SAFEOP_2_OP, and bLocalErrorFlag,    *)
(* which only ECAT_StateChange sets, is never set.  A call of              *)
(* AL_ControlInd is one step: the interrupts that could split it only read *)
(* or set the flags it leaves for them at its end.                         *)
(***************************************************************************)
EXTENDS Integers

CONSTANTS
  ESM_TIMEOUT,  (* SAFEOP2OPTIMEOUT less 10%, in ms                        *)
  SyncTypes,    (* the synchronisation types the master may select         *)
  Targets,      (* the states the master may ask for                       *)
  NoRequest     (* no AL Control event is pending                          *)

State == {"INIT", "PREOP", "SAFEOP", "OP"}
Request == [state : Targets, ack : BOOLEAN]

(* BOOT can be asked for as well, and codes that name no state, without     *)
(* and with the bit that stands for OP.                                    *)
ASSUME EsmAssumptions ==
  /\ ESM_TIMEOUT \in Nat \ {0}
  /\ SyncTypes \subseteq {"SM_SYNCHRON", "FREERUN"}
  /\ SyncTypes # {}
  /\ Targets \subseteq State \cup {"BOOT", "UNKNOWN", "UNKNOWN_OP"}
  /\ NoRequest \notin Request

(* SM1 is the mailbox the master reads, SM2 the outputs. *)
Channel == {"SM1", "SM2"}

Rank == [s \in State |-> CASE s = "INIT" -> 1 [] s = "PREOP" -> 2
                           [] s = "SAFEOP" -> 4 [] s = "OP" -> 8]

Code == {"NOERROR", "INVALIDMBXCFGINPREOP", "INVALIDSMOUTCFG", "INVALIDMAPPING",
         "INVALIDALCONTROL", "SMWATCHDOG"}

Phase == {"poll", "sm1", "events", "control", "change", "response", "mailbox", "error"}

VARIABLES
  (* the EtherCAT slave controller, written by the master *)
  control,       (* AL Control, while its event is pending                 *)
  smEnabled,     (* channels the master has set up and activated           *)
  smChanged,     (* channels whose activation was written, event pending   *)
  outputEvent,   (* SM2 event: the master wrote outputs                    *)
  wdExpired,     (* the process data watchdog has expired                  *)
  (* the EtherCAT slave controller, written by the slave *)
  sm2Disabled,   (* SM2 is disabled from the slave's side                  *)
  alStatus,      (* AL Status and AL Status Code                           *)
  (* the slave *)
  nAlStatus,
  bEcatWaitForAlControlRes,
  EsmTimeoutCounter,
  bEcatFirstOutputsReceived,
  bEcatOutputUpdateRunning,
  bEcatInputUpdateRunning,
  bEscIntEnabled,
  bMbxRunning,
  EcatWdValue,   (* whether it is not zero                                 *)
  phase,         (* where the main loop is                                 *)
  seen,          (* sm1Activate and ALEventReg of this round of ECAT_Main  *)
  (* history *)
  fresh          (* outputs were written since the slave last saw the      *)
                 (* watchdog expired                                       *)

(* ECAT_Main's copies before it has read anything. *)
Unread == [sm1 |-> TRUE, control |-> FALSE, change |-> FALSE]

(* What the slave's handlers change, in groups that change together. *)
status == <<nAlStatus, alStatus>>
pending == <<bEcatWaitForAlControlRes, EsmTimeoutCounter>>
running == <<bEcatOutputUpdateRunning, bEcatInputUpdateRunning, bMbxRunning>>
settings == <<bEscIntEnabled, EcatWdValue>>
channels == <<smChanged, sm2Disabled>>
outputs == <<bEcatFirstOutputsReceived, outputEvent>>
local == <<status, pending, running, settings, channels, outputs>>
(* What only the master and the ESC change. *)
bus == <<control, smEnabled, wdExpired, fresh>>
vars == <<bus, local, phase, seen>>

Init ==
  /\ control = NoRequest
  /\ smEnabled = {}
  /\ smChanged = {}
  /\ outputEvent = FALSE
  /\ wdExpired = TRUE
  /\ sm2Disabled = TRUE
  /\ alStatus = [state |-> "INIT", err |-> FALSE, code |-> "NOERROR"]
  /\ nAlStatus = [state |-> "INIT", err |-> FALSE]
  /\ bEcatWaitForAlControlRes = FALSE
  /\ EsmTimeoutCounter = -1
  /\ bEcatFirstOutputsReceived = FALSE
  /\ bEcatOutputUpdateRunning = FALSE
  /\ bEcatInputUpdateRunning = FALSE
  /\ bEscIntEnabled = FALSE
  /\ bMbxRunning = FALSE
  /\ EcatWdValue = FALSE
  /\ phase = "poll"
  /\ seen = Unread
  /\ fresh = FALSE

-----------------------------------------------------------------------------
(* The master and the ESC.                                                 *)

WriteAlControl ==
  /\ control' \in Request
  /\ UNCHANGED <<smEnabled, wdExpired, fresh, local, phase, seen>>

WriteSyncManager(ch) ==
  /\ smEnabled' \in {smEnabled \cup {ch}, smEnabled \ {ch}}
  /\ smChanged' = smChanged \cup {ch}
  /\ UNCHANGED <<control, wdExpired, fresh, status, pending, running, settings,
                 outputs, sm2Disabled, phase, seen>>

(* Outputs reach the ESC only through a Sync Manager both sides enabled. *)
WriteOutputs ==
  /\ "SM2" \in smEnabled /\ ~sm2Disabled
  /\ outputEvent' = TRUE
  /\ wdExpired' = FALSE
  /\ fresh' = TRUE
  /\ UNCHANGED <<control, smEnabled, status, pending, running, settings, channels,
                 bEcatFirstOutputsReceived, phase, seen>>

(* The watchdog takes 100 ms by default: far longer than PDI_Isr is late.  *)
WatchdogExpires ==
  /\ EcatWdValue /\ ~wdExpired
  /\ ~(bEscIntEnabled /\ outputEvent)
  /\ wdExpired' = TRUE
  /\ UNCHANGED <<control, smEnabled, fresh, local, phase, seen>>

Master == WriteAlControl \/ (\E ch \in Channel : WriteSyncManager(ch)) \/ WriteOutputs

-----------------------------------------------------------------------------
(* AL_ControlInd.                                                          *)

(* Faulty variant: only a repeated request needs the acknowledgement. *)
ErrorBlocksRepeat(req, ack) == nAlStatus.err /\ ~ack /\ req = nAlStatus.state

(* An unacknowledged error allows no request but INIT. *)
ErrorBlocks(req, ack) == nAlStatus.err /\ ~ack /\ req # "INIT"

(* Which settings CheckSmSettings has to look at. *)
ChecksMailbox(from, req) == req = "PREOP"
ChecksProcessData(from, req) ==
  \/ from = "PREOP" /\ req = "SAFEOP"
  \/ from \in {"SAFEOP", "OP"} /\ req \in {"SAFEOP", "OP"}
ChecksSettings(from, req) == ChecksMailbox(from, req) \/ ChecksProcessData(from, req)

(* The faults CheckSmSettings finds, the mailbox first. *)
CheckSmSettings(from, req) ==
  CASE ~ChecksSettings(from, req) -> "NOERROR"
    [] ChecksSettings(from, req) /\ "SM1" \notin smEnabled -> "INVALIDMBXCFGINPREOP"
    [] ChecksProcessData(from, req) /\ smEnabled = {"SM1"} -> "INVALIDSMOUTCFG"
    [] OTHER -> "NOERROR"

(* Reading a channel's settings takes back its change event; the check     *)
(* stops reading at a mailbox that is not set up.                          *)
Acknowledged(from, req) ==
  CASE ~ChecksSettings(from, req) -> {}
    [] CheckSmSettings(from, req) = "INVALIDMBXCFGINPREOP" -> {"SM1"}
    [] OTHER -> Channel

(* What a request does: the new AL status, and the handlers it calls.      *)
Remain(from) ==
  [state |-> from, err |-> FALSE, code |-> "NOERROR", pending |-> FALSE,
   stopOutput |-> FALSE, stopInput |-> FALSE, startInput |-> FALSE,
   stopMailbox |-> FALSE, startMailbox |-> FALSE,
   enableSm2 |-> FALSE, disableSm2 |-> FALSE]

(* Faulty variant: the reason is recorded but the error is not indicated. *)
FailsSilently(outcome, code) == [outcome EXCEPT !.code = code]

Fails(outcome, code) == [outcome EXCEPT !.err = TRUE, !.code = code]

(* APPL_GenerateMapping may find an assigned PDO that does not exist; the  *)
(* Sync Managers are not looked at then.                                   *)
GeneratesMapping(from, req) == from = "PREOP" /\ req = "SAFEOP"
RefuseMapping == Fails(Remain("PREOP"), "INVALIDMAPPING")

HasOpBit(req) == req \in {"OP", "UNKNOWN_OP"}

(* The settings do not fit the state: fall back to PREOP or INIT. *)
FallBack(from, req, code) ==
  Fails([Remain(from) EXCEPT
           !.state = CASE from = "INIT" -> "INIT"
                       [] from # "INIT" /\ code = "INVALIDMBXCFGINPREOP" -> "INIT"
                       [] OTHER -> "PREOP",
           !.stopOutput = from = "OP",
           !.stopInput = from \in {"SAFEOP", "OP"},
           !.stopMailbox = from # "INIT" /\ code = "INVALIDMBXCFGINPREOP",
           !.disableSm2 = HasOpBit(req)],
        code)

(* INIT_2_PREOP, where the mailbox areas may overlap. *)
StartMailbox ==
  {[Remain("INIT") EXCEPT !.state = "PREOP", !.startMailbox = TRUE],
   Fails([Remain("INIT") EXCEPT !.stopMailbox = TRUE], "INVALIDMBXCFGINPREOP")}

(* PREOP_2_SAFEOP: StartInputHandler may refuse the master's settings. *)
StartInputs ==
  {[Remain("PREOP") EXCEPT !.state = "SAFEOP", !.startInput = TRUE, !.enableSm2 = TRUE],
   Fails([Remain("PREOP") EXCEPT !.stopInput = TRUE], "INVALIDSMOUTCFG")}

(* SAFEOP_2_OP: StartOutputHandler always answers NOERROR_INWORK. *)
StartOutputs == {[Remain("SAFEOP") EXCEPT !.pending = TRUE]}

(* A transition downwards stops every handler above the new state; one the *)
(* slave asks for itself closes SM2 and carries its reason.                *)
StepDown(from, req, code) ==
  LET down == [Remain(from) EXCEPT !.state = req,
                 !.stopOutput = from = "OP",
                 !.stopInput = from \in {"SAFEOP", "OP"} /\ req \in {"INIT", "PREOP"},
                 !.stopMailbox = req = "INIT"]
  IN  IF code = "NOERROR" THEN {down}
      ELSE {Fails([down EXCEPT !.disableSm2 = from = "OP"], code)}

(* The state asked for is the state: an acknowledged error is gone. *)
Confirm(from) == {[Remain(from) EXCEPT !.enableSm2 = from \in {"SAFEOP", "OP"}]}

(* Faulty variants: the outputs run on; the code asked for becomes the state. *)
RefuseRunning(from, req) ==
  {Fails([Remain(from) EXCEPT !.state = IF from = "OP" THEN "SAFEOP" ELSE from,
            !.disableSm2 = from = "OP" \/ HasOpBit(req)],
         "INVALIDALCONTROL")}
RefuseAdopting(from, req) ==
  {Fails([Remain(from) EXCEPT !.state = req,
            !.stopOutput = from = "OP", !.disableSm2 = from = "OP" \/ HasOpBit(req)],
         "INVALIDALCONTROL")}

(* A transition that does not exist costs a slave in OP its OP state. *)
Refuse(from, req) ==
  {Fails([Remain(from) EXCEPT !.state = IF from = "OP" THEN "SAFEOP" ELSE from,
            !.stopOutput = from = "OP",
            !.disableSm2 = from = "OP" \/ HasOpBit(req)],
         "INVALIDALCONTROL")}

Outcomes(from, req, code) ==
  LET fault == CheckSmSettings(from, req)
  IN  CASE fault # "NOERROR" -> {FallBack(from, req, fault)}
        [] fault = "NOERROR" /\ req = from -> Confirm(from)
        [] fault = "NOERROR" /\ from = "INIT" /\ req = "PREOP" -> StartMailbox
        [] fault = "NOERROR" /\ from = "PREOP" /\ req = "SAFEOP" -> StartInputs
        [] fault = "NOERROR" /\ from = "SAFEOP" /\ req = "OP" -> StartOutputs
        [] fault = "NOERROR" /\ req \in State /\ Rank[req] < Rank[from] ->
             StepDown(from, req, code)
        [] OTHER -> Refuse(from, req)

(* Faulty variant: the register is written for an error only. *)
SetALStatusOnError(state, err, code) ==
  /\ nAlStatus' = [state |-> state, err |-> err]
  /\ alStatus' = IF err THEN [state |-> state, err |-> err, code |-> code] ELSE alStatus

(* SetALStatus *)
SetALStatus(state, err, code) ==
  /\ nAlStatus' = [state |-> state, err |-> err]
  /\ alStatus' = [state |-> state, err |-> err, code |-> code]

(* Carrying out an outcome; a Sync Manager that is disabled has no event.  *)
Perform(o) ==
  /\ IF o.pending
       THEN nAlStatus' = [state |-> o.state, err |-> FALSE] /\ UNCHANGED alStatus
       ELSE SetALStatus(o.state, o.err, o.code)
  /\ bEcatWaitForAlControlRes' = o.pending
  /\ EsmTimeoutCounter' = IF o.pending THEN ESM_TIMEOUT ELSE -1
  /\ bEcatOutputUpdateRunning' = (bEcatOutputUpdateRunning /\ ~o.stopOutput)
  /\ bEcatFirstOutputsReceived' =
       (bEcatFirstOutputsReceived /\ ~(o.stopOutput \/ o.stopInput \/ o.startInput))
  /\ bEcatInputUpdateRunning' = ((bEcatInputUpdateRunning /\ ~o.stopInput) \/ o.startInput)
  /\ IF o.startInput
       THEN /\ \E type \in SyncTypes :
                 bEscIntEnabled' = (bEscIntEnabled \/ type = "SM_SYNCHRON")
            /\ EcatWdValue' \in BOOLEAN
       ELSE /\ bEscIntEnabled' = (bEscIntEnabled /\ ~o.stopInput)
            /\ EcatWdValue' = EcatWdValue
  /\ bMbxRunning' = ((bMbxRunning /\ ~o.stopMailbox) \/ o.startMailbox)
  /\ sm2Disabled' = ((sm2Disabled /\ ~o.enableSm2) \/ o.disableSm2 \/ o.stopInput)
  /\ outputEvent' = (outputEvent /\ ~sm2Disabled')

AL_ControlInd(req, ack, code) ==
  IF ErrorBlocks(req, ack)
    THEN /\ EsmTimeoutCounter' = -1
         /\ UNCHANGED <<status, bEcatWaitForAlControlRes, running, settings, channels,
                        outputs>>
    ELSE /\ \/ /\ \E o \in Outcomes(nAlStatus.state, req, code) : Perform(o)
               /\ smChanged' = smChanged \ Acknowledged(nAlStatus.state, req)
            \/ /\ GeneratesMapping(nAlStatus.state, req)
               /\ Perform(RefuseMapping)
               /\ UNCHANGED smChanged

-----------------------------------------------------------------------------
(* AL_ControlRes.                                                          *)

(* The master sent no outputs in time: StopOutputHandler, back to SAFEOP. *)
RejectPending ==
  /\ EsmTimeoutCounter = 0
  /\ SetALStatus("SAFEOP", TRUE, "SMWATCHDOG")
  /\ bEcatWaitForAlControlRes' = FALSE
  /\ bEcatFirstOutputsReceived' = FALSE
  /\ bEcatOutputUpdateRunning' = FALSE
  /\ UNCHANGED <<EsmTimeoutCounter, bEcatInputUpdateRunning, bMbxRunning, settings,
                 channels, outputEvent>>

(* Faulty variant: OP is entered without waiting for outputs. *)
CompletePendingAtOnce ==
  /\ EsmTimeoutCounter # 0
  /\ SetALStatus("OP", FALSE, "NOERROR")
  /\ bEcatWaitForAlControlRes' = FALSE
  /\ bEcatOutputUpdateRunning' = TRUE
  /\ UNCHANGED <<EsmTimeoutCounter, bEcatInputUpdateRunning, bMbxRunning, settings,
                 channels, outputs>>

CompletePending ==
  /\ EsmTimeoutCounter # 0 /\ bEcatFirstOutputsReceived
  /\ SetALStatus("OP", FALSE, "NOERROR")
  /\ bEcatWaitForAlControlRes' = FALSE
  /\ bEcatOutputUpdateRunning' = TRUE
  /\ UNCHANGED <<EsmTimeoutCounter, bEcatInputUpdateRunning, bMbxRunning, settings,
                 channels, outputs>>

AL_ControlRes ==
  \/ bEcatWaitForAlControlRes /\ (RejectPending \/ CompletePending)
  \/ /\ ~(bEcatWaitForAlControlRes /\ (EsmTimeoutCounter = 0 \/ bEcatFirstOutputsReceived))
     /\ UNCHANGED local

-----------------------------------------------------------------------------
(* MainLoop, one action for each place where it looks at shared state; a   *)
(* copy is forgotten with its last use in the round.                       *)

At(here, next) == phase = here /\ phase' = next

(* Free run: the main loop itself looks for outputs, and reads (and so     *)
(* acknowledges) them only in OP.                                          *)
PollOutputs ==
  /\ At("poll", "sm1")
  /\ IF ~bEscIntEnabled /\ outputEvent
       THEN /\ bEcatFirstOutputsReceived' = TRUE
            /\ outputEvent' = ~bEcatOutputUpdateRunning
       ELSE UNCHANGED outputs
  /\ UNCHANGED <<bus, status, pending, running, settings, channels, seen>>

(* Reading SM1's activation takes back its change event. *)
ReadSm1Activate ==
  /\ At("sm1", "events")
  /\ seen' = [Unread EXCEPT !.sm1 = bMbxRunning => "SM1" \in smEnabled]
  /\ smChanged' = IF bMbxRunning THEN smChanged \ {"SM1"} ELSE smChanged
  /\ UNCHANGED <<bus, status, pending, running, settings, outputs, sm2Disabled>>

ReadAlEvents ==
  /\ At("events", "control")
  /\ seen' = [seen EXCEPT !.control = control # NoRequest, !.change = smChanged # {}]
  /\ UNCHANGED <<bus, local>>

HandleAlControl ==
  /\ At("control", "change")
  /\ IF seen.control /\ ~bEcatWaitForAlControlRes
       THEN /\ AL_ControlInd(control.state, control.ack, "NOERROR")
            /\ control' = NoRequest
            /\ seen' = [seen EXCEPT !.control = FALSE, !.change = FALSE]
       ELSE UNCHANGED <<local, control, seen>>
  /\ UNCHANGED <<smEnabled, wdExpired, fresh>>

(* Faulty variant: a Sync Manager change is handled during a transition. *)
HandleSmChangePending ==
  /\ At("change", "response")
  /\ IF seen.change /\ ~nAlStatus.err /\ nAlStatus.state # "INIT"
       THEN AL_ControlInd(nAlStatus.state, FALSE, "NOERROR")
       ELSE UNCHANGED local
  /\ seen' = [Unread EXCEPT !.sm1 = seen.sm1]
  /\ UNCHANGED bus

HandleSmChange ==
  /\ At("change", "response")
  /\ IF /\ seen.change /\ ~bEcatWaitForAlControlRes
        /\ ~nAlStatus.err /\ nAlStatus.state # "INIT"
       THEN AL_ControlInd(nAlStatus.state, FALSE, "NOERROR")
       ELSE UNCHANGED local
  /\ seen' = [Unread EXCEPT !.sm1 = seen.sm1]
  /\ UNCHANGED bus

HandlePending ==
  /\ At("response", "mailbox")
  /\ AL_ControlRes
  /\ UNCHANGED <<bus, seen>>

CheckMailboxEnabled ==
  /\ At("mailbox", "error")
  /\ IF bMbxRunning /\ ~seen.sm1
       THEN AL_ControlInd(nAlStatus.state, FALSE, "NOERROR")
       ELSE UNCHANGED local
  /\ seen' = Unread
  /\ UNCHANGED bus

(* Faulty variant: the watchdog is not looked at once outputs were received. *)
WatchdogFailedBefore == EcatWdValue /\ wdExpired /\ ~bEcatFirstOutputsReceived

(* The watchdog counts only if the master gave it a time. *)
WatchdogFailed == EcatWdValue /\ wdExpired

CheckIfEcatError ==
  /\ At("error", "poll")
  /\ IF WatchdogFailed
       THEN /\ fresh' = FALSE
            /\ IF bEcatOutputUpdateRunning
                 THEN AL_ControlInd("SAFEOP", FALSE, "SMWATCHDOG")
                 ELSE /\ bEcatFirstOutputsReceived' = FALSE
                      /\ UNCHANGED <<status, pending, running, settings, channels,
                                     outputEvent>>
       ELSE UNCHANGED <<fresh, local>>
  /\ UNCHANGED <<control, smEnabled, wdExpired, seen>>

MainLoop ==
  \/ PollOutputs \/ ReadSm1Activate \/ ReadAlEvents \/ HandleAlControl
  \/ HandleSmChange \/ HandlePending \/ CheckMailboxEnabled \/ CheckIfEcatError

-----------------------------------------------------------------------------
(* The interrupts.                                                         *)

(* The SM2 event of the synchronous mode; the outputs are read, and so     *)
(* acknowledged, in every state.                                           *)
PDI_Isr ==
  /\ bEscIntEnabled /\ outputEvent
  /\ bEcatFirstOutputsReceived' = TRUE
  /\ outputEvent' = FALSE
  /\ UNCHANGED <<bus, status, pending, running, settings, channels, phase, seen>>

(* Faulty variants: the timer stops at one; the timer counts below zero. *)
ECAT_CheckTimerShort ==
  /\ bEcatWaitForAlControlRes /\ EsmTimeoutCounter > 1
  /\ EsmTimeoutCounter' = EsmTimeoutCounter - 1
  /\ UNCHANGED <<bus, status, bEcatWaitForAlControlRes, running, settings, channels,
                 outputs, phase, seen>>
ECAT_CheckTimerLong ==
  /\ bEcatWaitForAlControlRes /\ EsmTimeoutCounter >= 0
  /\ EsmTimeoutCounter' = EsmTimeoutCounter - 1
  /\ UNCHANGED <<bus, status, bEcatWaitForAlControlRes, running, settings, channels,
                 outputs, phase, seen>>

ECAT_CheckTimer ==
  /\ bEcatWaitForAlControlRes /\ EsmTimeoutCounter > 0
  /\ EsmTimeoutCounter' = EsmTimeoutCounter - 1
  /\ UNCHANGED <<bus, status, bEcatWaitForAlControlRes, running, settings, channels,
                 outputs, phase, seen>>

Next == Master \/ WatchdogExpires \/ MainLoop \/ PDI_Isr \/ ECAT_CheckTimer

(* The main loop never waits and the timer and the PDI interrupt are not   *)
(* masked for ever; the master and its lines may do what they like.        *)
Fairness == WF_vars(MainLoop) /\ WF_vars(PDI_Isr) /\ WF_vars(ECAT_CheckTimer)

Spec == Init /\ [][Next]_vars /\ Fairness

-----------------------------------------------------------------------------
(* The ranges of the registers and flags.                                  *)
TypeOK ==
  /\ control \in Request \cup {NoRequest}
  /\ smEnabled \in SUBSET Channel /\ smChanged \in SUBSET Channel
  /\ alStatus \in [state : State, err : BOOLEAN, code : Code]
  /\ nAlStatus \in [state : State, err : BOOLEAN]
  /\ EsmTimeoutCounter \in -1 .. ESM_TIMEOUT
  /\ {outputEvent, wdExpired, sm2Disabled, bEcatWaitForAlControlRes,
      bEcatFirstOutputsReceived, bEcatOutputUpdateRunning, bEcatInputUpdateRunning,
      bEscIntEnabled, bMbxRunning, EcatWdValue, fresh} \subseteq BOOLEAN
  /\ phase \in Phase
  /\ seen \in [sm1 : BOOLEAN, control : BOOLEAN, change : BOOLEAN]

(* Whichever way a state was reached or lost, the outputs, the inputs and  *)
(* the mailbox run exactly in the states that have them.                   *)
HandlersMatchState ==
  /\ bEcatOutputUpdateRunning <=> nAlStatus.state = "OP"
  /\ bEcatInputUpdateRunning <=> nAlStatus.state \in {"SAFEOP", "OP"}
  /\ bMbxRunning <=> nAlStatus.state # "INIT"

(* The master reads in AL Status the state the slave is in; only the error *)
(* flag it acknowledged stays until the request with it is answered.       *)
RegisterAgrees ==
  /\ alStatus.state = nAlStatus.state
  /\ nAlStatus.err => alStatus.err
  /\ alStatus.err => nAlStatus.err \/ bEcatWaitForAlControlRes

(* A pending transition is always SAFEOP_2_OP with its timeout running:    *)
(* nothing that interferes with it leaves it waiting without a timeout.    *)
PendingArmed ==
  bEcatWaitForAlControlRes =>
    /\ nAlStatus = [state |-> "SAFEOP", err |-> FALSE]
    /\ EsmTimeoutCounter >= 0

(* An error is always reported with its reason, and no reason without one. *)
ErrorHasCode == alStatus.err <=> alStatus.code # "NOERROR"

(* A slave in error goes up only on a request that acknowledges the error. *)
ErrorNeedsAck ==
  [][Rank[nAlStatus'.state] > Rank[nAlStatus.state] /\ nAlStatus.err
       => control # NoRequest /\ control.ack]_vars

(* In SM-synchronous mode OP is not entered on outputs that were already   *)
(* known to be too old: the watchdog has not been seen expired since they  *)
(* were written.                                                           *)
OpNeedsFreshOutputs ==
  [][nAlStatus.state # "OP" /\ nAlStatus'.state = "OP" /\ bEscIntEnabled => fresh]_vars

(* A pending request for OP is answered with OP or an error; only a        *)
(* mailbox found disabled meanwhile may end it otherwise.                  *)
PendingAnswered ==
  [][bEcatWaitForAlControlRes /\ ~bEcatWaitForAlControlRes'
       => alStatus'.state = "OP" \/ alStatus'.err \/ ~seen.sm1]_vars

(* No request for OP stays pending for ever. *)
PendingResolves == bEcatWaitForAlControlRes ~> ~bEcatWaitForAlControlRes

(* A slave in OP whose master has fallen silent leaves OP. *)
SilentMasterEndsOp ==
  nAlStatus.state = "OP" /\ EcatWdValue /\ wdExpired ~> nAlStatus.state # "OP" \/ ~wdExpired

=============================================================================
