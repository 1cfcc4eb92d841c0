------------------------------ MODULE Mailbox ------------------------------
(***************************************************************************)
(* The mailbox of the slave (SSC/Src/mailbox.c) as ECAT_Main drives it,    *)
(* the CoE services that answer through it, sync managers 0 and 1 of the   *)
(* ESC, and a master that uses the mailbox data link layer: it numbers its *)
(* requests, repeats the ones it has no confirmation for, and asks for a   *)
(* response again (repeat bit of SM1) when the frame that read it was lost.*)
(*                                                                         *)
(* ECAT_Main runs step by step; the ESC and the master move between them,  *)
(* so the copies of SM1's activate byte and of the AL event register that  *)
(* it works with may be out of date.                                       *)
(*                                                                         *)
(* A state of the slave is one record, dev, because mailbox.c's functions  *)
(* call each other: each is an operator from such a state to the next.     *)
(***************************************************************************)
EXTENDS Integers, Sequences, FiniteSets

CONSTANTS
  Buffers,          (* the buffers APPL_AllocMailboxBuffer can return (1..N)*)
  QUEUE_SIZE,       (* MAX_MBX_QUEUE_SIZE                                  *)
  COUNTERS,         (* the mailbox counter runs from 1 to here (7)         *)
  FRAGMENTS,        (* fragments after the first of an object list         *)
  Kinds,            (* the requests the master sends, from RequestKinds    *)
  MAX_OPEN,         (* requests the master has open at a time              *)
  MAX_REQUESTS,     (* bound on the requests                               *)
  MAX_LOSSES,       (* bound on the lost frames                            *)
  MAX_STOPS         (* bound on the master's requests for INIT             *)

(* An SDO request; a protocol the slave does not support; an object list.  *)
RequestKinds == {"sdo", "unsupported", "list"}

ASSUME MailboxAssumptions ==
  /\ Buffers \subseteq Nat /\ IsFiniteSet(Buffers)
  /\ QUEUE_SIZE \in Nat \ {0, 1}
  /\ COUNTERS \in Nat \ {0, 1}
  /\ FRAGMENTS \in Nat
  /\ Kinds \subseteq RequestKinds
  /\ {MAX_OPEN, MAX_REQUESTS, MAX_LOSSES, MAX_STOPS} \subseteq Nat

VARIABLES
  pc,           (* the next step of ECAT_Main                              *)
  sm1Activate,  (* its copy of the repeat bit of SM1                       *)
  ALEventReg,   (* its copy of the events [read, al]                       *)
  dev,          (* the slave and its ESC                                   *)
  mst           (* the master                                              *)

vars == <<pc, sm1Activate, ALEventReg, dev, mst>>

NoMsg == [type |-> "none"]
NoBuf == -1

(* A request [kind, n]; the answer repeats it, with the fragments left.    *)
(* n, no (a response's position in its session), open and got are history  *)
(* that no code reads.                                                     *)
Request(req, cnt) == [type |-> "request", req |-> req, cnt |-> cnt]
Response(req, left) ==
  [type |-> "response", req |-> req, left |-> left, cnt |-> 0, no |-> 0]
NoRequest == [kind |-> "sdo", n |-> 0]

(* The master has neither written nor read anything in this session. *)
FreshMaster(m) ==
  [m EXCEPT !.writing = NoMsg, !.cnt = 0, !.phase = "poll", !.last = 0,
            !.open = <<>>]

(* MBX_Init and COE_Init. *)
Init ==
  /\ pc = "main" /\ sm1Activate = FALSE
  /\ ALEventReg = [read |-> FALSE, al |-> "none"]
  /\ dev =
       [sm0 |-> NoMsg, sm1 |-> NoMsg,           (* the buffers in the ESC  *)
        writeEvent |-> FALSE, readEvent |-> FALSE,
        rptReq |-> FALSE, rptAck |-> FALSE,     (* repeat bits of SM1      *)
        al |-> "none",                          (* AL control, unhandled   *)
        bMbxRunning |-> FALSE, bSendMbxIsFull |-> FALSE,
        bReceiveMbxIsLocked |-> FALSE, u8MailboxSendReqStored |-> FALSE,
        bMbxRepeatToggle |-> FALSE, u8MbxWriteCounter |-> 0,
        u8MbxReadCounter |-> 0,
        psRepeatMbx |-> NoBuf, psReadMbx |-> NoBuf, psStoreMbx |-> NoBuf,
        sMbxReceiveQueue |-> <<>>, sMbxSendQueue |-> <<>>,
        pCoeSendStored |-> NoBuf, nSdoInfoFragmentsLeft |-> 0,
        aSdoInfoHeader |-> NoRequest,
        mem |-> [b \in Buffers |-> NoMsg], made |-> 0]
  /\ mst =
       [writing |-> NoMsg, cnt |-> 0, phase |-> "poll", last |-> 0,
        open |-> <<>>, got |-> 0, asked |-> 0, losses |-> 0, stops |-> 0]

-----------------------------------------------------------------------------
(* Buffers and queues *)

FreeBuffers(d) == {b \in Buffers : d.mem[b] = NoMsg}
Alloc(d) == CHOOSE b \in FreeBuffers(d) : TRUE
Release(mem, bs) == [b \in Buffers |-> IF b \in bs THEN NoMsg ELSE mem[b]]

(* One slot of the ring stays empty. *)
HasRoom(queue) == Len(queue) < QUEUE_SIZE - 1

NextCounter(cnt) == (cnt % COUNTERS) + 1    (* the master's              *)

(* Faulty variant: the counter does not wrap. *)
ReadCounterUnwrapped(d) ==
  IF d.u8MbxReadCounter = 0 THEN 1 ELSE d.u8MbxReadCounter

(* u8MbxReadCounter is the next counter; 0 and COUNTERS + 1 stand for 1.   *)
ReadCounter(d) ==
  IF d.u8MbxReadCounter % (COUNTERS + 1) = 0 THEN 1 ELSE d.u8MbxReadCounter
-----------------------------------------------------------------------------
(* Sending *)

MBX_CanCopy(d) == d.bMbxRunning /\ ~d.bSendMbxIsFull

(* MBX_CopyToSendMailbox once it may: the ESC takes the message unless it  *)
(* still holds one.                                                        *)
MBX_CopyToSendMailbox(d, b) ==
  [d EXCEPT !.sm1 = IF @ = NoMsg THEN d.mem[b] ELSE @,
            !.readEvent = FALSE,
            !.psReadMbx = b,
            !.bSendMbxIsFull = TRUE]

Numbered(d, b) ==
  [d EXCEPT !.mem[b] = [@ EXCEPT !.cnt = ReadCounter(d), !.no = d.made + 1],
            !.u8MbxReadCounter = ReadCounter(d) + 1,
            !.made = @ + 1]

(* Refused in INIT and if the queue is full. *)
MBX_Refuses(d) ==
  \/ ~d.bMbxRunning
  \/ ~MBX_CanCopy(d) /\ ~HasRoom(d.sMbxSendQueue)

MBX_MailboxSendReq(d, b, more) ==
  LET Stored(e) == [e EXCEPT !.u8MailboxSendReqStored = @ \/ more]
  IN IF ~d.bMbxRunning THEN d
     ELSE IF MBX_CanCopy(d)
          THEN Stored(MBX_CopyToSendMailbox(Numbered(d, b), b))
     ELSE IF HasRoom(d.sMbxSendQueue)
          THEN Stored([Numbered(d, b) EXCEPT !.sMbxSendQueue = Append(@, b)])
     ELSE [d EXCEPT !.u8MailboxSendReqStored = TRUE]

(* How SdoRes and SDOS_SdoInfoInd send; a refused response is kept. *)
Respond(d, b, more) ==
  LET e == MBX_MailboxSendReq(d, b, more)
  IN IF MBX_Refuses(d) THEN [e EXCEPT !.pCoeSendStored = b] ELSE e

-----------------------------------------------------------------------------
(* The CoE services answer in the buffer of the request.  The objects of   *)
(* this application answer at once (none returns ABORTIDX_WORKING), with   *)
(* one response that may be an abort.                                      *)

SDOS_SdoInd(d, b) ==
  Respond([d EXCEPT !.mem[b] = Response(@.req, 0)], b, FALSE)

(* An object list: the first fragment if none is left, else the next one.  *)
SDOS_SdoInfoInd(d, b, header) ==
  LET left == IF d.nSdoInfoFragmentsLeft > 0
              THEN d.nSdoInfoFragmentsLeft - 1 ELSE FRAGMENTS
  IN Respond([d EXCEPT !.mem[b] = Response(header, left),
                       !.aSdoInfoHeader = header,
                       !.nSdoInfoFragmentsLeft = left],
             b, left > 0)

(* Any other protocol or service is answered with a mailbox error. *)
MailboxServiceInd(d, b) ==
  LET req == d.mem[b].req
  IN CASE req.kind = "sdo" -> SDOS_SdoInd(d, b)
       [] req.kind = "list" -> SDOS_SdoInfoInd(d, b, req)
       [] OTHER -> MBX_MailboxSendReq(
                     [d EXCEPT !.mem[b] = Response(req, 0)], b, FALSE)

(* Sends what was stored: a refused response, or the next fragment. *)
COE_ContinueInd(d) ==
  IF d.pCoeSendStored # NoBuf
  THEN [MBX_MailboxSendReq(d, d.pCoeSendStored, FALSE)
          EXCEPT !.pCoeSendStored = NoBuf]
  ELSE IF FreeBuffers(d) = {}
       THEN [d EXCEPT !.u8MailboxSendReqStored = TRUE]
  ELSE SDOS_SdoInfoInd(d, Alloc(d), d.aSdoInfoHeader)

-----------------------------------------------------------------------------
(* What ECAT_Main calls for the events of the mailbox *)

(* Faulty variant: repeated requests are not recognised. *)
MBX_MailboxWriteIndAlways(d, b) ==
  [d EXCEPT !.u8MbxWriteCounter = d.mem[b].cnt,
            !.sMbxReceiveQueue = Append(@, b)]

(* A counter that did not change marks a repeated request. *)
MBX_MailboxWriteInd(d, b) ==
  LET cnt == d.mem[b].cnt
  IN IF cnt = d.u8MbxWriteCounter
     THEN [d EXCEPT !.mem[b] = NoMsg]
     ELSE LET e == [d EXCEPT !.u8MbxWriteCounter = cnt]
          IN IF HasRoom(e.sMbxReceiveQueue)
             THEN [e EXCEPT !.sMbxReceiveQueue = Append(@, b)]
             ELSE MBX_MailboxSendReq(
                    [e EXCEPT !.mem[b] = Response(@.req, 0)], b, FALSE)

(* Faulty variant: a request is taken although the send mailbox is full.   *)
MBX_CheckAndCopyMailboxFull(d) ==
  LET seen == [d EXCEPT !.writeEvent = FALSE]
  IN IF d.u8MailboxSendReqStored \/ FreeBuffers(d) = {}
     THEN [seen EXCEPT !.bReceiveMbxIsLocked = TRUE]
     ELSE LET b == Alloc(d)
          IN MBX_MailboxWriteInd(
               [seen EXCEPT !.bReceiveMbxIsLocked = FALSE,
                            !.mem[b] = d.sm0,
                            !.sm0 = NoMsg],
               b)

(* The request stays in the ESC while something is to be sent. *)
MBX_CheckAndCopyMailbox(d) ==
  LET seen == [d EXCEPT !.writeEvent = FALSE]
      busy == d.bSendMbxIsFull \/ d.u8MailboxSendReqStored
                \/ FreeBuffers(d) = {}
  IN IF busy
     THEN [seen EXCEPT !.bReceiveMbxIsLocked = TRUE]
     ELSE LET b == Alloc(d)
          IN MBX_MailboxWriteInd(
               [seen EXCEPT !.bReceiveMbxIsLocked = FALSE,
                            !.mem[b] = d.sm0,
                            !.sm0 = NoMsg],
               b)

(* The master has read the mailbox: keep the message for a repeat, send    *)
(* the one a repeat had displaced or the next of the queue.                *)
MBX_MailboxReadInd(d) ==
  LET forgets == d.psRepeatMbx # NoBuf /\ d.psStoreMbx = NoBuf
      kept == [d EXCEPT !.bSendMbxIsFull = FALSE,
                 !.mem = IF forgets THEN Release(@, {d.psRepeatMbx}) ELSE @,
                 !.psRepeatMbx = d.psReadMbx]
      next == IF d.psStoreMbx # NoBuf
              THEN [MBX_CopyToSendMailbox(kept, d.psStoreMbx)
                      EXCEPT !.psStoreMbx = NoBuf]
              ELSE IF d.sMbxSendQueue # <<>>
                   THEN [MBX_CopyToSendMailbox(kept, Head(d.sMbxSendQueue))
                           EXCEPT !.sMbxSendQueue = Tail(@)]
              ELSE kept
  IN IF d.u8MailboxSendReqStored
     THEN COE_ContinueInd([next EXCEPT !.u8MailboxSendReqStored = FALSE])
     ELSE next

(* Faulty variant: a repeated message stays stored for a repeat. *)
MBX_MailboxRepeatReqKeeps(d) ==
  LET displaced ==
        IF d.psRepeatMbx # NoBuf /\ d.bSendMbxIsFull /\ d.psStoreMbx = NoBuf
        THEN [d EXCEPT !.sm1 = NoMsg, !.readEvent = FALSE,
                       !.psStoreMbx = d.psReadMbx,
                       !.bSendMbxIsFull = FALSE]
        ELSE d
      resent == IF d.psRepeatMbx # NoBuf /\ MBX_CanCopy(displaced)
                THEN MBX_CopyToSendMailbox(displaced, d.psRepeatMbx)
                ELSE displaced
  IN [resent EXCEPT !.bMbxRepeatToggle = ~d.bMbxRepeatToggle,
                    !.rptAck = ~d.bMbxRepeatToggle]

(* The master asks again: displace the message in the ESC by the last one. *)
MBX_MailboxRepeatReq(d) ==
  LET displaced ==
        IF d.bSendMbxIsFull /\ d.psStoreMbx = NoBuf
        THEN [d EXCEPT !.sm1 = NoMsg, !.readEvent = FALSE,
                       !.psStoreMbx = d.psReadMbx,
                       !.bSendMbxIsFull = FALSE]
        ELSE d
      resent ==
        IF d.psRepeatMbx = NoBuf THEN d
        ELSE [(IF MBX_CanCopy(displaced)
               THEN MBX_CopyToSendMailbox(displaced, d.psRepeatMbx)
               ELSE displaced) EXCEPT !.psRepeatMbx = NoBuf]
  IN [resent EXCEPT !.bMbxRepeatToggle = ~d.bMbxRepeatToggle,
                    !.rptAck = ~d.bMbxRepeatToggle]

(* Everything the handler owns is returned; a stored CoE response and the  *)
(* state of an object list are left as they are.                           *)
MBX_StopMailboxHandler(d) ==
  LET owned == {d.psRepeatMbx, d.psStoreMbx, d.psReadMbx}
                 \cup {d.sMbxReceiveQueue[i] : i \in DOMAIN d.sMbxReceiveQueue}
                 \cup {d.sMbxSendQueue[i] : i \in DOMAIN d.sMbxSendQueue}
  IN [d EXCEPT
        !.sm0 = NoMsg, !.sm1 = NoMsg,
        !.writeEvent = FALSE, !.readEvent = FALSE, !.rptAck = FALSE,
        !.bMbxRunning = FALSE, !.bSendMbxIsFull = FALSE,
        !.bReceiveMbxIsLocked = FALSE, !.u8MailboxSendReqStored = FALSE,
        !.bMbxRepeatToggle = FALSE,
        !.u8MbxWriteCounter = 0, !.u8MbxReadCounter = 0,
        !.psRepeatMbx = NoBuf, !.psReadMbx = NoBuf, !.psStoreMbx = NoBuf,
        !.sMbxReceiveQueue = <<>>, !.sMbxSendQueue = <<>>,
        !.mem = Release(@, owned), !.made = 0]

-----------------------------------------------------------------------------
(* ECAT_Main *)

Step(here, next) == pc = here /\ pc' = next

(* MBX_Main takes one request after the other out of the queue ... *)
ServeRequest ==
  /\ Step("main", "main")
  /\ dev.sMbxReceiveQueue # <<>>
  /\ dev' = MailboxServiceInd(
              [dev EXCEPT !.sMbxReceiveQueue = Tail(@)],
              Head(dev.sMbxReceiveQueue))
  /\ UNCHANGED <<sm1Activate, ALEventReg, mst>>

(* Faulty variant: the locked request is forgotten. *)
CheckLockedNever ==
  /\ Step("main", "sm1")
  /\ dev.sMbxReceiveQueue = <<>>
  /\ UNCHANGED <<sm1Activate, ALEventReg, dev, mst>>

(* ... and then looks again at a request it had to leave in the ESC. *)
CheckLocked ==
  /\ Step("main", "sm1")
  /\ dev.sMbxReceiveQueue = <<>>
  /\ dev' = IF dev.bReceiveMbxIsLocked THEN MBX_CheckAndCopyMailbox(dev)
            ELSE dev
  /\ UNCHANGED <<sm1Activate, ALEventReg, mst>>

(* SM1's activate byte is read before the events. *)
ReadSm1 ==
  /\ Step("sm1", "event")
  /\ sm1Activate' = (dev.bMbxRunning /\ dev.rptReq)
  /\ UNCHANGED <<ALEventReg, dev, mst>>

ReadEvents ==
  /\ Step("event", "al")
  /\ ALEventReg' = [read |-> dev.readEvent, al |-> dev.al]
  /\ UNCHANGED <<sm1Activate, dev, mst>>

(* The transitions of AL_ControlInd that start and stop the mailbox; after *)
(* the latter the rest of the round is left out.                           *)
INIT_2_PREOP ==
  /\ Step("al", "read")
  /\ ALEventReg.al = "PREOP"
  /\ dev' = [dev EXCEPT !.al = "none", !.bMbxRunning = TRUE]
  /\ UNCHANGED <<sm1Activate, ALEventReg, mst>>

PREOP_2_INIT ==
  /\ Step("al", "main")
  /\ ALEventReg.al = "INIT"
  /\ dev' = [MBX_StopMailboxHandler(dev) EXCEPT !.al = "none"]
  /\ mst' = [FreshMaster(mst) EXCEPT !.got = 0]
  /\ UNCHANGED <<sm1Activate, ALEventReg>>

NoTransition ==
  /\ Step("al", IF dev.bMbxRunning THEN "read" ELSE "main")
  /\ ALEventReg.al = "none"
  /\ UNCHANGED <<sm1Activate, ALEventReg, dev, mst>>

(* Writing the first word takes the event back. *)
HandleReadEvent ==
  /\ Step("read", "repeat")
  /\ dev' = IF ALEventReg.read
            THEN MBX_MailboxReadInd([dev EXCEPT !.readEvent = FALSE])
            ELSE dev
  /\ UNCHANGED <<sm1Activate, ALEventReg, mst>>

(* Faulty variant: SM1's activate byte is read after the events. *)
HandleRepeatRereads ==
  /\ Step("repeat", "write")
  /\ dev' = IF dev.rptReq # dev.bMbxRepeatToggle
            THEN MBX_MailboxRepeatReq(dev) ELSE dev
  /\ UNCHANGED <<sm1Activate, ALEventReg, mst>>

HandleRepeat ==
  /\ Step("repeat", "write")
  /\ dev' = IF sm1Activate # dev.bMbxRepeatToggle
            THEN MBX_MailboxRepeatReq(dev) ELSE dev
  /\ UNCHANGED <<sm1Activate, ALEventReg, mst>>

(* The event register is read anew. *)
HandleWriteEvent ==
  /\ Step("write", "main")
  /\ dev' = IF dev.writeEvent THEN MBX_CheckAndCopyMailbox(dev) ELSE dev
  /\ UNCHANGED <<sm1Activate, ALEventReg, mst>>

ECAT_Main ==
  \/ ServeRequest \/ CheckLocked \/ ReadSm1 \/ ReadEvents
  \/ INIT_2_PREOP \/ PREOP_2_INIT \/ NoTransition
  \/ HandleReadEvent \/ HandleRepeat \/ HandleWriteEvent

-----------------------------------------------------------------------------
(* The master: it uses the mailbox between its own requests for PREOP and  *)
(* INIT, and asks for an object list only when nothing else is open.       *)

slave == <<pc, sm1Activate, ALEventReg>>

InSession == dev.bMbxRunning /\ dev.al = "none"
MayLose == mst.losses < MAX_LOSSES
AsksList == \E i \in DOMAIN mst.open : mst.open[i].kind = "list"

(* A new request, with the next counter. *)
Ask ==
  /\ InSession
  /\ mst.writing = NoMsg
  /\ mst.asked < MAX_REQUESTS
  /\ Len(mst.open) < MAX_OPEN /\ ~AsksList
  /\ \E kind \in Kinds :
       LET req == [kind |-> kind, n |-> mst.asked + 1]
       IN /\ kind = "list" => mst.open = <<>>
          /\ mst' = [mst EXCEPT !.asked = @ + 1,
                                !.open = Append(@, req),
                                !.cnt = NextCounter(@),
                                !.writing = Request(req, NextCounter(mst.cnt))]
  /\ UNCHANGED <<slave, dev>>

(* The ESC takes the request if its buffer is empty.  The master repeats   *)
(* it until the frame comes back.                                          *)
WriteRequest(lost) ==
  /\ InSession
  /\ mst.writing # NoMsg
  /\ dev.sm0 = NoMsg
  /\ dev' = [dev EXCEPT !.sm0 = mst.writing, !.writeEvent = TRUE]
  /\ mst' = IF lost THEN [mst EXCEPT !.losses = @ + 1]
            ELSE [mst EXCEPT !.writing = NoMsg]
  /\ UNCHANGED slave

(* A response with the counter of the one before is a repeated one. *)
Accepted(m) ==
  IF m.cnt = mst.last THEN mst
  ELSE [mst EXCEPT !.last = m.cnt,
                   !.got = m.no,
                   !.open = IF m.left = 0 /\ @ # <<>> THEN Tail(@) ELSE @]

Polls == InSession /\ mst.phase = "poll" /\ mst.open # <<>>

ReadResponse ==
  /\ Polls /\ dev.sm1 # NoMsg
  /\ dev' = [dev EXCEPT !.sm1 = NoMsg, !.readEvent = TRUE]
  /\ mst' = Accepted(dev.sm1)
  /\ UNCHANGED slave

(* The frame that reads is lost, before or after the ESC has seen it. *)
LoseRead ==
  /\ Polls /\ MayLose
  /\ \/ UNCHANGED dev
     \/ /\ dev.sm1 # NoMsg
        /\ dev' = [dev EXCEPT !.sm1 = NoMsg, !.readEvent = TRUE]
  /\ mst' = [mst EXCEPT !.phase = "toggle", !.losses = @ + 1]
  /\ UNCHANGED slave

ToggleRepeat ==
  /\ InSession /\ mst.phase = "toggle"
  /\ dev' = [dev EXCEPT !.rptReq = ~@]
  /\ mst' = [mst EXCEPT !.phase = "wait"]
  /\ UNCHANGED slave

SeeRepeatAck ==
  /\ InSession /\ mst.phase = "wait" /\ dev.rptAck = dev.rptReq
  /\ mst' = [mst EXCEPT !.phase = "poll"]
  /\ UNCHANGED <<slave, dev>>

(* The sync managers are configured anew before PREOP. *)
RequestPreop ==
  /\ ~dev.bMbxRunning /\ dev.al = "none"
  /\ dev' = [dev EXCEPT !.al = "PREOP", !.rptReq = FALSE]
  /\ UNCHANGED <<slave, mst>>

RequestInit ==
  /\ InSession /\ mst.stops < MAX_STOPS
  /\ dev' = [dev EXCEPT !.al = "INIT"]
  /\ mst' = [mst EXCEPT !.stops = @ + 1]
  /\ UNCHANGED slave

Next ==
  \/ ECAT_Main
  \/ Ask \/ WriteRequest(FALSE) \/ (MayLose /\ WriteRequest(TRUE))
  \/ ReadResponse \/ LoseRead \/ ToggleRepeat \/ SeeRepeatAck
  \/ RequestPreop \/ RequestInit

(* The main loop goes on; the master repeats what was lost and polls.      *)
Fairness ==
  /\ WF_vars(ECAT_Main)
  /\ WF_vars(WriteRequest(FALSE)) /\ WF_vars(ReadResponse)
  /\ WF_vars(ToggleRepeat) /\ WF_vars(SeeRepeatAck)

Spec == Init /\ [][Next]_vars /\ Fairness

-----------------------------------------------------------------------------
(* Types: pointers are buffers or NULL, queues and counters stay in their  *)
(* ranges (struct and variables of mailbox.c).                             *)
TypeOK ==
  /\ pc \in {"main", "sm1", "event", "al", "read", "repeat", "write"}
  /\ sm1Activate \in BOOLEAN
  /\ ALEventReg \in [read : BOOLEAN, al : {"none", "INIT", "PREOP"}]
  /\ {dev.psRepeatMbx, dev.psReadMbx, dev.psStoreMbx, dev.pCoeSendStored}
       \subseteq Buffers \cup {NoBuf}
  /\ dev.sMbxReceiveQueue \in Seq(Buffers) /\ dev.sMbxSendQueue \in Seq(Buffers)
  /\ dev.u8MbxWriteCounter \in 0..COUNTERS
  /\ dev.u8MbxReadCounter \in 0..COUNTERS + 1
  /\ dev.nSdoInfoFragmentsLeft \in 0..FRAGMENTS
  /\ mst.phase \in {"poll", "toggle", "wait"}

(* The places a buffer can be held in; the message last read is also the   *)
(* one kept for a repeat until the next is sent.                           *)
Pointer(b) == IF b = NoBuf THEN <<>> ELSE <<b>>
Holders ==
  dev.sMbxReceiveQueue \o dev.sMbxSendQueue \o Pointer(dev.psRepeatMbx)
    \o Pointer(dev.psStoreMbx) \o Pointer(dev.pCoeSendStored)
    \o (IF dev.psReadMbx = dev.psRepeatMbx THEN <<>>
        ELSE Pointer(dev.psReadMbx))

(* Through repeats, stored messages and stops, every allocated buffer has  *)
(* exactly one holder and no holder has a freed buffer: none is freed      *)
(* twice, used after it was freed, or lost (mailbox.c:378-436, 537-631).   *)
OneHolder ==
  /\ \A i, j \in DOMAIN Holders : Holders[i] = Holders[j] => i = j
  /\ {Holders[i] : i \in DOMAIN Holders} = Buffers \ FreeBuffers(dev)

(* Requests are only taken while nothing waits to be sent: however many    *)
(* the master has open, two wait to be served and one response to be sent, *)
(* the queues never refuse, and no response is left behind in              *)
(* pCoeSendStored, which a stop would not free (mailbox.c:693, 765-776).   *)
QueueSuffices ==
  /\ Len(dev.sMbxReceiveQueue) <= 2
  /\ Len(dev.sMbxSendQueue) <= 1
  /\ dev.pCoeSendStored = NoBuf

(* Every response answers the oldest open request of the master: none is   *)
(* served twice because its write was repeated, or skipped                 *)
(* (mailbox.c:497-529).                                                    *)
AnswersMatch ==
  [][mst'.got > mst.got =>
       /\ mst.open # <<>>
       /\ dev.sm1.req = Head(mst.open)]_vars

(* The responses reach the master in order and exactly once, whatever read *)
(* was lost and repeated.                                                  *)
Unread ==
  {[no |-> m.no, is |-> <<m.req, m.left>>] :
     m \in {dev.mem[b] : b \in {c \in Buffers :
              dev.mem[c].type = "response" /\ dev.mem[c].no > mst.got}}}

Channel == INSTANCE ResponseChannel
  WITH made <- dev.made, got <- mst.got, unread <- Unread,
       Contents <- [kind : Kinds, n : 1..MAX_REQUESTS] \X (0..FRAGMENTS)

DeliversInOrder == Channel!Spec

(* Every request is answered in the end, whatever was lost, unless the     *)
(* master asks for INIT (mailbox.c:765-776, 946-951).                    *)
Answered == (mst.open # <<>>) ~> (mst.open = <<>>)

(* What sdoserv.c says of object lists: no fragments are left when a list  *)
(* is asked for (sdoserv.c:1170).                                          *)
ListStartsFresh ==
  \A i \in DOMAIN dev.sMbxReceiveQueue :
    dev.mem[dev.sMbxReceiveQueue[i]].req.kind = "list"
      => dev.nSdoInfoFragmentsLeft = 0

=============================================================================
