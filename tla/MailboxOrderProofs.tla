------------------------- MODULE MailboxOrderProofs -------------------------
(***************************************************************************)
(* The responses of the mailbox reach the master in order and exactly      *)
(* once, and answer its oldest request, whatever frame is lost: Mailbox    *)
(* implements ResponseChannel, for any number of buffers, requests,        *)
(* losses and stops.                                                       *)
(*                                                                         *)
(* MailboxProofs says in whose hands a buffer is; this module says what    *)
(* the buffers hold: the numbers of the responses form one chain from the  *)
(* queue through the send mailbox to the message kept for a repeat, and    *)
(* the requests one from the master to the receive queue.                  *)
(***************************************************************************)
EXTENDS MailboxProofs

(* The counter of the j-th message of a session; none has been sent: 0. *)
Count(j) == IF j = 0 THEN 0 ELSE ((j - 1) % COUNTERS) + 1

(* The repeat handshake: the slave acknowledges with its toggle, and while *)
(* a repeat is asked for the master waits. The copy of SM1's activate byte *)
(* shows a repeat only if the events were read after it was asked for,     *)
(* hence the lost message's event has been handled before the repeat.      *)
Repeats(p, act, reg, d, m) ==
  /\ d.rptAck = d.bMbxRepeatToggle
  /\ d.bMbxRunning => /\ d.al # "PREOP"
                      /\ d.rptReq = d.bMbxRepeatToggle \/ m.phase = "wait"
  /\ ~d.bMbxRunning => /\ d.al # "INIT"
                       /\ ~d.bMbxRepeatToggle
                       /\ d.al = "PREOP" => ~d.rptReq
  /\ p \in {"event", "al", "read", "repeat"} /\ act # d.bMbxRepeatToggle
       => /\ d.bMbxRunning /\ d.rptReq = act
          /\ p \in {"al", "read"} /\ d.readEvent => reg.read
          /\ p = "repeat" => ~d.readEvent
  /\ p = "al" /\ reg.al # "none" => reg.al = d.al

(* A repeat that was or will be asked for has not been handled. *)
Pends(d, m) == m.phase = "toggle" \/ d.rptReq # d.bMbxRepeatToggle

(* A stopped mailbox and its master start from nothing. *)
Fresh(d, m) ==
  ~d.bMbxRunning =>
     /\ d.made = 0 /\ d.psReadMbx = NoBuf /\ ~d.bSendMbxIsFull
     /\ d.u8MbxWriteCounter = 0
     /\ m.writing = NoMsg /\ m.phase = "poll" /\ m.open = <<>> /\ m.got = 0

(* The responses follow each other without a gap: the one kept for a       *)
(* repeat, the one in the send mailbox, the one a repeat displaced, the    *)
(* one that waits. *)
Chain(d) ==
  /\ \A b \in Sending(d) \ {NoBuf} :
       /\ d.mem[b].no >= 1
       /\ d.mem[b].cnt = Count(d.mem[b].no)
       /\ d.mem[b].left = 0
  /\ d.u8MbxReadCounter = IF d.made = 0 THEN 0 ELSE Count(d.made) + 1
  /\ \A b \in Rng(d.sMbxSendQueue) : d.mem[b].no = d.made
  /\ IF d.psReadMbx = NoBuf THEN d.made = 0
     ELSE d.made = d.mem[d.psReadMbx].no + Len(d.sMbxSendQueue)
                     + (IF d.psStoreMbx = NoBuf THEN 0 ELSE 1)
  /\ d.psStoreMbx # NoBuf
       => d.mem[d.psStoreMbx].no = d.mem[d.psReadMbx].no + 1
  /\ d.bSendMbxIsFull /\ d.psRepeatMbx # NoBuf
       => d.mem[d.psRepeatMbx].no = d.mem[d.psReadMbx].no - 1
  /\ d.sm1 # NoMsg => d.sm1 = d.mem[d.psReadMbx]
  /\ d.bSendMbxIsFull /\ d.sm1 = NoMsg => d.readEvent

(* How far the master is behind the send mailbox: what it missed is there, *)
(* or kept, and it asks for a repeat. *)
Reads(d, m) ==
  /\ m.last = Count(m.got)
  /\ d.psReadMbx = NoBuf => m.got = 0
  /\ d.psReadMbx # NoBuf =>
       IF d.sm1 # NoMsg
       THEN \/ m.got = d.mem[d.psReadMbx].no - 1
            \/ m.got = d.mem[d.psReadMbx].no /\ d.psRepeatMbx = NoBuf
            \/ /\ m.got = d.mem[d.psReadMbx].no - 2
               /\ d.psRepeatMbx # NoBuf /\ Pends(d, m)
       ELSE \/ m.got = d.mem[d.psReadMbx].no
            \/ m.got = d.mem[d.psReadMbx].no - 1 /\ Pends(d, m)

(* The requests of a session follow each other without a gap: those in the *)
(* receive queue, the one in the ESC, the one the master is writing. The   *)
(* last two may be repetitions of the one before. *)
Received(d) == d.made + Len(d.sMbxReceiveQueue)
IsNew(d) == d.sm0 # NoMsg /\ d.sm0.cnt # d.u8MbxWriteCounter
Arrived(d) == Received(d) + (IF IsNew(d) THEN 1 ELSE 0)
Issued(m) == m.got + Len(m.open)

Writes(d, m) ==
  /\ d.u8MbxWriteCounter = Count(Received(d))
  /\ m.cnt = Count(Issued(m))
  /\ IsNew(d) => /\ d.sm0.cnt = Count(Arrived(d))
                 /\ Arrived(d) <= Issued(m)
                 /\ d.sm0.req = m.open[Arrived(d) - m.got]
  /\ Issued(m) = Arrived(d) \/ (Issued(m) = Arrived(d) + 1 /\ m.writing # NoMsg)
  /\ m.writing # NoMsg
       => /\ m.writing.cnt = m.cnt
          /\ Issued(m) > Received(d) => m.writing.req = m.open[Len(m.open)]

(* The j-th response of a session answers its j-th request; the master has *)
(* those open whose response it has not got. *)
Answering(d, m) ==
  \A b \in Sending(d) \ {NoBuf} :
    d.mem[b].no > m.got => d.mem[b].req = m.open[d.mem[b].no - m.got]

Waiting(d, m) ==
  \A i \in DOMAIN d.sMbxReceiveQueue :
    d.mem[d.sMbxReceiveQueue[i]].req = m.open[d.made + i - m.got]

Asking(m) ==
  /\ m.asked <= MAX_REQUESTS
  /\ \A i \in DOMAIN m.open : m.open[i].n \in 1..MAX_REQUESTS

Order(d, m) ==
  /\ Fresh(d, m) /\ Chain(d) /\ Reads(d, m) /\ Writes(d, m)
  /\ Answering(d, m) /\ Waiting(d, m) /\ Asking(m)

OInv ==
  /\ IInv
  /\ Repeats(pc, sm1Activate, ALEventReg, dev, mst)
  /\ Order(dev, mst)

-----------------------------------------------------------------------------
(* Counters *)

LEMMA Residue ==
  ASSUME NEW C \in Nat, C >= 2, NEW a \in Nat
  PROVE  a % C \in 0..(C - 1)
OBVIOUS

LEMMA Quotient ==
  ASSUME NEW C \in Nat, C >= 2, NEW a \in Nat
  PROVE  a \div C \in Int
OBVIOUS

LEMMA Division ==
  ASSUME NEW C \in Nat, C >= 2, NEW a \in Nat
  PROVE  a = C * (a \div C) + (a % C)
OBVIOUS

LEMMA RemainderIs ==
  ASSUME NEW C \in Nat, C >= 2, NEW q \in Int, NEW r \in 0..(C - 1)
  PROVE  (C * q + r) % C = r
OBVIOUS

LEMMA SmallRemainder ==
  ASSUME NEW C \in Nat, C >= 2, NEW r \in 0..(C - 1)
  PROVE  r % C = r /\ C % C = 0
OBVIOUS

LEMMA RemainderNext ==
  ASSUME NEW C \in Nat, C >= 2, NEW a \in Nat
  PROVE  (a + 1) % C = IF (a % C) + 1 = C THEN 0 ELSE (a % C) + 1
<1> DEFINE q == a \div C
           r == a % C
<1>1. q \in Int /\ r \in 0..(C - 1) /\ a = C * q + r
  BY Residue, Quotient, Division
<1> HIDE DEF q, r
<1>2. CASE r + 1 = C
  <2>1. a + 1 = C * (q + 1) + 0
    BY <1>1, <1>2
  <2>2. q + 1 \in Int /\ 0 \in 0..(C - 1)
    BY <1>1
  <2>3. (C * (q + 1) + 0) % C = 0
    BY <2>2, RemainderIs
  <2> QED  BY <1>2, <2>1, <2>3 DEF r
<1>3. CASE r + 1 # C
  <2>1. a + 1 = C * q + (r + 1) /\ r + 1 \in 0..(C - 1)
    BY <1>1, <1>3
  <2>2. (C * q + (r + 1)) % C = r + 1
    BY <1>1, <2>1, RemainderIs
  <2> QED  BY <1>3, <2>1, <2>2 DEF r
<1> QED  BY <1>2, <1>3

(* Counters of consecutive messages differ. *)
LEMMA CountNext ==
  ASSUME NEW j \in Nat
  PROVE  /\ Count(j) \in 0..COUNTERS /\ (j > 0 => Count(j) > 0)
         /\ Count(j + 1) = NextCounter(Count(j))
         /\ Count(j + 1) # Count(j)
<1>1. COUNTERS \in Nat /\ COUNTERS >= 2
  BY MailboxAssumptions
<1> DEFINE C == COUNTERS
<1>2. CASE j = 0
  <2>1. 0 % C = 0
    BY <1>1, SmallRemainder
  <2> QED  BY <1>1, <1>2, <2>1 DEF Count, NextCounter
<1>3. CASE j > 0
  <2> DEFINE a == j - 1
             r == a % C
  <2>1. a \in Nat /\ j = a + 1
    BY <1>3
  <2> HIDE DEF a
  <2>2. r \in 0..(C - 1)
    BY <1>1, <2>1, Residue
  <2>3. j % C = IF r + 1 = C THEN 0 ELSE r + 1
    BY <1>1, <2>1, RemainderNext
  <2>4. (r + 1) % C = IF r + 1 = C THEN 0 ELSE r + 1
    <3>1. CASE r + 1 = C
      BY <1>1, <3>1, SmallRemainder
    <3>2. CASE r + 1 # C
      <4>1. r + 1 \in 0..(C - 1)
        BY <1>1, <2>2, <3>2
      <4> QED  BY <1>1, <3>2, <4>1, SmallRemainder
    <3> QED  BY <3>1, <3>2
  <2>5. Count(j) = r + 1 /\ Count(j + 1) = (j % C) + 1
    BY <1>3, <2>1 DEF Count, a
  <2> HIDE DEF r
  <2> QED  BY <1>1, <2>2, <2>3, <2>4, <2>5 DEF NextCounter
<1> QED  BY <1>2, <1>3

(* The counter MBX_MailboxSendReq gives is the one after the last. *)
LEMMA ReadCounterIs ==
  ASSUME NEW d \in Slave,
         d.u8MbxReadCounter = IF d.made = 0 THEN 0 ELSE Count(d.made) + 1
  PROVE  d.made \in Nat /\ ReadCounter(d) = Count(d.made + 1)
<1>1. COUNTERS \in Nat /\ COUNTERS >= 2 /\ d.made \in Nat
  BY MailboxAssumptions DEF Slave
<1> DEFINE C == COUNTERS
           c == Count(d.made)
<1>2. /\ c \in 0..C /\ (d.made > 0 => c > 0)
      /\ Count(d.made + 1) = NextCounter(c)
  BY <1>1, CountNext
<1>3. NextCounter(c) = IF c = C THEN 1 ELSE c + 1
  <2>1. CASE c = C
    BY <1>1, <2>1, SmallRemainder DEF NextCounter
  <2>2. CASE c # C
    <3>1. c \in 0..(C - 1)
      BY <1>1, <1>2, <2>2
    <3> HIDE DEF c
    <3> QED  BY <1>1, <2>2, <3>1, SmallRemainder DEF NextCounter
  <2> QED  BY <2>1, <2>2
<1>4. c = 0 => d.made = 0
  BY <1>1, <1>2
<1>5. d.made = 0 => c = 0
  BY DEF Count
<1> HIDE DEF c
<1>6. CASE d.made = 0
  <2>1. 0 % (C + 1) = 0 /\ d.u8MbxReadCounter = 0
    BY <1>1, <1>6, SmallRemainder
  <2>2. ReadCounter(d) = 1
    BY <2>1 DEF ReadCounter
  <2> QED  BY <1>1, <1>2, <1>3, <1>5, <1>6, <2>2
<1>7. CASE d.made # 0
  <2>1. d.u8MbxReadCounter = c + 1
    BY <1>7 DEF c
  <2>2. CASE c = C
    <3>1. (C + 1) % (C + 1) = 0
      BY <1>1, SmallRemainder
    <3>2. ReadCounter(d) = 1
      BY <2>1, <2>2, <3>1 DEF ReadCounter
    <3> QED  BY <1>1, <1>2, <1>3, <2>2, <3>2
  <2>3. CASE c # C
    <3>1. c + 1 \in 0..C /\ c + 1 # 0
      BY <1>1, <1>2, <2>3
    <3>2. (c + 1) % (C + 1) = c + 1
      BY <1>1, <3>1, SmallRemainder
    <3>3. ReadCounter(d) = c + 1
      BY <2>1, <3>1, <3>2 DEF ReadCounter
    <3> QED  BY <1>1, <1>2, <1>3, <2>3, <3>3
  <2> QED  BY <2>2, <2>3
<1> QED  BY <1>1, <1>6, <1>7

-----------------------------------------------------------------------------
(* What the functions of mailbox.c do to the fields the order rests on *)

SameHand(d, e) ==
  /\ e.rptReq = d.rptReq /\ e.rptAck = d.rptAck /\ e.al = d.al
  /\ e.bMbxRunning = d.bMbxRunning
  /\ e.bMbxRepeatToggle = d.bMbxRepeatToggle

SameTake(d, e) ==
  /\ e.sm0 = d.sm0 /\ e.u8MbxWriteCounter = d.u8MbxWriteCounter
  /\ e.sMbxReceiveQueue = d.sMbxReceiveQueue

SameCount(d, e) ==
  e.u8MbxReadCounter = d.u8MbxReadCounter /\ e.made = d.made

LEMMA RenumberedOrder ==
  ASSUME NEW d \in Slave, NEW mem, NEW u, NEW n
  PROVE  LET e == Renumbered(d, mem, u, n)
         IN /\ SameHand(d, e) /\ SameTake(d, e)
            /\ e.mem = mem /\ e.u8MbxReadCounter = u /\ e.made = n
BY ZenonT(60) DEF Slave, SameHand, SameTake, Renumbered

LEMMA CopyOrder ==
  ASSUME NEW d \in Slave, NEW b
  PROVE  LET e == MBX_CopyToSendMailbox(d, b)
         IN /\ SameHand(d, e) /\ SameTake(d, e) /\ SameCount(d, e)
            /\ e.sm1 = IF d.sm1 = NoMsg THEN d.mem[b] ELSE d.sm1
BY ZenonT(60)
   DEF Slave, SameHand, SameTake, SameCount, MBX_CopyToSendMailbox

LEMMA StoredOrder ==
  ASSUME NEW d \in Slave
  PROVE  LET e == [d EXCEPT !.u8MailboxSendReqStored = @ \/ FALSE]
         IN SameHand(d, e) /\ SameTake(d, e) /\ SameCount(d, e)
BY ZenonT(60) DEF Slave, SameHand, SameTake, SameCount

LEMMA QueuedOrder ==
  ASSUME NEW d \in Slave, NEW b
  PROVE  LET e == [d EXCEPT !.sMbxSendQueue = Append(@, b)]
         IN SameHand(d, e) /\ SameTake(d, e) /\ SameCount(d, e)
BY ZenonT(60) DEF Slave, SameHand, SameTake, SameCount

(* A response is sent with the next number and counter. *)
IsSent(d, b, e) ==
  /\ SameHand(d, e) /\ SameTake(d, e)
  /\ e.made = d.made + 1 /\ e.u8MbxReadCounter = ReadCounter(d) + 1
  /\ e.mem[b] = [d.mem[b] EXCEPT !.cnt = ReadCounter(d), !.no = d.made + 1]
  /\ ~d.bSendMbxIsFull => e.sm1 = IF d.sm1 = NoMsg THEN e.mem[b] ELSE d.sm1

LEMMA SendOrder ==
  ASSUME Undivided, NEW d \in Slave, NEW b \in Buffers, d.mem[b] \in Responses,
         d.bMbxRunning, d.sMbxSendQueue = <<>>,
         NEW e, e = MBX_MailboxSendReq(d, b, FALSE)
  PROVE  IsSent(d, b, e)
<1>1. HasRoom(d.sMbxSendQueue)
  <2>1. QUEUE_SIZE \in Nat /\ QUEUE_SIZE >= 3 /\ Len(<<>>) = 0
    BY MailboxAssumptions DEF Undivided
  <2> QED  BY <2>1 DEF HasRoom
<1> DEFINE n == Numbered(d, b)
           m == [d.mem[b] EXCEPT !.cnt = ReadCounter(d), !.no = d.made + 1]
<1>2. /\ n \in Slave /\ SameSend(d, n)
      /\ n.mem[b] \in Responses
  BY NumberedFields
<1>3. /\ SameHand(d, n) /\ SameTake(d, n)
      /\ n.mem[b] = m
      /\ n.u8MbxReadCounter = ReadCounter(d) + 1 /\ n.made = d.made + 1
  <2> DEFINE mem == [d.mem EXCEPT ![b] = m]
             u == ReadCounter(d) + 1
             k == d.made + 1
  <2>1. n = Renumbered(d, mem, u, k)
    BY DEF Numbered, Renumbered
  <2>2. mem[b] = m
    BY DEF Slave
  <2> HIDE DEF mem, u, k, n
  <2>3. /\ SameHand(d, n) /\ SameTake(d, n) /\ n.mem = mem
        /\ n.u8MbxReadCounter = u /\ n.made = k
    BY <2>1, RenumberedOrder
  <2> QED  BY <2>2, <2>3 DEF u, k
<1>4. CASE d.bSendMbxIsFull
  <2> DEFINE q == [n EXCEPT !.sMbxSendQueue = Append(@, b)]
  <2>1. e = [q EXCEPT !.u8MailboxSendReqStored = @ \/ FALSE]
    BY <1>1, <1>4 DEF MBX_MailboxSendReq, MBX_CanCopy
  <2> HIDE DEF n, m
  <2>2. q \in Slave /\ q.mem = n.mem
    BY <1>2, QueuedFields
  <2>3. SameHand(n, q) /\ SameTake(n, q) /\ SameCount(n, q)
    BY <1>2, QueuedOrder
  <2> HIDE DEF q
  <2>4. e.mem = q.mem
    BY <2>1, <2>2, StoredFields
  <2>5. SameHand(q, e) /\ SameTake(q, e) /\ SameCount(q, e)
    BY <2>1, <2>2, StoredOrder
  <2>6. SameHand(d, e)
    BY <1>3, <2>3, <2>5 DEF SameHand
  <2>7. SameTake(d, e)
    BY <1>3, <2>3, <2>5 DEF SameTake
  <2> QED
    BY <1>3, <1>4, <2>2, <2>3, <2>4, <2>5, <2>6, <2>7
       DEF IsSent, SameCount, m
<1>5. CASE ~d.bSendMbxIsFull
  <2> DEFINE q == MBX_CopyToSendMailbox(n, b)
  <2>1. e = [q EXCEPT !.u8MailboxSendReqStored = @ \/ FALSE]
    BY <1>5 DEF MBX_MailboxSendReq, MBX_CanCopy
  <2> HIDE DEF n, m
  <2>2. q \in Slave /\ q.mem = n.mem
    BY <1>2, CopyFields
  <2>3. /\ SameHand(n, q) /\ SameTake(n, q) /\ SameCount(n, q)
        /\ q.sm1 = IF n.sm1 = NoMsg THEN n.mem[b] ELSE n.sm1
    BY <1>2, CopyOrder
  <2> HIDE DEF q
  <2>4. e.mem = q.mem /\ e.sm1 = q.sm1
    BY <2>1, <2>2, StoredFields DEF SameSend
  <2>5. SameHand(q, e) /\ SameTake(q, e) /\ SameCount(q, e)
    BY <2>1, <2>2, StoredOrder
  <2>6. SameHand(d, e)
    BY <1>3, <2>3, <2>5 DEF SameHand
  <2>7. SameTake(d, e)
    BY <1>3, <2>3, <2>5 DEF SameTake
  <2>8. n.sm1 = d.sm1
    BY <1>2 DEF SameSend
  <2> QED
    BY <1>3, <1>5, <2>2, <2>3, <2>4, <2>5, <2>6, <2>7, <2>8
       DEF IsSent, SameCount, m
<1>6. d.bSendMbxIsFull \in BOOLEAN
  BY DEF Slave
<1> QED  BY <1>4, <1>5, <1>6

(* Taking the oldest request out of the queue and answering it.           *)
Answer(req, cnt, no) ==
  [type |-> "response", req |-> req, left |-> 0, cnt |-> cnt, no |-> no]

IsServed(d, b, e) ==
  /\ SameHand(d, e) /\ e.sm0 = d.sm0
  /\ e.u8MbxWriteCounter = d.u8MbxWriteCounter
  /\ e.sMbxReceiveQueue = Tail(d.sMbxReceiveQueue)
  /\ e.made = d.made + 1 /\ e.u8MbxReadCounter = ReadCounter(d) + 1
  /\ e.mem[b] = Answer(d.mem[b].req, ReadCounter(d), d.made + 1)
  /\ \A c \in Buffers \ {b} : e.mem[c] = d.mem[c]
  /\ e.psRepeatMbx = d.psRepeatMbx /\ e.psStoreMbx = d.psStoreMbx
  /\ e.bSendMbxIsFull
  /\ IF d.bSendMbxIsFull
     THEN /\ e.sMbxSendQueue = Append(<<>>, b)
          /\ e.psReadMbx = d.psReadMbx
          /\ e.sm1 = d.sm1 /\ e.readEvent = d.readEvent
     ELSE /\ e.sMbxSendQueue = <<>> /\ e.psReadMbx = b
          /\ e.sm1 = e.mem[b] /\ ~e.readEvent

LEMMA PoppedOrder ==
  ASSUME NEW d \in Slave, NEW q
  PROVE  LET e == Popped(d, q)
         IN /\ SameHand(d, e) /\ SameCount(d, e)
            /\ e.u8MbxWriteCounter = d.u8MbxWriteCounter
            /\ ReadCounter(e) = ReadCounter(d)
BY ZenonT(60) DEF Slave, SameHand, SameCount, Popped, ReadCounter

LEMMA AnsweredOrder ==
  ASSUME NEW d \in Slave, NEW b, NEW r, NEW h,
         NEW e, e = Filled(d, b, r) \/ e = Listed(d, b, r, h)
  PROVE  SameHand(d, e) /\ SameTake(d, e) /\ SameCount(d, e)
BY ZenonT(60)
   DEF Slave, SameHand, SameTake, SameCount, Filled, Listed

(* While a request waits, no response does. *)
LEMMA ServeFindsRoom ==
  ASSUME NEW d, Owner(d, {}, 0), d.sMbxReceiveQueue # <<>>
  PROVE  d.sMbxSendQueue = <<>> /\ d.bMbxRunning
<1> DEFINE x == Len(d.sMbxReceiveQueue)
           y == Len(d.sMbxSendQueue)
<1>1. /\ d.sMbxReceiveQueue \in Seq(Buffers)
      /\ d.sMbxSendQueue \in Seq(Buffers)
      /\ d.bSendMbxIsFull \in BOOLEAN
  BY DEF Owner, Slave
<1>2. x \in Nat /\ y \in Nat /\ x # 0
  BY <1>1, LenProperties, EmptySeq
<1>3. d.bSendMbxIsFull => x + y + 0 <= 1
  BY DEF Owner, Load
<1>4. ~d.bSendMbxIsFull => d.sMbxSendQueue = <<>>
  BY DEF Owner, Pointing
<1>5. d.bMbxRunning
  BY DEF Owner, Load
<1>6. CASE d.bSendMbxIsFull
  <2> HIDE DEF x, y
  <2>1. y = 0
    BY <1>2, <1>3, <1>6
  <2> QED  BY <1>1, <1>5, <2>1, EmptySeq DEF y
<1> QED  BY <1>1, <1>4, <1>5, <1>6

LEMMA ServeOrder ==
  ASSUME NEW d, Owner(d, {}, 0), d.sMbxReceiveQueue # <<>>,
         NEW b, b = Head(d.sMbxReceiveQueue), NEW e,
         e = MailboxServiceInd(
               [d EXCEPT !.sMbxReceiveQueue = Tail(@)], b)
  PROVE  /\ b \in Buffers /\ d.mem[b] \in Requests
         /\ IsServed(d, b, e)
<1> DEFINE p == [d EXCEPT !.sMbxReceiveQueue = Tail(@)]
           req == d.mem[b].req
           r == Response(req, 0)
           a == Filled(p, b, r)
           l == Listed(p, b, r, req)
<1>1. d \in Slave /\ d.sMbxSendQueue = <<>> /\ Undivided
  BY ServeFindsRoom DEF Owner
<1>2. /\ b \in Buffers /\ Owner(p, {b}, 1)
      /\ p.mem[b] \in Requests /\ p.bMbxRunning
  BY PopOwner
<1>3. /\ p \in Slave /\ p.mem = d.mem /\ p.sm0 = d.sm0 /\ SameSend(d, p)
      /\ p.sMbxReceiveQueue = Tail(d.sMbxReceiveQueue)
      /\ SameHand(d, p) /\ SameCount(d, p)
      /\ p.u8MbxWriteCounter = d.u8MbxWriteCounter
      /\ ReadCounter(p) = ReadCounter(d)
  <2> DEFINE t == Tail(d.sMbxReceiveQueue)
  <2>1. p = Popped(d, t)
    BY DEF Popped
  <2>2. t \in Seq(Buffers)
    BY <1>1, HeadTailProperties DEF Slave
  <2> HIDE DEF p, t
  <2>3. /\ p \in Slave /\ p.mem = d.mem /\ p.sm0 = d.sm0 /\ SameSend(d, p)
        /\ p.sMbxReceiveQueue = t
    BY <1>1, <2>1, <2>2, PopFields
  <2>4. /\ SameHand(d, p) /\ SameCount(d, p)
        /\ p.u8MbxWriteCounter = d.u8MbxWriteCounter
        /\ ReadCounter(p) = ReadCounter(d)
    BY <1>1, <2>1, PoppedOrder
  <2> QED  BY <2>3, <2>4 DEF t
<1>4. e = MailboxServiceInd(p, b) /\ p.nSdoInfoFragmentsLeft = 0
      /\ p.mem[b].req = req
  BY <1>3 DEF Slave
<1> HIDE DEF p
<1>5. req \in Req /\ req.kind \in Kinds /\ r \in Responses
  BY <1>2, <1>4 DEF Requests, Responses, Response, Req
<1>6. \E x \in {a, l} : e = Respond(x, b, FALSE)
                          \/ e = MBX_MailboxSendReq(x, b, FALSE)
  <2>1. CASE req.kind = "sdo"
    BY <1>4, <2>1 DEF MailboxServiceInd, SDOS_SdoInd, Filled
  <2>2. CASE req.kind = "list"
    <3>1. e = SDOS_SdoInfoInd(p, b, req)
      BY <1>4, <2>2 DEF MailboxServiceInd
    <3>2. SDOS_SdoInfoInd(p, b, req) = Respond(l, b, FALSE)
      <4>1. (IF p.nSdoInfoFragmentsLeft > 0
             THEN p.nSdoInfoFragmentsLeft - 1 ELSE FRAGMENTS) = 0
        BY <1>1, <1>4, <1>5, <2>2 DEF Undivided
      <4>2. (0 > 0) = FALSE
        OBVIOUS
      <4> QED  BY <4>1, <4>2 DEF SDOS_SdoInfoInd, Listed
    <3> QED  BY <3>1, <3>2
  <2>3. CASE req.kind \notin {"sdo", "list"}
    BY <1>4, <2>3 DEF MailboxServiceInd, Filled
  <2> QED  BY <2>1, <2>2, <2>3
<1>7. PICK x \in {a, l} : e = Respond(x, b, FALSE)
                            \/ e = MBX_MailboxSendReq(x, b, FALSE)
  BY <1>6
<1>8. /\ x \in Slave /\ Same(p, x) /\ SameSend(p, x) /\ x.mem[b] = r
      /\ \A c \in Buffers \ {b} : x.mem[c] = p.mem[c]
  <2> HIDE DEF r, req
  <2>1. x = Filled(p, b, r) \/ \E h \in Req : x = Listed(p, b, r, h)
    BY <1>5, <1>7
  <2>2. r \in Message
    BY <1>5 DEF Message
  <2> HIDE DEF a, l
  <2>3. IsAnswered(p, b, r, x)
    BY <1>2, <1>3, <2>1, <2>2, AnswerFields
  <2> QED  BY <2>3 DEF IsAnswered
<1>9. SameHand(p, x) /\ SameTake(p, x) /\ SameCount(p, x)
  BY <1>3, <1>7, AnsweredOrder
<1>10. ReadCounter(x) = ReadCounter(p)
  BY <1>9 DEF ReadCounter, SameCount
<1>11. /\ Owner(x, {b}, 1) /\ x.bMbxRunning /\ x.mem[b] \in Responses
       /\ x.sMbxSendQueue = <<>>
  BY <1>1, <1>2, <1>3, <1>5, <1>8, AnswerOwner DEF Same, SameSend
<1> HIDE DEF a, l
<1>12. e = MBX_MailboxSendReq(x, b, FALSE)
  BY <1>2, <1>7, <1>11, SendOwner DEF Respond
<1>13. IsSent(x, b, e) /\ Sent(x, b, e)
  BY <1>1, <1>2, <1>8, <1>11, <1>12, SendOrder, SendFields
<1>14. SameHand(d, e)
  BY <1>3, <1>9, <1>13 DEF SameHand, IsSent
<1>15. /\ e.sm0 = d.sm0 /\ e.u8MbxWriteCounter = d.u8MbxWriteCounter
       /\ e.sMbxReceiveQueue = Tail(d.sMbxReceiveQueue)
  BY <1>3, <1>9, <1>13 DEF SameTake, IsSent
<1>16. /\ e.made = d.made + 1 /\ e.u8MbxReadCounter = ReadCounter(d) + 1
  BY <1>3, <1>9, <1>10, <1>13 DEF SameCount, IsSent
<1>17. e.mem[b] = Answer(req, ReadCounter(d), d.made + 1)
  <2>1. e.mem[b] = [r EXCEPT !.cnt = ReadCounter(d), !.no = d.made + 1]
    BY <1>3, <1>8, <1>9, <1>10, <1>13 DEF SameCount, IsSent
  <2> QED  BY <2>1 DEF Response, Answer
<1>18. \A c \in Buffers \ {b} : e.mem[c] = d.mem[c]
  BY <1>3, <1>8, <1>13 DEF Sent
<1>19. /\ e.psRepeatMbx = d.psRepeatMbx /\ e.psStoreMbx = d.psStoreMbx
       /\ e.bSendMbxIsFull
  BY <1>3, <1>8, <1>13 DEF SameSend, Sent
<1>20. IF d.bSendMbxIsFull
       THEN /\ e.sMbxSendQueue = Append(<<>>, b)
            /\ e.psReadMbx = d.psReadMbx
            /\ e.sm1 = d.sm1 /\ e.readEvent = d.readEvent
       ELSE /\ e.sMbxSendQueue = <<>> /\ e.psReadMbx = b
            /\ e.sm1 = e.mem[b] /\ ~e.readEvent
  <2>1. CASE d.bSendMbxIsFull
    BY <1>3, <1>8, <1>13, <2>1 DEF SameSend, Sent
  <2>2. CASE ~d.bSendMbxIsFull
    <3>1. d.sm1 = NoMsg
      BY <2>2 DEF Owner, Pointing
    <3>2. x.sm1 = NoMsg /\ ~x.bSendMbxIsFull
      BY <1>3, <1>8, <2>2, <3>1 DEF SameSend
    <3> QED  BY <1>13, <2>2, <3>2 DEF Sent, IsSent
  <2> QED  BY <2>1, <2>2
<1> HIDE DEF req
<1>21. d.mem[b] \in Requests
  BY <1>2, <1>3
<1> QED
  BY <1>2, <1>14, <1>15, <1>16, <1>17, <1>18, <1>19, <1>20, <1>21
     DEF IsServed, req

(* A request is left in the ESC, dropped because it was taken before, or   *)
(* put into the receive queue. *)
IsLeft(d, e) == SameTake(d, e) /\ e.mem = d.mem

IsDropped(d, e) ==
  /\ d.sm0.cnt = d.u8MbxWriteCounter /\ e.sm0 = NoMsg
  /\ e.u8MbxWriteCounter = d.u8MbxWriteCounter
  /\ e.sMbxReceiveQueue = d.sMbxReceiveQueue
  /\ \A c \in Buffers : e.mem[c] = d.mem[c]

IsReceived(d, b, e) ==
  /\ d.sm0.cnt # d.u8MbxWriteCounter /\ e.sm0 = NoMsg
  /\ e.u8MbxWriteCounter = d.sm0.cnt
  /\ e.sMbxReceiveQueue = Append(d.sMbxReceiveQueue, b)
  /\ d.mem[b] = NoMsg /\ e.mem[b] = d.sm0
  /\ \A c \in Buffers \ {b} : e.mem[c] = d.mem[c]

LEMMA LockedOrder ==
  ASSUME NEW d \in Slave
  PROVE  SameHand(d, Locked(d)) /\ SameTake(d, Locked(d))
         /\ SameCount(d, Locked(d))
BY ZenonT(60) DEF Slave, SameHand, SameTake, SameCount, Locked

LEMMA TakenOrder ==
  ASSUME NEW d \in Slave, NEW mem
  PROVE  LET e == Taken(d, mem)
         IN /\ SameHand(d, e) /\ SameCount(d, e) /\ e.sm0 = NoMsg
            /\ e.u8MbxWriteCounter = d.u8MbxWriteCounter
BY ZenonT(60) DEF Slave, SameHand, SameCount, Taken

LEMMA EnqueuedOrder ==
  ASSUME NEW d \in Slave, NEW cnt, NEW q
  PROVE  LET e == Enqueued(d, cnt, q)
         IN /\ SameHand(d, e) /\ SameCount(d, e) /\ e.sm0 = d.sm0
            /\ e.u8MbxWriteCounter = cnt
BY ZenonT(60) DEF Slave, SameHand, SameCount, Enqueued

LEMMA TakeOrder ==
  ASSUME NEW d, Owner(d, {}, 0), d.bMbxRunning, d.sm0 # NoMsg,
         Len(d.sMbxReceiveQueue) <= 1,
         NEW e, e = MBX_CheckAndCopyMailbox(d)
  PROVE  /\ SameHand(d, e) /\ SameSend(d, e) /\ SameCount(d, e)
         /\ \/ IsLeft(d, e)
            \/ IsDropped(d, e)
            \/ \E b \in Buffers : IsReceived(d, b, e)
<1> DEFINE q == d.sMbxReceiveQueue
           b == Alloc(d)
           m == [d.mem EXCEPT ![b] = d.sm0]
           t == Taken(d, m)
<1>1. d \in Slave
  BY DEF Owner
<1>2. /\ q \in Seq(Buffers) /\ d.mem \in [Buffers -> Message]
      /\ d.sm0 \in Requests /\ d.u8MailboxSendReqStored = FALSE
      /\ d.bSendMbxIsFull \in BOOLEAN
  BY <1>1 DEF Slave
<1>3. CASE d.bSendMbxIsFull \/ FreeBuffers(d) = {}
  <2>1. e = Locked(d)
    BY <1>3 DEF MBX_CheckAndCopyMailbox, Locked
  <2>2. SameSend(d, e) /\ e.mem = d.mem
    BY <1>1, <2>1, LockedFields
  <2>3. SameHand(d, e) /\ SameTake(d, e) /\ SameCount(d, e)
    BY <1>1, <2>1, LockedOrder
  <2> QED  BY <2>2, <2>3 DEF IsLeft
<1>4. CASE ~d.bSendMbxIsFull /\ FreeBuffers(d) # {}
  <2>1. b \in Buffers /\ d.mem[b] = NoMsg
    BY <1>4 DEF Alloc, FreeBuffers
  <2>2. e = MBX_MailboxWriteInd(t, b)
    BY <1>2, <1>4 DEF MBX_CheckAndCopyMailbox, Taken
  <2>3. m \in [Buffers -> Message]
    BY <1>2 DEF Message
  <2>4. /\ t \in Slave /\ SameSend(d, t) /\ t.mem = m
        /\ t.sMbxReceiveQueue = q
        /\ SameHand(d, t) /\ SameCount(d, t) /\ t.sm0 = NoMsg
        /\ t.u8MbxWriteCounter = d.u8MbxWriteCounter
    <3> HIDE DEF m
    <3>1. IsTaken(d, m, t)
      BY <1>1, <2>3, TakenFields
    <3>2. /\ SameHand(d, t) /\ SameCount(d, t) /\ t.sm0 = NoMsg
          /\ t.u8MbxWriteCounter = d.u8MbxWriteCounter
      BY <1>1, TakenOrder
    <3> HIDE DEF t
    <3> QED  BY <3>1, <3>2 DEF IsTaken
  <2>5. t.mem[b] = d.sm0 /\ \A c \in Buffers \ {b} : t.mem[c] = d.mem[c]
    BY <1>2, <2>1, <2>4
  <2>6. t.mem[b].cnt \in 0..COUNTERS
    BY <1>2, <2>5 DEF Requests
  <2> HIDE DEF t
  <2>7. CASE t.mem[b].cnt = t.u8MbxWriteCounter
    <3>1. e = Filled(t, b, NoMsg)
      BY <2>2, <2>7 DEF MBX_MailboxWriteInd, Filled
    <3>2. /\ SameSend(t, e) /\ e.mem[b] = NoMsg
          /\ \A c \in Buffers \ {b} : e.mem[c] = t.mem[c]
      <4>1. NoMsg \in Message /\ b \in Buffers /\ t \in Slave
        BY <2>1, <2>4 DEF Message
      <4> HIDE DEF b
      <4>2. IsAnswered(t, b, NoMsg, e)
        BY <3>1, <4>1, AnswerFields
      <4> QED  BY <4>2 DEF IsAnswered
    <3>3. SameHand(t, e) /\ SameTake(t, e) /\ SameCount(t, e)
      BY <2>4, <3>1, AnsweredOrder
    <3>4. SameHand(d, e)
      BY <2>4, <3>3 DEF SameHand
    <3>5. SameSend(d, e)
      BY <2>4, <3>2 DEF SameSend
    <3>6. SameCount(d, e)
      BY <2>4, <3>3 DEF SameCount
    <3>7. IsDropped(d, e)
      BY <2>1, <2>4, <2>5, <2>7, <3>2, <3>3 DEF IsDropped, SameTake
    <3> QED  BY <3>4, <3>5, <3>6, <3>7
  <2>8. CASE t.mem[b].cnt # t.u8MbxWriteCounter
    <3> DEFINE a == Append(q, b)
               c == t.mem[b].cnt
    <3>1. HasRoom(t.sMbxReceiveQueue)
      <4>1. Len(q) \in Nat /\ Len(q) <= 1
        BY <1>2, LenProperties
      <4> HIDE DEF q
      <4> QED  BY <2>4, <4>1, MailboxAssumptions DEF HasRoom, Owner, Undivided
    <3>2. e = Enqueued(t, c, a)
      <4> DEFINE u == [t EXCEPT !.u8MbxWriteCounter = c]
      <4>1. u.sMbxReceiveQueue = t.sMbxReceiveQueue
        BY <2>4 DEF Slave
      <4>2. e = [u EXCEPT !.sMbxReceiveQueue = Append(@, b)]
        BY <2>2, <2>8, <3>1, <4>1 DEF MBX_MailboxWriteInd
      <4> QED  BY <2>4, <4>1, <4>2 DEF Enqueued, Slave
    <3>3. a \in Seq(Buffers)
      BY <1>2, <2>1, AppendProperties
    <3>4. /\ SameSend(t, e) /\ e.mem = t.mem
          /\ e.sMbxReceiveQueue = a
          /\ SameHand(t, e) /\ SameCount(t, e) /\ e.sm0 = t.sm0
          /\ e.u8MbxWriteCounter = c
      <4> HIDE DEF a, c
      <4>1. c \in 0..COUNTERS
        BY <2>6 DEF c
      <4>2. IsEnqueued(t, a, e)
        BY <2>4, <3>2, <3>3, <4>1, EnqueuedFields
      <4>3. /\ SameHand(t, e) /\ SameCount(t, e) /\ e.sm0 = t.sm0
            /\ e.u8MbxWriteCounter = c
        BY <2>4, <3>2, EnqueuedOrder
      <4> QED  BY <4>2, <4>3 DEF IsEnqueued
    <3>5. SameHand(d, e)
      BY <2>4, <3>4 DEF SameHand
    <3>6. SameSend(d, e)
      BY <2>4, <3>4 DEF SameSend
    <3>7. SameCount(d, e)
      BY <2>4, <3>4 DEF SameCount
    <3>8. IsReceived(d, b, e)
      BY <2>1, <2>4, <2>5, <2>8, <3>4 DEF IsReceived
    <3> QED  BY <2>1, <3>5, <3>6, <3>7, <3>8
  <2> QED  BY <2>7, <2>8
<1> QED  BY <1>2, <1>3, <1>4

LEMMA ShiftedOrder ==
  ASSUME NEW d \in Slave, NEW mem, NEW rep, NEW read, NEW store, NEW q,
         NEW sm1, NEW full, NEW ev
  PROVE  LET e == Shifted(d, mem, rep, read, store, q, sm1, full, ev)
         IN SameHand(d, e) /\ SameTake(d, e) /\ SameCount(d, e)
BY ZenonT(60) DEF Slave, SameHand, SameTake, SameCount, Shifted

(* The message read is kept for a repeat, the one kept before is freed,    *)
(* and the one a repeat displaced or the one that waits follows. *)
IsShiftedTo(d, e, read, q, full) ==
  /\ e.psReadMbx = read /\ e.sMbxSendQueue = q /\ e.bSendMbxIsFull = full
  /\ e.sm1 = IF full THEN d.mem[read] ELSE NoMsg

IsRead(d, e) ==
  /\ SameHand(d, e) /\ SameTake(d, e) /\ SameCount(d, e)
  /\ e.psRepeatMbx = d.psReadMbx /\ e.psStoreMbx = NoBuf /\ ~e.readEvent
  /\ \A c \in Buffers :
       e.mem[c] = IF c = d.psRepeatMbx /\ d.psStoreMbx = NoBuf THEN NoMsg
                  ELSE d.mem[c]
  /\ \/ /\ d.psStoreMbx # NoBuf
        /\ IsShiftedTo(d, e, d.psStoreMbx, d.sMbxSendQueue, TRUE)
     \/ /\ d.psStoreMbx = NoBuf /\ Len(d.sMbxSendQueue) = 1
        /\ \E h \in Rng(d.sMbxSendQueue) : IsShiftedTo(d, e, h, <<>>, TRUE)
     \/ /\ d.psStoreMbx = NoBuf /\ d.sMbxSendQueue = <<>>
        /\ IsShiftedTo(d, e, d.psReadMbx, <<>>, FALSE)

LEMMA ReadOrder ==
  ASSUME NEW d, Owner(d, {}, 0), d.readEvent,
         NEW e, e = MBX_MailboxReadInd([d EXCEPT !.readEvent = FALSE])
  PROVE  IsRead(d, e)
<1> DEFINE rep == d.psRepeatMbx
           read == d.psReadMbx
           store == d.psStoreMbx
           q == d.sMbxSendQueue
           forgets == rep # NoBuf /\ store = NoBuf
           mem == IF forgets THEN Release(d.mem, {rep}) ELSE d.mem
<1>1. /\ d \in Slave /\ Pointing(d) /\ d.bSendMbxIsFull
      /\ d.sm1 = NoMsg /\ read # NoBuf /\ read # rep
      /\ store # NoBuf => store # read /\ rep = NoBuf
  BY DEF Owner, Pointing
<1>2. /\ rep \in Held /\ read \in Held /\ store \in Held /\ NoBuf \in Held
      /\ q \in Seq(Buffers)
      /\ d.mem \in [Buffers -> Message]
      /\ d.u8MailboxSendReqStored = FALSE
  BY <1>1 DEF Slave, Held
<1>3. mem \in [Buffers -> Message]
  BY <1>2 DEF Release, Message
<1>4. /\ Rng(q) \subseteq Buffers /\ NoBuf \notin Rng(q)
      /\ read \notin Rng(q) /\ rep \notin Rng(q) /\ store \notin Rng(q)
  BY <1>2, RngIn DEF Owner, Disjoint, Pointers
<1>5. \A c \in Buffers : mem[c] = IF c = rep /\ store = NoBuf THEN NoMsg
                                  ELSE d.mem[c]
  BY <1>2, MailboxAssumptions DEF Release, NoBuf
<1>6. ASSUME NEW r \in Held, NEW t \in Seq(Buffers),
             NEW sm1 \in {NoMsg} \cup Responses, NEW full \in BOOLEAN,
             sm1 = IF full THEN d.mem[r] ELSE NoMsg,
             e = Shifted(d, mem, read, r, NoBuf, t, sm1, full, FALSE)
      PROVE  /\ SameHand(d, e) /\ SameTake(d, e) /\ SameCount(d, e)
             /\ e.psRepeatMbx = d.psReadMbx /\ e.psStoreMbx = NoBuf
             /\ ~e.readEvent
             /\ \A c \in Buffers :
                  e.mem[c] = IF c = d.psRepeatMbx /\ d.psStoreMbx = NoBuf
                             THEN NoMsg ELSE d.mem[c]
             /\ IsShiftedTo(d, e, r, t, full)
  <2>1. IsShifted(d, mem, read, r, NoBuf, t, sm1, full, FALSE, e)
    <3>1. read \in Held /\ NoBuf \in Held
      BY <1>2
    <3> HIDE DEF mem, read
    <3>2. IsShifted(d, mem, read, r, NoBuf, t, sm1, full, FALSE,
                    Shifted(d, mem, read, r, NoBuf, t, sm1, full, FALSE))
      BY <1>1, <1>3, <3>1, ShiftedFields
    <3> QED  BY <1>6, <3>2
  <2>2. SameHand(d, e) /\ SameTake(d, e) /\ SameCount(d, e)
    BY <1>1, <1>6, ShiftedOrder
  <2> HIDE DEF mem
  <2> QED  BY <1>5, <1>6, <2>1, <2>2 DEF IsShifted, IsShiftedTo
<1>7. CASE store # NoBuf
  <2> DEFINE m == d.mem[store]
  <2>1. m \in {NoMsg} \cup Responses
    BY <1>2, <1>4, <1>7 DEF Owner, Memory, Held, Disjoint, Pointers
  <2>2. e = Shifted(d, mem, read, store, NoBuf, q, m, TRUE, FALSE)
    BY <1>1, <1>2, <1>7, ZenonT(60)
       DEF MBX_MailboxReadInd, MBX_CopyToSendMailbox, Slave, Shifted
  <2>3. m = IF TRUE THEN d.mem[store] ELSE NoMsg
    OBVIOUS
  <2> HIDE DEF mem, m
  <2> QED  BY <1>2, <1>6, <1>7, <2>1, <2>2, <2>3 DEF IsRead
<1>8. CASE store = NoBuf /\ q # <<>>
  <2> DEFINE h == Head(q)
             t == Tail(q)
             m == mem[h]
  <2>1. /\ h \in Buffers /\ t \in Seq(Buffers) /\ Len(t) = Len(q) - 1
        /\ Rng(q) = Rng(t) \cup {h} /\ Len(q) \in Nat
    BY <1>2, <1>8, RngTail, LenProperties
  <2>2. Len(q) = 1
    <3>1. Len(q) # 0 /\ Len(q) <= 1
      BY <1>2, <1>8, EmptySeq DEF Owner, Load
    <3> DEFINE x == Len(q)
    <3>2. x \in Nat /\ x # 0 /\ x <= 1
      BY <2>1, <3>1
    <3> HIDE DEF x
    <3>3. x = 1
      BY <3>2
    <3> QED  BY <3>3 DEF x
  <2>3. t = <<>> /\ h \in Rng(q)
    <3>1. Len(t) = 0
      BY <2>1, <2>2
    <3> QED  BY <2>1, <3>1, EmptySeq
  <2>4. h # rep
    BY <1>4, <2>3
  <2>5. m = d.mem[h] /\ m \in {NoMsg} \cup Responses
    BY <1>4, <1>5, <2>1, <2>3, <2>4 DEF Owner, Memory, Disjoint
  <2>6. e = Shifted(d, mem, read, h, NoBuf, t, m, TRUE, FALSE)
    BY <1>1, <1>2, <1>8, ZenonT(60)
       DEF MBX_MailboxReadInd, MBX_CopyToSendMailbox, Slave, Shifted
  <2>7. m = IF TRUE THEN d.mem[h] ELSE NoMsg
    BY <2>5
  <2>8. h \in Held
    BY <2>1 DEF Held
  <2> HIDE DEF mem, m, h, t
  <2>9. /\ SameHand(d, e) /\ SameTake(d, e) /\ SameCount(d, e)
        /\ e.psRepeatMbx = d.psReadMbx /\ e.psStoreMbx = NoBuf
        /\ ~e.readEvent
        /\ \A c \in Buffers :
             e.mem[c] = IF c = d.psRepeatMbx /\ d.psStoreMbx = NoBuf
                        THEN NoMsg ELSE d.mem[c]
        /\ IsShiftedTo(d, e, h, t, TRUE)
    BY <1>6, <2>1, <2>5, <2>6, <2>7, <2>8
  <2> QED  BY <1>8, <2>2, <2>3, <2>9 DEF IsRead
<1>9. CASE store = NoBuf /\ q = <<>>
  <2>1. e = Shifted(d, mem, read, read, NoBuf, q, NoMsg, FALSE, FALSE)
    BY <1>1, <1>2, <1>9, ZenonT(60) DEF MBX_MailboxReadInd, Slave, Shifted
  <2>2. NoMsg = IF FALSE THEN d.mem[read] ELSE NoMsg
    OBVIOUS
  <2> HIDE DEF mem
  <2>3. /\ SameHand(d, e) /\ SameTake(d, e) /\ SameCount(d, e)
        /\ e.psRepeatMbx = d.psReadMbx /\ e.psStoreMbx = NoBuf
        /\ ~e.readEvent
        /\ \A c \in Buffers :
             e.mem[c] = IF c = d.psRepeatMbx /\ d.psStoreMbx = NoBuf
                        THEN NoMsg ELSE d.mem[c]
        /\ IsShiftedTo(d, e, read, q, FALSE)
    BY <1>2, <1>6, <2>1, <2>2
  <2> QED  BY <1>9, <2>3 DEF IsRead
<1> QED  BY <1>7, <1>8, <1>9

(* The slave acknowledges a repeat, and the message kept for it, if there  *)
(* is one, takes the place of the one in the send mailbox. *)
IsRepeated(d, e) ==
  /\ e.bMbxRepeatToggle = ~d.bMbxRepeatToggle
  /\ e.rptAck = ~d.bMbxRepeatToggle
  /\ e.rptReq = d.rptReq /\ e.al = d.al /\ e.bMbxRunning = d.bMbxRunning
  /\ SameTake(d, e) /\ SameCount(d, e) /\ e.mem = d.mem
  /\ IF d.psRepeatMbx = NoBuf THEN SameSend(d, e)
     ELSE /\ e.psRepeatMbx = NoBuf /\ e.psReadMbx = d.psRepeatMbx
          /\ e.psStoreMbx = (IF d.bSendMbxIsFull THEN d.psReadMbx ELSE NoBuf)
          /\ e.sMbxSendQueue = d.sMbxSendQueue
          /\ e.sm1 = d.mem[d.psRepeatMbx]
          /\ e.bSendMbxIsFull /\ ~e.readEvent

LEMMA ToggledOrder ==
  ASSUME NEW d \in Slave, NEW t, NEW e, e = Toggled(d, t)
  PROVE  /\ SameTake(d, e) /\ SameCount(d, e)
         /\ e.bMbxRepeatToggle = t /\ e.rptAck = t
         /\ e.rptReq = d.rptReq /\ e.al = d.al
         /\ e.bMbxRunning = d.bMbxRunning
BY ZenonT(60) DEF Slave, SameTake, SameCount, Toggled

LEMMA RepeatOrder ==
  ASSUME NEW d, Owner(d, {}, 0), d.bMbxRunning,
         NEW e, e = MBX_MailboxRepeatReq(d)
  PROVE  IsRepeated(d, e)
<1> DEFINE rep == d.psRepeatMbx
           read == d.psReadMbx
           q == d.sMbxSendQueue
           toggle == ~d.bMbxRepeatToggle
           m == d.mem[rep]
<1>1. /\ d \in Slave /\ Pointing(d)
  BY DEF Owner
<1>2. /\ d.bSendMbxIsFull \in BOOLEAN
      /\ rep \in Held /\ read \in Held /\ NoBuf \in Held
      /\ q \in Seq(Buffers) /\ d.mem \in [Buffers -> Message]
      /\ toggle \in BOOLEAN
  BY <1>1 DEF Slave, Held
<1>3. CASE rep = NoBuf
  <2>1. e = Toggled(d, toggle)
    BY <1>3 DEF MBX_MailboxRepeatReq, Toggled
  <2> HIDE DEF toggle
  <2>2. SameSend(d, e) /\ e.mem = d.mem
    BY <1>1, <1>2, <2>1, ToggledFields
  <2>3. /\ SameTake(d, e) /\ SameCount(d, e)
        /\ e.bMbxRepeatToggle = toggle /\ e.rptAck = toggle
        /\ e.rptReq = d.rptReq /\ e.al = d.al
        /\ e.bMbxRunning = d.bMbxRunning
    BY <1>1, <2>1, ToggledOrder
  <2> QED  BY <1>3, <2>2, <2>3 DEF IsRepeated, toggle
<1>4. CASE rep # NoBuf
  <2> DEFINE store == IF d.bSendMbxIsFull THEN read ELSE NoBuf
             x == Shifted(d, d.mem, NoBuf, rep, store, q, m, TRUE, FALSE)
  <2>1. d.psStoreMbx = NoBuf
    BY <1>1, <1>4 DEF Pointing
  <2>2. e = Toggled(x, toggle)
    <3>1. CASE d.bSendMbxIsFull
      BY <1>1, <1>2, <1>4, <2>1, <3>1, ZenonT(60)
         DEF MBX_MailboxRepeatReq, MBX_CanCopy, MBX_CopyToSendMailbox,
             Toggled, Shifted, Slave
    <3>2. CASE ~d.bSendMbxIsFull
      <4>1. d.sm1 = NoMsg
        BY <1>1, <3>2 DEF Pointing
      <4> QED
        BY <1>1, <1>2, <1>4, <2>1, <3>2, <4>1, ZenonT(60)
           DEF MBX_MailboxRepeatReq, MBX_CanCopy, MBX_CopyToSendMailbox,
               Toggled, Shifted, Slave
    <3> QED  BY <1>2, <3>1, <3>2
  <2>3. /\ rep \in Buffers /\ rep \in Pointers(d) /\ store \in Held
        /\ rep \notin Rng(d.sMbxReceiveQueue)
    BY <1>2, <1>4 DEF Owner, Disjoint, Pointers, Held
  <2>4. m \in {NoMsg} \cup Responses
    BY <2>3 DEF Owner, Memory
  <2>5. IsShifted(d, d.mem, NoBuf, rep, store, q, m, TRUE, FALSE, x)
    <3> HIDE DEF m, store, q, rep
    <3> QED  BY <1>1, <1>2, <2>3, <2>4, ShiftedFields
  <2>6. SameHand(d, x) /\ SameTake(d, x) /\ SameCount(d, x)
    BY <1>1, ShiftedOrder
  <2> HIDE DEF toggle, x
  <2>7. x \in Slave
    BY <2>5 DEF IsShifted
  <2>8. SameSend(x, e) /\ e.mem = x.mem
    BY <1>2, <2>2, <2>7, ToggledFields
  <2>9. /\ SameTake(x, e) /\ SameCount(x, e)
        /\ e.bMbxRepeatToggle = toggle /\ e.rptAck = toggle
        /\ e.rptReq = x.rptReq /\ e.al = x.al
        /\ e.bMbxRunning = x.bMbxRunning
    BY <2>2, <2>7, ToggledOrder
  <2> HIDE DEF m, store
  <2>10. SameTake(d, e)
    BY <2>6, <2>9 DEF SameTake
  <2>11. SameCount(d, e)
    BY <2>6, <2>9 DEF SameCount
  <2>12. /\ e.mem = d.mem /\ e.psRepeatMbx = NoBuf /\ e.psReadMbx = rep
         /\ e.psStoreMbx = store /\ e.sMbxSendQueue = q
         /\ e.sm1 = m /\ e.bSendMbxIsFull /\ ~e.readEvent
    BY <2>5, <2>8 DEF IsShifted, SameSend
  <2>13. /\ e.rptReq = d.rptReq /\ e.al = d.al
         /\ e.bMbxRunning = d.bMbxRunning
    BY <2>6, <2>9 DEF SameHand
  <2> QED
    BY <1>4, <2>9, <2>10, <2>11, <2>12, <2>13
       DEF IsRepeated, m, store, toggle
<1> QED  BY <1>3, <1>4

-----------------------------------------------------------------------------
(* What the invariant says together *)

LEMMA SendingHolds ==
  ASSUME NEW d, Owner(d, {}, 0)
  PROVE  /\ \A b \in Sending(d) \ {NoBuf} :
              b \in Buffers /\ d.mem[b] \in Responses
         /\ d.psRepeatMbx \in Held /\ d.psReadMbx \in Held
         /\ d.psStoreMbx \in Held
<1>1. /\ d.psRepeatMbx \in Held /\ d.psReadMbx \in Held
      /\ d.psStoreMbx \in Held /\ d.sMbxSendQueue \in Seq(Buffers)
  BY DEF Owner, Slave
<1>2. Sending(d) \ {NoBuf} \subseteq Buffers
  BY <1>1, RngIn DEF Sending, Pointers, Held
<1>3. \A b \in Sending(d) : b \notin Rng(d.sMbxReceiveQueue)
  BY DEF Owner, Disjoint, Sending
<1>4. ASSUME NEW b \in Sending(d) \ {NoBuf}
      PROVE  b \in Buffers /\ d.mem[b] \in Responses
  BY <1>2, <1>3, <1>4 DEF Owner, Memory, Sending
<1> QED  BY <1>1, <1>4

LEMMA ResponseNumbers ==
  ASSUME NEW r \in Responses
  PROVE  r.no \in Nat /\ r.cnt \in Nat /\ r.left \in Nat /\ r # NoMsg
         /\ r.req \in Req /\ r.type = "response"
BY DEF Responses, NoMsg

LEMMA QueueLength ==
  ASSUME NEW d, Owner(d, {}, 0)
  PROVE  /\ Len(d.sMbxSendQueue) \in {0, 1}
         /\ Len(d.sMbxSendQueue) = 0 <=> d.sMbxSendQueue = <<>>
         /\ Len(d.sMbxReceiveQueue) \in Nat
         /\ d.made \in Nat
<1>1. /\ d.sMbxSendQueue \in Seq(Buffers)
      /\ d.sMbxReceiveQueue \in Seq(Buffers) /\ d.made \in Nat
  BY DEF Owner, Slave
<1> DEFINE n == Len(d.sMbxSendQueue)
<1>2. n \in Nat /\ Len(d.sMbxReceiveQueue) \in Nat
  BY <1>1, LenProperties
<1>3. n <= 1
  BY DEF Owner, Load
<1>4. n = 0 <=> d.sMbxSendQueue = <<>>
  BY <1>1, EmptySeq
<1> HIDE DEF n
<1>5. n \in {0, 1}
  BY <1>2, <1>3
<1> QED  BY <1>1, <1>2, <1>4, <1>5 DEF n

(* The master is at most two responses behind, and what it has not got is  *)
(* in a buffer. *)
LEMMA Behind ==
  ASSUME NEW d, Owner(d, {}, 0), NEW m \in Master, Chain(d), Reads(d, m)
  PROVE  /\ m.got \in Nat /\ m.got <= d.made
         /\ \A b \in Sending(d) \ {NoBuf} : d.mem[b].no <= d.made
         /\ \A j \in (m.got + 1)..d.made :
              \E b \in Sending(d) \ {NoBuf} : d.mem[b].no = j
<1> DEFINE rep == d.psRepeatMbx
           read == d.psReadMbx
           store == d.psStoreMbx
           q == d.sMbxSendQueue
<1>1. /\ m.got \in Nat /\ d.made \in Nat /\ Len(q) \in {0, 1}
      /\ Len(q) = 0 <=> q = <<>>
  BY QueueLength DEF Master
<1>2. /\ rep \in Sending(d) /\ read \in Sending(d) /\ store \in Sending(d)
      /\ Sending(d) = Rng(q) \cup {rep, read, store}
  BY DEF Sending, Pointers
<1>3. \A b \in Sending(d) \ {NoBuf} : d.mem[b].no \in Nat /\ d.mem[b].no >= 1
  BY SendingHolds, ResponseNumbers DEF Chain
<1>4. Pointing(d)
  BY DEF Owner
<1>5. CASE read = NoBuf
  <2>1. ~d.bSendMbxIsFull /\ rep = NoBuf /\ store = NoBuf /\ q = <<>>
    BY <1>4, <1>5 DEF Pointing
  <2>2. d.made = 0 /\ m.got = 0
    BY <1>5 DEF Chain, Reads
  <2>3. Sending(d) \ {NoBuf} = {}
    BY <1>2, <1>5, <2>1, RngEmpty
  <2> QED  BY <2>2, <2>3
<1>6. CASE read # NoBuf
  <2> DEFINE k == d.mem[read].no
             s == IF store = NoBuf THEN 0 ELSE 1
             n == Len(q)
  <2>1. k \in Nat /\ k >= 1
    BY <1>2, <1>3, <1>6
  <2>2. d.made = k + n + s
    BY <1>6 DEF Chain
  <2>3. m.got \in {k - 2, k - 1, k}
        /\ (m.got = k - 2 => d.sm1 # NoMsg /\ rep # NoBuf)
    BY <1>1, <1>6, <2>1 DEF Reads
  <2>4. store # NoBuf => d.mem[store].no = k + 1
    BY DEF Chain
  <2>5. \A b \in Rng(q) : d.mem[b].no = d.made
    BY DEF Chain
  <2>6. rep # NoBuf => d.mem[rep].no = (IF d.bSendMbxIsFull THEN k - 1 ELSE k)
    BY <1>4 DEF Chain, Pointing
  <2>7. n = 1 => \E b \in Rng(q) : d.mem[b].no = d.made
    <3> SUFFICES ASSUME n = 1  PROVE  \E b \in Rng(q) : d.mem[b].no = d.made
      OBVIOUS
    <3>1. q \in Seq(Buffers) /\ 1 \in DOMAIN q
      BY LenProperties DEF Owner, Slave
    <3>2. q[1] \in Rng(q)
      BY <3>1 DEF Rng
    <3> QED  BY <2>5, <3>2
  <2>8. d.sm1 # NoMsg => d.bSendMbxIsFull
    BY <1>4 DEF Pointing
  <2>9. \A b \in Rng(q) : b # NoBuf
    BY RngIn DEF Owner, Slave
  <2>10. /\ s \in {0, 1} /\ (s = 1 <=> store # NoBuf)
         /\ n \in {0, 1}
    BY <1>1
  <2> HIDE DEF k, n
  <2> HIDE DEF s
  <2>11. k <= d.made /\ k + s <= d.made
    BY <1>1, <2>1, <2>2, <2>10
  <2>12. m.got <= d.made
    BY <1>1, <2>1, <2>3, <2>11
  <2>13. ASSUME NEW b \in Sending(d) \ {NoBuf}  PROVE  d.mem[b].no <= d.made
    <3>1. CASE b \in Rng(q)
      BY <1>1, <2>5, <3>1
    <3>2. CASE b = rep
      BY <1>1, <2>1, <2>6, <2>11, <2>13, <3>2
    <3>3. CASE b = read
      BY <2>11, <3>3 DEF k
    <3>4. CASE b = store
      BY <1>1, <2>1, <2>4, <2>10, <2>11, <2>13, <3>4
    <3> QED  BY <1>2, <3>1, <3>2, <3>3, <3>4
  <2>14. ASSUME NEW j \in (m.got + 1)..d.made
         PROVE  \E b \in Sending(d) \ {NoBuf} : d.mem[b].no = j
    <3>1. \/ j = k - 1 /\ m.got = k - 2
          \/ j = k \/ (j = k + 1 /\ s = 1) \/ (j = d.made /\ n = 1)
      BY <1>1, <2>1, <2>2, <2>3, <2>10, <2>14
    <3>2. CASE j = k - 1 /\ m.got = k - 2
      BY <1>2, <2>3, <2>6, <2>8, <3>2
    <3>3. CASE j = k
      BY <1>2, <1>6, <3>3 DEF k
    <3>4. CASE j = k + 1 /\ s = 1
      BY <1>2, <2>4, <2>10, <3>4
    <3>5. CASE j = d.made /\ n = 1
      BY <1>2, <2>7, <2>9, <3>5
    <3> QED  BY <3>1, <3>2, <3>3, <3>4, <3>5
  <2> QED  BY <1>1, <2>12, <2>13, <2>14
<1> QED  BY <1>5, <1>6

-----------------------------------------------------------------------------
(* The order is kept by ... *)

LEMMA SendingStays ==
  ASSUME NEW d, Owner(d, {}, 0), NEW m, NEW e,
         SameSend(d, e), SameCount(d, e),
         \A b \in Sending(d) \ {NoBuf} : e.mem[b] = d.mem[b],
         e.rptReq = d.rptReq, e.bMbxRepeatToggle = d.bMbxRepeatToggle,
         Chain(d), Reads(d, m), Answering(d, m)
  PROVE  Chain(e) /\ Reads(e, m) /\ Answering(e, m)
<1>1. Sending(e) = Sending(d)
  BY DEF SameSend, Sending, Pointers
<1>2. /\ d.psRepeatMbx \in Sending(d) /\ d.psReadMbx \in Sending(d)
      /\ d.psStoreMbx \in Sending(d)
      /\ Rng(d.sMbxSendQueue) \subseteq Sending(d)
      /\ NoBuf \notin Rng(d.sMbxSendQueue)
  BY RngIn DEF Sending, Pointers, Owner, Slave
<1>3. /\ d.psStoreMbx # NoBuf => d.psReadMbx # NoBuf
      /\ d.sm1 # NoMsg => d.psReadMbx # NoBuf
      /\ d.bSendMbxIsFull => d.psReadMbx # NoBuf
  BY DEF Owner, Pointing
<1>4. Chain(e)
  BY <1>1, <1>2, <1>3 DEF Chain, SameSend, SameCount
<1>5. Pends(e, m) = Pends(d, m)
  BY DEF Pends
<1>6. Reads(e, m)
  BY <1>2, <1>3, <1>5 DEF Reads, SameSend
<1>7. Answering(e, m)
  BY <1>1 DEF Answering
<1> QED  BY <1>4, <1>6, <1>7

LEMMA ReceivingStays ==
  ASSUME NEW d, NEW m, NEW e, SameTake(d, e), e.made = d.made,
         \A b \in Rng(d.sMbxReceiveQueue) : e.mem[b] = d.mem[b],
         Writes(d, m), Waiting(d, m)
  PROVE  Writes(e, m) /\ Waiting(e, m)
<1>1. /\ Received(e) = Received(d) /\ IsNew(e) = IsNew(d)
      /\ Arrived(e) = Arrived(d)
  BY DEF Received, IsNew, Arrived, SameTake
<1>2. Writes(e, m)
  BY <1>1 DEF Writes, SameTake
<1>3. Waiting(e, m)
  BY DEF Waiting, SameTake, Rng
<1> QED  BY <1>2, <1>3

LEMMA RngSingle ==
  ASSUME NEW b \in Buffers
  PROVE  /\ Rng(Append(<<>>, b)) = {b} /\ Len(Append(<<>>, b)) = 1
         /\ Rng(<<>>) = {} /\ Len(<<>>) = 0
<1>1. <<>> \in Seq(Buffers) /\ Len(<<>>) = 0 /\ Rng(<<>>) = {}
  BY EmptySeq, RngEmpty
<1>2. /\ Rng(Append(<<>>, b)) = Rng(<<>>) \cup {b}
      /\ Len(Append(<<>>, b)) = Len(<<>>) + 1
  BY <1>1, RngAppend, ZenonT(60)
<1> QED  BY <1>1, <1>2

(* ... a request that is answered, *)
LEMMA ServeKeeps ==
  ASSUME NEW d, Owner(d, {}, 0), d.sMbxReceiveQueue # <<>>,
         NEW m \in Master, Order(d, m),
         NEW b, b = Head(d.sMbxReceiveQueue), d.mem[b] \in Requests,
         NEW e, IsServed(d, b, e), b \in Buffers
  PROVE  Order(e, m)
<1> DEFINE s == d.sMbxReceiveQueue
           k == d.made + 1
           r == Answer(d.mem[b].req, ReadCounter(d), k)
<1>1. /\ d \in Slave /\ d.bMbxRunning /\ d.sMbxSendQueue = <<>>
      /\ Pointing(d) /\ d.made \in Nat
      /\ d.bSendMbxIsFull \in BOOLEAN
      /\ m.got \in Nat
  BY ServeFindsRoom DEF Owner, Slave, Master
<1>2. ReadCounter(d) = Count(k)
  BY <1>1, ReadCounterIs DEF Order, Chain
<1>3. /\ s \in Seq(Buffers) /\ Len(s) \in Nat /\ Len(s) >= 1
      /\ DOMAIN s = 1..Len(s)
      /\ Tail(s) \in Seq(Buffers) /\ DOMAIN Tail(s) = 1..(Len(s) - 1)
      /\ Len(Tail(s)) = Len(s) - 1 /\ b = s[1]
      /\ \A i \in 1..(Len(s) - 1) : Tail(s)[i] = s[i + 1]
      /\ \A i, j \in DOMAIN s : s[i] = s[j] => i = j
  BY <1>1, HeadTailProperties, LenProperties, EmptySeq
     DEF Slave, Owner, Disjoint
<1>4. b \notin Sending(d) /\ b # NoBuf /\ b \in Rng(s)
  <2>1. b \in Rng(s)
    BY <1>3 DEF Rng
  <2> QED  BY <2>1, MailboxAssumptions DEF Owner, Disjoint, Sending, NoBuf
<1>5. /\ Sending(e) = Sending(d) \cup {b}
      /\ \A c \in Sending(d) \ {NoBuf} : e.mem[c] = d.mem[c]
      /\ e.mem[b] = r
      /\ r.no = k /\ r.cnt = Count(k) /\ r.left = 0 /\ r # NoMsg
      /\ r.req = d.mem[b].req
  <2>1. Rng(<<>>) = {} /\ Rng(Append(<<>>, b)) = {b}
    BY RngSingle
  <2>2. Sending(e) = Sending(d) \cup {b}
    <3>1. CASE d.bSendMbxIsFull
      BY <1>1, <2>1, <3>1 DEF IsServed, Sending, Pointers
    <3>2. CASE ~d.bSendMbxIsFull
      <4>1. d.psReadMbx = d.psRepeatMbx
        BY <1>1, <3>2 DEF Pointing
      <4> QED  BY <1>1, <2>1, <3>2, <4>1 DEF IsServed, Sending, Pointers
    <3> QED  BY <1>1, <3>1, <3>2
  <2>3. \A c \in Sending(d) \ {NoBuf} : e.mem[c] = d.mem[c]
    BY <1>4, SendingHolds DEF IsServed
  <2>4. /\ r.no = k /\ r.cnt = Count(k) /\ r.left = 0 /\ r # NoMsg
        /\ r.req = d.mem[b].req
    BY <1>2 DEF Answer, NoMsg
  <2> QED  BY <2>2, <2>3, <2>4 DEF IsServed
<1> HIDE DEF r, k
<1>6. k = d.made + 1 /\ k >= 1 /\ k # 0
  BY <1>1 DEF k
<1>7. Chain(e) /\ Reads(e, m)
  <2>1. /\ \A c \in Sending(e) \ {NoBuf} :
             /\ e.mem[c].no >= 1
             /\ e.mem[c].cnt = Count(e.mem[c].no)
             /\ e.mem[c].left = 0
    BY <1>4, <1>5, <1>6 DEF Order, Chain
  <2>2. e.made = k /\ e.u8MbxReadCounter = Count(k) + 1
    BY <1>2 DEF IsServed, k
  <2>3. /\ d.psRepeatMbx \in Sending(d) /\ d.psReadMbx \in Sending(d)
        /\ d.psStoreMbx \in Sending(d)
    BY DEF Sending, Pointers
  <2>4. Len(<<>>) = 0 /\ Rng(<<>>) = {}
    BY RngSingle
  <2>5. CASE d.bSendMbxIsFull
    <3>1. /\ e.sMbxSendQueue = Append(<<>>, b)
          /\ e.psReadMbx = d.psReadMbx /\ e.sm1 = d.sm1
          /\ e.readEvent = d.readEvent /\ e.bSendMbxIsFull
          /\ e.psRepeatMbx = d.psRepeatMbx /\ e.psStoreMbx = d.psStoreMbx
          /\ d.psReadMbx # NoBuf
      BY <1>1, <2>5 DEF IsServed, Pointing
    <3>2. Rng(Append(<<>>, b)) = {b} /\ Len(Append(<<>>, b)) = 1
      BY RngSingle
    <3>3. \A c \in Rng(e.sMbxSendQueue) : e.mem[c].no = e.made
      BY <1>5, <2>2, <3>1, <3>2
    <3>4. e.made = e.mem[e.psReadMbx].no + Len(e.sMbxSendQueue)
                     + (IF e.psStoreMbx = NoBuf THEN 0 ELSE 1)
      <4>1. d.made = d.mem[d.psReadMbx].no + 0
                     + (IF d.psStoreMbx = NoBuf THEN 0 ELSE 1)
        BY <1>1, <2>4, <3>1 DEF Order, Chain
      <4>2. e.mem[e.psReadMbx] = d.mem[d.psReadMbx]
        BY <1>5, <2>3, <3>1
      <4>3. d.mem[d.psReadMbx].no \in Nat
        BY <2>3, <3>1, SendingHolds, ResponseNumbers
      <4> QED  BY <1>1, <1>6, <2>2, <3>1, <3>2, <4>1, <4>2, <4>3
    <3>5. /\ e.psStoreMbx # NoBuf
             => e.mem[e.psStoreMbx].no = e.mem[e.psReadMbx].no + 1
          /\ e.bSendMbxIsFull /\ e.psRepeatMbx # NoBuf
             => e.mem[e.psRepeatMbx].no = e.mem[e.psReadMbx].no - 1
          /\ e.sm1 # NoMsg => e.sm1 = e.mem[e.psReadMbx]
          /\ e.bSendMbxIsFull /\ e.sm1 = NoMsg => e.readEvent
      BY <1>5, <2>3, <2>5, <3>1 DEF Order, Chain
    <3>6. Chain(e)
      BY <1>6, <2>1, <2>2, <3>1, <3>3, <3>4, <3>5 DEF Chain
    <3>7. Reads(e, m)
      <4>1. e.mem[e.psReadMbx] = d.mem[d.psReadMbx]
        BY <1>5, <2>3, <3>1
      <4>2. Pends(e, m) = Pends(d, m)
        BY DEF Pends, IsServed, SameHand
      <4> QED  BY <3>1, <4>1, <4>2 DEF Order, Reads
    <3> QED  BY <3>6, <3>7
  <2>6. CASE ~d.bSendMbxIsFull
    <3>1. /\ e.sMbxSendQueue = <<>> /\ e.psReadMbx = b /\ e.sm1 = r
          /\ ~e.readEvent /\ e.bSendMbxIsFull
          /\ e.psRepeatMbx = d.psRepeatMbx /\ e.psStoreMbx = NoBuf
          /\ d.psStoreMbx = NoBuf /\ d.psReadMbx = d.psRepeatMbx
          /\ d.sm1 = NoMsg
      BY <1>1, <1>5, <2>6 DEF IsServed, Pointing
    <3>2. d.psReadMbx # NoBuf
            => d.made = d.mem[d.psReadMbx].no /\ d.mem[d.psReadMbx].no \in Nat
      <4>1. d.psReadMbx # NoBuf => d.made = d.mem[d.psReadMbx].no + 0 + 0
        BY <1>1, <2>4, <3>1 DEF Order, Chain
      <4>2. d.psReadMbx # NoBuf => d.mem[d.psReadMbx].no \in Nat
        BY <2>3, SendingHolds, ResponseNumbers
      <4> QED  BY <4>1, <4>2
    <3>3. d.psReadMbx # NoBuf => e.mem[d.psReadMbx] = d.mem[d.psReadMbx]
      BY <1>5, <2>3
    <3>4. /\ e.made = e.mem[e.psReadMbx].no + Len(e.sMbxSendQueue)
                     + (IF e.psStoreMbx = NoBuf THEN 0 ELSE 1)
      BY <1>1, <1>5, <1>6, <2>2, <2>4, <3>1
    <3>5. e.psRepeatMbx # NoBuf
             => e.mem[e.psRepeatMbx].no = e.mem[e.psReadMbx].no - 1
      BY <1>1, <1>5, <1>6, <3>1, <3>2, <3>3
    <3>6. Chain(e)
      BY <1>4, <1>5, <1>6, <2>1, <2>2, <2>4, <3>1, <3>4, <3>5 DEF Chain
    <3>7. Reads(e, m)
      <4>1. Pends(e, m) = Pends(d, m)
        BY DEF Pends, IsServed, SameHand
      <4>2. m.last = Count(m.got)
        BY DEF Order, Reads
      <4>3. CASE d.psReadMbx = NoBuf
        <5>1. m.got = 0 /\ d.made = 0
          BY <4>3 DEF Order, Reads, Chain
        <5> QED
          BY <1>4, <1>5, <1>6, <3>1, <4>2, <5>1 DEF Reads
      <4>4. CASE d.psReadMbx # NoBuf
        <5>1. \/ m.got = d.made
              \/ m.got = d.made - 1 /\ Pends(d, m)
          BY <3>1, <3>2, <4>4 DEF Order, Reads
        <5>2. \/ m.got = r.no - 1
              \/ m.got = r.no - 2 /\ Pends(e, m)
          BY <1>1, <1>5, <1>6, <4>1, <5>1
        <5> QED  BY <1>4, <1>5, <3>1, <4>2, <4>4, <5>2 DEF Reads
      <4> QED  BY <4>3, <4>4
    <3> QED  BY <3>6, <3>7
  <2> QED  BY <1>1, <2>5, <2>6
<1>8. Writes(e, m)
  <2>1. Received(e) = Received(d)
    <3>1. e.made = d.made + 1 /\ Len(e.sMbxReceiveQueue) = Len(s) - 1
      BY <1>3 DEF IsServed
    <3> DEFINE x == Len(s)
    <3>2. /\ Received(e) = d.made + 1 + (x - 1)
          /\ Received(d) = d.made + x /\ x \in Nat
      BY <1>3, <3>1 DEF Received
    <3> HIDE DEF x
    <3> QED  BY <1>1, <3>2
  <2>2. /\ IsNew(e) = IsNew(d) /\ Arrived(e) = Arrived(d)
    BY <2>1 DEF IsNew, Arrived, IsServed
  <2> QED  BY <2>1, <2>2 DEF Order, Writes, IsServed
<1>9. Answering(e, m)
  <2>1. ASSUME k > m.got  PROVE  r.req = m.open[k - m.got]
    <3>1. d.mem[s[1]].req = m.open[d.made + 1 - m.got]
      BY <1>3 DEF Order, Waiting
    <3>2. r.req = d.mem[s[1]].req
      BY <1>3, <1>5
    <3>3. d.made \in Nat /\ m.got \in Nat
      BY <1>1
    <3> HIDE DEF s
    <3>4. d.made + 1 - m.got = k - m.got
      BY <3>3 DEF k
    <3> QED  BY <3>1, <3>2, <3>4
  <2> QED  BY <1>5, <2>1 DEF Order, Answering
<1>10. Waiting(e, m)
  <2> SUFFICES ASSUME NEW i \in DOMAIN Tail(s)
               PROVE  e.mem[Tail(s)[i]].req = m.open[e.made + i - m.got]
    BY DEF Waiting, IsServed
  <2>1. /\ i \in Int /\ i + 1 \in DOMAIN s /\ Tail(s)[i] = s[i + 1]
        /\ s[i + 1] # b /\ s[i + 1] \in Buffers
    BY <1>3
  <2>2. e.mem[s[i + 1]] = d.mem[s[i + 1]]
    BY <2>1 DEF IsServed
  <2>3. d.mem[s[i + 1]].req = m.open[d.made + (i + 1) - m.got]
    BY <2>1 DEF Order, Waiting
  <2>4. e.made + i - m.got = d.made + (i + 1) - m.got
    <3>1. e.made = d.made + 1
      BY DEF IsServed
    <3>2. d.made \in Nat /\ m.got \in Nat /\ i \in Int
      BY <1>1, <2>1
    <3> HIDE DEF s
    <3> QED  BY <3>1, <3>2
  <2> QED  BY <2>1, <2>2, <2>3, <2>4
<1>11. Fresh(e, m)
  BY <1>1 DEF Fresh, IsServed, SameHand
<1> QED  BY <1>7, <1>8, <1>9, <1>10, <1>11 DEF Order

(* ... a request that is taken, dropped or left, *)
LEMMA TakeKeeps ==
  ASSUME NEW d, Owner(d, {}, 0), NEW m \in Master, Order(d, m),
         d.sm0 # NoMsg, d.bMbxRunning, NEW e,
         SameHand(d, e), SameSend(d, e), SameCount(d, e),
         \/ IsLeft(d, e)
         \/ IsDropped(d, e)
         \/ \E b \in Buffers : IsReceived(d, b, e)
  PROVE  Order(e, m)
<1> DEFINE s == d.sMbxReceiveQueue
<1>1. /\ d \in Slave /\ s \in Seq(Buffers) /\ Rng(s) \subseteq Buffers
      /\ Len(s) \in Nat /\ DOMAIN s = 1..Len(s)
      /\ d.made \in Nat /\ m.got \in Nat /\ Len(m.open) \in Nat
  BY RngIn, LenProperties DEF Owner, Slave, Master
<1>2. Fresh(e, m)
  BY DEF Fresh, SameHand
<1>3. Asking(m)
  BY DEF Order
<1>4. ASSUME \A b \in Sending(d) \ {NoBuf} : e.mem[b] = d.mem[b]
      PROVE  Chain(e) /\ Reads(e, m) /\ Answering(e, m)
  BY <1>4, SendingStays DEF Order, SameHand
<1>5. CASE IsLeft(d, e)
  <2>1. Chain(e) /\ Reads(e, m) /\ Answering(e, m)
    BY <1>4, <1>5 DEF IsLeft
  <2>2. Writes(e, m) /\ Waiting(e, m)
    BY <1>5, ReceivingStays DEF IsLeft, Order, SameCount
  <2> QED  BY <1>2, <1>3, <2>1, <2>2 DEF Order
<1>6. CASE IsDropped(d, e)
  <2>1. Chain(e) /\ Reads(e, m) /\ Answering(e, m)
    <3>1. \A b \in Sending(d) \ {NoBuf} : e.mem[b] = d.mem[b]
      BY <1>6, SendingHolds DEF IsDropped
    <3> QED  BY <1>4, <3>1
  <2>2. ~IsNew(d) /\ ~IsNew(e)
    BY <1>6 DEF IsNew, IsDropped
  <2>3. Received(e) = Received(d) /\ Arrived(e) = Arrived(d)
    BY <1>6, <2>2 DEF Received, Arrived, IsDropped, SameCount
  <2>4. Writes(e, m)
    BY <1>6, <2>2, <2>3 DEF Order, Writes, IsDropped
  <2>5. Waiting(e, m)
    BY <1>1, <1>6 DEF Order, Waiting, IsDropped, SameCount, Rng
  <2> QED  BY <1>2, <1>3, <2>1, <2>4, <2>5 DEF Order
<1>7. ASSUME NEW b \in Buffers, IsReceived(d, b, e)
      PROVE  Order(e, m)
  <2>1. b \notin Sending(d) /\ b \notin Rng(s)
    BY <1>7, RequestNotEmpty DEF IsReceived, Owner, Memory, Sending
  <2>2. Chain(e) /\ Reads(e, m) /\ Answering(e, m)
    <3>1. \A c \in Sending(d) \ {NoBuf} : e.mem[c] = d.mem[c]
      BY <1>7, <2>1, SendingHolds DEF IsReceived
    <3> QED  BY <1>4, <3>1
  <2>3. IsNew(d) /\ ~IsNew(e)
    BY <1>7 DEF IsNew, IsReceived
  <2> DEFINE a == Append(s, b)
             n == Len(s)
  <2>4. /\ Len(a) = n + 1 /\ DOMAIN a = 1..(n + 1)
        /\ \A i \in 1..n : a[i] = s[i]
        /\ a[n + 1] = b
    BY <1>1, AppendProperties, LenProperties
  <2>5. n \in Nat /\ e.sMbxReceiveQueue = a /\ e.made = d.made
    BY <1>1, <1>7 DEF IsReceived, SameCount
  <2>6. Received(d) = d.made + n /\ Received(e) = d.made + (n + 1)
    BY <2>4, <2>5 DEF Received
  <2> HIDE DEF a, n
  <2>7. /\ Received(d) \in Nat /\ Arrived(d) = Received(d) + 1
        /\ Received(e) = Arrived(d) /\ Arrived(e) = Arrived(d)
    BY <1>1, <2>3, <2>5, <2>6 DEF Arrived
  <2>8. Writes(e, m)
    <3>1. /\ d.sm0.cnt = Count(Arrived(d)) /\ m.cnt = Count(Issued(m))
          /\ Issued(m) = Arrived(d)
               \/ (Issued(m) = Arrived(d) + 1 /\ m.writing # NoMsg)
          /\ m.writing # NoMsg
               => /\ m.writing.cnt = m.cnt
                  /\ Issued(m) > Received(d)
                       => m.writing.req = m.open[Len(m.open)]
      BY <2>3 DEF Order, Writes
    <3>2. e.u8MbxWriteCounter = d.sm0.cnt
      BY <1>7 DEF IsReceived
    <3>3. Issued(m) \in Nat
      BY <1>1 DEF Issued
    <3>4. Issued(m) > Received(e) => Issued(m) > Received(d)
      BY <2>7, <3>3
    <3> QED  BY <2>3, <2>7, <3>1, <3>2, <3>4 DEF Writes
  <2>9. Waiting(e, m)
    <3>1. ASSUME NEW i \in 1..(n + 1)
          PROVE  e.mem[a[i]].req = m.open[d.made + i - m.got]
      <4>1. CASE i = n + 1
        <5>1. d.sm0.req = m.open[Arrived(d) - m.got]
          BY <2>3 DEF Order, Writes
        <5>2. e.mem[a[i]] = d.sm0
          BY <1>7, <2>4, <4>1 DEF IsReceived
        <5>3. d.made + i - m.got = Arrived(d) - m.got
          BY <1>1, <2>5, <2>6, <2>7, <4>1
        <5> QED  BY <5>1, <5>2, <5>3
      <4>2. CASE i # n + 1
        <5>1. i \in 1..n
          BY <2>5, <4>2
        <5>2. a[i] = s[i] /\ i \in DOMAIN s
          BY <1>1, <2>4, <5>1 DEF n
        <5>3. s[i] # b /\ s[i] \in Buffers
          BY <1>1, <2>1, <5>2 DEF Rng
        <5>4. e.mem[s[i]] = d.mem[s[i]]
          BY <1>7, <5>3 DEF IsReceived
        <5>5. d.mem[s[i]].req = m.open[d.made + i - m.got]
          BY <5>2 DEF Order, Waiting
        <5> QED  BY <5>2, <5>4, <5>5
      <4> QED  BY <4>1, <4>2
    <3> QED  BY <2>4, <2>5, <3>1 DEF Waiting
  <2> QED  BY <1>2, <1>3, <2>2, <2>8, <2>9 DEF Order
<1> QED  BY <1>5, <1>6, <1>7

(* ... the handling of a message the master has read, *)
LEMMA ReadKeeps ==
  ASSUME NEW d, Owner(d, {}, 0), NEW m \in Master, Order(d, m),
         d.readEvent, NEW e, IsRead(d, e)
  PROVE  Order(e, m)
<1> DEFINE rep == d.psRepeatMbx
           read == d.psReadMbx
           store == d.psStoreMbx
           q == d.sMbxSendQueue
           k == d.mem[read].no
<1>1. /\ d.bSendMbxIsFull /\ d.bMbxRunning
      /\ d.sm1 = NoMsg /\ read # NoBuf /\ read # rep
      /\ store # NoBuf => store # read /\ rep = NoBuf
  BY DEF Owner, Pointing
<1>2. /\ rep \in Sending(d) /\ read \in Sending(d) /\ store \in Sending(d)
      /\ Rng(q) \subseteq Sending(d) /\ NoBuf \notin Rng(q)
      /\ rep \notin Rng(q) /\ read \notin Rng(q) /\ store \notin Rng(q)
  BY RngIn DEF Sending, Pointers, Owner, Slave, Disjoint
<1>3. \A b \in Sending(d) \ {NoBuf} :
        b \in Buffers /\ d.mem[b] # NoMsg /\ d.mem[b].no \in Nat
  BY SendingHolds, ResponseNumbers
<1>4. /\ k \in Nat /\ m.got \in Nat
      /\ m.got = k \/ (m.got = k - 1 /\ Pends(d, m))
      /\ d.made = k + Len(q) + (IF store = NoBuf THEN 0 ELSE 1)
      /\ store # NoBuf => d.mem[store].no = k + 1
      /\ \A b \in Rng(q) : d.mem[b].no = d.made
      /\ m.last = Count(m.got)
  BY <1>1, <1>2, <1>3 DEF Order, Reads, Chain, Master
<1>5. /\ e.psRepeatMbx = read /\ e.psStoreMbx = NoBuf /\ ~e.readEvent
      /\ SameHand(d, e) /\ SameTake(d, e) /\ SameCount(d, e)
  BY DEF IsRead
<1>6. Pends(e, m) = Pends(d, m)
  BY <1>5 DEF Pends, SameHand
<1> HIDE DEF k
<1>7. ASSUME NEW r \in Sending(d) \ {NoBuf}, d.mem[r].no = k + 1, r # rep,
             NEW t, IsShiftedTo(d, e, r, t, TRUE), Rng(t) \subseteq Rng(q),
             Len(t) \in Nat, d.made = k + Len(t) + 1
      PROVE  /\ Chain(e) /\ Reads(e, m)
             /\ Sending(e) \subseteq Sending(d) \cup {NoBuf}
             /\ \A b \in Sending(e) \ {NoBuf} : e.mem[b] = d.mem[b]
  <2>1. /\ e.psReadMbx = r /\ e.sMbxSendQueue = t /\ e.bSendMbxIsFull
        /\ e.sm1 = d.mem[r]
    BY <1>7 DEF IsShiftedTo
  <2>2. Sending(e) = Rng(t) \cup {read, r, NoBuf}
    BY <1>5, <2>1 DEF Sending, Pointers
  <2>3. Sending(e) \subseteq Sending(d) \cup {NoBuf}
    BY <1>2, <1>7, <2>2
  <2>4. \A b \in Sending(e) \ {NoBuf} : e.mem[b] = d.mem[b]
    <3>1. \A b \in Sending(e) \ {NoBuf} : b # rep
      BY <1>1, <1>2, <1>7, <2>2
    <3> QED  BY <1>3, <2>3, <3>1 DEF IsRead
  <2>5. /\ e.mem[r] = d.mem[r] /\ e.mem[read] = d.mem[read]
        /\ d.mem[r] # NoMsg
    BY <1>1, <1>3, <1>7, <2>2, <2>4
  <2>6. /\ e.mem[r].no = k + 1 /\ e.mem[read].no = k
        /\ e.sm1 = e.mem[r] /\ e.sm1 # NoMsg
    BY <1>7, <2>1, <2>5 DEF k
  <2>7. Chain(e)
    <3>1. \A b \in Sending(e) \ {NoBuf} :
             /\ e.mem[b].no >= 1
             /\ e.mem[b].cnt = Count(e.mem[b].no)
             /\ e.mem[b].left = 0
      BY <2>3, <2>4 DEF Order, Chain
    <3>2. e.u8MbxReadCounter = IF e.made = 0 THEN 0 ELSE Count(e.made) + 1
      BY <1>5 DEF Order, Chain, SameCount
    <3>3. \A b \in Rng(t) : e.mem[b].no = e.made
      <4>1. \A b \in Rng(t) : e.mem[b] = d.mem[b]
        BY <1>2, <1>7, <2>2, <2>4
      <4> QED  BY <1>4, <1>5, <1>7, <4>1 DEF SameCount
    <3>4. e.made = e.mem[r].no + Len(t) + 0
      <4>1. e.made = k + Len(t) + 1
        BY <1>5, <1>7 DEF SameCount
      <4> DEFINE n == Len(t)
      <4>2. n \in Nat
        BY <1>7
      <4> HIDE DEF n
      <4>3. k + n + 1 = k + 1 + n + 0
        BY <1>4, <4>2
      <4> QED  BY <2>6, <4>1, <4>3 DEF n
    <3>5. e.mem[read].no = e.mem[r].no - 1
      BY <1>4, <2>6
    <3> QED
      BY <1>1, <1>5, <1>7, <2>1, <2>6, <3>1, <3>2, <3>3, <3>4, <3>5 DEF Chain
  <2>8. Reads(e, m)
    <3>1. m.got = e.mem[r].no - 1 \/ (m.got = e.mem[r].no - 2 /\ Pends(e, m))
      BY <1>4, <1>6, <2>6
    <3> QED  BY <1>1, <1>4, <1>5, <1>7, <2>1, <2>6, <3>1 DEF Reads
  <2> QED  BY <2>3, <2>4, <2>7, <2>8
<1>8. /\ Chain(e) /\ Reads(e, m)
      /\ Sending(e) \subseteq Sending(d) \cup {NoBuf}
      /\ \A b \in Sending(e) \ {NoBuf} : e.mem[b] = d.mem[b]
  <2>1. CASE store # NoBuf
    <3>1. IsShiftedTo(d, e, store, q, TRUE)
      BY <2>1 DEF IsRead
    <3>2. store \in Sending(d) \ {NoBuf} /\ store # rep
      BY <1>1, <1>2, <2>1
    <3>3. d.mem[store].no = k + 1 /\ d.made = k + Len(q) + 1
      BY <1>4, <2>1
    <3>4. Len(q) \in Nat
      BY QueueLength
    <3> HIDE DEF store, q, rep
    <3> QED  BY <1>7, <3>1, <3>2, <3>3, <3>4
  <2>2. CASE store = NoBuf /\ Len(q) = 1
    <3>0. q # <<>>
      BY <2>2, RngSingle, QueueLength
    <3>1. PICK h \in Rng(q) : IsShiftedTo(d, e, h, <<>>, TRUE)
      BY <2>2, <3>0 DEF IsRead
    <3>2. h \in Sending(d) \ {NoBuf} /\ h # rep
      BY <1>2
    <3>3. Len(<<>>) = 0 /\ Rng(<<>>) = {}
      BY RngEmpty
    <3>4. d.made = k + 1 + 0
      BY <1>4, <2>2
    <3>5. d.mem[h].no = k + 1 /\ d.made = k + 0 + 1
      <4>1. k \in Nat /\ d.mem[h].no = d.made
        BY <1>4
      <4> HIDE DEF q
      <4> QED  BY <3>4, <4>1
    <3>6. /\ d.made = k + Len(<<>>) + 1
          /\ Len(<<>>) \in Nat /\ Rng(<<>>) \subseteq Rng(q)
      BY <3>3, <3>5
    <3> DEFINE t == <<>>
    <3>7. /\ IsShiftedTo(d, e, h, t, TRUE) /\ Rng(t) \subseteq Rng(q)
          /\ Len(t) \in Nat /\ d.made = k + Len(t) + 1
      BY <3>1, <3>6
    <3> HIDE DEF q, rep, t
    <3> QED  BY <1>7, <3>2, <3>5, <3>7
  <2>3. CASE store = NoBuf /\ q = <<>>
    <3>1. /\ e.psReadMbx = read /\ e.sMbxSendQueue = <<>>
          /\ ~e.bSendMbxIsFull /\ e.sm1 = NoMsg
      <4>1. Len(q) = 0
        BY <2>3
      <4>2. Len(q) # 1
        BY <4>1
      <4>3. IsShiftedTo(d, e, read, <<>>, FALSE)
        BY <2>3, <4>2 DEF IsRead
      <4> QED  BY <4>3 DEF IsShiftedTo
    <3>2. Sending(e) = {read, NoBuf}
      BY <1>5, <3>1, RngEmpty DEF Sending, Pointers
    <3>3. e.mem[read] = d.mem[read]
      BY <1>1, <1>2, <1>3 DEF IsRead
    <3>4. e.mem[read].no = k /\ d.made = k
      <4>1. d.made = k + 0 + 0
        BY <1>4, <2>3
      <4> QED  BY <1>4, <3>3, <4>1 DEF k
    <3>5. Chain(e)
      <4>1. \A b \in Sending(e) \ {NoBuf} :
               /\ e.mem[b].no >= 1
               /\ e.mem[b].cnt = Count(e.mem[b].no)
               /\ e.mem[b].left = 0
        BY <1>1, <1>2, <3>2, <3>3 DEF Order, Chain
      <4>2. e.u8MbxReadCounter = IF e.made = 0 THEN 0 ELSE Count(e.made) + 1
        BY <1>5 DEF Order, Chain, SameCount
      <4>3. e.made = e.mem[read].no + 0 + 0
        BY <1>4, <1>5, <3>4 DEF SameCount
      <4>4. Len(<<>>) = 0
        OBVIOUS
      <4> QED
        BY <1>1, <1>5, <3>1, <4>1, <4>2, <4>3, <4>4, RngEmpty DEF Chain
    <3>6. Reads(e, m)
      BY <1>1, <1>4, <1>6, <3>1, <3>4 DEF Reads
    <3> QED  BY <1>1, <1>2, <3>2, <3>3, <3>5, <3>6
  <2> QED  BY <2>1, <2>2, <2>3, QueueLength
<1>9. Answering(e, m)
  BY <1>8 DEF Order, Answering
<1>10. Writes(e, m) /\ Waiting(e, m)
  <2>1. \A b \in Rng(d.sMbxReceiveQueue) : b \in Buffers /\ b # rep
    BY RngIn DEF Owner, Slave, Disjoint, Pointers
  <2>2. \A b \in Rng(d.sMbxReceiveQueue) : e.mem[b] = d.mem[b]
    BY <2>1 DEF IsRead
  <2> QED  BY <1>5, <2>2, ReceivingStays DEF Order, SameCount
<1>11. Fresh(e, m)
  BY <1>1, <1>5 DEF Fresh, SameHand
<1> QED  BY <1>8, <1>9, <1>10, <1>11 DEF Order

(* ... and a repeat, which is asked for when the lost message was kept. *)
LEMMA RepeatKeeps ==
  ASSUME NEW d, Owner(d, {}, 0), NEW m \in Master, Order(d, m),
         d.bMbxRunning, ~d.readEvent, NEW e, IsRepeated(d, e),
         d.rptReq # d.bMbxRepeatToggle, m.phase = "wait"
  PROVE  Order(e, m)
<1> DEFINE rep == d.psRepeatMbx
           read == d.psReadMbx
           q == d.sMbxSendQueue
           k == d.mem[read].no
<1>1. /\ d \in Slave /\ Pointing(d) /\ d.bSendMbxIsFull \in BOOLEAN
      /\ m.got \in Nat /\ d.made \in Nat
      /\ Len(q) \in {0, 1} /\ (Len(q) = 0 <=> q = <<>>)
  BY QueueLength DEF Owner, Slave, Master
<1>2. /\ rep \in Sending(d) /\ read \in Sending(d)
      /\ d.psStoreMbx \in Sending(d)
      /\ Rng(q) \subseteq Sending(d) /\ NoBuf \notin Rng(q)
      /\ Sending(d) = Rng(q) \cup {rep, read, d.psStoreMbx}
  BY RngIn DEF Sending, Pointers, Owner, Slave
<1>3. \A b \in Sending(d) \ {NoBuf} :
        b \in Buffers /\ d.mem[b] # NoMsg /\ d.mem[b].no \in Nat
  BY SendingHolds, ResponseNumbers
<1>4. /\ e.mem = d.mem /\ e.made = d.made
      /\ e.u8MbxReadCounter = d.u8MbxReadCounter /\ SameTake(d, e)
  BY DEF IsRepeated, SameCount
<1>5. d.bSendMbxIsFull => d.sm1 # NoMsg
  BY DEF Order, Chain
<1>6. m.last = Count(m.got)
  BY DEF Order, Reads
<1>7. CASE rep = NoBuf
  <2>1. SameSend(d, e)
    BY <1>7 DEF IsRepeated
  <2>2. Sending(e) = Sending(d)
    BY <2>1 DEF SameSend, Sending, Pointers
  <2>3. Chain(e)
    BY <1>4, <2>1, <2>2 DEF Order, Chain, SameSend
  <2>4. Reads(e, m)
    <3>1. read # NoBuf => d.sm1 # NoMsg
      BY <1>1, <1>5, <1>7 DEF Pointing
    <3> QED  BY <1>4, <1>7, <2>1, <3>1 DEF Order, Reads, SameSend
  <2>5. Answering(e, m)
    BY <1>4, <2>2 DEF Order, Answering
  <2> QED
    <3>1. Writes(e, m) /\ Waiting(e, m)
      BY <1>4, ReceivingStays DEF Order
    <3>2. Fresh(e, m)
      BY DEF Fresh, IsRepeated
    <3> QED  BY <2>3, <2>4, <2>5, <3>1, <3>2 DEF Order
<1>8. CASE rep # NoBuf
  <2> DEFINE s == IF d.bSendMbxIsFull THEN read ELSE NoBuf
             j == d.mem[rep].no
  <2>1. /\ e.psRepeatMbx = NoBuf /\ e.psReadMbx = rep /\ e.psStoreMbx = s
        /\ e.sMbxSendQueue = q /\ e.sm1 = d.mem[rep]
        /\ e.bSendMbxIsFull /\ ~e.readEvent
    BY <1>8 DEF IsRepeated
  <2>2. d.psStoreMbx = NoBuf /\ read # NoBuf
    BY <1>1, <1>8 DEF Pointing
  <2>3. Sending(e) \subseteq Sending(d) \cup {NoBuf}
    BY <1>2, <2>1 DEF Sending, Pointers
  <2>4. /\ j \in Nat /\ k \in Nat /\ d.mem[rep] # NoMsg
    BY <1>2, <1>3, <1>8, <2>2
  <2>5. d.made = k + Len(q)
    <3>1. d.made = k + Len(q) + 0
      BY <2>2 DEF Order, Chain
    <3> DEFINE n == Len(q)
    <3>2. n \in Nat
      BY <1>1
    <3> HIDE DEF n, k
    <3>3. k + n + 0 = k + n
      BY <2>4, <3>2
    <3> QED  BY <3>1, <3>3 DEF n
  <2>6. /\ s # NoBuf => k = j + 1
        /\ s = NoBuf => k = j
        /\ s = IF d.bSendMbxIsFull THEN read ELSE NoBuf
    <3>1. d.bSendMbxIsFull => j = k - 1
      BY <1>8 DEF Order, Chain
    <3>2. ~d.bSendMbxIsFull => j = k
      BY <1>1 DEF Pointing
    <3> HIDE DEF j, k
    <3> QED  BY <1>1, <2>2, <2>4, <3>1, <3>2
  <2>7. d.made = j + Len(q) + (IF s = NoBuf THEN 0 ELSE 1)
    <3> DEFINE n == Len(q)
    <3>1. n \in Nat
      BY <1>1
    <3>2. d.made = k + n
      BY <2>5
    <3> HIDE DEF n, k, j, s
    <3>3. s = NoBuf => d.made = j + n + 0
      BY <2>4, <2>6, <3>1, <3>2
    <3>4. s # NoBuf => d.made = j + n + 1
      BY <2>4, <2>6, <3>1, <3>2
    <3> QED  BY <3>3, <3>4 DEF n
  <2>8. m.got = j \/ m.got = j - 1
    <3>1. CASE d.bSendMbxIsFull
      <4>1. m.got = k - 1 \/ m.got = k - 2
        BY <1>5, <1>8, <2>2, <3>1 DEF Order, Reads
      <4>2. k = j + 1
        BY <2>2, <2>6, <3>1
      <4> HIDE DEF j, k
      <4> QED  BY <1>1, <2>4, <4>1, <4>2
    <3>2. CASE ~d.bSendMbxIsFull
      <4>1. d.sm1 = NoMsg
        BY <1>1, <3>2 DEF Pointing
      <4>2. m.got = k \/ m.got = k - 1
        BY <2>2, <4>1 DEF Order, Reads
      <4>3. k = j
        BY <2>6, <3>2
      <4> QED  BY <4>2, <4>3
    <3> QED  BY <1>1, <3>1, <3>2
  <2>9. Chain(e)
    <3>1. \A b \in Sending(e) \ {NoBuf} :
             /\ e.mem[b].no >= 1
             /\ e.mem[b].cnt = Count(e.mem[b].no)
             /\ e.mem[b].left = 0
      BY <1>4, <2>3 DEF Order, Chain
    <3>2. /\ e.u8MbxReadCounter = IF e.made = 0 THEN 0 ELSE Count(e.made) + 1
          /\ \A b \in Rng(q) : e.mem[b].no = e.made
      BY <1>4 DEF Order, Chain
    <3>3. s # NoBuf => e.mem[s].no = j + 1
      BY <1>4, <2>6
    <3> HIDE DEF s
    <3>4. /\ e.made = e.mem[e.psReadMbx].no + Len(e.sMbxSendQueue)
                        + (IF e.psStoreMbx = NoBuf THEN 0 ELSE 1)
          /\ e.psStoreMbx # NoBuf
               => e.mem[e.psStoreMbx].no = e.mem[e.psReadMbx].no + 1
      BY <1>4, <2>1, <2>7, <3>3
    <3> QED  BY <1>4, <1>8, <2>1, <2>4, <3>1, <3>2, <3>4 DEF Chain
  <2>10. Reads(e, m)
    BY <1>4, <1>6, <1>8, <2>1, <2>4, <2>8 DEF Reads
  <2>11. Answering(e, m)
    BY <1>4, <2>3 DEF Order, Answering
  <2> QED
    <3>1. Writes(e, m) /\ Waiting(e, m)
      BY <1>4, ReceivingStays DEF Order
    <3>2. Fresh(e, m)
      BY DEF Fresh, IsRepeated
    <3> QED  BY <2>9, <2>10, <2>11, <3>1, <3>2 DEF Order
<1> QED  BY <1>7, <1>8

-----------------------------------------------------------------------------
(* The steps around ECAT_Main *)

(* A mailbox that was never started, or stopped, has nothing to order. *)
IsEmpty(d) ==
  /\ d.sm0 = NoMsg /\ d.sm1 = NoMsg /\ ~d.bSendMbxIsFull /\ d.made = 0
  /\ d.u8MbxWriteCounter = 0 /\ d.u8MbxReadCounter = 0
  /\ d.psRepeatMbx = NoBuf /\ d.psReadMbx = NoBuf /\ d.psStoreMbx = NoBuf
  /\ d.sMbxReceiveQueue = <<>> /\ d.sMbxSendQueue = <<>>

IsUnused(m) ==
  /\ m.writing = NoMsg /\ m.cnt = 0 /\ m.phase = "poll" /\ m.last = 0
  /\ m.open = <<>> /\ m.got = 0 /\ m.asked <= MAX_REQUESTS

LEMMA EmptyOrder ==
  ASSUME NEW d, IsEmpty(d), NEW m, IsUnused(m)
  PROVE  Order(d, m)
<1>1. Len(<<>>) = 0 /\ Rng(<<>>) = {} /\ DOMAIN <<>> = {}
  BY RngEmpty
<1>2. Sending(d) \ {NoBuf} = {}
  BY <1>1 DEF IsEmpty, Sending, Pointers
<1>3. Count(0) = 0
  BY DEF Count
<1>4. Received(d) = 0 /\ Issued(m) = 0 /\ ~IsNew(d)
  BY <1>1 DEF Received, Issued, IsNew, IsEmpty, IsUnused
<1>5. Arrived(d) = 0
  BY <1>4 DEF Arrived
<1>6. Chain(d)
  BY <1>1, <1>2 DEF Chain, IsEmpty
<1>7. Reads(d, m)
  BY <1>3 DEF Reads, IsEmpty, IsUnused
<1>8. Writes(d, m)
  BY <1>3, <1>4, <1>5 DEF Writes, IsEmpty, IsUnused
<1>9. Answering(d, m) /\ Waiting(d, m) /\ Asking(m)
  BY <1>1, <1>2 DEF Answering, Waiting, Asking, IsEmpty, IsUnused
<1>10. Fresh(d, m)
  BY DEF Fresh, IsEmpty, IsUnused
<1> QED  BY <1>6, <1>7, <1>8, <1>9, <1>10 DEF Order

LEMMA StopOrder ==
  ASSUME NEW d \in Slave, NEW e,
         e = [MBX_StopMailboxHandler(d) EXCEPT !.al = "none"]
  PROVE  /\ IsEmpty(e) /\ ~e.bMbxRunning /\ e.al = "none"
         /\ ~e.bMbxRepeatToggle /\ ~e.rptAck
<1> DEFINE owned == {d.psRepeatMbx, d.psStoreMbx, d.psReadMbx}
                 \cup {d.sMbxReceiveQueue[i] : i \in DOMAIN d.sMbxReceiveQueue}
                 \cup {d.sMbxSendQueue[i] : i \in DOMAIN d.sMbxSendQueue}
           none == Release(d.mem, owned)
<1>1. e = Stopped(d, none)
  BY DEF MBX_StopMailboxHandler, Slave, Stopped
<1> HIDE DEF none
<1> QED  BY <1>1, ZenonT(60) DEF Stopped, Slave, IsEmpty

(* Nothing but the hand-shakes moves. *)
Stands(d, e) ==
  SameSend(d, e) /\ SameTake(d, e) /\ SameCount(d, e) /\ e.mem = d.mem

SameMaster(m, n) ==
  /\ n.writing = m.writing /\ n.cnt = m.cnt /\ n.last = m.last
  /\ n.open = m.open /\ n.got = m.got /\ n.asked = m.asked

LEMMA StandingKeeps ==
  ASSUME NEW d, NEW m, Order(d, m), NEW e, NEW n,
         Stands(d, e), SameMaster(m, n), Fresh(e, n),
         d.psReadMbx # NoBuf /\ Pends(d, m) => Pends(e, n)
  PROVE  Order(e, n)
<1>1. Sending(e) = Sending(d)
  BY DEF Stands, SameSend, Sending, Pointers
<1>2. Chain(e)
  BY <1>1 DEF Order, Chain, Stands, SameSend, SameCount
<1>3. Reads(e, n)
  BY DEF Order, Reads, Stands, SameSend, SameMaster
<1>4. /\ Received(e) = Received(d) /\ IsNew(e) = IsNew(d)
      /\ Arrived(e) = Arrived(d) /\ Issued(n) = Issued(m)
  BY DEF Received, IsNew, Arrived, Issued, Stands, SameTake, SameCount,
         SameMaster
<1>5. Writes(e, n)
  BY <1>4 DEF Order, Writes, Stands, SameTake, SameMaster
<1>6. Answering(e, n)
  BY <1>1 DEF Order, Answering, Stands, SameMaster
<1>7. Waiting(e, n)
  BY DEF Order, Waiting, Stands, SameTake, SameCount, SameMaster
<1>8. Asking(n)
  BY DEF Order, Asking, SameMaster
<1> QED  BY <1>2, <1>3, <1>5, <1>6, <1>7, <1>8 DEF Order

(* Whatever is under way is a request the master has open. *)
LEMMA Indices ==
  ASSUME NEW d, Owner(d, {}, 0), NEW m \in Master, Order(d, m)
  PROVE  /\ m.got \in Nat /\ Len(m.open) \in Nat /\ d.made \in Nat
         /\ Received(d) \in Nat /\ Arrived(d) \in Nat /\ Issued(m) \in Nat
         /\ m.got <= d.made /\ d.made <= Received(d)
         /\ Received(d) <= Arrived(d) /\ Arrived(d) <= Issued(m)
         /\ Issued(m) = m.got + Len(m.open)
         /\ Arrived(d) = Received(d) + (IF IsNew(d) THEN 1 ELSE 0)
         /\ \A b \in Sending(d) \ {NoBuf} :
              d.mem[b].no \in Nat /\ d.mem[b].no <= d.made
         /\ \A i \in DOMAIN d.sMbxReceiveQueue :
              i \in Nat /\ i >= 1 /\ d.made + i <= Received(d)
<1> DEFINE s == d.sMbxReceiveQueue
           n == Len(s)
           l == Len(m.open)
<1>1. /\ d.made \in Nat /\ n \in Nat /\ DOMAIN s = 1..n
      /\ m.got \in Nat /\ l \in Nat
  BY QueueLength, LenProperties DEF Owner, Slave, Master
<1>2. Received(d) = d.made + n /\ Issued(m) = m.got + l
  BY DEF Received, Issued
<1>3. Arrived(d) = Received(d) + (IF IsNew(d) THEN 1 ELSE 0)
  BY DEF Arrived
<1>4. m.got <= d.made /\ \A b \in Sending(d) \ {NoBuf} : d.mem[b].no <= d.made
  BY Behind DEF Order
<1>5. \A b \in Sending(d) \ {NoBuf} : d.mem[b].no \in Nat
  BY SendingHolds, ResponseNumbers
<1>6. Issued(m) = Arrived(d) \/ Issued(m) = Arrived(d) + 1
  BY DEF Order, Writes
<1> HIDE DEF n, l
<1>7. Received(d) \in Nat /\ d.made <= Received(d) /\ Issued(m) \in Nat
  BY <1>1, <1>2
<1>8. Arrived(d) \in Nat /\ Received(d) <= Arrived(d)
  BY <1>3, <1>7
<1>9. Arrived(d) <= Issued(m)
  BY <1>6, <1>8
<1>10. \A i \in 1..n : i \in Nat /\ i >= 1 /\ d.made + i <= Received(d)
  BY <1>1, <1>2
<1> QED
  BY <1>1, <1>2, <1>3, <1>4, <1>5, <1>7, <1>8, <1>9, <1>10 DEF n, l

(* A new request is the next of the session. *)
LEMMA AskKeeps ==
  ASSUME NEW d, Owner(d, {}, 0), d.bMbxRunning,
         NEW m \in Master, Order(d, m),
         m.writing = NoMsg, m.asked < MAX_REQUESTS,
         NEW req \in Req, req.n = m.asked + 1,
         NEW n, n.asked = m.asked + 1, n.open = Append(m.open, req),
         n.cnt = NextCounter(m.cnt), n.writing = Request(req, n.cnt),
         n.phase = m.phase, n.last = m.last, n.got = m.got
  PROVE  Order(d, n)
<1> DEFINE l == Len(m.open)
<1>1. /\ m.got \in Nat /\ l \in Nat /\ d.made \in Nat
      /\ Received(d) \in Nat /\ Arrived(d) \in Nat
      /\ m.got <= d.made /\ d.made <= Received(d)
      /\ Received(d) <= Arrived(d) /\ Arrived(d) <= Issued(m)
      /\ Issued(m) = m.got + l
      /\ Arrived(d) = Received(d) + (IF IsNew(d) THEN 1 ELSE 0)
      /\ \A b \in Sending(d) \ {NoBuf} :
           d.mem[b].no \in Nat /\ d.mem[b].no <= d.made
      /\ \A i \in DOMAIN d.sMbxReceiveQueue :
           i \in Nat /\ i >= 1 /\ d.made + i <= Received(d)
  BY Indices
<1>2. m.open \in Seq(Req) /\ m.asked \in Nat /\ MAX_REQUESTS \in Nat
  BY MailboxAssumptions DEF Master
<1>3. /\ Len(n.open) = l + 1 /\ n.open[l + 1] = req
      /\ \A i \in 1..l : n.open[i] = m.open[i]
      /\ DOMAIN n.open = 1..(l + 1) /\ DOMAIN m.open = 1..l
  BY <1>2, AppendProperties, LenProperties
<1> HIDE DEF l
<1>4. Issued(n) = Issued(m) + 1 /\ Issued(m) \in Nat
  <2>1. m.got \in Nat /\ l \in Nat /\ Issued(m) = m.got + l
    BY <1>1
  <2>2. Issued(n) = m.got + (l + 1)
    BY <1>3 DEF Issued
  <2> QED  BY <2>1, <2>2
<1>5. Issued(m) = Arrived(d)
  BY DEF Order, Writes
<1>6. Fresh(d, n) /\ Chain(d)
  BY DEF Fresh, Order
<1>7. Pends(d, n) = Pends(d, m)
  BY DEF Pends
<1>8. Reads(d, n)
  BY <1>7 DEF Order, Reads
<1>9. Writes(d, n)
  <2>1. n.cnt = Count(Issued(n))
    BY <1>4, CountNext DEF Order, Writes
  <2>2. ASSUME IsNew(d)
        PROVE  /\ d.sm0.cnt = Count(Arrived(d))
               /\ Arrived(d) <= Issued(n)
               /\ d.sm0.req = n.open[Arrived(d) - n.got]
    <3>1. /\ d.sm0.cnt = Count(Arrived(d))
          /\ d.sm0.req = m.open[Arrived(d) - m.got]
      BY <2>2 DEF Order, Writes
    <3>2. Arrived(d) - m.got \in 1..l
      BY <1>1, <2>2
    <3> QED  BY <1>1, <1>3, <1>4, <3>1, <3>2
  <2>3. /\ n.writing # NoMsg /\ n.writing.cnt = n.cnt
        /\ n.writing.req = n.open[Len(n.open)]
    BY <1>3 DEF Request, NoMsg
  <2>4. Issued(n) = Arrived(d) + 1 /\ n.writing # NoMsg
    BY <1>4, <1>5, <2>3
  <2> QED  BY <2>1, <2>2, <2>3, <2>4 DEF Order, Writes
<1>10. Answering(d, n)
  <2> SUFFICES ASSUME NEW b \in Sending(d) \ {NoBuf}, d.mem[b].no > n.got
               PROVE  d.mem[b].req = n.open[d.mem[b].no - n.got]
    BY DEF Answering
  <2>1. d.mem[b].req = m.open[d.mem[b].no - m.got]
    BY DEF Order, Answering
  <2>2. d.mem[b].no - m.got \in 1..l
    BY <1>1
  <2> QED  BY <1>3, <2>1, <2>2
<1>11. Waiting(d, n)
  <2> SUFFICES ASSUME NEW i \in DOMAIN d.sMbxReceiveQueue
               PROVE  d.mem[d.sMbxReceiveQueue[i]].req
                        = n.open[d.made + i - n.got]
    BY DEF Waiting
  <2>1. d.mem[d.sMbxReceiveQueue[i]].req = m.open[d.made + i - m.got]
    BY DEF Order, Waiting
  <2>2. d.made + i - m.got \in 1..l
    <3>1. /\ i \in Nat /\ i >= 1 /\ d.made + i <= Received(d)
      BY <1>1
    <3> QED  BY <1>1, <3>1
  <2> QED  BY <1>3, <2>1, <2>2
<1>12. Asking(n)
  <2>1. n.asked <= MAX_REQUESTS /\ req.n \in 1..MAX_REQUESTS
    BY <1>2
  <2>2. \A i \in 1..l : n.open[i].n \in 1..MAX_REQUESTS
    BY <1>3 DEF Order, Asking
  <2>3. \A i \in 1..(l + 1) : i = l + 1 \/ i \in 1..l
    BY <1>1
  <2> QED  BY <1>3, <2>1, <2>2, <2>3 DEF Asking
<1> QED  BY <1>6, <1>8, <1>9, <1>10, <1>11, <1>12 DEF Order

(* What the master writes is its last request, whether for the first time  *)
(* or again. *)
LEMMA WriteKeeps ==
  ASSUME NEW d, Owner(d, {}, 0), d.bMbxRunning, d.sm0 = NoMsg,
         NEW m \in Master, Order(d, m), m.writing # NoMsg,
         NEW e, SameHand(d, e), SameSend(d, e), SameCount(d, e),
         e.mem = d.mem, e.sm0 = m.writing,
         e.u8MbxWriteCounter = d.u8MbxWriteCounter,
         e.sMbxReceiveQueue = d.sMbxReceiveQueue,
         NEW n, n.open = m.open, n.got = m.got, n.last = m.last,
         n.cnt = m.cnt, n.phase = m.phase, n.asked = m.asked,
         n.writing \in {m.writing, NoMsg}
  PROVE  Order(e, n)
<1>1. /\ m.got \in Nat /\ Len(m.open) \in Nat /\ Received(d) \in Nat
      /\ Issued(m) = m.got + Len(m.open) /\ Issued(m) \in Nat
      /\ Arrived(d) = Received(d) + (IF IsNew(d) THEN 1 ELSE 0)
  BY Indices
<1>2. Received(e) = Received(d) /\ Issued(n) = Issued(m)
  BY DEF Received, Issued, SameCount
<1>3. ~IsNew(d)
  BY DEF IsNew
<1>4. /\ d.u8MbxWriteCounter = Count(Received(d))
      /\ m.cnt = Count(Issued(m)) /\ m.writing.cnt = m.cnt
      /\ Issued(m) = Received(d) \/ Issued(m) = Received(d) + 1
      /\ Issued(m) > Received(d) => m.writing.req = m.open[Len(m.open)]
  BY <1>1, <1>3 DEF Order, Writes
<1>5. Sending(e) = Sending(d)
  BY DEF SameSend, Sending, Pointers
<1>6. Chain(e)
  BY <1>5 DEF Order, Chain, SameSend, SameCount
<1>7. Reads(e, n)
  BY DEF Order, Reads, SameSend, Pends, SameHand
<1>8. Writes(e, n)
  <2>1. CASE Issued(m) = Received(d)
    <3>1. ~IsNew(e)
      BY <1>4, <2>1 DEF IsNew
    <3>2. Arrived(e) = Issued(n)
      BY <1>1, <1>2, <2>1, <3>1 DEF Arrived
    <3>3. Issued(m) = Received(d) /\ ~(Issued(n) > Received(e))
      BY <1>1, <1>2, <2>1
    <3> QED  BY <1>2, <1>4, <3>1, <3>2, <3>3 DEF Writes
  <2>2. CASE Issued(m) = Received(d) + 1
    <3>1. IsNew(e)
      BY <1>1, <1>4, <2>2, CountNext DEF IsNew
    <3>2. Arrived(e) = Issued(n)
      BY <1>2, <2>2, <3>1 DEF Arrived
    <3>3. Arrived(e) - n.got = Len(m.open)
      BY <1>1, <1>2, <3>2
    <3>4. m.writing.req = m.open[Len(m.open)]
      BY <1>1, <1>4, <2>2
    <3>5. /\ e.sm0.cnt = Count(Arrived(e)) /\ Arrived(e) <= Issued(n)
          /\ e.sm0.req = n.open[Arrived(e) - n.got]
      <4>1. e.sm0.cnt = Count(Arrived(e))
        BY <1>2, <1>4, <3>2
      <4>2. Arrived(e) <= Issued(n)
        BY <1>1, <1>2, <3>2
      <4>3. e.sm0.req = n.open[Arrived(e) - n.got]
        BY <3>3, <3>4
      <4> QED  BY <4>1, <4>2, <4>3
    <3> QED  BY <1>2, <1>4, <3>1, <3>2, <3>4, <3>5 DEF Writes
  <2> QED  BY <1>4, <2>1, <2>2
<1>9. Answering(e, n)
  BY <1>5 DEF Order, Answering
<1>10. Waiting(e, n)
  BY DEF Order, Waiting, SameCount
<1>11. Asking(n) /\ Fresh(e, n)
  BY DEF Order, Asking, Fresh, SameHand
<1> QED  BY <1>6, <1>7, <1>8, <1>9, <1>10, <1>11 DEF Order

(* The master, or nobody, gets what the ESC sends. *)
IsFetched(d, e) ==
  /\ SameHand(d, e) /\ SameTake(d, e) /\ SameCount(d, e) /\ e.mem = d.mem
  /\ e.sm1 = NoMsg /\ e.readEvent
  /\ e.bSendMbxIsFull = d.bSendMbxIsFull
  /\ e.psRepeatMbx = d.psRepeatMbx /\ e.psReadMbx = d.psReadMbx
  /\ e.psStoreMbx = d.psStoreMbx /\ e.sMbxSendQueue = d.sMbxSendQueue

LEMMA FetchedChain ==
  ASSUME NEW d, Owner(d, {}, 0), d.sm1 # NoMsg, NEW m \in Master,
         Order(d, m), ~Pends(d, m), NEW e, IsFetched(d, e)
  PROVE  /\ Chain(e) /\ Sending(e) = Sending(d)
         /\ d.bMbxRunning /\ d.psReadMbx \in Sending(d) \ {NoBuf}
         /\ d.sm1 = d.mem[d.psReadMbx]
         /\ d.sm1.no \in Nat /\ d.sm1.left = 0
         /\ d.sm1.cnt = Count(d.sm1.no)
         /\ m.got = d.sm1.no \/ m.got = d.sm1.no - 1
<1>1. d.bSendMbxIsFull /\ d.bMbxRunning /\ d.psReadMbx # NoBuf
  BY DEF Owner, Pointing
<1>2. Sending(e) = Sending(d)
  BY DEF IsFetched, Sending, Pointers
<1>3. Chain(e)
  BY <1>1, <1>2 DEF Order, Chain, IsFetched, SameCount
<1>4. d.psReadMbx \in Sending(d) \ {NoBuf} /\ d.sm1 = d.mem[d.psReadMbx]
  BY <1>1 DEF Order, Chain, Sending, Pointers
<1>5. d.sm1.no \in Nat
  BY <1>4, SendingHolds, ResponseNumbers
<1>6. d.sm1.left = 0 /\ d.sm1.cnt = Count(d.sm1.no)
  BY <1>4 DEF Order, Chain
<1>7. m.got = d.sm1.no \/ m.got = d.sm1.no - 1
  BY <1>1, <1>4 DEF Order, Reads
<1> QED  BY <1>1, <1>2, <1>3, <1>4, <1>5, <1>6, <1>7

(* A read that was lost, or gave the master what it has, changes nothing   *)
(* for it. *)
LEMMA MissKeeps ==
  ASSUME NEW d, Owner(d, {}, 0), d.sm1 # NoMsg, NEW m \in Master,
         Order(d, m), ~Pends(d, m), NEW e, IsFetched(d, e),
         NEW n, SameMaster(m, n),
         m.got = d.sm1.no \/ Pends(e, n)
  PROVE  Order(e, n)
<1>1. /\ Chain(e) /\ Sending(e) = Sending(d) /\ d.bMbxRunning
      /\ d.psReadMbx # NoBuf /\ d.sm1 = d.mem[d.psReadMbx]
      /\ m.got = d.sm1.no \/ m.got = d.sm1.no - 1
  BY FetchedChain
<1>2. Reads(e, n)
  BY <1>1 DEF Order, Reads, IsFetched, SameMaster
<1>3. /\ Received(e) = Received(d) /\ IsNew(e) = IsNew(d)
      /\ Arrived(e) = Arrived(d) /\ Issued(n) = Issued(m)
  BY DEF Received, IsNew, Arrived, Issued, IsFetched, SameTake, SameCount,
         SameMaster
<1>4. Writes(e, n)
  BY <1>3 DEF Order, Writes, IsFetched, SameTake, SameMaster
<1>5. Answering(e, n)
  BY <1>1 DEF Order, Answering, IsFetched, SameMaster
<1>6. Waiting(e, n)
  BY DEF Order, Waiting, IsFetched, SameTake, SameCount, SameMaster
<1>7. Asking(n) /\ Fresh(e, n)
  BY <1>1 DEF Order, Asking, Fresh, IsFetched, SameHand, SameMaster
<1> QED  BY <1>1, <1>2, <1>4, <1>5, <1>6, <1>7 DEF Order

(* The next response answers the oldest request. *)
LEMMA AcceptKeeps ==
  ASSUME NEW d, Owner(d, {}, 0), d.sm1 # NoMsg, NEW m \in Master,
         Order(d, m), ~Pends(d, m), NEW e, IsFetched(d, e),
         m.open # <<>>, m.got = d.sm1.no - 1,
         NEW n, n.writing = m.writing, n.cnt = m.cnt, n.phase = m.phase,
         n.asked = m.asked, n.open = Tail(m.open),
         n.got = d.sm1.no, n.last = d.sm1.cnt
  PROVE  /\ Order(e, n)
         /\ d.sm1.req = Head(m.open) /\ d.sm1.no = m.got + 1
<1> DEFINE l == Len(m.open)
<1>1. /\ Chain(e) /\ Sending(e) = Sending(d) /\ d.bMbxRunning
      /\ d.psReadMbx \in Sending(d) \ {NoBuf} /\ d.sm1 = d.mem[d.psReadMbx]
      /\ d.sm1.no \in Nat /\ d.sm1.cnt = Count(d.sm1.no)
  BY FetchedChain
<1>2. /\ m.got \in Nat /\ l \in Nat /\ d.made \in Nat
      /\ Received(d) \in Nat /\ Arrived(d) \in Nat /\ Issued(m) \in Nat
      /\ d.made <= Received(d)
      /\ Received(d) <= Arrived(d) /\ Arrived(d) <= Issued(m)
      /\ Issued(m) = m.got + l
      /\ Arrived(d) = Received(d) + (IF IsNew(d) THEN 1 ELSE 0)
      /\ \A b \in Sending(d) \ {NoBuf} :
           d.mem[b].no \in Nat /\ d.mem[b].no <= d.made
      /\ \A i \in DOMAIN d.sMbxReceiveQueue :
           i \in Nat /\ i >= 1 /\ d.made + i <= Received(d)
  BY Indices
<1>3. m.open \in Seq(Req) /\ l # 0
  BY <1>2, EmptySeq DEF Master
<1>4. /\ Len(n.open) = l - 1 /\ Head(m.open) = m.open[1]
      /\ \A i \in 1..(l - 1) : n.open[i] = m.open[i + 1]
      /\ DOMAIN n.open = 1..(l - 1) /\ DOMAIN m.open = 1..l
  BY <1>3, HeadTailProperties, LenProperties
<1> HIDE DEF l
<1>5. n.got = m.got + 1 /\ n.got <= d.made /\ n.got \in Nat
  BY <1>1, <1>2
<1>6. Issued(n) = Issued(m)
  <2>1. Issued(n) = (m.got + 1) + (l - 1)
    BY <1>4, <1>5 DEF Issued
  <2>2. m.got \in Nat /\ l \in Nat /\ Issued(m) = m.got + l
    BY <1>2
  <2>3. (m.got + 1) + (l - 1) = m.got + l
    BY <2>2
  <2> QED  BY <2>1, <2>2, <2>3
<1>7. \A j \in Nat : j > n.got /\ j <= Issued(m)
                       => n.open[j - n.got] = m.open[j - m.got]
  <2> SUFFICES ASSUME NEW j \in Nat, j > n.got, j <= Issued(m)
               PROVE  n.open[j - n.got] = m.open[j - m.got]
    OBVIOUS
  <2>1. /\ m.got \in Nat /\ l \in Nat /\ Issued(m) = m.got + l
        /\ n.got = m.got + 1
    BY <1>2, <1>5
  <2> DEFINE g == m.got
             h == n.got
             t == Issued(m)
  <2>2. g \in Nat /\ h = g + 1 /\ t = g + l /\ j > h /\ j <= t
    BY <2>1
  <2> HIDE DEF g, h, t
  <2>3. j - h \in 1..(l - 1) /\ (j - h) + 1 = j - g
    BY <2>1, <2>2
  <2> QED  BY <1>4, <2>3 DEF g, h
<1>8. Reads(e, n)
  BY <1>1 DEF Reads, IsFetched
<1>9. /\ Received(e) = Received(d) /\ IsNew(e) = IsNew(d)
      /\ Arrived(e) = Arrived(d)
  BY DEF Received, IsNew, Arrived, IsFetched, SameTake, SameCount
<1>10. Writes(e, n)
  <2>1. ASSUME IsNew(d)
        PROVE  d.sm0.req = n.open[Arrived(d) - n.got]
    <3>1. d.sm0.req = m.open[Arrived(d) - m.got]
      BY <2>1 DEF Order, Writes
    <3>2. Arrived(d) > n.got
      BY <1>2, <1>5, <2>1
    <3> QED  BY <1>2, <1>7, <3>1, <3>2
  <2>2. ASSUME m.writing # NoMsg, Issued(m) > Received(d)
        PROVE  m.writing.req = n.open[Len(n.open)]
    <3>1. m.writing.req = m.open[l]
      BY <2>2 DEF Order, Writes, l
    <3>2. l - 1 \in 1..(l - 1) /\ (l - 1) + 1 = l
      BY <1>2, <1>5, <2>2
    <3> QED  BY <1>4, <3>1, <3>2
  <2> QED
    BY <1>6, <1>9, <2>1, <2>2 DEF Order, Writes, IsFetched, SameTake
<1>11. Answering(e, n)
  <2>1. ASSUME NEW b \in Sending(d) \ {NoBuf}, d.mem[b].no > n.got
        PROVE  d.mem[b].req = n.open[d.mem[b].no - n.got]
    <3> DEFINE j == d.mem[b].no
    <3>1. j \in Nat /\ j <= d.made /\ j > n.got
      BY <1>2, <2>1
    <3> HIDE DEF j
    <3>2. j > m.got /\ j <= Issued(m)
      BY <1>2, <1>5, <3>1
    <3>3. d.mem[b].req = m.open[j - m.got]
      BY <3>2 DEF Order, Answering, j
    <3>4. d.mem[b].req = n.open[j - n.got]
      BY <1>7, <3>1, <3>2, <3>3
    <3> QED  BY <3>4 DEF j
  <2>2. e.mem = d.mem
    BY DEF IsFetched
  <2> QED  BY <1>1, <2>1, <2>2 DEF Answering
<1>12. Waiting(e, n)
  <2>0. /\ e.mem = d.mem /\ e.sMbxReceiveQueue = d.sMbxReceiveQueue
        /\ e.made = d.made
    BY DEF IsFetched, SameTake, SameCount
  <2> SUFFICES ASSUME NEW i \in DOMAIN d.sMbxReceiveQueue
               PROVE  d.mem[d.sMbxReceiveQueue[i]].req
                        = n.open[d.made + i - n.got]
    BY <2>0 DEF Waiting
  <2>1. d.mem[d.sMbxReceiveQueue[i]].req = m.open[d.made + i - m.got]
    BY DEF Order, Waiting
  <2> DEFINE j == d.made + i
  <2>2. j \in Nat /\ j > n.got /\ j <= Issued(m)
        /\ d.made + i - m.got = j - m.got /\ d.made + i - n.got = j - n.got
    <3>1. i \in Nat /\ i >= 1 /\ d.made + i <= Received(d)
      BY <1>2
    <3>2. /\ d.made \in Nat /\ m.got \in Nat /\ n.got \in Nat
          /\ Received(d) \in Nat /\ Issued(m) \in Nat
          /\ Received(d) <= Issued(m) /\ n.got <= d.made
      BY <1>2, <1>5
    <3>3. j \in Nat /\ j > n.got /\ j <= Issued(m)
      BY <3>1, <3>2
    <3>4. d.made + i - m.got = j - m.got /\ d.made + i - n.got = j - n.got
      BY <3>1, <3>2
    <3> QED  BY <3>3, <3>4
  <2> HIDE DEF j
  <2> QED  BY <1>7, <2>1, <2>2
<1>13. Asking(n)
  <2>1. \A i \in 1..(l - 1) : i + 1 \in 1..l
    BY <1>2
  <2> QED  BY <1>4, <2>1 DEF Order, Asking
<1>14. Fresh(e, n)
  BY <1>1 DEF Fresh, IsFetched, SameHand
<1>15. d.sm1.req = Head(m.open)
  <2> DEFINE b == d.psReadMbx
             j == d.mem[b].no
  <2>1. b \in Sending(d) \ {NoBuf} /\ d.sm1 = d.mem[b] /\ j = d.sm1.no
    BY <1>1
  <2>2. j > m.got /\ j - m.got = 1
    BY <1>1, <1>2, <2>1
  <2> HIDE DEF b
  <2>3. d.mem[b].req = m.open[j - m.got]
    BY <2>1, <2>2 DEF Order, Answering
  <2> QED  BY <1>4, <2>1, <2>2, <2>3
<1> QED
  BY <1>1, <1>5, <1>8, <1>10, <1>11, <1>12, <1>13, <1>14, <1>15 DEF Order

(* The fields the ESC and the master change, and the start. *)
IsControlled(d, e, req, al, run) ==
  /\ Stands(d, e) /\ e.rptAck = d.rptAck
  /\ e.bMbxRepeatToggle = d.bMbxRepeatToggle
  /\ e.rptReq = req /\ e.al = al /\ e.bMbxRunning = run

LEMMA EscOrder ==
  ASSUME NEW d \in Slave, NEW e
  PROVE  /\ \A r : e = [d EXCEPT !.sm0 = r, !.writeEvent = TRUE]
              => /\ SameHand(d, e) /\ SameSend(d, e) /\ SameCount(d, e)
                 /\ e.mem = d.mem /\ e.sm0 = r
                 /\ e.u8MbxWriteCounter = d.u8MbxWriteCounter
                 /\ e.sMbxReceiveQueue = d.sMbxReceiveQueue
         /\ e = [d EXCEPT !.sm1 = NoMsg, !.readEvent = TRUE]
              => IsFetched(d, e)
         /\ e = [d EXCEPT !.rptReq = ~@]
              => IsControlled(d, e, ~d.rptReq, d.al, d.bMbxRunning)
         /\ e = [d EXCEPT !.al = "PREOP", !.rptReq = FALSE]
              => IsControlled(d, e, FALSE, "PREOP", d.bMbxRunning)
         /\ e = [d EXCEPT !.al = "INIT"]
              => IsControlled(d, e, d.rptReq, "INIT", d.bMbxRunning)
         /\ e = [d EXCEPT !.al = "none", !.bMbxRunning = TRUE]
              => IsControlled(d, e, d.rptReq, "none", TRUE)
<1>1. ASSUME NEW r, e = [d EXCEPT !.sm0 = r, !.writeEvent = TRUE]
      PROVE  /\ SameHand(d, e) /\ SameSend(d, e) /\ SameCount(d, e)
             /\ e.mem = d.mem /\ e.sm0 = r
             /\ e.u8MbxWriteCounter = d.u8MbxWriteCounter
             /\ e.sMbxReceiveQueue = d.sMbxReceiveQueue
  BY <1>1, ZenonT(60) DEF Slave, SameHand, SameSend, SameCount
<1>2. ASSUME e = [d EXCEPT !.sm1 = NoMsg, !.readEvent = TRUE]
      PROVE  IsFetched(d, e)
  BY <1>2, ZenonT(60) DEF Slave, IsFetched, SameHand, SameTake, SameCount
<1>3. ASSUME e = [d EXCEPT !.rptReq = ~@]
      PROVE  IsControlled(d, e, ~d.rptReq, d.al, d.bMbxRunning)
  BY <1>3, ZenonT(60)
     DEF Slave, IsControlled, Stands, SameSend, SameTake, SameCount
<1>4. ASSUME e = [d EXCEPT !.al = "PREOP", !.rptReq = FALSE]
      PROVE  IsControlled(d, e, FALSE, "PREOP", d.bMbxRunning)
  BY <1>4, ZenonT(60)
     DEF Slave, IsControlled, Stands, SameSend, SameTake, SameCount
<1>5. ASSUME e = [d EXCEPT !.al = "INIT"]
      PROVE  IsControlled(d, e, d.rptReq, "INIT", d.bMbxRunning)
  BY <1>5, ZenonT(60)
     DEF Slave, IsControlled, Stands, SameSend, SameTake, SameCount
<1>6. ASSUME e = [d EXCEPT !.al = "none", !.bMbxRunning = TRUE]
      PROVE  IsControlled(d, e, d.rptReq, "none", TRUE)
  BY <1>6, ZenonT(60)
     DEF Slave, IsControlled, Stands, SameSend, SameTake, SameCount
<1> QED  BY <1>1, <1>2, <1>3, <1>4, <1>5, <1>6

-----------------------------------------------------------------------------
(* The order is an invariant *)

Turn == Repeats(pc, sm1Activate, ALEventReg, dev, mst)

LEMMA OrderInitial ==
  ASSUME Init
  PROVE  Turn /\ Order(dev, mst)
<1>1. IsEmpty(dev)
  BY DEF Init, IsEmpty
<1>2. IsUnused(mst)
  BY MailboxAssumptions DEF Init, IsUnused
<1>3. Turn
  BY DEF Init, Turn, Repeats
<1> QED  BY <1>1, <1>2, <1>3, EmptyOrder

(* What a step does to the responses of the session: none is made and none *)
(* accepted, one is made, one accepted, or the session ends. *)
Moved(d, m, e, n) ==
  \/ /\ e.made = d.made /\ n.got = m.got
     /\ n.open = m.open \/ \E req \in Req : n.open = Append(m.open, req)
  \/ /\ d.sMbxReceiveQueue # <<>> /\ e.made = d.made + 1
     /\ n.got = m.got /\ n.open = m.open
  \/ /\ m.open # <<>> /\ d.sm1.req = Head(m.open)
     /\ n.got = m.got + 1 /\ n.open = Tail(m.open) /\ e.made = d.made
  \/ e.made = 0 /\ n.got = 0

(* The steps of ECAT_Main that answer, take and stop. *)
LEMMA MainOrder ==
  ASSUME OInv, ECAT_Main
  PROVE  Turn' /\ Order(dev', mst') /\ Moved(dev, mst, dev', mst')
<1>1. /\ Cycle /\ Owner(dev, {}, 0) /\ dev \in Slave /\ Load(dev, 0)
      /\ mst \in Master /\ Turn /\ Order(dev, mst)
  BY DEF OInv, IInv, Owner, Turn
<1>2. /\ dev.bMbxRunning \in BOOLEAN /\ dev.rptReq \in BOOLEAN
      /\ dev.bMbxRepeatToggle \in BOOLEAN /\ sm1Activate \in BOOLEAN
      /\ dev.sMbxReceiveQueue \in Seq(Buffers)
  BY <1>1 DEF Slave, Cycle
<1>3. CASE ServeRequest
  <2> DEFINE b == Head(dev.sMbxReceiveQueue)
  <2>1. /\ dev.sMbxReceiveQueue # <<>> /\ mst' = mst
        /\ pc = "main" /\ pc' = "main"
        /\ dev' = MailboxServiceInd(
                    [dev EXCEPT !.sMbxReceiveQueue = Tail(@)], b)
    BY <1>3 DEF ServeRequest, Step
  <2>2. b \in Buffers /\ dev.mem[b] \in Requests /\ IsServed(dev, b, dev')
    BY <1>1, <2>1, ServeOrder
  <2> HIDE DEF b
  <2>3. Order(dev', mst)
    BY <1>1, <2>1, <2>2, ServeKeeps DEF b
  <2>4. Turn'
    BY <1>1, <2>1, <2>2 DEF Turn, Repeats, IsServed, SameHand
  <2>5. Moved(dev, mst, dev', mst')
    BY <2>1, <2>2 DEF Moved, IsServed
  <2> QED  BY <2>1, <2>3, <2>4, <2>5
<1>4. ASSUME dev' = MBX_CheckAndCopyMailbox(dev), dev.bMbxRunning,
             dev.sm0 # NoMsg, Len(dev.sMbxReceiveQueue) <= 1
      PROVE  SameHand(dev, dev') /\ dev'.made = dev.made /\ Order(dev', mst)
  <2>1. /\ SameHand(dev, dev') /\ SameSend(dev, dev')
        /\ SameCount(dev, dev')
        /\ \/ IsLeft(dev, dev')
           \/ IsDropped(dev, dev')
           \/ \E b \in Buffers : IsReceived(dev, b, dev')
    BY <1>1, <1>4, TakeOrder
  <2> QED  BY <1>1, <1>4, <2>1, TakeKeeps DEF SameCount
<1>5. CASE CheckLocked
  <2>1. pc' = "sm1" /\ mst' = mst /\ dev.sMbxReceiveQueue = <<>>
    BY <1>5 DEF CheckLocked, Step
  <2>2. SameHand(dev, dev') /\ dev'.made = dev.made /\ Order(dev', mst)
    <3>1. CASE dev.bReceiveMbxIsLocked
      <4>1. dev' = MBX_CheckAndCopyMailbox(dev)
        BY <1>5, <3>1 DEF CheckLocked
      <4>2. dev.sm0 # NoMsg /\ dev.bMbxRunning
        BY <1>1, <3>1 DEF Load
      <4>3. Len(dev.sMbxReceiveQueue) <= 1
        BY <2>1
      <4> QED  BY <1>4, <4>1, <4>2, <4>3
    <3>2. CASE ~dev.bReceiveMbxIsLocked
      BY <1>1, <1>5, <3>2 DEF CheckLocked, SameHand
    <3> QED  BY <3>1, <3>2
  <2>3. Turn'
    BY <1>1, <2>1, <2>2 DEF Turn, Repeats, SameHand
  <2> QED  BY <2>1, <2>2, <2>3 DEF Moved
<1>6. CASE HandleWriteEvent
  <2>1. pc = "write" /\ pc' = "main" /\ mst' = mst
    BY <1>6 DEF HandleWriteEvent, Step
  <2>2. SameHand(dev, dev') /\ dev'.made = dev.made /\ Order(dev', mst)
    <3>1. CASE dev.writeEvent
      <4>1. dev' = MBX_CheckAndCopyMailbox(dev)
        BY <1>6, <3>1 DEF HandleWriteEvent
      <4>2. dev.sm0 # NoMsg
        BY <1>1, <3>1 DEF Load
      <4>3. dev.bMbxRunning /\ Len(dev.sMbxReceiveQueue) <= 1
        BY <1>1, <2>1 DEF Cycle
      <4> QED  BY <1>4, <4>1, <4>2, <4>3
    <3>2. CASE ~dev.writeEvent
      BY <1>1, <1>6, <3>2 DEF HandleWriteEvent, SameHand
    <3> QED  BY <3>1, <3>2
  <2>3. Turn'
    BY <1>1, <2>1, <2>2 DEF Turn, Repeats, SameHand
  <2> QED  BY <2>1, <2>2, <2>3 DEF Moved
<1>7. CASE ReadSm1
  <2>1. /\ pc' = "event" /\ sm1Activate' = (dev.bMbxRunning /\ dev.rptReq)
        /\ ALEventReg' = ALEventReg /\ dev' = dev /\ mst' = mst
    BY <1>7 DEF ReadSm1, Step
  <2>2. Turn'
    BY <1>1, <1>2, <2>1 DEF Turn, Repeats
  <2> QED  BY <1>1, <2>1, <2>2 DEF Moved
<1>8. CASE ReadEvents
  <2>1. /\ pc = "event" /\ pc' = "al" /\ sm1Activate' = sm1Activate
        /\ ALEventReg' = [read |-> dev.readEvent, al |-> dev.al]
        /\ dev' = dev /\ mst' = mst
    BY <1>8 DEF ReadEvents, Step
  <2>2. Turn'
    BY <1>1, <1>2, <2>1 DEF Turn, Repeats
  <2> QED  BY <1>1, <2>1, <2>2 DEF Moved
<1>9. CASE INIT_2_PREOP
  <2>1. /\ pc = "al" /\ pc' = "read" /\ ALEventReg.al = "PREOP"
        /\ dev' = [dev EXCEPT !.al = "none", !.bMbxRunning = TRUE]
        /\ sm1Activate' = sm1Activate /\ mst' = mst
    BY <1>9 DEF INIT_2_PREOP, Step
  <2>2. /\ Stands(dev, dev') /\ dev'.rptAck = dev.rptAck
        /\ dev'.bMbxRepeatToggle = dev.bMbxRepeatToggle
        /\ dev'.rptReq = dev.rptReq /\ dev'.al = "none"
        /\ dev'.bMbxRunning
    <3>1. IsControlled(dev, dev', dev.rptReq, "none", TRUE)
      BY <1>1, <2>1, EscOrder
    <3> QED  BY <3>1 DEF IsControlled
  <2>3. /\ ~dev.bMbxRunning /\ ~dev.rptReq /\ ~dev.bMbxRepeatToggle
        /\ ~sm1Activate
    BY <1>1, <1>2, <2>1 DEF Turn, Repeats
  <2>4. Order(dev', mst)
    <3>1. Fresh(dev', mst) /\ SameMaster(mst, mst)
      BY <2>2 DEF Fresh, SameMaster
    <3>2. Pends(dev, mst) => Pends(dev', mst)
      BY <2>2 DEF Pends
    <3> QED  BY <1>1, <2>2, <3>1, <3>2, StandingKeeps
  <2>5. Turn'
    <3>1. /\ dev'.rptReq = dev'.bMbxRepeatToggle
          /\ sm1Activate' = dev'.bMbxRepeatToggle
      BY <1>2, <2>1, <2>2, <2>3
    <3>2. dev'.rptAck = dev'.bMbxRepeatToggle
      BY <1>1, <2>2 DEF Turn, Repeats
    <3> QED  BY <2>1, <2>2, <3>1, <3>2 DEF Turn, Repeats
  <2>6. dev'.made = dev.made
    BY <2>2 DEF Stands, SameCount
  <2> QED  BY <2>1, <2>4, <2>5, <2>6 DEF Moved
<1>10. CASE PREOP_2_INIT
  <2>1. /\ pc' = "main"
        /\ dev' = [MBX_StopMailboxHandler(dev) EXCEPT !.al = "none"]
        /\ mst' = [FreshMaster(mst) EXCEPT !.got = 0]
    BY <1>10 DEF PREOP_2_INIT, Step
  <2>2. /\ IsEmpty(dev') /\ ~dev'.bMbxRunning /\ dev'.al = "none"
        /\ ~dev'.bMbxRepeatToggle /\ ~dev'.rptAck
    BY <1>1, <2>1, StopOrder
  <2>3. IsUnused(mst')
    <3>1. mst.asked <= MAX_REQUESTS
      BY <1>1 DEF Order, Asking
    <3>2. /\ mst'.writing = NoMsg /\ mst'.cnt = 0 /\ mst'.phase = "poll"
          /\ mst'.last = 0 /\ mst'.open = <<>> /\ mst'.got = 0
          /\ mst'.asked = mst.asked
      BY <1>1, <2>1, ZenonT(60) DEF FreshMaster, Master
    <3> QED  BY <3>1, <3>2 DEF IsUnused
  <2>4. Turn'
    <3>1. dev'.rptAck = dev'.bMbxRepeatToggle
      <4>1. Owner(dev', {}, 0)
        BY <1>1, <2>1, StopOwner
      <4>2. dev'.rptAck \in BOOLEAN /\ dev'.bMbxRepeatToggle \in BOOLEAN
        BY <4>1 DEF Owner, Slave
      <4> QED  BY <2>2, <4>2
    <3> QED  BY <2>1, <2>2, <3>1 DEF Turn, Repeats
  <2>5. Moved(dev, mst, dev', mst')
    BY <2>2, <2>3 DEF Moved, IsEmpty, IsUnused
  <2> QED  BY <2>2, <2>3, <2>4, <2>5, EmptyOrder
<1>11. CASE NoTransition
  <2>1. /\ pc = "al" /\ pc' \in {"read", "main"} /\ ALEventReg' = ALEventReg
        /\ sm1Activate' = sm1Activate /\ dev' = dev /\ mst' = mst
    BY <1>11 DEF NoTransition, Step
  <2>2. Turn'
    BY <1>1, <2>1 DEF Turn, Repeats
  <2> QED  BY <1>1, <2>1, <2>2 DEF Moved
<1>12. CASE HandleReadEvent
  <2>1. /\ pc = "read" /\ pc' = "repeat" /\ mst' = mst
        /\ sm1Activate' = sm1Activate
    BY <1>12 DEF HandleReadEvent, Step
  <2>2. CASE ALEventReg.read
    <3>1. dev' = MBX_MailboxReadInd([dev EXCEPT !.readEvent = FALSE])
      BY <1>12, <2>2 DEF HandleReadEvent
    <3>2. dev.readEvent
      BY <1>1, <2>1, <2>2 DEF Cycle
    <3>3. IsRead(dev, dev')
      BY <1>1, <3>1, <3>2, ReadOrder
    <3>4. Order(dev', mst)
      BY <1>1, <3>2, <3>3, ReadKeeps
    <3>5. SameHand(dev, dev') /\ ~dev'.readEvent
      BY <3>3 DEF IsRead
    <3>6. Turn'
      BY <1>1, <2>1, <3>5 DEF Turn, Repeats, SameHand
    <3> QED  BY <2>1, <3>3, <3>4, <3>6 DEF Moved, IsRead, SameCount
  <2>3. CASE ~ALEventReg.read
    <3>1. dev' = dev
      BY <1>12, <2>3 DEF HandleReadEvent
    <3>2. Turn'
      BY <1>1, <2>1, <2>3, <3>1 DEF Turn, Repeats
    <3> QED  BY <1>1, <2>1, <3>1, <3>2 DEF Moved
  <2> QED  BY <2>2, <2>3
<1>13. CASE HandleRepeat
  <2>1. pc = "repeat" /\ pc' = "write" /\ mst' = mst
    BY <1>13 DEF HandleRepeat, Step
  <2>2. CASE sm1Activate # dev.bMbxRepeatToggle
    <3>1. dev' = MBX_MailboxRepeatReq(dev)
      BY <1>13, <2>2 DEF HandleRepeat
    <3>2. /\ dev.bMbxRunning /\ dev.rptReq = sm1Activate /\ ~dev.readEvent
          /\ mst.phase = "wait" /\ dev.al # "PREOP"
      BY <1>1, <2>1, <2>2 DEF Turn, Repeats
    <3>3. IsRepeated(dev, dev')
      BY <1>1, <3>1, <3>2, RepeatOrder
    <3>4. Order(dev', mst)
      BY <1>1, <2>2, <3>2, <3>3, RepeatKeeps
    <3>5. Turn'
      BY <2>1, <3>2, <3>3 DEF Turn, Repeats, IsRepeated
    <3> QED  BY <2>1, <3>3, <3>4, <3>5 DEF Moved, IsRepeated, SameCount
  <2>3. CASE sm1Activate = dev.bMbxRepeatToggle
    <3>1. dev' = dev
      BY <1>13, <2>3 DEF HandleRepeat
    <3>2. Turn'
      BY <1>1, <2>1, <3>1 DEF Turn, Repeats
    <3> QED  BY <1>1, <2>1, <3>1, <3>2 DEF Moved
  <2> QED  BY <2>2, <2>3
<1> QED
  BY <1>3, <1>5, <1>6, <1>7, <1>8, <1>9, <1>10, <1>11, <1>12, <1>13
  DEF ECAT_Main

(* The steps of the master and the ESC. *)
LEMMA MasterOrder ==
  ASSUME OInv,
         \/ Ask \/ WriteRequest(FALSE) \/ WriteRequest(TRUE)
         \/ ReadResponse \/ LoseRead \/ ToggleRepeat \/ SeeRepeatAck
         \/ RequestPreop \/ RequestInit
  PROVE  Turn' /\ Order(dev', mst') /\ Moved(dev, mst, dev', mst')
<1>1. /\ Cycle /\ Owner(dev, {}, 0) /\ dev \in Slave
      /\ mst \in Master /\ Turn /\ Order(dev, mst)
  BY DEF OInv, IInv, Owner, Turn
<1>2. /\ dev.bMbxRunning \in BOOLEAN /\ dev.rptReq \in BOOLEAN
      /\ dev.bMbxRepeatToggle \in BOOLEAN /\ sm1Activate \in BOOLEAN
      /\ mst.losses \in Nat /\ mst.stops \in Nat
      /\ dev.sm1 \in {NoMsg} \cup Responses
  BY <1>1 DEF Slave, Cycle, Master
<1>3. CASE Ask
  <2>1. /\ dev' = dev /\ pc' = pc /\ sm1Activate' = sm1Activate
        /\ ALEventReg' = ALEventReg /\ dev.bMbxRunning
        /\ mst.writing = NoMsg /\ mst.asked < MAX_REQUESTS
    BY <1>3 DEF Ask, slave, InSession
  <2>2. PICK kind \in Kinds :
          LET req == [kind |-> kind, n |-> mst.asked + 1]
          IN mst' = [mst EXCEPT !.asked = @ + 1,
                                !.open = Append(@, req),
                                !.cnt = NextCounter(@),
                                !.writing = Request(req, NextCounter(mst.cnt))]
    BY <1>3 DEF Ask
  <2> DEFINE req == [kind |-> kind, n |-> mst.asked + 1]
             cnt == NextCounter(mst.cnt)
             open == Append(mst.open, req)
             msg == Request(req, cnt)
  <2>3. req \in Req /\ req.n = mst.asked + 1
    BY <1>1 DEF Req, Master
  <2>4. mst' = [mst EXCEPT !.asked = mst.asked + 1, !.open = open,
                           !.cnt = cnt, !.writing = msg]
    BY <2>2
  <2> HIDE DEF req, cnt, open, msg
  <2>5. /\ mst'.asked = mst.asked + 1 /\ mst'.open = open
        /\ mst'.cnt = cnt /\ mst'.writing = msg
        /\ mst'.phase = mst.phase /\ mst'.last = mst.last
        /\ mst'.got = mst.got
    BY <1>1, <2>4 DEF Master
  <2>6. Order(dev, mst')
    BY <1>1, <2>1, <2>3, <2>5, AskKeeps DEF cnt, open, msg
  <2>7. Turn'
    BY <1>1, <2>1, <2>5 DEF Turn, Repeats
  <2>8. Moved(dev, mst, dev', mst')
    BY <2>1, <2>3, <2>5 DEF Moved, open
  <2> QED  BY <2>1, <2>6, <2>7, <2>8
<1>4. ASSUME NEW lost \in BOOLEAN, WriteRequest(lost)
      PROVE  Turn' /\ Order(dev', mst') /\ Moved(dev, mst, dev', mst')
  <2>1. /\ pc' = pc /\ sm1Activate' = sm1Activate
        /\ ALEventReg' = ALEventReg /\ dev.bMbxRunning
        /\ mst.writing # NoMsg /\ dev.sm0 = NoMsg
        /\ dev' = [dev EXCEPT !.sm0 = mst.writing, !.writeEvent = TRUE]
    BY <1>4 DEF WriteRequest, slave, InSession
  <2>2. /\ mst'.open = mst.open /\ mst'.got = mst.got
        /\ mst'.last = mst.last /\ mst'.cnt = mst.cnt
        /\ mst'.phase = mst.phase /\ mst'.asked = mst.asked
        /\ mst'.writing \in {mst.writing, NoMsg}
    <3>1. CASE lost
      <4>1. mst' = [mst EXCEPT !.losses = mst.losses + 1]
        BY <1>4, <3>1 DEF WriteRequest
      <4> QED  BY <1>1, <4>1, ZenonT(60) DEF Master
    <3>2. CASE ~lost
      <4>1. mst' = [mst EXCEPT !.writing = NoMsg]
        BY <1>4, <3>2 DEF WriteRequest
      <4> QED  BY <1>1, <4>1, ZenonT(60) DEF Master
    <3> QED  BY <3>1, <3>2
  <2>3. /\ SameHand(dev, dev') /\ SameSend(dev, dev')
        /\ SameCount(dev, dev')
        /\ dev'.mem = dev.mem /\ dev'.sm0 = mst.writing
        /\ dev'.u8MbxWriteCounter = dev.u8MbxWriteCounter
        /\ dev'.sMbxReceiveQueue = dev.sMbxReceiveQueue
    BY <1>1, <2>1, EscOrder
  <2>4. Order(dev', mst')
    BY <1>1, <2>1, <2>2, <2>3, WriteKeeps
  <2>5. Turn'
    BY <1>1, <2>1, <2>2, <2>3 DEF Turn, Repeats, SameHand, SameSend
  <2> QED  BY <2>2, <2>3, <2>4, <2>5 DEF Moved, SameCount
<1>5. ASSUME Polls
      PROVE  /\ dev.bMbxRunning /\ mst.phase = "poll" /\ mst.open # <<>>
             /\ dev.rptReq = dev.bMbxRepeatToggle /\ ~Pends(dev, mst)
  BY <1>1, <1>5 DEF Polls, InSession, Turn, Repeats, Pends
<1>6. CASE ReadResponse
  <2>1. /\ pc' = pc /\ sm1Activate' = sm1Activate
        /\ ALEventReg' = ALEventReg /\ dev.sm1 # NoMsg
        /\ dev' = [dev EXCEPT !.sm1 = NoMsg, !.readEvent = TRUE]
        /\ mst' = Accepted(dev.sm1) /\ Polls
    BY <1>6 DEF ReadResponse, slave
  <2>2. IsFetched(dev, dev')
    BY <1>1, <2>1, EscOrder
  <2>3. /\ dev.sm1.no \in Nat /\ dev.sm1.left = 0
        /\ dev.sm1.cnt = Count(dev.sm1.no)
        /\ mst.got = dev.sm1.no \/ mst.got = dev.sm1.no - 1
    BY <1>1, <1>5, <2>1, <2>2, FetchedChain
  <2>4. mst.last = Count(mst.got) /\ mst.got \in Nat
    BY <1>1 DEF Order, Reads, Master
  <2>5. CASE mst.got = dev.sm1.no
    <3>1. mst' = mst
      BY <2>1, <2>3, <2>4, <2>5 DEF Accepted
    <3>2. Order(dev', mst)
      <4>1. SameMaster(mst, mst)
        BY DEF SameMaster
      <4> QED  BY <1>1, <1>5, <2>1, <2>2, <2>5, <4>1, MissKeeps
    <3>3. Turn'
      BY <1>1, <1>5, <2>1, <2>2, <3>1
         DEF Turn, Repeats, IsFetched, SameHand
    <3> QED  BY <2>2, <3>1, <3>2, <3>3 DEF Moved, IsFetched, SameCount
  <2>6. CASE mst.got = dev.sm1.no - 1
    <3>1. dev.sm1.cnt # mst.last
      <4>1. dev.sm1.no = mst.got + 1
        BY <2>3, <2>4, <2>6
      <4> QED  BY <2>3, <2>4, <4>1, CountNext
    <3>2. /\ mst'.writing = mst.writing /\ mst'.cnt = mst.cnt
          /\ mst'.phase = mst.phase /\ mst'.asked = mst.asked
          /\ mst'.open = Tail(mst.open)
          /\ mst'.got = dev.sm1.no /\ mst'.last = dev.sm1.cnt
      BY <1>1, <1>5, <2>1, <2>3, <3>1 DEF Accepted, Master
    <3>3. /\ Order(dev', mst')
          /\ dev.sm1.req = Head(mst.open) /\ dev.sm1.no = mst.got + 1
      BY <1>1, <1>5, <2>1, <2>2, <2>6, <3>2, AcceptKeeps
    <3>4. Turn'
      BY <1>1, <1>5, <2>1, <2>2, <3>2
         DEF Turn, Repeats, IsFetched, SameHand
    <3>5. Moved(dev, mst, dev', mst')
      BY <1>5, <2>1, <2>2, <3>2, <3>3 DEF Moved, IsFetched, SameCount
    <3> QED  BY <3>3, <3>4, <3>5
  <2> QED  BY <2>3, <2>5, <2>6
<1>7. CASE LoseRead
  <2>1. /\ pc' = pc /\ sm1Activate' = sm1Activate
        /\ ALEventReg' = ALEventReg /\ Polls
        /\ mst' = [mst EXCEPT !.phase = "toggle", !.losses = mst.losses + 1]
        /\ \/ dev' = dev
           \/ /\ dev.sm1 # NoMsg
              /\ dev' = [dev EXCEPT !.sm1 = NoMsg, !.readEvent = TRUE]
    BY <1>7 DEF LoseRead, slave
  <2>2. SameMaster(mst, mst') /\ mst'.phase = "toggle"
    BY <1>1, <2>1, ZenonT(60) DEF SameMaster, Master
  <2>3. Pends(dev', mst')
    BY <2>2 DEF Pends
  <2>4. CASE dev' = dev
    <3>1. Stands(dev, dev') /\ Fresh(dev', mst')
      BY <1>5, <2>1, <2>4
         DEF Stands, SameSend, SameTake, SameCount, Fresh
    <3>2. Order(dev', mst')
      BY <1>1, <2>2, <2>3, <3>1, StandingKeeps
    <3>3. Turn'
      BY <1>1, <1>5, <2>1, <2>2, <2>4 DEF Turn, Repeats
    <3> QED  BY <2>2, <2>4, <3>2, <3>3 DEF Moved, SameMaster
  <2>5. CASE /\ dev.sm1 # NoMsg
             /\ dev' = [dev EXCEPT !.sm1 = NoMsg, !.readEvent = TRUE]
    <3>1. IsFetched(dev, dev')
      BY <1>1, <2>5, EscOrder
    <3>2. Order(dev', mst')
      BY <1>1, <1>5, <2>1, <2>2, <2>3, <2>5, <3>1, MissKeeps
    <3>3. Turn'
      BY <1>1, <1>5, <2>1, <2>2, <3>1
         DEF Turn, Repeats, IsFetched, SameHand
    <3> QED
      BY <2>2, <3>1, <3>2, <3>3 DEF Moved, SameMaster, IsFetched, SameCount
  <2> QED  BY <2>1, <2>4, <2>5
<1>8. CASE ToggleRepeat
  <2>1. /\ pc' = pc /\ sm1Activate' = sm1Activate
        /\ ALEventReg' = ALEventReg /\ dev.bMbxRunning
        /\ mst.phase = "toggle" /\ dev' = [dev EXCEPT !.rptReq = ~@]
        /\ mst' = [mst EXCEPT !.phase = "wait"]
    BY <1>8 DEF ToggleRepeat, slave, InSession
  <2>2. SameMaster(mst, mst') /\ mst'.phase = "wait"
    BY <1>1, <2>1, ZenonT(60) DEF SameMaster, Master
  <2>3. IsControlled(dev, dev', ~dev.rptReq, dev.al, dev.bMbxRunning)
    BY <1>1, <2>1, EscOrder
  <2>4. dev.rptReq = dev.bMbxRepeatToggle
    BY <1>1, <2>1 DEF Turn, Repeats
  <2>5. Order(dev', mst')
    <3>1. Stands(dev, dev') /\ Fresh(dev', mst')
      BY <2>1, <2>3 DEF IsControlled, Fresh
    <3>2. Pends(dev', mst')
      BY <1>2, <2>3, <2>4 DEF Pends, IsControlled
    <3> QED  BY <1>1, <2>2, <3>1, <3>2, StandingKeeps
  <2>6. Turn'
    <3>1. dev'.readEvent = dev.readEvent
      BY <2>3 DEF IsControlled, Stands, SameSend
    <3>2. pc \in {"event", "al", "read", "repeat"}
            => sm1Activate = dev.bMbxRepeatToggle
      BY <1>1, <2>4 DEF Turn, Repeats
    <3> QED
      BY <1>1, <2>1, <2>2, <2>3, <3>1, <3>2 DEF Turn, Repeats, IsControlled
  <2> QED
    BY <2>2, <2>3, <2>5, <2>6
    DEF Moved, SameMaster, IsControlled, Stands, SameCount
<1>9. CASE SeeRepeatAck
  <2>1. /\ pc' = pc /\ sm1Activate' = sm1Activate
        /\ ALEventReg' = ALEventReg /\ dev' = dev /\ dev.bMbxRunning
        /\ mst.phase = "wait" /\ dev.rptAck = dev.rptReq
        /\ mst' = [mst EXCEPT !.phase = "poll"]
    BY <1>9 DEF SeeRepeatAck, slave, InSession
  <2>2. SameMaster(mst, mst') /\ mst'.phase = "poll"
    BY <1>1, <2>1, ZenonT(60) DEF SameMaster, Master
  <2>3. dev.rptReq = dev.bMbxRepeatToggle
    BY <1>1, <2>1 DEF Turn, Repeats
  <2>4. Order(dev', mst')
    <3>1. Stands(dev, dev') /\ Fresh(dev', mst')
      BY <2>1 DEF Stands, SameSend, SameTake, SameCount, Fresh
    <3>2. ~Pends(dev, mst)
      BY <2>1, <2>3 DEF Pends
    <3> QED  BY <1>1, <2>2, <3>1, <3>2, StandingKeeps
  <2>5. Turn'
    BY <1>1, <2>1, <2>2, <2>3 DEF Turn, Repeats
  <2> QED  BY <2>1, <2>2, <2>4, <2>5 DEF Moved, SameMaster
<1>10. CASE RequestPreop
  <2>1. /\ pc' = pc /\ sm1Activate' = sm1Activate
        /\ ALEventReg' = ALEventReg /\ ~dev.bMbxRunning /\ dev.al = "none"
        /\ dev' = [dev EXCEPT !.al = "PREOP", !.rptReq = FALSE]
        /\ mst' = mst
    BY <1>10 DEF RequestPreop, slave
  <2>2. IsControlled(dev, dev', FALSE, "PREOP", dev.bMbxRunning)
    BY <1>1, <2>1, EscOrder
  <2>3. Order(dev', mst)
    <3>1. Stands(dev, dev') /\ SameMaster(mst, mst)
      BY <2>2 DEF IsControlled, SameMaster
    <3>2. Fresh(dev, mst) /\ dev.psReadMbx = NoBuf
      BY <1>1, <2>1 DEF Order, Fresh
    <3>3. Fresh(dev', mst)
      BY <2>1, <3>1, <3>2
         DEF Fresh, Stands, SameSend, SameTake, SameCount
    <3> QED  BY <1>1, <3>1, <3>2, <3>3, StandingKeeps
  <2>4. Turn'
    BY <1>1, <2>1, <2>2 DEF Turn, Repeats, IsControlled
  <2> QED
    BY <2>1, <2>2, <2>3, <2>4 DEF Moved, IsControlled, Stands, SameCount
<1>11. CASE RequestInit
  <2>1. /\ pc' = pc /\ sm1Activate' = sm1Activate
        /\ ALEventReg' = ALEventReg /\ dev.bMbxRunning /\ dev.al = "none"
        /\ dev' = [dev EXCEPT !.al = "INIT"]
        /\ mst' = [mst EXCEPT !.stops = mst.stops + 1]
    BY <1>11 DEF RequestInit, slave, InSession
  <2>2. SameMaster(mst, mst') /\ mst'.phase = mst.phase
    BY <1>1, <2>1, ZenonT(60) DEF SameMaster, Master
  <2>3. IsControlled(dev, dev', dev.rptReq, "INIT", dev.bMbxRunning)
    BY <1>1, <2>1, EscOrder
  <2>4. Order(dev', mst')
    <3>1. Stands(dev, dev') /\ Fresh(dev', mst')
      BY <2>1, <2>3 DEF IsControlled, Fresh
    <3>2. Pends(dev, mst) => Pends(dev', mst')
      BY <2>2, <2>3 DEF Pends, IsControlled
    <3> QED  BY <1>1, <2>2, <3>1, <3>2, StandingKeeps
  <2>5. Turn'
    <3>1. dev'.readEvent = dev.readEvent
      BY <2>3 DEF IsControlled, Stands, SameSend
    <3> QED  BY <1>1, <2>1, <2>2, <2>3, <3>1 DEF Turn, Repeats, IsControlled
  <2> QED
    BY <2>2, <2>3, <2>4, <2>5
    DEF Moved, SameMaster, IsControlled, Stands, SameCount
<1> QED  BY <1>3, <1>4, <1>6, <1>7, <1>8, <1>9, <1>10, <1>11

LEMMA OrderStep ==
  ASSUME Undivided
  PROVE  OInv /\ [Next]_vars => OInv' /\ Moved(dev, mst, dev', mst')
<1> SUFFICES ASSUME OInv, [Next]_vars
             PROVE  OInv' /\ Moved(dev, mst, dev', mst')
  OBVIOUS
<1>1. IInv
  BY DEF OInv
<1>2. CASE ECAT_Main
  BY <1>1, <1>2, MainStep, MainOrder DEF OInv, Turn
<1>3. CASE \/ Ask \/ WriteRequest(FALSE) \/ WriteRequest(TRUE)
           \/ ReadResponse \/ LoseRead \/ ToggleRepeat \/ SeeRepeatAck
           \/ RequestPreop \/ RequestInit
  BY <1>1, <1>3, MasterStep, MasterOrder DEF OInv, Turn
<1>4. CASE UNCHANGED vars
  <2>1. UNCHANGED slave /\ UNCHANGED dev /\ mst' \in Master
    BY <1>1, <1>4 DEF vars, slave, IInv
  <2>2. IInv'
    BY <1>1, <2>1, Surroundings
  <2>3. /\ dev' = dev /\ mst' = mst /\ pc' = pc
        /\ sm1Activate' = sm1Activate /\ ALEventReg' = ALEventReg
    BY <1>4 DEF vars
  <2> QED  BY <2>2, <2>3 DEF OInv, Moved
<1> QED  BY <1>2, <1>3, <1>4 DEF Next

LEMMA OrderInvariance ==
  ASSUME Undivided
  PROVE  Spec => []OInv
<1>1. Init => OInv
  BY Initial, OrderInitial DEF OInv, Turn
<1>2. OInv /\ [Next]_vars => OInv'
  BY OrderStep
<1> QED  BY <1>1, <1>2, PTL DEF Spec

-----------------------------------------------------------------------------
(* The responses not yet accepted answer the oldest open requests, one     *)
(* after the other. *)
Outstanding(made, got, open) ==
  {[no |-> j, is |-> <<open[j - got], 0>>] : j \in (got + 1)..made}

LEMMA UnreadIs == OInv => Unread = Outstanding(dev.made, mst.got, mst.open)
<1> SUFFICES ASSUME OInv
             PROVE  Unread = Outstanding(dev.made, mst.got, mst.open)
  OBVIOUS
<1> DEFINE S == Sending(dev) \ {NoBuf}
           entry(b) == [no |-> dev.mem[b].no,
                        is |-> <<dev.mem[b].req, dev.mem[b].left>>]
           late == {b \in Buffers : dev.mem[b].type = "response"
                                      /\ dev.mem[b].no > mst.got}
           item(j) == [no |-> j, is |-> <<mst.open[j - mst.got], 0>>]
<1>1. Owner(dev, {}, 0) /\ mst \in Master /\ Order(dev, mst)
  BY DEF OInv, IInv
<1>2. /\ mst.got \in Nat /\ dev.made \in Nat
      /\ \A b \in S : dev.mem[b].no <= dev.made
      /\ \A j \in (mst.got + 1)..dev.made : \E b \in S : dev.mem[b].no = j
  BY <1>1, Behind, QueueLength DEF Order
<1>3. \A b \in S : /\ b \in Buffers /\ dev.mem[b].type = "response"
                   /\ dev.mem[b].no \in Nat /\ dev.mem[b].left = 0
                   /\ dev.mem[b].no > mst.got
                        => dev.mem[b].req = mst.open[dev.mem[b].no - mst.got]
  BY <1>1, SendingHolds, ResponseNumbers DEF Order, Chain, Answering
<1>4. \A b \in Buffers : dev.mem[b].type = "response" => b \in S
  <2> SUFFICES ASSUME NEW b \in Buffers, dev.mem[b].type = "response",
                      b \notin S
               PROVE  FALSE
    OBVIOUS
  <2>1. b # NoBuf
    BY MailboxAssumptions DEF NoBuf
  <2>2. b \notin Rng(dev.sMbxSendQueue) \cup Pointers(dev)
    BY <2>1 DEF Sending
  <2>3. dev.mem[b] \in Requests \/ dev.mem[b] = NoMsg
    BY <1>1, <2>2 DEF Owner, Memory
  <2> QED  BY <2>3 DEF Requests, NoMsg
<1>5. Unread = {entry(b) : b \in late}
  BY DEF Unread
<1> HIDE DEF S
<1>6. ASSUME NEW b \in late
      PROVE  entry(b) \in Outstanding(dev.made, mst.got, mst.open)
  <2>1. b \in S
    BY <1>4
  <2>2. entry(b) = item(dev.mem[b].no)
    BY <1>3, <2>1
  <2>3. dev.mem[b].no \in (mst.got + 1)..dev.made
    BY <1>2, <1>3, <2>1
  <2> QED  BY <2>2, <2>3 DEF Outstanding
<1>7. ASSUME NEW j \in (mst.got + 1)..dev.made
      PROVE  item(j) \in Unread
  <2>1. PICK b \in S : dev.mem[b].no = j
    BY <1>2
  <2>2. j > mst.got
    BY <1>2
  <2>3. b \in late
    BY <1>3, <2>1, <2>2
  <2>4. item(j) = entry(b)
    BY <1>3, <2>1, <2>2
  <2> QED  BY <1>5, <2>3, <2>4
<1> QED  BY <1>5, <1>6, <1>7 DEF Outstanding

LEMMA OutstandingAsked ==
  ASSUME NEW made \in Nat, NEW got \in Nat, NEW open \in Seq(Req),
         made <= got + Len(open), NEW req \in Req
  PROVE  Outstanding(made, got, Append(open, req))
           = Outstanding(made, got, open)
<1> DEFINE l == Len(open)
<1>1. l \in Nat /\ made <= got + l
  BY LenProperties
<1>2. \A i \in 1..l : Append(open, req)[i] = open[i]
  BY AppendProperties
<1> HIDE DEF l
<1>3. \A j \in (got + 1)..made : j - got \in 1..l
  BY <1>1
<1> QED  BY <1>2, <1>3 DEF Outstanding

LEMMA OutstandingMade ==
  ASSUME NEW made \in Nat, NEW got \in Nat, got <= made, NEW open
  PROVE  Outstanding(made + 1, got, open)
           = Outstanding(made, got, open)
               \cup {[no |-> made + 1, is |-> <<open[made + 1 - got], 0>>]}
<1>1. (got + 1)..(made + 1) = ((got + 1)..made) \cup {made + 1}
  OBVIOUS
<1> QED  BY <1>1 DEF Outstanding

LEMMA OutstandingAccepted ==
  ASSUME NEW made \in Nat, NEW got \in Nat, got + 1 <= made,
         NEW open \in Seq(Req), open # <<>>, made <= got + Len(open),
         NEW r, r = [no |-> got + 1, is |-> <<Head(open), 0>>]
  PROVE  /\ r \in Outstanding(made, got, open)
         /\ Outstanding(made, got + 1, Tail(open))
              = Outstanding(made, got, open) \ {r}
<1> DEFINE l == Len(open)
           item(j) == [no |-> j, is |-> <<open[j - got], 0>>]
           rest(j) == [no |-> j, is |-> <<Tail(open)[j - (got + 1)], 0>>]
<1>1. /\ l \in Nat /\ made <= got + l /\ Head(open) = open[1]
      /\ \A i \in 1..(l - 1) : Tail(open)[i] = open[i + 1]
  BY LenProperties, HeadTailProperties
<1> HIDE DEF l
<1>2. got + 1 \in (got + 1)..made /\ (got + 1) - got = 1
  OBVIOUS
<1>3. r = item(got + 1)
  BY <1>1, <1>2
<1>4. r \in Outstanding(made, got, open)
  BY <1>2, <1>3 DEF Outstanding
<1>5. \A j \in (got + 2)..made : rest(j) = item(j)
  <2> SUFFICES ASSUME NEW j \in (got + 2)..made
               PROVE  Tail(open)[j - (got + 1)] = open[j - got]
    OBVIOUS
  <2>1. j - (got + 1) \in 1..(l - 1) /\ (j - (got + 1)) + 1 = j - got
    BY <1>1
  <2> QED  BY <1>1, <2>1
<1>6. (got + 1) + 1 = got + 2
      /\ (got + 1)..made = ((got + 2)..made) \cup {got + 1}
  OBVIOUS
<1>7. \A j \in (got + 2)..made : item(j) # r
  OBVIOUS
<1>8. Outstanding(made, got + 1, Tail(open)) = {item(j) : j \in (got + 2)..made}
  BY <1>5, <1>6 DEF Outstanding
<1>9. Outstanding(made, got, open)
        = {item(j) : j \in (got + 2)..made} \cup {r}
  BY <1>3, <1>6 DEF Outstanding
<1> QED  BY <1>4, <1>7, <1>8, <1>9

(* Every step of the mailbox is one of the channel, or none. *)
LEMMA ChannelStep ==
  ASSUME OInv, OInv', Moved(dev, mst, dev', mst')
  PROVE  [Channel!Next]_Channel!vars
<1> DEFINE got == mst.got
           made == dev.made
           open == mst.open
<1>1. /\ Owner(dev, {}, 0) /\ mst \in Master /\ Order(dev, mst)
      /\ Owner(dev', {}, 0) /\ mst' \in Master /\ Order(dev', mst')
  BY DEF OInv, IInv
<1>2. /\ Unread = Outstanding(made, got, open)
      /\ Unread' = Outstanding(dev'.made, mst'.got, mst'.open)
  <2>1. (OInv => Unread = Outstanding(dev.made, mst.got, mst.open))'
    BY UnreadIs, PTL
  <2> QED  BY <2>1, UnreadIs
<1>3. /\ got \in Nat /\ made \in Nat /\ Len(open) \in Nat
      /\ got <= made /\ made <= Received(dev)
      /\ Received(dev) <= Issued(mst) /\ Received(dev) \in Nat
      /\ Issued(mst) \in Nat /\ Issued(mst) = got + Len(open)
  <2>1. Received(dev) <= Arrived(dev) /\ Arrived(dev) <= Issued(mst)
        /\ Arrived(dev) \in Nat
    BY <1>1, Indices
  <2> QED  BY <1>1, <2>1, Indices
<1>4. open \in Seq(Req) /\ made <= got + Len(open)
  BY <1>1, <1>3 DEF Master
<1>5. CASE /\ dev'.made = made /\ mst'.got = got
           /\ mst'.open = open \/ \E req \in Req : mst'.open = Append(open, req)
  <2>1. Outstanding(made, got, mst'.open) = Outstanding(made, got, open)
    <3>1. CASE mst'.open = open
      BY <3>1
    <3>2. CASE \E req \in Req : mst'.open = Append(open, req)
      <4>1. PICK req \in Req : mst'.open = Append(open, req)
        BY <3>2
      <4> HIDE DEF open, got, made
      <4> QED  BY <1>3, <1>4, <4>1, OutstandingAsked
    <3> QED  BY <1>5, <3>1, <3>2
  <2>2. Unread' = Unread
    BY <1>2, <1>5, <2>1
  <2> QED  BY <1>5, <2>2 DEF Channel!vars
<1>6. CASE /\ dev.sMbxReceiveQueue # <<>> /\ dev'.made = made + 1
           /\ mst'.got = got /\ mst'.open = open
  <2> DEFINE c == <<open[made + 1 - got], 0>>
  <2>1. made + 1 - got \in 1..Len(open)
    <3>1. made + 1 <= Received(dev)
      <4>1. 1 \in DOMAIN dev.sMbxReceiveQueue
        BY <1>1, <1>6, LenProperties, EmptySeq DEF Owner, Slave
      <4> QED  BY <1>1, <4>1, Indices
    <3> DEFINE l == Len(open)
    <3>2. /\ l \in Nat /\ got \in Nat /\ made \in Nat /\ got <= made
          /\ made + 1 <= got + l
      BY <1>3, <3>1
    <3> HIDE DEF l, got, made
    <3>3. made + 1 - got \in 1..l
      BY <3>2
    <3> QED  BY <3>3 DEF l
  <2>2. c \in [kind : Kinds, n : 1..MAX_REQUESTS] \X (0..FRAGMENTS)
    <3> DEFINE i == made + 1 - got
    <3>1. i \in DOMAIN open /\ open[i] \in Req
      BY <1>4, <2>1, LenProperties
    <3> HIDE DEF i
    <3>2. open[i].n \in 1..MAX_REQUESTS
      BY <1>1, <3>1 DEF Order, Asking
    <3>3. open[i] \in [kind : Kinds, n : 1..MAX_REQUESTS]
      BY <3>1, <3>2 DEF Req
    <3>4. 0 \in 0..FRAGMENTS
      BY MailboxAssumptions
    <3> QED  BY <3>3, <3>4 DEF i
  <2> HIDE DEF c
  <2>3. Unread' = Unread \cup {[no |-> made + 1, is |-> c]}
    BY <1>2, <1>3, <1>6, OutstandingMade DEF c
  <2>4. Channel!Make
    BY <1>6, <2>2, <2>3 DEF Channel!Make
  <2> QED  BY <2>4 DEF Channel!Next
<1>7. CASE /\ open # <<>> /\ dev.sm1.req = Head(open)
           /\ mst'.got = got + 1 /\ mst'.open = Tail(open)
           /\ dev'.made = made
  <2> DEFINE r == [no |-> got + 1, is |-> <<Head(open), 0>>]
  <2>1. got + 1 <= made
    <3>1. mst'.got <= dev'.made
      BY <1>1, Behind DEF Order
    <3> QED  BY <1>7, <3>1
  <2>2. r.no = got + 1
    OBVIOUS
  <2>3. /\ r \in Outstanding(made, got, open)
        /\ Outstanding(made, got + 1, Tail(open))
             = Outstanding(made, got, open) \ {r}
    <3> HIDE DEF open, got, made
    <3> QED  BY <1>3, <1>4, <1>7, <2>1, OutstandingAccepted
  <2>4. r \in Unread /\ Unread' = Unread \ {r}
    BY <1>2, <1>7, <2>3
  <2> HIDE DEF r
  <2>5. Channel!Deliver
    BY <1>7, <2>2, <2>4 DEF Channel!Deliver
  <2> QED  BY <2>5 DEF Channel!Next
<1>8. CASE dev'.made = 0 /\ mst'.got = 0
  <2>1. Unread' = {}
    BY <1>2, <1>8 DEF Outstanding
  <2>2. Channel!Stop
    BY <1>8, <2>1 DEF Channel!Stop
  <2> QED  BY <2>2 DEF Channel!Next
<1> QED  BY <1>5, <1>6, <1>7, <1>8 DEF Moved

(* What the master accepts answers its oldest open request, although reads *)
(* and writes are lost and repeated (mailbox.c:497-529, 644-722). *)
THEOREM AnswersInOrder ==
  ASSUME Undivided
  PROVE  Spec => AnswersMatch
<1>1. OInv /\ [Next]_vars
        => [mst'.got > mst.got =>
              /\ mst.open # <<>>
              /\ dev.sm1.req = Head(mst.open)]_vars
  <2> SUFFICES ASSUME OInv, [Next]_vars, mst'.got > mst.got
               PROVE  mst.open # <<>> /\ dev.sm1.req = Head(mst.open)
    OBVIOUS
  <2>1. Moved(dev, mst, dev', mst')
    BY OrderStep
  <2>2. mst.got \in Nat
    BY DEF OInv, IInv, Master
  <2> QED  BY <2>1, <2>2 DEF Moved
<1> QED  BY <1>1, OrderInvariance, PTL DEF Spec, AnswersMatch

(* Mailbox implements ResponseChannel: through losses and repeats every    *)
(* response of a session reaches the master, in order, once and unchanged, *)
(* until the mailbox is stopped (mailbox.c:537-722). *)
THEOREM Refinement ==
  ASSUME Undivided
  PROVE  Spec => DeliversInOrder
<1>1. Init => Channel!Start
  <2> SUFFICES ASSUME Init  PROVE  Channel!Start
    OBVIOUS
  <2>1. OInv
    BY Initial, OrderInitial DEF OInv, Turn
  <2>2. dev.made = 0 /\ mst.got = 0
    BY DEF Init
  <2>3. Unread = {}
    BY <2>1, <2>2, UnreadIs DEF Outstanding
  <2> QED  BY <2>2, <2>3 DEF Channel!Start
<1>2. OInv /\ [Next]_vars => [Channel!Next]_Channel!vars
  BY OrderStep, ChannelStep
<1> QED
  BY <1>1, <1>2, OrderInvariance, PTL DEF Spec, DeliversInOrder, Channel!Spec

=============================================================================
