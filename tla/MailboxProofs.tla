--------------------------- MODULE MailboxProofs ---------------------------
(***************************************************************************)
(* Ownership of the mailbox's buffers, for any number of buffers, any      *)
(* master of Mailbox and any number of losses, repeats and stops.          *)
(*                                                                         *)
(* The proofs work on the slave's record: for each function of mailbox.c   *)
(* one lemma says which fields it changes (...Fields), and one that it     *)
(* hands the buffers on correctly (...Owner).                              *)
(***************************************************************************)
EXTENDS Mailbox, SequenceTheorems, TLAPS

(* No response is divided: every object list fits one mailbox, as those of *)
(* this firmware do, or none is asked for.  Two requests fit the ring.     *)
Undivided ==
  /\ FRAGMENTS = 0 \/ "list" \notin Kinds
  /\ QUEUE_SIZE >= 3

Held == Buffers \cup {NoBuf}
Req == [kind : Kinds, n : Nat]
Requests == [type : {"request"}, req : Req, cnt : 0..COUNTERS]
Responses ==
  [type : {"response"}, req : Req, left : Nat, cnt : Nat, no : Nat]
Message == {NoMsg} \cup Requests \cup Responses

(* The slave of a firmware that stores no CoE response: nothing is refused *)
(* and there is no second fragment. *)
Slave ==
  [sm0 : {NoMsg} \cup Requests, sm1 : {NoMsg} \cup Responses,
   writeEvent : BOOLEAN, readEvent : BOOLEAN,
   rptReq : BOOLEAN, rptAck : BOOLEAN, al : {"none", "INIT", "PREOP"},
   bMbxRunning : BOOLEAN, bSendMbxIsFull : BOOLEAN,
   bReceiveMbxIsLocked : BOOLEAN, u8MailboxSendReqStored : {FALSE},
   bMbxRepeatToggle : BOOLEAN, u8MbxWriteCounter : 0..COUNTERS,
   u8MbxReadCounter : 0..COUNTERS + 1,
   psRepeatMbx : Held, psReadMbx : Held, psStoreMbx : Held,
   sMbxReceiveQueue : Seq(Buffers), sMbxSendQueue : Seq(Buffers),
   pCoeSendStored : {NoBuf}, nSdoInfoFragmentsLeft : {0},
   aSdoInfoHeader : Req \cup {NoRequest}, mem : [Buffers -> Message],
   made : Nat]

Master ==
  [writing : {NoMsg} \cup Requests, cnt : 0..COUNTERS,
   phase : {"poll", "toggle", "wait"}, last : Nat, open : Seq(Req),
   got : Nat, asked : Nat, losses : Nat, stops : Nat]

Pointers(d) == {d.psRepeatMbx, d.psReadMbx, d.psStoreMbx}
Rng(q) == {q[i] : i \in DOMAIN q}

(* No buffer has two holders; w are the buffers a function works with. *)
Disjoint(d, w) ==
  /\ \A i, j \in DOMAIN d.sMbxReceiveQueue :
       d.sMbxReceiveQueue[i] = d.sMbxReceiveQueue[j] => i = j
  /\ Rng(d.sMbxReceiveQueue) \cap Rng(d.sMbxSendQueue) = {}
  /\ Rng(d.sMbxReceiveQueue) \cap Pointers(d) = {}
  /\ Rng(d.sMbxSendQueue) \cap Pointers(d) = {}
  /\ w \cap (Rng(d.sMbxReceiveQueue) \cup Rng(d.sMbxSendQueue)
               \cup Pointers(d)) = {}

(* What a buffer holds is what its holder needs; a free one has none. *)
Memory(d, w) ==
  \A b \in Buffers \ w :
    d.mem[b] \in IF b \in Rng(d.sMbxReceiveQueue) THEN Requests
                 ELSE IF b \in Rng(d.sMbxSendQueue) \cup Pointers(d)
                 THEN Responses ELSE {NoMsg}

(* How the pointers stand while a message waits for the master, while the  *)
(* last one is kept for a repeat, and while a repeat has displaced one. *)
Pointing(d) ==
  /\ d.psStoreMbx # NoBuf => /\ d.psStoreMbx # d.psReadMbx
                             /\ d.psRepeatMbx = NoBuf
                             /\ d.bSendMbxIsFull
  /\ IF d.bSendMbxIsFull
     THEN d.bMbxRunning /\ d.psReadMbx # NoBuf /\ d.psReadMbx # d.psRepeatMbx
     ELSE /\ d.psReadMbx = d.psRepeatMbx
          /\ d.sMbxSendQueue = <<>> /\ d.sm1 = NoMsg /\ ~d.readEvent
  /\ d.readEvent => d.sm1 = NoMsg

(* A request is only taken while nothing is to be sent, hence what waits   *)
(* behind a full send mailbox is one buffer. *)
Load(d, n) ==
  /\ Len(d.sMbxReceiveQueue) + n <= 2
  /\ Len(d.sMbxSendQueue) <= 1
  /\ d.bSendMbxIsFull
       => Len(d.sMbxReceiveQueue) + Len(d.sMbxSendQueue) + n <= 1
  /\ ~d.bMbxRunning => /\ d.sMbxReceiveQueue = <<>>
                       /\ d.sm0 = NoMsg
  /\ (d.writeEvent \/ d.bReceiveMbxIsLocked) => d.sm0 # NoMsg

(* A state of the slave while a function works with the buffers w, which   *)
(* will make the queues n longer. *)
Owner(d, w, n) ==
  /\ Undivided /\ d \in Slave
  /\ Disjoint(d, w) /\ Memory(d, w) /\ Pointing(d) /\ Load(d, n)

Cycle ==
  /\ pc \in {"main", "sm1", "event", "al", "read", "repeat", "write"}
  /\ sm1Activate \in BOOLEAN
  /\ ALEventReg \in [read : BOOLEAN, al : {"none", "INIT", "PREOP"}]
  /\ pc \in {"al", "read"} /\ ALEventReg.read => dev.readEvent
  /\ pc # "main" => Len(dev.sMbxReceiveQueue) <= 1
  /\ pc \in {"read", "repeat", "write"} => dev.bMbxRunning

IInv == Cycle /\ mst \in Master /\ Owner(dev, {}, 0)

-----------------------------------------------------------------------------
(* Sequences *)

LEMMA RngEmpty == Rng(<<>>) = {}
  BY DEF Rng

LEMMA RngAppend ==
  ASSUME NEW S, NEW q \in Seq(S), NEW x \in S
  PROVE  /\ Append(q, x) \in Seq(S)
         /\ Rng(Append(q, x)) = Rng(q) \cup {x}
         /\ Len(Append(q, x)) = Len(q) + 1
<1>1. /\ Append(q, x) \in Seq(S)
      /\ Len(Append(q, x)) = Len(q) + 1
      /\ \A i \in 1..Len(q) : Append(q, x)[i] = q[i]
      /\ Append(q, x)[Len(q) + 1] = x
  BY AppendProperties
<1>2. DOMAIN q = 1..Len(q) /\ DOMAIN Append(q, x) = 1..(Len(q) + 1)
      /\ Len(q) \in Nat
  BY <1>1, LenProperties
<1> QED  BY <1>1, <1>2 DEF Rng

LEMMA RngTail ==
  ASSUME NEW S, NEW q \in Seq(S), q # <<>>
  PROVE  /\ Head(q) \in S /\ Tail(q) \in Seq(S)
         /\ Len(Tail(q)) = Len(q) - 1
         /\ Rng(q) = Rng(Tail(q)) \cup {Head(q)}
         /\ (\A i, j \in DOMAIN q : q[i] = q[j] => i = j)
              => /\ Head(q) \notin Rng(Tail(q))
                 /\ \A i, j \in DOMAIN Tail(q) :
                      Tail(q)[i] = Tail(q)[j] => i = j
<1>1. /\ Len(q) \in Nat /\ DOMAIN q = 1..Len(q) /\ Len(q) >= 1
      /\ Head(q) \in S /\ Tail(q) \in Seq(S)
      /\ Len(Tail(q)) = Len(q) - 1
      /\ DOMAIN Tail(q) = 1..(Len(q) - 1)
      /\ Head(q) = q[1]
      /\ \A i \in 1..(Len(q) - 1) : Tail(q)[i] = q[i + 1]
  BY HeadTailProperties, LenProperties, EmptySeq
<1>2. Rng(q) = Rng(Tail(q)) \cup {Head(q)}
  <2>1. ASSUME NEW x \in Rng(q)  PROVE  x \in Rng(Tail(q)) \cup {Head(q)}
    <3>1. PICK i \in 1..Len(q) : x = q[i]
      BY <1>1, <2>1 DEF Rng
    <3>2. CASE i = 1
      BY <1>1, <3>1, <3>2
    <3>3. CASE i # 1
      <4>1. i - 1 \in DOMAIN Tail(q) /\ Tail(q)[i - 1] = x
        BY <1>1, <3>1, <3>3
      <4> QED  BY <4>1 DEF Rng
    <3> QED  BY <3>2, <3>3
  <2>2. Rng(Tail(q)) \cup {Head(q)} \subseteq Rng(q)
    BY <1>1 DEF Rng
  <2> QED  BY <2>1, <2>2
<1>3. ASSUME \A i, j \in DOMAIN q : q[i] = q[j] => i = j
      PROVE  /\ Head(q) \notin Rng(Tail(q))
             /\ \A i, j \in DOMAIN Tail(q) :
                      Tail(q)[i] = Tail(q)[j] => i = j
  BY <1>1, <1>3 DEF Rng
<1> QED  BY <1>1, <1>2, <1>3

-----------------------------------------------------------------------------
(* Sending *)

(* The fields no lemma on ownership reads keep their types. *)
Same(d, e) ==
  /\ e.sm0 = d.sm0 /\ e.writeEvent = d.writeEvent
  /\ e.bMbxRunning = d.bMbxRunning
  /\ e.bReceiveMbxIsLocked = d.bReceiveMbxIsLocked
  /\ e.sMbxReceiveQueue = d.sMbxReceiveQueue

SameSend(d, e) ==
  /\ e.sm1 = d.sm1 /\ e.readEvent = d.readEvent
  /\ e.bSendMbxIsFull = d.bSendMbxIsFull
  /\ e.psRepeatMbx = d.psRepeatMbx /\ e.psReadMbx = d.psReadMbx
  /\ e.psStoreMbx = d.psStoreMbx
  /\ e.sMbxSendQueue = d.sMbxSendQueue

LEMMA NextReadCounter ==
  ASSUME NEW d \in Slave
  PROVE  ReadCounter(d) \in 1..COUNTERS
<1>1. COUNTERS \in Nat /\ COUNTERS >= 2
  BY MailboxAssumptions
<1>2. d.u8MbxReadCounter \in 0..COUNTERS + 1
  BY DEF Slave
<1>3. (COUNTERS + 1) % (COUNTERS + 1) = 0
  BY <1>1
<1>4. 0 % (COUNTERS + 1) = 0
  BY <1>1
<1> QED  BY <1>1, <1>2, <1>3, <1>4 DEF ReadCounter

LEMMA NumberMessage ==
  ASSUME NEW m \in Responses, NEW cnt \in Nat, NEW no \in Nat
  PROVE  [m EXCEPT !.cnt = cnt, !.no = no] \in Responses
BY DEF Responses

Renumbered(d, mem, u, n) ==
  [d EXCEPT !.mem = mem, !.u8MbxReadCounter = u, !.made = n]

LEMMA NumberSlave ==
  ASSUME NEW d \in Slave, NEW mem \in [Buffers -> Message],
         NEW u \in 0..COUNTERS + 1, NEW n \in Nat, NEW e,
         e = Renumbered(d, mem, u, n)
  PROVE  e \in Slave /\ e.mem = mem /\ Same(d, e) /\ SameSend(d, e)
BY DEF Slave, Same, SameSend, Renumbered

LEMMA NumberedFields ==
  ASSUME NEW d \in Slave, NEW b \in Buffers, d.mem[b] \in Responses,
         NEW e, e = Numbered(d, b)
  PROVE  /\ e \in Slave /\ Same(d, e) /\ SameSend(d, e)
         /\ e.mem[b] \in Responses
         /\ \A c \in Buffers \ {b} : e.mem[c] = d.mem[c]
<1> DEFINE cnt == ReadCounter(d)
           m == [d.mem[b] EXCEPT !.cnt = cnt, !.no = d.made + 1]
           mem == [d.mem EXCEPT ![b] = m]
<1>1. /\ d.made + 1 \in Nat /\ d.mem \in [Buffers -> Message]
  BY DEF Slave
<1>2. cnt \in Nat /\ cnt + 1 \in 0..COUNTERS + 1
  BY NextReadCounter, MailboxAssumptions
<1>3. m \in Responses
  BY <1>1, <1>2, NumberMessage
<1>4. mem \in [Buffers -> Message]
  BY <1>1, <1>3 DEF Message
<1>5. e = Renumbered(d, mem, cnt + 1, d.made + 1)
  BY DEF Numbered, Renumbered
<1> HIDE DEF mem, cnt
<1>6. e \in Slave /\ e.mem = mem /\ Same(d, e) /\ SameSend(d, e)
  BY <1>1, <1>2, <1>4, <1>5, NumberSlave
<1> USE DEF mem
<1> QED  BY <1>1, <1>3, <1>6

LEMMA CopyFields ==
  ASSUME NEW d \in Slave, NEW b \in Buffers, d.mem[b] \in Responses,
         NEW e, e = MBX_CopyToSendMailbox(d, b)
  PROVE  /\ e \in Slave /\ Same(d, e) /\ e.mem = d.mem
         /\ ~e.readEvent /\ e.psReadMbx = b /\ e.bSendMbxIsFull
         /\ e.psRepeatMbx = d.psRepeatMbx /\ e.psStoreMbx = d.psStoreMbx
         /\ e.sMbxSendQueue = d.sMbxSendQueue
<1> DEFINE sm1 == IF d.sm1 = NoMsg THEN d.mem[b] ELSE d.sm1
<1>1. e = [d EXCEPT !.sm1 = sm1, !.readEvent = FALSE, !.psReadMbx = b,
                    !.bSendMbxIsFull = TRUE]
  BY DEF MBX_CopyToSendMailbox
<1>2. sm1 \in {NoMsg} \cup Responses /\ b \in Held
  BY DEF Slave, Held
<1> HIDE DEF sm1
<1>3. e \in Slave
  BY <1>1, <1>2, ZenonT(60) DEF Slave
<1> QED  BY <1>1, <1>3, ZenonT(60) DEF Slave, Same

LEMMA StoredFields ==
  ASSUME NEW d \in Slave, NEW e,
         e = [d EXCEPT !.u8MailboxSendReqStored = @ \/ FALSE]
  PROVE  e \in Slave /\ Same(d, e) /\ SameSend(d, e) /\ e.mem = d.mem
BY DEF Slave, Same, SameSend

LEMMA QueuedFields ==
  ASSUME NEW d \in Slave, NEW b \in Buffers, NEW e,
         e = [d EXCEPT !.sMbxSendQueue = Append(@, b)]
  PROVE  /\ e \in Slave /\ Same(d, e) /\ e.mem = d.mem
         /\ e.sm1 = d.sm1 /\ e.readEvent = d.readEvent
         /\ e.bSendMbxIsFull = d.bSendMbxIsFull
         /\ e.psRepeatMbx = d.psRepeatMbx /\ e.psReadMbx = d.psReadMbx
         /\ e.psStoreMbx = d.psStoreMbx
         /\ e.sMbxSendQueue = Append(d.sMbxSendQueue, b)
<1>1. Append(d.sMbxSendQueue, b) \in Seq(Buffers)
  BY AppendProperties DEF Slave
<1> QED  BY <1>1 DEF Slave, Same

(* What sending b does: at once, or as the only one that waits. *)
Sent(d, b, e) ==
  /\ e \in Slave /\ Same(d, e) /\ e.mem[b] \in Responses
  /\ \A c \in Buffers \ {b} : e.mem[c] = d.mem[c]
  /\ e.psRepeatMbx = d.psRepeatMbx /\ e.psStoreMbx = d.psStoreMbx
  /\ e.bSendMbxIsFull
  /\ IF d.bSendMbxIsFull
     THEN /\ e.sMbxSendQueue = Append(<<>>, b)
          /\ e.psReadMbx = d.psReadMbx
          /\ e.sm1 = d.sm1 /\ e.readEvent = d.readEvent
     ELSE e.sMbxSendQueue = <<>> /\ e.psReadMbx = b /\ ~e.readEvent

LEMMA SendFields ==
  ASSUME Undivided, NEW d \in Slave, NEW b \in Buffers, d.mem[b] \in Responses,
         d.bMbxRunning, d.sMbxSendQueue = <<>>,
         NEW e, e = MBX_MailboxSendReq(d, b, FALSE)
  PROVE  /\ ~MBX_Refuses(d)
         /\ Sent(d, b, e)
<1>1. QUEUE_SIZE \in Nat /\ QUEUE_SIZE >= 3 /\ Len(<<>>) = 0
  BY MailboxAssumptions DEF Undivided
<1>2. HasRoom(d.sMbxSendQueue)
  BY <1>1 DEF HasRoom
<1> DEFINE n == Numbered(d, b)
<1>3. /\ n \in Slave /\ Same(d, n) /\ SameSend(d, n)
      /\ n.mem[b] \in Responses
      /\ \A c \in Buffers \ {b} : n.mem[c] = d.mem[c]
  BY NumberedFields
<1>4. CASE d.bSendMbxIsFull
  <2> DEFINE q == [n EXCEPT !.sMbxSendQueue = Append(@, b)]
  <2>1. e = [q EXCEPT !.u8MailboxSendReqStored = @ \/ FALSE]
    BY <1>2, <1>4 DEF MBX_MailboxSendReq, MBX_CanCopy
  <2> HIDE DEF n
  <2>2. /\ q \in Slave /\ Same(n, q) /\ q.mem = n.mem
        /\ q.sm1 = n.sm1 /\ q.readEvent = n.readEvent
        /\ q.bSendMbxIsFull = n.bSendMbxIsFull
        /\ q.psRepeatMbx = n.psRepeatMbx /\ q.psReadMbx = n.psReadMbx
        /\ q.psStoreMbx = n.psStoreMbx
        /\ q.sMbxSendQueue = Append(n.sMbxSendQueue, b)
    BY <1>3, QueuedFields
  <2> HIDE DEF q
  <2>3. e \in Slave /\ Same(q, e) /\ SameSend(q, e) /\ e.mem = q.mem
    BY <2>1, <2>2, StoredFields
  <2>4. ~MBX_Refuses(d)
    BY <1>2 DEF MBX_Refuses
  <2>5. Sent(d, b, e)
    <3>1. /\ e.mem = n.mem /\ e.psRepeatMbx = d.psRepeatMbx
          /\ e.psStoreMbx = d.psStoreMbx /\ e.psReadMbx = d.psReadMbx
          /\ e.bSendMbxIsFull = d.bSendMbxIsFull
          /\ e.sm1 = d.sm1 /\ e.readEvent = d.readEvent
          /\ e.sMbxSendQueue = Append(d.sMbxSendQueue, b)
      BY <1>3, <2>2, <2>3 DEF SameSend
    <3>2. Same(d, e)
      BY <1>3, <2>2, <2>3 DEF Same
    <3> QED  BY <1>3, <1>4, <2>3, <3>1, <3>2 DEF Sent
  <2> QED  BY <2>4, <2>5
<1>5. CASE ~d.bSendMbxIsFull
  <2> DEFINE q == MBX_CopyToSendMailbox(n, b)
  <2>1. e = [q EXCEPT !.u8MailboxSendReqStored = @ \/ FALSE]
    BY <1>5 DEF MBX_MailboxSendReq, MBX_CanCopy
  <2> HIDE DEF n
  <2>2. /\ q \in Slave /\ Same(n, q) /\ q.mem = n.mem
        /\ ~q.readEvent /\ q.psReadMbx = b /\ q.bSendMbxIsFull
        /\ q.psRepeatMbx = n.psRepeatMbx /\ q.psStoreMbx = n.psStoreMbx
        /\ q.sMbxSendQueue = n.sMbxSendQueue
    BY <1>3, CopyFields
  <2> HIDE DEF q
  <2>3. e \in Slave /\ Same(q, e) /\ SameSend(q, e) /\ e.mem = q.mem
    BY <2>1, <2>2, StoredFields
  <2>4. ~MBX_Refuses(d)
    BY <1>2 DEF MBX_Refuses
  <2>5. Sent(d, b, e)
    <3>1. /\ e.mem = n.mem /\ e.psRepeatMbx = d.psRepeatMbx
          /\ e.psStoreMbx = d.psStoreMbx /\ e.psReadMbx = b
          /\ e.bSendMbxIsFull /\ ~e.readEvent
          /\ e.sMbxSendQueue = d.sMbxSendQueue
      BY <1>3, <2>2, <2>3 DEF SameSend
    <3>2. Same(d, e)
      BY <1>3, <2>2, <2>3 DEF Same
    <3> QED  BY <1>3, <1>5, <2>3, <3>1, <3>2 DEF Sent
  <2> QED  BY <2>4, <2>5
<1>6. d.bSendMbxIsFull \in BOOLEAN
  BY DEF Slave
<1> QED  BY <1>4, <1>5, <1>6

(* Sending hands the buffer over to the send mailbox or its queue. *)
LEMMA SendOwner ==
  ASSUME NEW d, NEW b \in Buffers, Owner(d, {b}, 1), d.bMbxRunning,
         d.mem[b] \in Responses,
         NEW e, e = MBX_MailboxSendReq(d, b, FALSE)
  PROVE  /\ ~MBX_Refuses(d)
         /\ Owner(e, {}, 0) /\ Same(d, e)
<1>1. /\ d \in Slave
      /\ Len(d.sMbxReceiveQueue) \in Nat /\ Len(d.sMbxSendQueue) \in Nat
      /\ d.sMbxSendQueue \in Seq(Buffers)
  BY LenProperties DEF Owner, Slave
<1>2. /\ d.sMbxSendQueue = <<>>
      /\ d.bSendMbxIsFull => Len(d.sMbxReceiveQueue) = 0
      /\ Len(d.sMbxReceiveQueue) <= 1
  <2>1. CASE d.bSendMbxIsFull
    <3>1. Len(d.sMbxReceiveQueue) + Len(d.sMbxSendQueue) + 1 <= 1
      BY <2>1 DEF Owner, Load
    <3>2. Len(d.sMbxReceiveQueue) = 0 /\ Len(d.sMbxSendQueue) = 0
      <4> DEFINE x == Len(d.sMbxReceiveQueue)
                 y == Len(d.sMbxSendQueue)
      <4>1. x \in Nat /\ y \in Nat /\ x + y + 1 <= 1
        BY <1>1, <3>1
      <4> HIDE DEF x, y
      <4>2. x = 0 /\ y = 0
        BY <4>1
      <4> QED  BY <4>2 DEF x, y
    <3> QED  BY <1>1, <3>2, EmptySeq
  <2>2. CASE ~d.bSendMbxIsFull
    <3>1. Len(d.sMbxReceiveQueue) + 1 <= 2
      BY DEF Owner, Load
    <3>2. d.sMbxSendQueue = <<>>
      BY <2>2 DEF Owner, Pointing
    <3> QED  BY <1>1, <2>2, <3>1, <3>2
  <2> QED  BY <2>1, <2>2
<1>3. ~MBX_Refuses(d) /\ Sent(d, b, e)
  BY <1>1, <1>2, SendFields DEF Owner
<1>4. /\ Rng(<<>>) = {} /\ Len(<<>>) = 0
      /\ Rng(Append(<<>>, b)) = {b} /\ Len(Append(<<>>, b)) = 1
  <2>1. <<>> \in Seq(Buffers) /\ Len(<<>>) = 0 /\ Rng(<<>>) = {}
    BY EmptySeq, RngEmpty
  <2>2. /\ Rng(Append(<<>>, b)) = Rng(<<>>) \cup {b}
        /\ Len(Append(<<>>, b)) = Len(<<>>) + 1
    BY <2>1, RngAppend, ZenonT(60)
  <2> QED  BY <2>1, <2>2
<1>5. b # NoBuf
  BY MailboxAssumptions DEF NoBuf
<1>a. /\ b \notin Rng(d.sMbxReceiveQueue) /\ b \notin Rng(d.sMbxSendQueue)
      /\ b \notin Pointers(d)
      /\ Rng(d.sMbxReceiveQueue) \cap Pointers(d) = {}
  BY DEF Owner, Disjoint
<1>b. /\ e.sMbxReceiveQueue = d.sMbxReceiveQueue
      /\ Rng(d.sMbxSendQueue) = {}
  BY <1>2, <1>3, <1>4 DEF Sent, Same
<1>c. \/ Rng(e.sMbxSendQueue) = {b} /\ Pointers(e) = Pointers(d)
      \/ /\ Rng(e.sMbxSendQueue) = {}
         /\ Pointers(e) = Pointers(d) \cup {b}
  <2>1. CASE d.bSendMbxIsFull
    BY <1>3, <1>4, <2>1 DEF Sent, Pointers
  <2>2. CASE ~d.bSendMbxIsFull
    BY <1>3, <1>4, <2>2 DEF Sent, Pointers, Owner, Pointing
  <2> QED  BY <2>1, <2>2
<1>6. Disjoint(e, {})
  <2>1. \A i, j \in DOMAIN d.sMbxReceiveQueue :
       d.sMbxReceiveQueue[i] = d.sMbxReceiveQueue[j] => i = j
    BY DEF Owner, Disjoint
  <2> QED  BY <1>a, <1>b, <1>c, <2>1, ZenonT(60) DEF Disjoint
<1>7. Memory(e, {})
  <2>1. ASSUME NEW c \in Buffers
        PROVE  e.mem[c] \in IF c \in Rng(e.sMbxReceiveQueue) THEN Requests
                 ELSE IF c \in Rng(e.sMbxSendQueue) \cup Pointers(e)
                 THEN Responses ELSE {NoMsg}
    <3>1. CASE c = b
      BY <1>3, <1>a, <1>b, <1>c, <3>1 DEF Sent
    <3>2. CASE c # b
      <4>1. d.mem[c] \in IF c \in Rng(d.sMbxReceiveQueue) THEN Requests
                 ELSE IF c \in Rng(d.sMbxSendQueue) \cup Pointers(d)
                 THEN Responses ELSE {NoMsg}
        BY <3>2 DEF Owner, Memory
      <4>2. e.mem[c] = d.mem[c]
        BY <1>3, <3>2 DEF Sent
      <4> QED  BY <1>a, <1>b, <1>c, <3>2, <4>1, <4>2
    <3> QED  BY <3>1, <3>2
  <2> QED  BY <2>1 DEF Memory
<1>8. Pointing(e)
  BY <1>2, <1>3, <1>5, ZenonT(60)
    DEF Owner, Disjoint, Pointing, Sent, Same, Pointers
<1>9. Load(e, 0)
  <2>1. Len(e.sMbxSendQueue) = IF d.bSendMbxIsFull THEN 1 ELSE 0
    BY <1>3, <1>4 DEF Sent
  <2>2. /\ Len(e.sMbxReceiveQueue) + 0 <= 2
        /\ Len(e.sMbxSendQueue) <= 1
        /\ Len(e.sMbxReceiveQueue) + Len(e.sMbxSendQueue) + 0 <= 1
    <3> DEFINE x == Len(e.sMbxReceiveQueue)
               y == Len(e.sMbxSendQueue)
    <3>1. x \in {0, 1} /\ y \in {0, 1} /\ (x = 0 \/ y = 0)
      <4>1. x = Len(d.sMbxReceiveQueue)
        BY <1>b
      <4>2. x \in Nat
        BY <1>1, <4>1
      <4>3. x <= 1
        BY <1>2, <4>1
      <4>4. d.bSendMbxIsFull => x = 0
        BY <1>2, <4>1
      <4>5. y = IF d.bSendMbxIsFull THEN 1 ELSE 0
        BY <2>1
      <4> HIDE DEF x, y
      <4> QED  BY <4>2, <4>3, <4>4, <4>5
    <3> HIDE DEF x, y
    <3>2. x + 0 <= 2 /\ y <= 1 /\ x + y + 0 <= 1
      BY <3>1
    <3> QED  BY <3>2 DEF x, y
  <2>3. (e.writeEvent \/ e.bReceiveMbxIsLocked) => e.sm0 # NoMsg
    BY <1>3 DEF Owner, Load, Sent, Same
  <2>4. e.bMbxRunning
    BY <1>3 DEF Sent, Same
  <2> QED  BY <2>2, <2>3, <2>4 DEF Load
<1> QED  BY <1>3, <1>6, <1>7, <1>8, <1>9 DEF Owner, Sent

-----------------------------------------------------------------------------
(* Serving requests *)

Popped(d, q) == [d EXCEPT !.sMbxReceiveQueue = q]

LEMMA PopFields ==
  ASSUME NEW d \in Slave, NEW q \in Seq(Buffers), NEW e, e = Popped(d, q)
  PROVE  /\ e \in Slave /\ SameSend(d, e) /\ e.mem = d.mem
         /\ e.sm0 = d.sm0 /\ e.writeEvent = d.writeEvent
         /\ e.bMbxRunning = d.bMbxRunning
         /\ e.bReceiveMbxIsLocked = d.bReceiveMbxIsLocked
         /\ e.sMbxReceiveQueue = q
BY DEF Slave, SameSend, Popped

(* The request taken out of the queue is in nobody's hands but the         *)
(* caller's. *)
LEMMA PopOwner ==
  ASSUME NEW d, Owner(d, {}, 0), d.sMbxReceiveQueue # <<>>, NEW e,
         e = [d EXCEPT !.sMbxReceiveQueue = Tail(@)]
  PROVE  /\ Head(d.sMbxReceiveQueue) \in Buffers
         /\ Owner(e, {Head(d.sMbxReceiveQueue)}, 1)
         /\ e.mem[Head(d.sMbxReceiveQueue)] \in Requests
         /\ e.bMbxRunning
<1> DEFINE q == d.sMbxReceiveQueue
           b == Head(q)
<1>1. d \in Slave /\ q \in Seq(Buffers) /\ Len(q) \in Nat
      /\ Len(d.sMbxSendQueue) \in Nat
  BY LenProperties DEF Owner, Slave
<1>2. /\ b \in Buffers /\ Tail(q) \in Seq(Buffers)
      /\ Len(Tail(q)) = Len(q) - 1
      /\ Rng(q) = Rng(Tail(q)) \cup {b}
      /\ b \notin Rng(Tail(q))
      /\ \A i, j \in DOMAIN Tail(q) : Tail(q)[i] = Tail(q)[j] => i = j
  BY <1>1, RngTail DEF Owner, Disjoint
<1>a. e = Popped(d, Tail(q))
  BY DEF Popped
<1>3. /\ e \in Slave /\ SameSend(d, e) /\ e.mem = d.mem
      /\ e.sm0 = d.sm0 /\ e.writeEvent = d.writeEvent
      /\ e.bMbxRunning = d.bMbxRunning
      /\ e.bReceiveMbxIsLocked = d.bReceiveMbxIsLocked
      /\ e.sMbxReceiveQueue = Tail(q)
  <2> DEFINE t == Tail(q)
  <2>1. t \in Seq(Buffers) /\ e = Popped(d, t)
    BY <1>2, <1>a
  <2> HIDE DEF t
  <2>2. /\ e \in Slave /\ SameSend(d, e) /\ e.mem = d.mem
        /\ e.sm0 = d.sm0 /\ e.writeEvent = d.writeEvent
        /\ e.bMbxRunning = d.bMbxRunning
        /\ e.bReceiveMbxIsLocked = d.bReceiveMbxIsLocked
        /\ e.sMbxReceiveQueue = t
    BY <1>1, <2>1, PopFields, ZenonT(60)
  <2> QED  BY <2>2 DEF t
<1>4. Pointers(e) = Pointers(d) /\ e.sMbxSendQueue = d.sMbxSendQueue
  BY <1>3 DEF SameSend, Pointers
<1>5. Disjoint(e, {b})
  BY <1>2, <1>3, <1>4, ZenonT(60) DEF Owner, Disjoint
<1>6. Memory(e, {b})
  BY <1>2, <1>3, <1>4 DEF Owner, Memory
<1>7. Pointing(e)
  BY <1>3 DEF Owner, Pointing, SameSend
<1>8. e.bMbxRunning
  BY <1>3 DEF Owner, Load
<1>9. Load(e, 1)
  <2> DEFINE x == Len(q)
             y == Len(d.sMbxSendQueue)
  <2>1. /\ x \in Nat /\ y \in Nat
        /\ x + 0 <= 2 /\ y <= 1 /\ (d.bSendMbxIsFull => x + y + 0 <= 1)
    BY <1>1 DEF Owner, Load
  <2>2. /\ Len(e.sMbxReceiveQueue) = x - 1 /\ Len(e.sMbxSendQueue) = y
        /\ e.bSendMbxIsFull = d.bSendMbxIsFull
    BY <1>2, <1>3, <1>4 DEF SameSend
  <2>3. (e.writeEvent \/ e.bReceiveMbxIsLocked) => e.sm0 # NoMsg
    BY <1>3 DEF Owner, Load
  <2> HIDE DEF x, y
  <2>4. x - 1 + 1 <= 2 /\ (d.bSendMbxIsFull => x - 1 + y + 1 <= 1)
    BY <2>1
  <2> QED  BY <1>8, <2>1, <2>2, <2>3, <2>4 DEF Load
<1>10. e.mem[b] \in Requests
  BY <1>2, <1>3 DEF Owner, Memory
<1> QED  BY <1>2, <1>3, <1>5, <1>6, <1>7, <1>8, <1>9, <1>10 DEF Owner

Filled(d, b, r) == [d EXCEPT !.mem = [d.mem EXCEPT ![b] = r]]
Listed(d, b, r, h) ==
  [d EXCEPT !.mem = [d.mem EXCEPT ![b] = r], !.aSdoInfoHeader = h,
            !.nSdoInfoFragmentsLeft = 0]

IsAnswered(d, b, r, e) ==
  /\ e \in Slave /\ Same(d, e) /\ SameSend(d, e)
  /\ e.mem[b] = r /\ \A c \in Buffers \ {b} : e.mem[c] = d.mem[c]

LEMMA AnswerFields ==
  ASSUME NEW d \in Slave, NEW b \in Buffers, NEW r \in Message,
         NEW e, e = Filled(d, b, r) \/ \E h \in Req : e = Listed(d, b, r, h)
  PROVE  IsAnswered(d, b, r, e)
<1> DEFINE mem == [d.mem EXCEPT ![b] = r]
<1>1. mem \in [Buffers -> Message] /\ d.mem \in [Buffers -> Message]
  BY DEF Slave
<1>2. e.mem = mem /\ Same(d, e) /\ SameSend(d, e)
  BY ZenonT(60) DEF Slave, Same, SameSend, Filled, Listed
<1>3. e \in Slave
  <2>1. /\ Filled(d, b, r) = [d EXCEPT !.mem = mem]
        /\ \A h : Listed(d, b, r, h)
                    = [d EXCEPT !.mem = mem, !.aSdoInfoHeader = h,
                                !.nSdoInfoFragmentsLeft = 0]
    BY DEF Filled, Listed
  <2> HIDE DEF mem
  <2>2. [d EXCEPT !.mem = mem] \in Slave
    BY <1>1 DEF Slave
  <2>3. ASSUME NEW h \in Req
        PROVE  [d EXCEPT !.mem = mem, !.aSdoInfoHeader = h,
                         !.nSdoInfoFragmentsLeft = 0] \in Slave
    BY <1>1 DEF Slave
  <2>4. CASE e = Filled(d, b, r)
    BY <2>1, <2>2, <2>4
  <2>5. CASE \E h \in Req : e = Listed(d, b, r, h)
    <3>1. PICK h \in Req : e = Listed(d, b, r, h)
      BY <2>5
    <3>2. Listed(d, b, r, h) \in Slave
      BY <2>1, <2>3
    <3> QED  BY <3>1, <3>2
  <2> QED  BY <2>4, <2>5
<1> QED  BY <1>1, <1>2, <1>3 DEF IsAnswered

(* A response in the caller's hands changes nothing of the others'. *)
LEMMA AnswerOwner ==
  ASSUME NEW d, NEW b \in Buffers, Owner(d, {b}, 1),
         NEW e \in Slave, Same(d, e), SameSend(d, e),
         \A c \in Buffers \ {b} : e.mem[c] = d.mem[c]
  PROVE  Owner(e, {b}, 1)
<1>1. Pointers(e) = Pointers(d)
  BY DEF SameSend, Pointers
<1>2. Disjoint(e, {b})
  BY <1>1 DEF Owner, Disjoint, Same, SameSend
<1>3. Memory(e, {b})
  BY <1>1 DEF Owner, Memory, Same, SameSend
<1>4. Pointing(e)
  BY DEF Owner, Pointing, Same, SameSend
<1>5. Load(e, 1)
  BY DEF Owner, Load, Same, SameSend
<1> QED  BY <1>2, <1>3, <1>4, <1>5 DEF Owner

LEMMA ServeOwner ==
  ASSUME NEW d, NEW b \in Buffers, Owner(d, {b}, 1), d.bMbxRunning,
         d.mem[b] \in Requests, NEW e, e = MailboxServiceInd(d, b)
  PROVE  Owner(e, {}, 0) /\ Same(d, e)
<1> DEFINE req == d.mem[b].req
           r == Response(req, 0)
           a == Filled(d, b, r)
           l == Listed(d, b, r, req)
<1>1. d \in Slave /\ d.nSdoInfoFragmentsLeft = 0 /\ Undivided
  BY DEF Owner, Slave
<1>2. req \in Req /\ req.kind \in Kinds /\ r \in Responses
  BY DEF Requests, Responses, Response, Req
<1>3. \A x \in {a, l} : Owner(x, {b}, 1) /\ x.bMbxRunning
                          /\ x.mem[b] \in Responses /\ Same(d, x)
  <2> HIDE DEF req, r
  <2> SUFFICES ASSUME NEW x \in {a, l}
               PROVE  Owner(x, {b}, 1) /\ x.bMbxRunning
                          /\ x.mem[b] \in Responses /\ Same(d, x)
    OBVIOUS
  <2>1. /\ x \in Slave /\ Same(d, x) /\ SameSend(d, x)
        /\ x.mem[b] = r /\ \A c \in Buffers \ {b} : x.mem[c] = d.mem[c]
    <3>1. r \in Message
      BY <1>2 DEF Message
    <3>2. IsAnswered(d, b, r, x)
      BY <1>1, <1>2, <3>1, AnswerFields
    <3> HIDE DEF a, l
    <3> QED  BY <3>2 DEF IsAnswered
  <2> HIDE DEF a, l
  <2>2. Owner(x, {b}, 1)
    BY <2>1, AnswerOwner
  <2> QED  BY <1>2, <2>1, <2>2 DEF Same
<1>4. \E x \in {a, l} : e = Respond(x, b, FALSE)
                          \/ e = MBX_MailboxSendReq(x, b, FALSE)
  <2>1. CASE req.kind = "sdo"
    BY <2>1 DEF MailboxServiceInd, SDOS_SdoInd, Filled
  <2>2. CASE req.kind = "list"
    <3>1. e = SDOS_SdoInfoInd(d, b, req)
      BY <2>2 DEF MailboxServiceInd
    <3>2. SDOS_SdoInfoInd(d, b, req) = Respond(l, b, FALSE)
      <4>1. (IF d.nSdoInfoFragmentsLeft > 0
             THEN d.nSdoInfoFragmentsLeft - 1 ELSE FRAGMENTS) = 0
        BY <1>1, <1>2, <2>2 DEF Undivided
      <4>2. (0 > 0) = FALSE
        OBVIOUS
      <4> QED  BY <4>1, <4>2 DEF SDOS_SdoInfoInd, Listed
    <3> QED  BY <3>1, <3>2
  <2>3. CASE req.kind \notin {"sdo", "list"}
    BY <2>3 DEF MailboxServiceInd, Filled
  <2> QED  BY <2>1, <2>2, <2>3
<1> HIDE DEF a, l
<1>5. PICK x \in {a, l} : e = Respond(x, b, FALSE)
                            \/ e = MBX_MailboxSendReq(x, b, FALSE)
  BY <1>4
<1> DEFINE f == MBX_MailboxSendReq(x, b, FALSE)
<1>6. ~MBX_Refuses(x) /\ Owner(f, {}, 0) /\ Same(x, f)
  BY <1>3, SendOwner
<1>7. e = f
  BY <1>5, <1>6 DEF Respond
<1> QED  BY <1>3, <1>6, <1>7 DEF Same

-----------------------------------------------------------------------------
(* Taking requests *)

Locked(d) == [d EXCEPT !.writeEvent = FALSE, !.bReceiveMbxIsLocked = TRUE]
Taken(d, mem) ==
  [d EXCEPT !.writeEvent = FALSE, !.bReceiveMbxIsLocked = FALSE,
            !.mem = mem, !.sm0 = NoMsg]
Enqueued(d, cnt, q) ==
  [d EXCEPT !.u8MbxWriteCounter = cnt, !.sMbxReceiveQueue = q]

LEMMA LockedFields ==
  ASSUME NEW d \in Slave, NEW e, e = Locked(d)
  PROVE  /\ e \in Slave /\ SameSend(d, e) /\ e.mem = d.mem
         /\ e.sm0 = d.sm0 /\ e.bMbxRunning = d.bMbxRunning
         /\ e.sMbxReceiveQueue = d.sMbxReceiveQueue
BY ZenonT(60) DEF Slave, SameSend, Locked

IsTaken(d, mem, e) ==
  /\ e \in Slave /\ SameSend(d, e) /\ e.mem = mem
  /\ ~e.writeEvent /\ ~e.bReceiveMbxIsLocked
  /\ e.bMbxRunning = d.bMbxRunning
  /\ e.sMbxReceiveQueue = d.sMbxReceiveQueue

LEMMA TakenFields ==
  ASSUME NEW d \in Slave, NEW mem \in [Buffers -> Message]
  PROVE  IsTaken(d, mem, Taken(d, mem))
BY ZenonT(60) DEF Slave, SameSend, Taken, IsTaken

IsEnqueued(d, q, e) ==
  /\ e \in Slave /\ SameSend(d, e) /\ e.mem = d.mem
  /\ e.writeEvent = d.writeEvent
  /\ e.bReceiveMbxIsLocked = d.bReceiveMbxIsLocked
  /\ e.bMbxRunning = d.bMbxRunning
  /\ e.sMbxReceiveQueue = q

LEMMA EnqueuedFields ==
  ASSUME NEW d \in Slave, NEW cnt \in 0..COUNTERS, NEW q \in Seq(Buffers)
  PROVE  IsEnqueued(d, q, Enqueued(d, cnt, q))
BY DEF Slave, SameSend, Enqueued, IsEnqueued

(* A request that is left in the ESC, or repeated, or put into the queue   *)
(* has one holder. *)
LEMMA TakeOwner ==
  ASSUME NEW d, Owner(d, {}, 0), d.bMbxRunning, d.sm0 # NoMsg,
         Len(d.sMbxReceiveQueue) <= 1,
         NEW e, e = MBX_CheckAndCopyMailbox(d)
  PROVE  /\ Owner(e, {}, 0) /\ e.bMbxRunning
         /\ \/ e.sMbxReceiveQueue = d.sMbxReceiveQueue
            \/ Len(e.sMbxReceiveQueue) <= Len(d.sMbxReceiveQueue) + 1
<1> DEFINE q == d.sMbxReceiveQueue
           b == Alloc(d)
           m == [d.mem EXCEPT ![b] = d.sm0]
           t == Taken(d, m)
<1>1. /\ d \in Slave /\ q \in Seq(Buffers) /\ Len(q) \in {0, 1}
      /\ d.mem \in [Buffers -> Message] /\ d.sm0 \in Requests
      /\ d.u8MailboxSendReqStored = FALSE
      /\ d.bSendMbxIsFull \in BOOLEAN
  <2>1. d \in Slave
    BY DEF Owner
  <2>2. /\ q \in Seq(Buffers) /\ d.mem \in [Buffers -> Message]
        /\ d.sm0 \in {NoMsg} \cup Requests
        /\ d.u8MailboxSendReqStored = FALSE
        /\ d.bSendMbxIsFull \in BOOLEAN
    BY <2>1 DEF Slave
  <2>3. Len(q) \in Nat
    BY <2>2, LenProperties
  <2>4. Len(q) \in {0, 1}
    <3>1. Len(q) <= 1
      OBVIOUS
    <3> HIDE DEF q
    <3> QED  BY <2>3, <3>1
  <2> QED  BY <2>1, <2>2, <2>4
<1>2. CASE d.bSendMbxIsFull \/ FreeBuffers(d) = {}
  <2>1. e = Locked(d)
    BY <1>2 DEF MBX_CheckAndCopyMailbox, Locked
  <2>2. /\ e \in Slave /\ SameSend(d, e) /\ e.mem = d.mem
        /\ e.sm0 = d.sm0 /\ e.bMbxRunning = d.bMbxRunning
        /\ e.sMbxReceiveQueue = d.sMbxReceiveQueue
    BY <1>1, <2>1, LockedFields
  <2>3. Pointers(e) = Pointers(d) /\ e.sMbxSendQueue = d.sMbxSendQueue
    BY <2>2 DEF SameSend, Pointers
  <2>4. Disjoint(e, {}) /\ Memory(e, {})
    BY <2>2, <2>3 DEF Owner, Disjoint, Memory
  <2>5. Pointing(e)
    BY <2>2 DEF Owner, Pointing, SameSend
  <2>6. Load(e, 0)
    BY <2>2 DEF Owner, Load, SameSend
  <2> QED  BY <2>2, <2>4, <2>5, <2>6 DEF Owner
<1>3. CASE ~d.bSendMbxIsFull /\ FreeBuffers(d) # {}
  <2>1. b \in Buffers /\ d.mem[b] = NoMsg
    BY <1>3 DEF Alloc, FreeBuffers
  <2>2. e = MBX_MailboxWriteInd(t, b)
    BY <1>1, <1>3 DEF MBX_CheckAndCopyMailbox, Taken
  <2>3. m \in [Buffers -> Message]
    BY <1>1 DEF Message
  <2>4. /\ t \in Slave /\ SameSend(d, t) /\ t.mem = m
        /\ ~t.writeEvent /\ ~t.bReceiveMbxIsLocked
        /\ t.bMbxRunning = d.bMbxRunning
        /\ t.sMbxReceiveQueue = q
    <3> HIDE DEF m
    <3>1. IsTaken(d, m, t)
      BY <1>1, <2>3, TakenFields
    <3> HIDE DEF t
    <3> QED  BY <3>1 DEF IsTaken
  <2>5. /\ b \notin Rng(q) /\ b \notin Rng(d.sMbxSendQueue)
        /\ b \notin Pointers(d)
    <3>1. \A r \in Requests \cup Responses : r # NoMsg
      BY DEF Requests, Responses, NoMsg
    <3> QED  BY <2>1, <3>1 DEF Owner, Memory
  <2>6. d.sMbxSendQueue = <<>>
    BY <1>3 DEF Owner, Pointing
  <2>7. t.mem[b] = d.sm0 /\ \A c \in Buffers \ {b} : t.mem[c] = d.mem[c]
    BY <1>1, <2>1, <2>4
  <2>8. t.mem[b].cnt \in 0..COUNTERS
    BY <1>1, <2>7 DEF Requests
  <2> HIDE DEF t
  <2>9. CASE t.mem[b].cnt = t.u8MbxWriteCounter
    <3>1. e = Filled(t, b, NoMsg)
      BY <2>2, <2>9 DEF MBX_MailboxWriteInd, Filled
    <3>2. /\ e \in Slave /\ Same(t, e) /\ SameSend(t, e)
          /\ e.mem[b] = NoMsg
          /\ \A c \in Buffers \ {b} : e.mem[c] = t.mem[c]
      <4>1. NoMsg \in Message /\ b \in Buffers
        BY <2>1 DEF Message
      <4>2. t \in Slave
        BY <2>4
      <4> HIDE DEF b
      <4>3. IsAnswered(t, b, NoMsg, e)
        BY <3>1, <4>1, <4>2, AnswerFields
      <4> QED  BY <4>3 DEF IsAnswered
    <3>3. /\ e.sMbxReceiveQueue = q /\ e.sMbxSendQueue = d.sMbxSendQueue
          /\ Pointers(e) = Pointers(d)
      BY <2>4, <3>2 DEF Same, SameSend, Pointers
    <3>4. \A c \in Buffers : e.mem[c] = d.mem[c]
      BY <2>1, <2>7, <3>2
    <3>5. Disjoint(e, {}) /\ Memory(e, {})
      BY <3>3, <3>4 DEF Owner, Disjoint, Memory
    <3>6. Pointing(e)
      BY <2>4, <3>2 DEF Owner, Pointing, Same, SameSend
    <3>7. Load(e, 0)
      BY <2>4, <3>2 DEF Owner, Load, Same, SameSend
    <3> QED  BY <2>4, <3>2, <3>3, <3>5, <3>6, <3>7 DEF Owner, Same
  <2>10. CASE t.mem[b].cnt # t.u8MbxWriteCounter
    <3> DEFINE a == Append(q, b)
               c == t.mem[b].cnt
    <3>1. HasRoom(t.sMbxReceiveQueue)
      BY <1>1, <2>4, MailboxAssumptions DEF HasRoom, Owner, Undivided
    <3>2. e = Enqueued(t, c, a)
      <4> DEFINE u == [t EXCEPT !.u8MbxWriteCounter = c]
      <4>1. u.sMbxReceiveQueue = t.sMbxReceiveQueue
        BY <2>4 DEF Slave
      <4>2. e = [u EXCEPT !.sMbxReceiveQueue = Append(@, b)]
        BY <2>2, <2>10, <3>1, <4>1 DEF MBX_MailboxWriteInd
      <4> QED  BY <2>4, <4>1, <4>2 DEF Enqueued, Slave
    <3>3. /\ a \in Seq(Buffers) /\ Rng(a) = Rng(q) \cup {b}
          /\ Len(a) = Len(q) + 1
      BY <1>1, <2>1, RngAppend
    <3>4. \A i, j \in DOMAIN a : a[i] = a[j] => i = j
      <4>1. /\ DOMAIN q = 1..Len(q) /\ DOMAIN a = 1..(Len(q) + 1)
            /\ \A i \in 1..Len(q) : a[i] = q[i]
            /\ a[Len(q) + 1] = b
        BY <1>1, <2>1, <3>3, AppendProperties, LenProperties
      <4>2. \A i, j \in DOMAIN q : q[i] = q[j] => i = j
        BY DEF Owner, Disjoint
      <4>3. \A i \in DOMAIN q : q[i] # b
        BY <2>5 DEF Rng
      <4> QED  BY <1>1, <4>1, <4>2, <4>3
    <3>5. /\ e \in Slave /\ SameSend(t, e) /\ e.mem = t.mem
          /\ e.writeEvent = t.writeEvent
          /\ e.bReceiveMbxIsLocked = t.bReceiveMbxIsLocked
          /\ e.bMbxRunning = t.bMbxRunning
          /\ e.sMbxReceiveQueue = a
      <4>1. c \in 0..COUNTERS
        BY <2>8
      <4> HIDE DEF a, c
      <4>2. IsEnqueued(t, a, e)
        BY <2>4, <3>2, <3>3, <4>1, EnqueuedFields
      <4> QED  BY <4>2 DEF IsEnqueued
    <3>6. /\ e.sMbxSendQueue = d.sMbxSendQueue
          /\ Pointers(e) = Pointers(d)
      BY <2>4, <3>5 DEF SameSend, Pointers
    <3>7. Disjoint(e, {})
      BY <2>5, <3>3, <3>4, <3>5, <3>6 DEF Owner, Disjoint
    <3>8. Memory(e, {})
      BY <1>1, <2>1, <2>5, <2>7, <3>3, <3>5, <3>6 DEF Owner, Memory
    <3>9. Pointing(e)
      BY <2>4, <3>5 DEF Owner, Pointing, SameSend
    <3>10. Load(e, 0)
      <4>1. Len(e.sMbxReceiveQueue) \in {1, 2}
        BY <1>1, <3>3, <3>5
      <4>2. Len(e.sMbxSendQueue) = 0
        BY <2>6, <3>6, EmptySeq
      <4>3. ~e.bSendMbxIsFull
        BY <1>3, <2>4, <3>5 DEF SameSend
      <4> QED  BY <2>4, <3>5, <4>1, <4>2, <4>3 DEF Load
    <3> QED  BY <1>1, <2>4, <3>3, <3>5, <3>7, <3>8, <3>9, <3>10 DEF Owner
  <2> QED  BY <2>9, <2>10
<1> QED  BY <1>1, <1>2, <1>3

-----------------------------------------------------------------------------
(* Messages read and asked for again *)

(* MBX_MailboxReadInd leaves everything of the receiving side alone. *)
Shifted(d, mem, rep, read, store, q, sm1, full, ev) ==
  [d EXCEPT !.mem = mem, !.psRepeatMbx = rep, !.psReadMbx = read,
            !.psStoreMbx = store, !.sMbxSendQueue = q, !.sm1 = sm1,
            !.bSendMbxIsFull = full, !.readEvent = ev]

IsShifted(d, mem, rep, read, store, q, sm1, full, ev, e) ==
  /\ e \in Slave /\ Same(d, e)
  /\ e.mem = mem /\ e.psRepeatMbx = rep /\ e.psReadMbx = read
  /\ e.psStoreMbx = store /\ e.sMbxSendQueue = q /\ e.sm1 = sm1
  /\ e.bSendMbxIsFull = full /\ e.readEvent = ev

LEMMA ShiftedFields ==
  ASSUME NEW d \in Slave, NEW mem \in [Buffers -> Message],
         NEW rep \in Held, NEW read \in Held, NEW store \in Held,
         NEW q \in Seq(Buffers), NEW sm1 \in {NoMsg} \cup Responses,
         NEW full \in BOOLEAN, NEW ev \in BOOLEAN
  PROVE  IsShifted(d, mem, rep, read, store, q, sm1, full, ev,
                   Shifted(d, mem, rep, read, store, q, sm1, full, ev))
BY ZenonT(60) DEF Slave, Same, Shifted, IsShifted

(* The buffers of the sending side. *)
Sending(d) == Rng(d.sMbxSendQueue) \cup Pointers(d)

LEMMA RngIn ==
  ASSUME NEW q \in Seq(Buffers)
  PROVE  Rng(q) \subseteq Buffers /\ NoBuf \notin Rng(q)
<1>1. Rng(q) \subseteq Buffers
  BY ElementOfSeq, LenProperties DEF Rng
<1>2. NoBuf \notin Buffers
  BY MailboxAssumptions DEF NoBuf
<1> QED  BY <1>1, <1>2

(* When buffers only move within the sending side, and those that leave it *)
(* are freed, the receiving side is undisturbed. *)
LEMMA ShiftOwner ==
  ASSUME NEW d, Owner(d, {}, 0), NEW e \in Slave, Same(d, e),
         Sending(e) \subseteq Sending(d) \cup {NoBuf},
         \A c \in Buffers : e.mem[c] = IF c \in Sending(d) \ Sending(e)
                                       THEN NoMsg ELSE d.mem[c],
         Rng(e.sMbxSendQueue) \cap Pointers(e) = {},
         Pointing(e), Load(e, 0)
  PROVE  Owner(e, {}, 0)
<1>1. e.sMbxReceiveQueue = d.sMbxReceiveQueue
  BY DEF Same
<1>2. NoBuf \notin Rng(d.sMbxReceiveQueue)
  BY RngIn DEF Owner, Slave
<1>3. Rng(d.sMbxReceiveQueue) \cap Sending(d) = {}
  BY DEF Owner, Disjoint, Sending
<1>4. Rng(d.sMbxReceiveQueue) \cap Sending(e) = {}
  BY <1>2, <1>3
<1>5. Disjoint(e, {})
  BY <1>1, <1>4 DEF Owner, Disjoint, Sending
<1>6. Memory(e, {})
  <2>1. ASSUME NEW c \in Buffers
        PROVE  e.mem[c] \in IF c \in Rng(e.sMbxReceiveQueue) THEN Requests
                 ELSE IF c \in Sending(e) THEN Responses ELSE {NoMsg}
    <3>1. d.mem[c] \in IF c \in Rng(d.sMbxReceiveQueue) THEN Requests
                 ELSE IF c \in Sending(d) THEN Responses ELSE {NoMsg}
      BY DEF Owner, Memory, Sending
    <3>2. c # NoBuf
      BY MailboxAssumptions DEF NoBuf
    <3> QED  BY <1>1, <1>3, <1>4, <3>1, <3>2
  <2> QED  BY <2>1 DEF Memory, Sending
<1> QED  BY <1>5, <1>6 DEF Owner

(* What the message just read leaves: it is kept for a repeat instead of   *)
(* the one before, and the displaced or the next one follows. *)
LEMMA ReadOwner ==
  ASSUME NEW d, Owner(d, {}, 0), d.readEvent,
         NEW e, e = MBX_MailboxReadInd([d EXCEPT !.readEvent = FALSE])
  PROVE  Owner(e, {}, 0) /\ Same(d, e)
<1> DEFINE rep == d.psRepeatMbx
           read == d.psReadMbx
           store == d.psStoreMbx
           q == d.sMbxSendQueue
           forgets == rep # NoBuf /\ store = NoBuf
           mem == IF forgets THEN Release(d.mem, {rep}) ELSE d.mem
           d0 == [d EXCEPT !.readEvent = FALSE]
<1>1. /\ d \in Slave /\ Pointing(d) /\ d.bSendMbxIsFull /\ d.bMbxRunning
      /\ d.sm1 = NoMsg /\ read # NoBuf /\ read # rep
      /\ store # NoBuf => store # read /\ rep = NoBuf
  BY DEF Owner, Pointing
<1>2. /\ rep \in Held /\ read \in Held /\ store \in Held /\ NoBuf \in Held
      /\ q \in Seq(Buffers)
      /\ d.mem \in [Buffers -> Message]
      /\ d.u8MailboxSendReqStored = FALSE
  BY <1>1 DEF Slave, Held
<1>3. mem \in [Buffers -> Message]
  BY <1>2 DEF Release, Message
<1>4. /\ Rng(q) \subseteq Buffers /\ NoBuf \notin Rng(q)
      /\ read \notin Rng(q) /\ rep \notin Rng(q) /\ store \notin Rng(q)
      /\ Sending(d) = Rng(q) \cup {rep, read, store}
  BY <1>2, RngIn DEF Owner, Disjoint, Pointers, Sending
<1>5. \A c \in Buffers : mem[c] = IF forgets /\ c = rep THEN NoMsg ELSE d.mem[c]
  BY <1>2 DEF Release
<1>6. CASE store # NoBuf
  <2> DEFINE m == d.mem[store]
  <2>1. m \in {NoMsg} \cup Responses
    BY <1>2, <1>4, <1>6 DEF Owner, Memory, Held, Disjoint, Pointers
  <2>2. e = Shifted(d, mem, read, store, NoBuf, q, m, TRUE, FALSE)
    BY <1>1, <1>2, <1>6, ZenonT(60)
       DEF MBX_MailboxReadInd, MBX_CopyToSendMailbox, Slave, Shifted
  <2>3. IsShifted(d, mem, read, store, NoBuf, q, m, TRUE, FALSE, e)
    <3>1. /\ q \in Seq(Buffers) /\ d \in Slave /\ NoBuf \in Held
          /\ read \in Held /\ store \in Held
      BY <1>1, <1>2
    <3> HIDE DEF mem, m, read, store, q
    <3> QED  BY <1>3, <2>1, <2>2, <3>1, ShiftedFields
  <2>4. /\ e \in Slave /\ Same(d, e) /\ e.mem = d.mem
        /\ Pointers(e) = {read, store, NoBuf} /\ e.sMbxSendQueue = q
        /\ e.bSendMbxIsFull = d.bSendMbxIsFull
    <3> HIDE DEF mem, m
    <3>1. /\ e \in Slave /\ Same(d, e) /\ e.mem = mem
          /\ Pointers(e) = {read, store, NoBuf} /\ e.sMbxSendQueue = q
          /\ e.bSendMbxIsFull = TRUE
      BY <2>3 DEF IsShifted, Pointers
    <3>2. mem = d.mem
      BY <1>6 DEF mem
    <3> QED  BY <1>1, <1>2, <3>1, <3>2 DEF Slave
  <2>5. Sending(e) = Rng(q) \cup {read, store, NoBuf}
    BY <2>4 DEF Sending
  <2>6. Pointing(e)
    <3> HIDE DEF mem, m
    <3> QED  BY <1>1, <1>6, <2>3 DEF IsShifted, Pointing, Same
  <2>7. Load(e, 0)
    BY <2>4 DEF Owner, Load, Same
  <2>8. \A c \in Buffers : c \notin Sending(d) \ Sending(e)
    BY <1>1, <1>4, <1>6, <2>5, MailboxAssumptions DEF NoBuf
  <2> QED
    BY <1>1, <1>4, <1>6, <2>4, <2>5, <2>6, <2>7, <2>8, ShiftOwner, ZenonT(60)
<1>7. CASE store = NoBuf /\ q # <<>>
  <2> DEFINE h == Head(q)
             t == Tail(q)
             m == mem[h]
  <2>1. /\ h \in Buffers /\ t \in Seq(Buffers) /\ Len(t) = Len(q) - 1
        /\ Rng(q) = Rng(t) \cup {h} /\ Len(q) \in Nat
    BY <1>2, <1>7, RngTail, LenProperties
  <2>2. Len(q) <= 1
    BY DEF Owner, Load
  <2>3. Len(q) = 1 /\ t = <<>> /\ Rng(t) = {} /\ Rng(q) = {h}
    <3>1. Len(q) # 0
      BY <1>2, <1>7, EmptySeq
    <3>2. Len(q) = 1 /\ Len(t) = 0
      <4> DEFINE x == Len(q)
      <4>1. x \in Nat /\ x <= 1 /\ x # 0 /\ Len(t) = x - 1
        BY <2>1, <2>2, <3>1
      <4> HIDE DEF x, t
      <4>2. x = 1 /\ Len(t) = 0
        BY <4>1
      <4> QED  BY <4>2 DEF x
    <3>3. t = <<>>
      BY <2>1, <3>2, EmptySeq
    <3> QED  BY <2>1, <3>2, <3>3, RngEmpty
  <2>4. h \notin {rep, read, NoBuf}
    BY <1>4, <2>1, <2>3
  <2>5. m \in {NoMsg} \cup Responses
    BY <1>4, <1>5, <2>1, <2>3 DEF Owner, Memory, Disjoint
  <2>6. e = Shifted(d, mem, read, h, NoBuf, t, m, TRUE, FALSE)
    BY <1>1, <1>2, <1>7, ZenonT(60)
       DEF MBX_MailboxReadInd, MBX_CopyToSendMailbox, Slave, Shifted
  <2>7. IsShifted(d, mem, read, h, NoBuf, t, m, TRUE, FALSE, e)
    <3>1. h \in Held
      BY <2>1 DEF Held
    <3>2. t \in Seq(Buffers) /\ d \in Slave /\ read \in Held
          /\ NoBuf \in Held
      BY <1>1, <1>2, <2>1
    <3> HIDE DEF mem, m, h, t, read
    <3> QED  BY <1>3, <2>5, <2>6, <3>1, <3>2, ShiftedFields
  <2>8. /\ e \in Slave /\ Same(d, e) /\ e.mem = mem
        /\ Pointers(e) = {read, h, NoBuf} /\ e.sMbxSendQueue = t
        /\ e.bSendMbxIsFull = TRUE
    <3> HIDE DEF mem, m, h, t
    <3> QED  BY <2>7 DEF IsShifted, Pointers
  <2>9. Sending(e) = {read, h, NoBuf}
    BY <2>3, <2>8 DEF Sending
  <2>10. Pointing(e)
    <3> HIDE DEF mem, m, h, t
    <3> QED  BY <1>1, <2>4, <2>7 DEF IsShifted, Pointing, Same
  <2>11. Load(e, 0)
    <3>1. Len(e.sMbxSendQueue) = 0
      BY <2>3, <2>8, EmptySeq
    <3>2. Len(d.sMbxReceiveQueue) + Len(q) + 0 <= 1
      BY <1>1 DEF Owner, Load
    <3>3. Len(d.sMbxReceiveQueue) \in Nat
      BY <1>1, LenProperties DEF Slave
    <3>4. Len(e.sMbxReceiveQueue) = Len(d.sMbxReceiveQueue)
      BY <2>8 DEF Same
    <3>5. Len(e.sMbxReceiveQueue) = 0
      <4> DEFINE x == Len(d.sMbxReceiveQueue)
      <4>1. x \in Nat /\ x + 1 + 0 <= 1
        BY <2>3, <3>2, <3>3
      <4> HIDE DEF x
      <4>2. x = 0
        BY <4>1
      <4> QED  BY <3>4, <4>2 DEF x
    <3>6. e.bMbxRunning
      BY <1>1, <2>8 DEF Same
    <3>7. (e.writeEvent \/ e.bReceiveMbxIsLocked) => e.sm0 # NoMsg
      BY <2>8 DEF Owner, Load, Same
    <3>8. 0 + 0 <= 2 /\ 0 <= 1 /\ 0 + 0 + 0 <= 1
      OBVIOUS
    <3> QED  BY <3>1, <3>5, <3>6, <3>7, <3>8 DEF Load
  <2>12. \A c \in Buffers : e.mem[c] = IF c \in Sending(d) \ Sending(e)
                                       THEN NoMsg ELSE d.mem[c]
    <3>1. ASSUME NEW c \in Buffers
          PROVE  c \in Sending(d) \ Sending(e) <=> (forgets /\ c = rep)
      <4>1. c # NoBuf
        BY MailboxAssumptions DEF NoBuf
      <4> HIDE DEF h
      <4> QED  BY <1>1, <1>4, <1>7, <2>3, <2>4, <2>9, <4>1
    <3>2. e.mem = mem
      BY <2>8
    <3> HIDE DEF mem
    <3> QED  BY <1>5, <3>1, <3>2
  <2>13. Rng(e.sMbxSendQueue) \cap Pointers(e) = {}
    BY <2>3, <2>8
  <2>14. Sending(e) \subseteq Sending(d) \cup {NoBuf}
    BY <1>4, <2>3, <2>9
  <2> QED  BY <2>8, <2>10, <2>11, <2>12, <2>13, <2>14, ShiftOwner
<1>8. CASE store = NoBuf /\ q = <<>>
  <2>1. e = Shifted(d, mem, read, read, NoBuf, q, NoMsg, FALSE, FALSE)
    BY <1>1, <1>2, <1>8, ZenonT(60) DEF MBX_MailboxReadInd, Slave, Shifted
  <2>2. IsShifted(d, mem, read, read, NoBuf, q, NoMsg, FALSE, FALSE, e)
    <3>1. /\ q \in Seq(Buffers) /\ d \in Slave /\ NoBuf \in Held
          /\ read \in Held /\ NoMsg \in {NoMsg} \cup Responses
      BY <1>1, <1>2
    <3> HIDE DEF mem, read, q
    <3> QED  BY <1>3, <2>1, <3>1, ShiftedFields
  <2>3. /\ e \in Slave /\ Same(d, e) /\ e.mem = mem
        /\ Pointers(e) = {read, NoBuf} /\ e.sMbxSendQueue = q
        /\ e.bSendMbxIsFull = FALSE
    <3> HIDE DEF mem
    <3> QED  BY <2>2 DEF IsShifted, Pointers
  <2>4. Rng(q) = {} /\ Sending(e) = {read, NoBuf}
    BY <1>8, <2>3, RngEmpty DEF Sending
  <2>5. Pointing(e)
    <3> HIDE DEF mem
    <3> QED  BY <1>8, <2>2 DEF IsShifted, Pointing
  <2>6. Load(e, 0)
    BY <2>3 DEF Owner, Load, Same
  <2>7. \A c \in Buffers : e.mem[c] = IF c \in Sending(d) \ Sending(e)
                                       THEN NoMsg ELSE d.mem[c]
    <3>1. ASSUME NEW c \in Buffers
          PROVE  c \in Sending(d) \ Sending(e) <=> (forgets /\ c = rep)
      <4>1. c # NoBuf
        BY MailboxAssumptions DEF NoBuf
      <4> QED  BY <1>1, <1>4, <1>8, <2>4, <4>1
    <3>2. e.mem = mem
      BY <2>3
    <3> HIDE DEF mem
    <3> QED  BY <1>5, <3>1, <3>2
  <2>8. /\ Rng(e.sMbxSendQueue) \cap Pointers(e) = {}
        /\ Sending(e) \subseteq Sending(d) \cup {NoBuf}
    BY <1>4, <2>3, <2>4
  <2> QED  BY <2>3, <2>5, <2>6, <2>7, <2>8, ShiftOwner, ZenonT(60)
<1> QED  BY <1>6, <1>7, <1>8

(* Bits that are no part of the ownership change nothing of it. *)
LEMMA SameOwner ==
  ASSUME NEW d, Owner(d, {}, 0), NEW e \in Slave, Same(d, e),
         SameSend(d, e), e.mem = d.mem
  PROVE  Owner(e, {}, 0)
<1>1. Pointers(e) = Pointers(d)
  BY DEF SameSend, Pointers
<1>2. Disjoint(e, {}) /\ Memory(e, {})
  BY <1>1 DEF Owner, Disjoint, Memory, Same, SameSend
<1>3. Pointing(e)
  BY DEF Owner, Pointing, Same, SameSend
<1>4. Load(e, 0)
  BY DEF Owner, Load, Same, SameSend
<1> QED  BY <1>2, <1>3, <1>4 DEF Owner

Toggled(d, t) == [d EXCEPT !.bMbxRepeatToggle = t, !.rptAck = t]

LEMMA ToggledFields ==
  ASSUME NEW d \in Slave, NEW t \in BOOLEAN, NEW e, e = Toggled(d, t)
  PROVE  e \in Slave /\ Same(d, e) /\ SameSend(d, e) /\ e.mem = d.mem
BY ZenonT(60) DEF Slave, Same, SameSend, Toggled

(* A repeat: the message that waited is displaced by the one read last. *)
LEMMA RepeatOwner ==
  ASSUME NEW d, Owner(d, {}, 0), d.bMbxRunning,
         Len(d.sMbxReceiveQueue) <= 1,
         NEW e, e = MBX_MailboxRepeatReq(d)
  PROVE  Owner(e, {}, 0) /\ Same(d, e)
<1> DEFINE rep == d.psRepeatMbx
           read == d.psReadMbx
           q == d.sMbxSendQueue
           toggle == ~d.bMbxRepeatToggle
           m == d.mem[rep]
<1>1. /\ d \in Slave /\ Pointing(d) /\ d.bSendMbxIsFull \in BOOLEAN
      /\ rep \in Held /\ read \in Held /\ NoBuf \in Held
      /\ q \in Seq(Buffers) /\ d.mem \in [Buffers -> Message]
      /\ toggle \in BOOLEAN /\ Len(d.sMbxReceiveQueue) \in Nat
  <2>1. d \in Slave /\ Pointing(d)
    BY DEF Owner
  <2>2. d.sMbxReceiveQueue \in Seq(Buffers)
    BY <2>1 DEF Slave
  <2>3. Len(d.sMbxReceiveQueue) \in Nat
    BY <2>2, LenProperties
  <2> QED  BY <2>1, <2>3 DEF Slave, Held
<1>2. CASE rep = NoBuf
  <2>1. e = Toggled(d, toggle)
    BY <1>2 DEF MBX_MailboxRepeatReq, Toggled
  <2> HIDE DEF toggle
  <2>2. e \in Slave /\ Same(d, e) /\ SameSend(d, e) /\ e.mem = d.mem
    BY <1>1, <2>1, ToggledFields
  <2> QED  BY <2>2, SameOwner
<1>3. CASE rep # NoBuf
  <2> DEFINE store == IF d.bSendMbxIsFull THEN read ELSE NoBuf
             x == Shifted(d, d.mem, NoBuf, rep, store, q, m, TRUE, FALSE)
  <2>1. d.psStoreMbx = NoBuf
    BY <1>1, <1>3 DEF Pointing
  <2>2. e = Toggled(x, toggle)
    <3>1. CASE d.bSendMbxIsFull
      BY <1>1, <1>3, <2>1, <3>1, ZenonT(60)
         DEF MBX_MailboxRepeatReq, MBX_CanCopy, MBX_CopyToSendMailbox,
             Toggled, Shifted, Slave
    <3>2. CASE ~d.bSendMbxIsFull
      <4>1. d.sm1 = NoMsg
        BY <1>1, <3>2 DEF Pointing
      <4> QED
        BY <1>1, <1>3, <2>1, <3>2, <4>1, ZenonT(60)
           DEF MBX_MailboxRepeatReq, MBX_CanCopy, MBX_CopyToSendMailbox,
               Toggled, Shifted, Slave
    <3> QED  BY <1>1, <3>1, <3>2
  <2>3. /\ rep \in Buffers /\ rep \in Pointers(d) /\ store \in Held
        /\ rep \notin Rng(d.sMbxReceiveQueue)
    BY <1>1, <1>3 DEF Owner, Disjoint, Pointers, Held
  <2>4. m \in {NoMsg} \cup Responses
    BY <2>3 DEF Owner, Memory
  <2>5. IsShifted(d, d.mem, NoBuf, rep, store, q, m, TRUE, FALSE, x)
    <3>1. d.mem \in [Buffers -> Message] /\ d \in Slave /\ q \in Seq(Buffers)
          /\ rep \in Held /\ NoBuf \in Held
      BY <1>1
    <3> HIDE DEF m, store, q, rep
    <3> QED  BY <2>3, <2>4, <3>1, ShiftedFields
  <2> HIDE DEF toggle, x
  <2>6. x \in Slave
    BY <2>5 DEF IsShifted
  <2>7. e \in Slave /\ Same(x, e) /\ SameSend(x, e) /\ e.mem = x.mem
    BY <1>1, <2>2, <2>6, ToggledFields
  <2> HIDE DEF m, store
  <2>8. /\ Same(d, e) /\ e.mem = d.mem /\ e.sMbxSendQueue = q
        /\ Pointers(e) = {NoBuf, rep, store}
        /\ e.psRepeatMbx = NoBuf /\ e.psReadMbx = rep
        /\ e.psStoreMbx = store
        /\ e.bSendMbxIsFull = TRUE /\ e.readEvent = FALSE
    BY <2>5, <2>7 DEF IsShifted, Same, SameSend, Pointers
  <2>9. Sending(e) = Rng(q) \cup {NoBuf, rep, store}
    BY <2>8 DEF Sending
  <2>10. /\ Rng(q) \subseteq Buffers /\ NoBuf \notin Rng(q)
         /\ read \notin Rng(q) /\ rep \notin Rng(q)
         /\ Sending(d) = Rng(q) \cup {rep, read, NoBuf}
    BY <1>1, <2>1, RngIn DEF Owner, Disjoint, Pointers, Sending
  <2>11. store = read \/ (store = NoBuf /\ read = rep)
    BY <1>1 DEF store, Pointing
  <2>12. Sending(e) = Sending(d)
    BY <2>9, <2>10, <2>11
  <2>13. Pointing(e)
    BY <1>1, <1>3, <2>8 DEF Pointing, store, Same
  <2>14. Rng(e.sMbxSendQueue) \cap Pointers(e) = {}
    BY <2>8, <2>10, <2>11
  <2>15. Load(e, 0)
    <3>1. CASE d.bSendMbxIsFull
      <4>1. e.bSendMbxIsFull = d.bSendMbxIsFull
        BY <1>1, <2>8, <3>1
      <4> QED  BY <2>8, <4>1 DEF Owner, Load, Same
    <3>2. CASE ~d.bSendMbxIsFull
      <4> DEFINE n == Len(d.sMbxReceiveQueue)
      <4>1. e.sMbxSendQueue = <<>>
        BY <1>1, <2>8, <3>2 DEF Pointing
      <4>2. Len(e.sMbxSendQueue) = 0
        BY <4>1, EmptySeq
      <4>3. n \in Nat /\ n <= 1 /\ Len(e.sMbxReceiveQueue) = n
        BY <1>1, <2>8 DEF Same
      <4>4. (e.writeEvent \/ e.bReceiveMbxIsLocked) => e.sm0 # NoMsg
        BY <2>8 DEF Owner, Load, Same
      <4>5. e.bMbxRunning
        BY <2>8 DEF Same
      <4> HIDE DEF n
      <4>6. n + 0 <= 2 /\ 0 <= 1 /\ n + 0 + 0 <= 1
        BY <4>3
      <4> QED  BY <4>2, <4>3, <4>4, <4>5, <4>6 DEF Load
    <3> QED  BY <1>1, <3>1, <3>2
  <2> QED  BY <2>7, <2>8, <2>12, <2>13, <2>14, <2>15, ShiftOwner
<1> QED  BY <1>2, <1>3

Stopped(d, mem) ==
  [d EXCEPT
     !.sm0 = NoMsg, !.sm1 = NoMsg,
     !.writeEvent = FALSE, !.readEvent = FALSE, !.rptAck = FALSE,
     !.bMbxRunning = FALSE, !.bSendMbxIsFull = FALSE,
     !.bReceiveMbxIsLocked = FALSE, !.u8MailboxSendReqStored = FALSE,
     !.bMbxRepeatToggle = FALSE,
     !.u8MbxWriteCounter = 0, !.u8MbxReadCounter = 0,
     !.psRepeatMbx = NoBuf, !.psReadMbx = NoBuf, !.psStoreMbx = NoBuf,
     !.sMbxReceiveQueue = <<>>, !.sMbxSendQueue = <<>>,
     !.mem = mem, !.made = 0, !.al = "none"]

LEMMA StoppedFields ==
  ASSUME NEW d \in Slave, NEW mem \in [Buffers -> Message]
  PROVE  Stopped(d, mem) \in Slave
<1>1. 0 \in 0..COUNTERS /\ 0 \in 0..COUNTERS + 1
  BY MailboxAssumptions
<1>2. NoBuf \in Held /\ <<>> \in Seq(Buffers)
  BY EmptySeq DEF Held
<1> DEFINE a == [d EXCEPT
             !.sm0 = NoMsg, !.sm1 = NoMsg,
             !.writeEvent = FALSE, !.readEvent = FALSE, !.rptAck = FALSE,
             !.bMbxRunning = FALSE, !.bSendMbxIsFull = FALSE,
             !.bReceiveMbxIsLocked = FALSE,
             !.u8MailboxSendReqStored = FALSE,
             !.bMbxRepeatToggle = FALSE]
           b == [a EXCEPT
             !.u8MbxWriteCounter = 0, !.u8MbxReadCounter = 0,
             !.psRepeatMbx = NoBuf, !.psReadMbx = NoBuf,
             !.psStoreMbx = NoBuf]
           c == [b EXCEPT
             !.sMbxReceiveQueue = <<>>, !.sMbxSendQueue = <<>>,
             !.mem = mem, !.made = 0, !.al = "none"]
<1>3. Stopped(d, mem) = c
  BY DEF Stopped
<1>4. a \in Slave
  BY ZenonT(60) DEF Slave
<1> HIDE DEF a
<1>5. b \in Slave
  BY <1>1, <1>2, <1>4 DEF Slave
<1> HIDE DEF b
<1>6. c \in Slave
  BY <1>2, <1>5 DEF Slave
<1> QED  BY <1>3, <1>6

(* A stop leaves no buffer allocated. *)
LEMMA StopOwner ==
  ASSUME NEW d, Owner(d, {}, 0), NEW e,
         e = [MBX_StopMailboxHandler(d) EXCEPT !.al = "none"]
  PROVE  Owner(e, {}, 0) /\ e.sMbxReceiveQueue = <<>>
<1> DEFINE owned == {d.psRepeatMbx, d.psStoreMbx, d.psReadMbx}
                 \cup {d.sMbxReceiveQueue[i] : i \in DOMAIN d.sMbxReceiveQueue}
                 \cup {d.sMbxSendQueue[i] : i \in DOMAIN d.sMbxSendQueue}
           none == Release(d.mem, owned)
<1>1. d \in Slave /\ d.mem \in [Buffers -> Message]
  BY DEF Owner, Slave
<1>2. /\ none \in [Buffers -> Message]
      /\ \A c \in Buffers : none[c] = NoMsg
  <2>1. owned = Rng(d.sMbxReceiveQueue) \cup Rng(d.sMbxSendQueue)
                  \cup Pointers(d)
    BY DEF Rng, Pointers
  <2> HIDE DEF owned
  <2>2. \A c \in Buffers : c \notin owned => d.mem[c] = NoMsg
    BY <2>1 DEF Owner, Memory
  <2> QED  BY <1>1, <2>2 DEF Release, Message
<1>3. <<>> \in Seq(Buffers) /\ Rng(<<>>) = {} /\ Len(<<>>) = 0
  BY EmptySeq, RngEmpty
<1> HIDE DEF owned
<1>4. /\ e.sm0 = NoMsg /\ e.sm1 = NoMsg /\ ~e.writeEvent /\ ~e.readEvent
      /\ ~e.bMbxRunning /\ ~e.bSendMbxIsFull /\ ~e.bReceiveMbxIsLocked
      /\ e.psRepeatMbx = NoBuf /\ e.psReadMbx = NoBuf
      /\ e.psStoreMbx = NoBuf
      /\ e.sMbxReceiveQueue = <<>> /\ e.sMbxSendQueue = <<>>
      /\ e.mem = none
  BY <1>1 DEF MBX_StopMailboxHandler, Slave, owned
<1> HIDE DEF none
<1>5. e \in Slave
  <2>1. COUNTERS \in Nat /\ 0 \in 0..COUNTERS /\ 0 \in 0..COUNTERS + 1
    BY MailboxAssumptions
  <2>2. NoBuf \in Held
    BY DEF Held
  <2>3. e = Stopped(d, none)
    BY <1>1 DEF MBX_StopMailboxHandler, Slave, owned, none, Stopped
  <2> QED  BY <1>1, <1>2, <1>3, <2>1, <2>2, <2>3, StoppedFields
<1>6. Pointers(e) = {NoBuf} /\ NoBuf \notin Buffers
  BY <1>4, MailboxAssumptions DEF Pointers, NoBuf
<1>7. Disjoint(e, {})
  BY <1>3, <1>4 DEF Disjoint
<1>8. Memory(e, {})
  BY <1>2, <1>3, <1>4, <1>6 DEF Memory
<1>9. Pointing(e)
  BY <1>4 DEF Pointing
<1>10. Load(e, 0)
  <2>1. 0 + 0 <= 2 /\ 0 <= 1 /\ 0 + 0 + 0 <= 1
    OBVIOUS
  <2> QED  BY <1>3, <1>4, <2>1 DEF Load
<1> QED  BY <1>4, <1>5, <1>7, <1>8, <1>9, <1>10 DEF Owner

-----------------------------------------------------------------------------
(* The ESC and the master *)

IsEsc(d, sm0, sm1, we, re, run, e) ==
  /\ e \in Slave
  /\ e.sm0 = sm0 /\ e.sm1 = sm1 /\ e.writeEvent = we /\ e.readEvent = re
  /\ e.bMbxRunning = run
  /\ e.mem = d.mem /\ e.bSendMbxIsFull = d.bSendMbxIsFull
  /\ e.bReceiveMbxIsLocked = d.bReceiveMbxIsLocked
  /\ e.psRepeatMbx = d.psRepeatMbx /\ e.psReadMbx = d.psReadMbx
  /\ e.psStoreMbx = d.psStoreMbx
  /\ e.sMbxReceiveQueue = d.sMbxReceiveQueue
  /\ e.sMbxSendQueue = d.sMbxSendQueue

LEMMA EscWriteFields ==
  ASSUME NEW d \in Slave, NEW m \in Requests, NEW e,
         e = [d EXCEPT !.sm0 = m, !.writeEvent = TRUE]
  PROVE  IsEsc(d, m, d.sm1, TRUE, d.readEvent, d.bMbxRunning, e)
BY DEF Slave, IsEsc

LEMMA EscReadFields ==
  ASSUME NEW d \in Slave, NEW e,
         e = [d EXCEPT !.sm1 = NoMsg, !.readEvent = TRUE]
  PROVE  IsEsc(d, d.sm0, NoMsg, d.writeEvent, TRUE, d.bMbxRunning, e)
BY DEF Slave, IsEsc

LEMMA EscControlFields ==
  ASSUME NEW d \in Slave, NEW e,
         \/ e = [d EXCEPT !.rptReq = ~@]
         \/ e = [d EXCEPT !.al = "PREOP", !.rptReq = FALSE]
         \/ e = [d EXCEPT !.al = "INIT"]
  PROVE  IsEsc(d, d.sm0, d.sm1, d.writeEvent, d.readEvent, d.bMbxRunning, e)
<1>1. CASE e = [d EXCEPT !.rptReq = ~@]
  BY <1>1, ZenonT(60) DEF Slave, IsEsc
<1>2. CASE e = [d EXCEPT !.al = "PREOP", !.rptReq = FALSE]
  BY <1>2, ZenonT(60) DEF Slave, IsEsc
<1>3. CASE e = [d EXCEPT !.al = "INIT"]
  BY <1>3, ZenonT(60) DEF Slave, IsEsc
<1> QED  BY <1>1, <1>2, <1>3

LEMMA EscStartFields ==
  ASSUME NEW d \in Slave, NEW e,
         e = [d EXCEPT !.al = "none", !.bMbxRunning = TRUE]
  PROVE  IsEsc(d, d.sm0, d.sm1, d.writeEvent, d.readEvent, TRUE, e)
BY ZenonT(60) DEF Slave, IsEsc

(* What arrives at or leaves the ESC touches no buffer of the slave. *)
LEMMA EscOwner ==
  ASSUME NEW d, Owner(d, {}, 0), NEW sm0, NEW sm1, NEW we, NEW re,
         NEW run, NEW e, IsEsc(d, sm0, sm1, we, re, run, e),
         sm1 = d.sm1 \/ sm1 = NoMsg,
         re = d.readEvent \/ (re = TRUE /\ sm1 = NoMsg /\ d.bSendMbxIsFull),
         run = d.bMbxRunning \/ run = TRUE,
         sm0 = d.sm0 \/ (sm0 # NoMsg /\ d.bMbxRunning),
         we = d.writeEvent \/ sm0 # NoMsg
  PROVE  Owner(e, {}, 0)
<1>1. Pointers(e) = Pointers(d)
  BY DEF IsEsc, Pointers
<1>2. Disjoint(e, {}) /\ Memory(e, {})
  BY <1>1 DEF Owner, Disjoint, Memory, IsEsc
<1>3. Pointing(e)
  BY DEF Owner, Pointing, IsEsc
<1>4. Load(e, 0)
  BY DEF Owner, Load, IsEsc
<1> QED  BY <1>2, <1>3, <1>4 DEF Owner, IsEsc

(* One step of the ESC or the master, or the start of the mailbox. *)
EscStep(d, e) ==
  \/ \E m \in Requests : /\ d.bMbxRunning
                         /\ e = [d EXCEPT !.sm0 = m, !.writeEvent = TRUE]
  \/ d.sm1 # NoMsg /\ e = [d EXCEPT !.sm1 = NoMsg, !.readEvent = TRUE]
  \/ e = [d EXCEPT !.rptReq = ~@]
  \/ e = [d EXCEPT !.al = "PREOP", !.rptReq = FALSE]
  \/ e = [d EXCEPT !.al = "INIT"]
  \/ e = [d EXCEPT !.al = "none", !.bMbxRunning = TRUE]

LEMMA RequestNotEmpty == \A m \in Requests \cup Responses : m # NoMsg
BY DEF Requests, Responses, NoMsg

LEMMA EscStepOwner ==
  ASSUME NEW d, Owner(d, {}, 0), NEW e, EscStep(d, e)
  PROVE  /\ Owner(e, {}, 0)
         /\ e.sMbxReceiveQueue = d.sMbxReceiveQueue
         /\ d.readEvent => e.readEvent
         /\ d.bMbxRunning => e.bMbxRunning
<1>1. d \in Slave
  BY DEF Owner
<1>2. CASE \E m \in Requests :
              /\ d.bMbxRunning
              /\ e = [d EXCEPT !.sm0 = m, !.writeEvent = TRUE]
  <2>1. PICK m \in Requests :
              /\ d.bMbxRunning
              /\ e = [d EXCEPT !.sm0 = m, !.writeEvent = TRUE]
    BY <1>2
  <2>2. IsEsc(d, m, d.sm1, TRUE, d.readEvent, d.bMbxRunning, e)
    BY <1>1, <2>1, EscWriteFields
  <2>3. m # NoMsg
    BY <2>1, RequestNotEmpty
  <2>4. Owner(e, {}, 0)
    BY <2>1, <2>2, <2>3, EscOwner
  <2> QED  BY <2>2, <2>4 DEF IsEsc
<1>3. CASE d.sm1 # NoMsg /\ e = [d EXCEPT !.sm1 = NoMsg, !.readEvent = TRUE]
  <2>1. IsEsc(d, d.sm0, NoMsg, d.writeEvent, TRUE, d.bMbxRunning, e)
    BY <1>1, <1>3, EscReadFields
  <2>2. d.bSendMbxIsFull
    BY <1>3 DEF Owner, Pointing
  <2>3. Owner(e, {}, 0)
    BY <2>1, <2>2, EscOwner
  <2> QED  BY <2>1, <2>3 DEF IsEsc
<1>4. CASE \/ e = [d EXCEPT !.rptReq = ~@]
           \/ e = [d EXCEPT !.al = "PREOP", !.rptReq = FALSE]
           \/ e = [d EXCEPT !.al = "INIT"]
  <2>1. IsEsc(d, d.sm0, d.sm1, d.writeEvent, d.readEvent, d.bMbxRunning, e)
    BY <1>1, <1>4, EscControlFields
  <2>2. Owner(e, {}, 0)
    BY <2>1, EscOwner
  <2> QED  BY <2>1, <2>2 DEF IsEsc
<1>5. CASE e = [d EXCEPT !.al = "none", !.bMbxRunning = TRUE]
  <2>1. IsEsc(d, d.sm0, d.sm1, d.writeEvent, d.readEvent, TRUE, e)
    BY <1>1, <1>5, EscStartFields
  <2>2. Owner(e, {}, 0)
    BY <2>1, EscOwner
  <2> QED  BY <2>1, <2>2 DEF IsEsc
<1> QED  BY <1>2, <1>3, <1>4, <1>5 DEF EscStep

-----------------------------------------------------------------------------
(* The invariant *)

LEMMA Initial ==
  ASSUME Undivided, Init
  PROVE  IInv
<1>1. /\ COUNTERS \in Nat /\ 0 \in 0..COUNTERS /\ 0 \in 0..COUNTERS + 1
      /\ NoBuf \in Held /\ NoBuf \notin Buffers
  BY MailboxAssumptions DEF Held, NoBuf
<1>2. <<>> \in Seq(Buffers) /\ <<>> \in Seq(Req) /\ Rng(<<>>) = {}
      /\ Len(<<>>) = 0
  BY EmptySeq, RngEmpty
<1>3. [b \in Buffers |-> NoMsg] \in [Buffers -> Message]
  BY DEF Message
<1>4. dev \in Slave
  BY <1>1, <1>2, <1>3 DEF Init, Slave
<1>5. mst \in Master
  BY <1>1, <1>2 DEF Init, Master
<1>6. /\ dev.sMbxReceiveQueue = <<>> /\ dev.sMbxSendQueue = <<>>
      /\ Pointers(dev) = {NoBuf}
      /\ \A b \in Buffers : dev.mem[b] = NoMsg
      /\ ~dev.writeEvent /\ ~dev.bReceiveMbxIsLocked /\ ~dev.readEvent
      /\ ~dev.bMbxRunning /\ ~dev.bSendMbxIsFull
      /\ dev.sm0 = NoMsg /\ dev.sm1 = NoMsg
      /\ dev.psStoreMbx = NoBuf /\ dev.psReadMbx = dev.psRepeatMbx
  BY DEF Init, Pointers
<1>7. Disjoint(dev, {}) /\ Memory(dev, {})
  BY <1>1, <1>2, <1>6 DEF Disjoint, Memory
<1>8. Pointing(dev)
  BY <1>6 DEF Pointing
<1>9. Load(dev, 0)
  <2>1. 0 + 0 <= 2 /\ 0 <= 1 /\ 0 + 0 + 0 <= 1
    OBVIOUS
  <2> QED  BY <1>2, <1>6, <2>1 DEF Load
<1>10. Cycle
  BY DEF Init, Cycle
<1> QED  BY <1>4, <1>5, <1>7, <1>8, <1>9, <1>10 DEF IInv, Owner

(* Steps of the ESC and the master, ECAT_Main standing still. *)
LEMMA Surroundings ==
  ASSUME IInv, UNCHANGED slave, mst' \in Master,
         UNCHANGED dev \/ EscStep(dev, dev')
  PROVE  IInv'
<1>1. CASE UNCHANGED dev
  BY <1>1, ZenonT(60)
    DEF IInv, Cycle, slave, Owner, Disjoint, Memory, Pointing, Load, Pointers
<1>2. CASE EscStep(dev, dev')
  <2>1. /\ Owner(dev', {}, 0)
        /\ dev'.sMbxReceiveQueue = dev.sMbxReceiveQueue
        /\ dev.readEvent => dev'.readEvent
        /\ dev.bMbxRunning => dev'.bMbxRunning
    BY <1>2, EscStepOwner DEF IInv
  <2>2. Cycle'
    BY <2>1 DEF IInv, Cycle, slave
  <2> QED  BY <2>1, <2>2 DEF IInv
<1> QED  BY <1>1, <1>2

LEMMA MainStep == IInv /\ ECAT_Main => IInv'
<1> SUFFICES ASSUME IInv, ECAT_Main  PROVE  IInv'
  OBVIOUS
<1>1. /\ Cycle /\ Owner(dev, {}, 0) /\ dev \in Slave /\ Load(dev, 0)
      /\ mst \in Master
  BY DEF IInv, Owner
<1>2. /\ dev.readEvent \in BOOLEAN /\ dev.rptReq \in BOOLEAN
      /\ dev.bMbxRunning \in BOOLEAN /\ dev.al \in {"none", "INIT", "PREOP"}
      /\ dev.sMbxReceiveQueue \in Seq(Buffers)
  BY <1>1 DEF Slave
<1>3. Len(dev.sMbxReceiveQueue) \in Nat /\ Len(<<>>) = 0
  BY <1>2, LenProperties, EmptySeq
<1>4. CASE ServeRequest
  <2> DEFINE b == Head(dev.sMbxReceiveQueue)
             p == [dev EXCEPT !.sMbxReceiveQueue = Tail(@)]
  <2>1. /\ b \in Buffers /\ Owner(p, {b}, 1)
        /\ p.mem[b] \in Requests /\ p.bMbxRunning
    BY <1>1, <1>4, PopOwner DEF ServeRequest
  <2>2. dev' = MailboxServiceInd(p, b)
    BY <1>4 DEF ServeRequest
  <2> HIDE DEF b, p
  <2>3. Owner(dev', {}, 0)
    BY <2>1, <2>2, ServeOwner
  <2>4. Cycle' /\ mst' = mst
    BY <1>1, <1>4 DEF ServeRequest, Cycle, Step
  <2> QED  BY <1>1, <2>3, <2>4 DEF IInv
<1>5. CASE CheckLocked
  <2>1. dev.sMbxReceiveQueue = <<>> /\ Len(dev.sMbxReceiveQueue) = 0
    BY <1>3, <1>5 DEF CheckLocked
  <2>2. Owner(dev', {}, 0) /\ Len(dev'.sMbxReceiveQueue) <= 1
    <3>1. CASE dev.bReceiveMbxIsLocked
      <4>1. dev' = MBX_CheckAndCopyMailbox(dev)
        BY <1>5, <3>1 DEF CheckLocked
      <4>2. dev.sm0 # NoMsg /\ dev.bMbxRunning
        BY <1>1, <3>1 DEF Load
      <4>3. Len(dev.sMbxReceiveQueue) <= 1
        BY <2>1
      <4>4. /\ Owner(dev', {}, 0)
            /\ \/ dev'.sMbxReceiveQueue = dev.sMbxReceiveQueue
               \/ Len(dev'.sMbxReceiveQueue)
                    <= Len(dev.sMbxReceiveQueue) + 1
        BY <1>1, <4>1, <4>2, <4>3, TakeOwner
      <4> QED  BY <2>1, <4>4
    <3>2. CASE ~dev.bReceiveMbxIsLocked
      BY <1>1, <1>5, <2>1, <3>2 DEF CheckLocked
    <3> QED  BY <3>1, <3>2
  <2>3. Cycle' /\ mst' = mst
    BY <1>1, <1>5, <2>2 DEF CheckLocked, Cycle, Step
  <2> QED  BY <1>1, <2>2, <2>3 DEF IInv
<1>6. CASE ReadSm1
  <2>1. Cycle' /\ mst' = mst /\ dev' = dev
    BY <1>1, <1>2, <1>6 DEF ReadSm1, Cycle, Step
  <2> QED  BY <1>1, <2>1 DEF IInv
<1>7. CASE ReadEvents
  <2>1. Cycle' /\ mst' = mst /\ dev' = dev
    BY <1>1, <1>2, <1>7 DEF ReadEvents, Cycle, Step
  <2> QED  BY <1>1, <2>1 DEF IInv
<1>8. CASE INIT_2_PREOP
  <2>1. dev' = [dev EXCEPT !.al = "none", !.bMbxRunning = TRUE]
    BY <1>8 DEF INIT_2_PREOP
  <2>2. EscStep(dev, dev')
    BY <2>1 DEF EscStep
  <2>3. /\ Owner(dev', {}, 0)
        /\ dev'.sMbxReceiveQueue = dev.sMbxReceiveQueue
        /\ dev.readEvent => dev'.readEvent
    BY <1>1, <2>2, EscStepOwner
  <2>4. dev'.bMbxRunning
    BY <1>1, <2>1 DEF Slave
  <2>5. Cycle' /\ mst' = mst
    BY <1>1, <1>8, <2>3, <2>4 DEF INIT_2_PREOP, Cycle, Step
  <2> QED  BY <1>1, <2>3, <2>5 DEF IInv
<1>9. CASE PREOP_2_INIT
  <2>1. dev' = [MBX_StopMailboxHandler(dev) EXCEPT !.al = "none"]
    BY <1>9 DEF PREOP_2_INIT
  <2>2. Owner(dev', {}, 0)
    BY <1>1, <2>1, StopOwner
  <2>3. Cycle'
    BY <1>1, <1>9 DEF PREOP_2_INIT, Cycle, Step
  <2>4. mst' \in Master
    <3>1. <<>> \in Seq(Req) /\ 0 \in 0..COUNTERS
      BY EmptySeq, MailboxAssumptions
    <3>2. mst' = [[mst EXCEPT !.writing = NoMsg, !.cnt = 0, !.phase = "poll",
                              !.last = 0, !.open = <<>>] EXCEPT !.got = 0]
      BY <1>9 DEF PREOP_2_INIT, FreshMaster
    <3> QED  BY <1>1, <3>1, <3>2 DEF Master
  <2> QED  BY <2>2, <2>3, <2>4 DEF IInv
<1>10. CASE NoTransition
  <2>1. Cycle' /\ mst' = mst /\ dev' = dev
    BY <1>1, <1>2, <1>10 DEF NoTransition, Cycle, Step
  <2> QED  BY <1>1, <2>1 DEF IInv
<1>11. CASE HandleReadEvent
  <2>1. CASE ALEventReg.read
    <3>1. dev' = MBX_MailboxReadInd([dev EXCEPT !.readEvent = FALSE])
      BY <1>11, <2>1 DEF HandleReadEvent
    <3>2. dev.readEvent
      BY <1>1, <1>11, <2>1 DEF HandleReadEvent, Cycle, Step
    <3>3. Owner(dev', {}, 0) /\ Same(dev, dev')
      BY <1>1, <3>1, <3>2, ReadOwner
    <3>4. Cycle' /\ mst' = mst
      BY <1>1, <1>11, <3>3 DEF HandleReadEvent, Cycle, Step, Same
    <3> QED  BY <1>1, <3>3, <3>4 DEF IInv
  <2>2. CASE ~ALEventReg.read
    <3>1. Cycle' /\ mst' = mst /\ dev' = dev
      BY <1>1, <1>11, <2>2 DEF HandleReadEvent, Cycle, Step
    <3> QED  BY <1>1, <3>1 DEF IInv
  <2> QED  BY <2>1, <2>2
<1>12. CASE HandleRepeat
  <2>1. CASE sm1Activate # dev.bMbxRepeatToggle
    <3>1. dev' = MBX_MailboxRepeatReq(dev)
      BY <1>12, <2>1 DEF HandleRepeat
    <3>2. dev.bMbxRunning /\ Len(dev.sMbxReceiveQueue) <= 1
      BY <1>1, <1>12 DEF HandleRepeat, Cycle, Step
    <3>3. Owner(dev', {}, 0) /\ Same(dev, dev')
      BY <1>1, <3>1, <3>2, RepeatOwner
    <3>4. Cycle' /\ mst' = mst
      BY <1>1, <1>12, <3>3 DEF HandleRepeat, Cycle, Step, Same
    <3> QED  BY <1>1, <3>3, <3>4 DEF IInv
  <2>2. CASE sm1Activate = dev.bMbxRepeatToggle
    <3>1. Cycle' /\ mst' = mst /\ dev' = dev
      BY <1>1, <1>12, <2>2 DEF HandleRepeat, Cycle, Step
    <3> QED  BY <1>1, <3>1 DEF IInv
  <2> QED  BY <2>1, <2>2
<1>13. CASE HandleWriteEvent
  <2>1. Owner(dev', {}, 0)
    <3>1. CASE dev.writeEvent
      <4>1. dev' = MBX_CheckAndCopyMailbox(dev)
        BY <1>13, <3>1 DEF HandleWriteEvent
      <4>2. dev.sm0 # NoMsg
        BY <1>1, <3>1 DEF Load
      <4>3. dev.bMbxRunning /\ Len(dev.sMbxReceiveQueue) <= 1
        BY <1>1, <1>13 DEF HandleWriteEvent, Cycle, Step
      <4> QED  BY <1>1, <4>1, <4>2, <4>3, TakeOwner
    <3>2. CASE ~dev.writeEvent
      BY <1>1, <1>13, <3>2 DEF HandleWriteEvent
    <3> QED  BY <3>1, <3>2
  <2>2. Cycle' /\ mst' = mst
    BY <1>1, <1>13 DEF HandleWriteEvent, Cycle, Step
  <2> QED  BY <1>1, <2>1, <2>2 DEF IInv
<1> QED  BY <1>4, <1>5, <1>6, <1>7, <1>8, <1>9, <1>10, <1>11, <1>12, <1>13
         DEF ECAT_Main

Asked(m, asked, open, cnt, msg) ==
  [m EXCEPT !.asked = asked, !.open = open, !.cnt = cnt, !.writing = msg]
Got(m, cnt, no, open) ==
  [m EXCEPT !.last = cnt, !.got = no, !.open = open]

LEMMA MasterFields ==
  ASSUME NEW m \in Master, NEW open \in Seq(Req)
  PROVE  /\ \A asked \in Nat, cnt \in 0..COUNTERS,
               msg \in {NoMsg} \cup Requests :
              Asked(m, asked, open, cnt, msg) \in Master
         /\ \A cnt, no \in Nat : Got(m, cnt, no, open) \in Master
<1>1. ASSUME NEW asked \in Nat, NEW cnt \in 0..COUNTERS,
             NEW msg \in {NoMsg} \cup Requests
      PROVE  Asked(m, asked, open, cnt, msg) \in Master
  BY DEF Master, Asked
<1>2. ASSUME NEW cnt \in Nat, NEW no \in Nat
      PROVE  Got(m, cnt, no, open) \in Master
  BY DEF Master, Got
<1> QED  BY <1>1, <1>2

LEMMA MasterStep ==
  ASSUME IInv,
         \/ Ask \/ WriteRequest(FALSE) \/ WriteRequest(TRUE)
         \/ ReadResponse \/ LoseRead \/ ToggleRepeat \/ SeeRepeatAck
         \/ RequestPreop \/ RequestInit
  PROVE  IInv'
<1>1. /\ mst \in Master /\ dev \in Slave
      /\ COUNTERS \in Nat /\ Kinds \subseteq RequestKinds
  BY MailboxAssumptions DEF IInv, Owner
<1>2. /\ mst.writing \in {NoMsg} \cup Requests /\ mst.open \in Seq(Req)
      /\ mst.asked \in Nat /\ mst.cnt \in 0..COUNTERS
      /\ mst.losses \in Nat /\ mst.stops \in Nat
      /\ dev.sm1 \in {NoMsg} \cup Responses
  BY <1>1 DEF Master, Slave
<1>3. CASE Ask
  <2>1. PICK kind \in Kinds :
          LET req == [kind |-> kind, n |-> mst.asked + 1]
          IN mst' = [mst EXCEPT !.asked = @ + 1,
                                !.open = Append(@, req),
                                !.cnt = NextCounter(@),
                                !.writing = Request(req, NextCounter(mst.cnt))]
    BY <1>3 DEF Ask
  <2> DEFINE req == [kind |-> kind, n |-> mst.asked + 1]
             cnt == NextCounter(mst.cnt)
             open == Append(mst.open, req)
             msg == Request(req, cnt)
  <2>2. req \in Req
    BY <1>1, <1>2 DEF Req
  <2>3. cnt \in 0..COUNTERS
    <3>1. mst.cnt % COUNTERS \in 0..(COUNTERS - 1)
      <4>1. mst.cnt \in Int /\ COUNTERS \in Nat \ {0}
        BY <1>2, MailboxAssumptions
      <4> QED  BY <4>1
    <3> QED  BY <1>1, <3>1 DEF NextCounter
  <2>4. open \in Seq(Req) /\ msg \in Requests
    BY <1>2, <2>2, <2>3, AppendProperties DEF Requests, Request
  <2>5. mst' = [mst EXCEPT !.asked = mst.asked + 1, !.open = open,
                           !.cnt = cnt, !.writing = msg]
    BY <2>1
  <2> HIDE DEF req, cnt, open, msg
  <2>6. mst' \in Master
    <3>1. mst.asked + 1 \in Nat
      BY <1>2
    <3>2. mst' = Asked(mst, mst.asked + 1, open, cnt, msg)
      BY <2>5 DEF Asked
    <3>3. msg \in {NoMsg} \cup Requests
      BY <2>4
    <3> QED  BY <1>1, <2>3, <2>4, <3>1, <3>2, <3>3, MasterFields
  <2>7. UNCHANGED slave /\ UNCHANGED dev
    BY <1>3 DEF Ask
  <2> QED  BY <2>6, <2>7, Surroundings
<1>4. ASSUME NEW lost \in BOOLEAN, WriteRequest(lost)
      PROVE  IInv'
  <2>1. mst' \in Master
    <3>1. CASE lost
      <4>1. mst' = [mst EXCEPT !.losses = mst.losses + 1]
        BY <1>4, <3>1 DEF WriteRequest
      <4> QED  BY <1>1, <1>2, <4>1, SMTT(30) DEF Master
    <3>2. CASE ~lost
      <4>1. mst' = [mst EXCEPT !.writing = NoMsg]
        BY <1>4, <3>2 DEF WriteRequest
      <4> QED  BY <1>1, <4>1 DEF Master
    <3> QED  BY <3>1, <3>2
  <2>2. EscStep(dev, dev')
    BY <1>2, <1>4 DEF WriteRequest, InSession, EscStep
  <2> QED  BY <1>4, <2>1, <2>2, Surroundings DEF WriteRequest
<1>5. CASE ReadResponse
  <2>1. dev.sm1 \in Responses
    BY <1>2, <1>5 DEF ReadResponse
  <2>2. dev.sm1.cnt \in Nat /\ dev.sm1.no \in Nat
    BY <2>1 DEF Responses
  <2>3. mst' \in Master
    <3> DEFINE open == IF dev.sm1.left = 0 /\ mst.open # <<>>
                       THEN Tail(mst.open) ELSE mst.open
    <3>1. open \in Seq(Req)
      BY <1>2, HeadTailProperties
    <3>2. \/ mst' = mst
          \/ mst' = Got(mst, dev.sm1.cnt, dev.sm1.no, open)
      BY <1>1, <1>5 DEF ReadResponse, Accepted, Master, Got
    <3> HIDE DEF open
    <3>3. Got(mst, dev.sm1.cnt, dev.sm1.no, open) \in Master
      BY <1>1, <2>2, <3>1, MasterFields
    <3> QED  BY <1>1, <3>2, <3>3
  <2>4. EscStep(dev, dev')
    BY <1>5 DEF ReadResponse, EscStep
  <2> QED  BY <1>5, <2>3, <2>4, Surroundings DEF ReadResponse
<1>6. CASE LoseRead
  <2>1. mst' \in Master
    <3>1. mst' = [mst EXCEPT !.phase = "toggle", !.losses = mst.losses + 1]
      BY <1>6 DEF LoseRead
    <3>2. mst.losses + 1 \in Nat
      BY <1>2
    <3> QED  BY <1>1, <3>1, <3>2 DEF Master
  <2>2. UNCHANGED dev \/ EscStep(dev, dev')
    BY <1>6 DEF LoseRead, EscStep
  <2> QED  BY <1>6, <2>1, <2>2, Surroundings DEF LoseRead
<1>7. CASE ToggleRepeat
  <2>1. mst' \in Master
    BY <1>1, <1>7 DEF ToggleRepeat, Master
  <2>2. EscStep(dev, dev')
    BY <1>7 DEF ToggleRepeat, EscStep
  <2> QED  BY <1>7, <2>1, <2>2, Surroundings DEF ToggleRepeat
<1>8. CASE SeeRepeatAck
  <2>1. mst' \in Master
    BY <1>1, <1>8 DEF SeeRepeatAck, Master
  <2> QED  BY <1>8, <2>1, Surroundings DEF SeeRepeatAck
<1>9. CASE RequestPreop
  <2>1. EscStep(dev, dev')
    BY <1>9 DEF RequestPreop, EscStep
  <2> QED  BY <1>1, <1>9, <2>1, Surroundings DEF RequestPreop
<1>10. CASE RequestInit
  <2>1. mst' \in Master
    <3>1. mst' = [mst EXCEPT !.stops = mst.stops + 1]
      BY <1>10 DEF RequestInit
    <3> QED  BY <1>1, <1>2, <3>1, SMTT(30) DEF Master
  <2>2. EscStep(dev, dev')
    BY <1>10 DEF RequestInit, EscStep
  <2> QED  BY <1>10, <2>1, <2>2, Surroundings DEF RequestInit
<1> QED  BY <1>3, <1>4, <1>5, <1>6, <1>7, <1>8, <1>9, <1>10

LEMMA Invariance ==
  ASSUME Undivided
  PROVE  Spec => []IInv
<1>1. IInv /\ [Next]_vars => IInv'
  <2> SUFFICES ASSUME IInv, [Next]_vars  PROVE  IInv'
    OBVIOUS
  <2>1. CASE ECAT_Main
    BY <2>1, MainStep
  <2>2. CASE \/ Ask \/ WriteRequest(FALSE) \/ WriteRequest(TRUE)
             \/ ReadResponse \/ LoseRead \/ ToggleRepeat \/ SeeRepeatAck
             \/ RequestPreop \/ RequestInit
    BY <2>2, MasterStep
  <2>3. CASE UNCHANGED vars
    <3>1. UNCHANGED slave /\ UNCHANGED dev /\ mst' \in Master
      BY <2>3 DEF vars, slave, IInv
    <3> QED  BY <3>1, Surroundings
  <2> QED  BY <2>1, <2>2, <2>3 DEF Next
<1>2. Init => IInv
  BY Initial
<1> QED  BY <1>1, <1>2, PTL DEF Spec

-----------------------------------------------------------------------------
(* The pointers are buffers or NULL and the counters stay in their ranges. *)
THEOREM TypeCorrect ==
  ASSUME Undivided
  PROVE  Spec => []TypeOK
<1>1. IInv => TypeOK
  <2> SUFFICES ASSUME IInv  PROVE  TypeOK
    OBVIOUS
  <2>1. dev \in Slave /\ mst \in Master /\ Cycle
    BY DEF IInv, Owner
  <2>2. /\ {dev.psRepeatMbx, dev.psReadMbx, dev.psStoreMbx,
            dev.pCoeSendStored} \subseteq Buffers \cup {NoBuf}
        /\ dev.sMbxReceiveQueue \in Seq(Buffers)
        /\ dev.sMbxSendQueue \in Seq(Buffers)
        /\ dev.u8MbxWriteCounter \in 0..COUNTERS
        /\ dev.u8MbxReadCounter \in 0..COUNTERS + 1
        /\ dev.nSdoInfoFragmentsLeft = 0
    BY <2>1 DEF Slave, Held
  <2>3. 0 \in 0..FRAGMENTS
    BY MailboxAssumptions
  <2>4. mst.phase \in {"poll", "toggle", "wait"}
    BY <2>1 DEF Master
  <2> QED  BY <2>1, <2>2, <2>3, <2>4 DEF TypeOK, Cycle
<1> QED  BY <1>1, Invariance, PTL

(* However many requests and repeats come, the queues never refuse and no  *)
(* response is left in pCoeSendStored (mailbox.c:693, 765-776). *)
THEOREM QueuesSuffice ==
  ASSUME Undivided
  PROVE  Spec => []QueueSuffices
<1>1. IInv => QueueSuffices
  <2> SUFFICES ASSUME IInv  PROVE  QueueSuffices
    OBVIOUS
  <2>1. dev \in Slave /\ Load(dev, 0)
    BY DEF IInv, Owner
  <2>2. Len(dev.sMbxReceiveQueue) \in Nat
    BY <2>1, LenProperties DEF Slave
  <2>3. dev.pCoeSendStored = NoBuf
    BY <2>1 DEF Slave
  <2>4. Len(dev.sMbxReceiveQueue) + 0 <= 2 /\ Len(dev.sMbxSendQueue) <= 1
    BY <2>1 DEF Load
  <2>5. Len(dev.sMbxReceiveQueue) <= 2
    <3> DEFINE n == Len(dev.sMbxReceiveQueue)
    <3>1. n \in Nat /\ n + 0 <= 2
      BY <2>2, <2>4
    <3> HIDE DEF n
    <3>2. n <= 2
      BY <3>1
    <3> QED  BY <3>2 DEF n
  <2> QED  BY <2>3, <2>4, <2>5 DEF QueueSuffices
<1> QED  BY <1>1, Invariance, PTL

(* Two sequences without a common element, neither with one twice, make    *)
(* one. *)
Once(q) == \A i, j \in DOMAIN q : q[i] = q[j] => i = j

LEMMA OnceConcat ==
  ASSUME NEW q \in Seq(Buffers), NEW r \in Seq(Buffers), Once(q), Once(r),
         Rng(q) \cap Rng(r) = {}
  PROVE  q \o r \in Seq(Buffers) /\ Once(q \o r)
         /\ Rng(q \o r) = Rng(q) \cup Rng(r)
<1> DEFINE s == q \o r
           m == Len(q)
           n == Len(r)
<1>1. /\ m \in Nat /\ n \in Nat
      /\ DOMAIN q = 1..m /\ DOMAIN r = 1..n
      /\ s \in Seq(Buffers) /\ DOMAIN s = 1..(m + n)
      /\ \A i \in 1..(m + n) : s[i] = IF i <= m THEN q[i] ELSE r[i - m]
  <2>1. s \in Seq(Buffers) /\ Len(s) = m + n
        /\ \A i \in 1..(m + n) : s[i] = IF i <= m THEN q[i] ELSE r[i - m]
    BY ConcatProperties
  <2>2. m \in Nat /\ n \in Nat /\ DOMAIN q = 1..m /\ DOMAIN r = 1..n
    BY LenProperties
  <2>3. DOMAIN s = 1..Len(s)
    BY <2>1, LenProperties
  <2> QED  BY <2>1, <2>2, <2>3
<1> HIDE DEF s, m, n
<1>2. /\ \A i \in 1..m : i \in 1..(m + n) /\ s[i] = q[i]
      /\ \A i \in 1..n : i + m \in 1..(m + n) /\ s[i + m] = r[i]
  BY <1>1
<1>3. \A i \in 1..(m + n) : \/ i \in 1..m /\ s[i] = q[i]
                            \/ i - m \in 1..n /\ s[i] = r[i - m]
  BY <1>1
<1>4. \A i \in 1..m, j \in 1..n : q[i] # r[j]
  BY <1>1 DEF Rng
<1>5. Once(s)
  <2> SUFFICES ASSUME NEW i \in 1..(m + n), NEW j \in 1..(m + n), s[i] = s[j]
               PROVE  i = j
    BY <1>1 DEF Once
  <2>1. /\ \/ i \in 1..m /\ s[i] = q[i]
           \/ i - m \in 1..n /\ s[i] = r[i - m]
        /\ \/ j \in 1..m /\ s[j] = q[j]
           \/ j - m \in 1..n /\ s[j] = r[j - m]
    BY <1>3
  <2>2. CASE i \in 1..m /\ s[i] = q[i] /\ j \in 1..m /\ s[j] = q[j]
    BY <1>1, <2>2 DEF Once
  <2>3. CASE /\ i - m \in 1..n /\ s[i] = r[i - m]
             /\ j - m \in 1..n /\ s[j] = r[j - m]
    <3>1. i - m = j - m
      BY <1>1, <2>3 DEF Once
    <3> QED  BY <1>1, <3>1
  <2> QED  BY <1>4, <2>1, <2>2, <2>3
<1>6. Rng(s) = Rng(q) \cup Rng(r)
  <2>1. Rng(s) \subseteq Rng(q) \cup Rng(r)
    BY <1>1, <1>3 DEF Rng
  <2>2. Rng(q) \subseteq Rng(s)
    BY <1>1, <1>2 DEF Rng
  <2>3. ASSUME NEW x \in Rng(r)  PROVE  x \in Rng(s)
    <3>1. PICK i \in 1..n : x = r[i]
      BY <1>1, <2>3 DEF Rng
    <3>2. i + m \in DOMAIN s /\ s[i + m] = x
      BY <1>1, <1>2, <3>1
    <3> QED  BY <3>2 DEF Rng
  <2> QED  BY <2>1, <2>2, <2>3
<1> QED  BY <1>1, <1>5, <1>6 DEF s

LEMMA OncePointer ==
  ASSUME NEW b \in Held
  PROVE  /\ Pointer(b) \in Seq(Buffers) /\ Once(Pointer(b))
         /\ Rng(Pointer(b)) = {b} \ {NoBuf}
<1>1. CASE b = NoBuf
  <2>1. Pointer(b) = <<>> /\ <<>> \in Seq(Buffers) /\ Rng(<<>>) = {}
    BY <1>1, EmptySeq, RngEmpty DEF Pointer
  <2>2. Once(<<>>)
    BY DEF Once
  <2> QED  BY <1>1, <2>1, <2>2
<1>2. CASE b # NoBuf
  <2>1. Pointer(b) = <<b>> /\ b \in Buffers
    BY <1>2 DEF Pointer, Held
  <2>2. <<b>> \in Seq(Buffers) /\ Once(<<b>>) /\ Rng(<<b>>) = {b}
    BY <2>1 DEF Once, Rng
  <2> QED  BY <1>2, <2>1, <2>2
<1> QED  BY <1>1, <1>2

(* Every allocated buffer has one holder and no holder a freed one: none   *)
(* is freed twice, used after it was freed, or lost, whatever is repeated, *)
(* displaced or stopped (mailbox.c:378-436, 537-631). *)
THEOREM BuffersOwned ==
  ASSUME Undivided
  PROVE  Spec => []OneHolder
<1>1. IInv => OneHolder
  <2> SUFFICES ASSUME IInv  PROVE  OneHolder
    OBVIOUS
  <2> DEFINE last == IF dev.psReadMbx = dev.psRepeatMbx THEN NoBuf
                     ELSE dev.psReadMbx
             q1 == dev.sMbxReceiveQueue
             q2 == dev.sMbxSendQueue
             q3 == Pointer(dev.psRepeatMbx)
             q4 == Pointer(dev.psStoreMbx)
             q5 == Pointer(dev.pCoeSendStored)
             q6 == Pointer(last)
             h2 == q1 \o q2
             h3 == h2 \o q3
             h4 == h3 \o q4
             h5 == h4 \o q5
             h6 == h5 \o q6
  <2>1. /\ dev \in Slave /\ Disjoint(dev, {}) /\ Memory(dev, {})
        /\ Pointing(dev) /\ Load(dev, 0)
    BY DEF IInv, Owner
  <2>2. /\ q1 \in Seq(Buffers) /\ q2 \in Seq(Buffers)
        /\ dev.psRepeatMbx \in Held /\ dev.psStoreMbx \in Held
        /\ dev.psReadMbx \in Held /\ dev.pCoeSendStored = NoBuf
        /\ NoBuf \in Held /\ last \in Held
    BY <2>1 DEF Slave, Held
  <2>3. Holders = h6
    BY DEF Holders, Pointer
  <2>4. /\ q3 \in Seq(Buffers) /\ Once(q3)
        /\ Rng(q3) = {dev.psRepeatMbx} \ {NoBuf}
    BY <2>2, OncePointer
  <2>5. /\ q4 \in Seq(Buffers) /\ Once(q4)
        /\ Rng(q4) = {dev.psStoreMbx} \ {NoBuf}
    BY <2>2, OncePointer
  <2>6. q5 \in Seq(Buffers) /\ Once(q5) /\ Rng(q5) = {}
    BY <2>2, OncePointer
  <2>7. q6 \in Seq(Buffers) /\ Once(q6) /\ Rng(q6) = {last} \ {NoBuf}
    BY <2>2, OncePointer
  <2>8. /\ Once(q1) /\ Rng(q1) \cap Rng(q2) = {}
        /\ Rng(q1) \cap Pointers(dev) = {} /\ Rng(q2) \cap Pointers(dev) = {}
    BY <2>1 DEF Disjoint, Once
  <2>9. Once(q2)
    <3>1. DOMAIN q2 = 1..Len(q2) /\ Len(q2) \in Nat
      BY <2>2, LenProperties
    <3>2. Len(q2) <= 1
      BY <2>1 DEF Load
    <3> DEFINE n == Len(q2)
    <3>3. n \in Nat /\ n <= 1 /\ DOMAIN q2 = 1..n
      BY <3>1, <3>2
    <3> HIDE DEF n, q2
    <3> QED  BY <3>3 DEF Once
  <2>10. /\ dev.psStoreMbx # NoBuf => /\ dev.psStoreMbx # dev.psReadMbx
                                      /\ dev.psRepeatMbx = NoBuf
         /\ last = NoBuf \/ (last = dev.psReadMbx /\ last # dev.psRepeatMbx)
         /\ Pointers(dev)
              = {dev.psRepeatMbx, dev.psReadMbx, dev.psStoreMbx}
    BY <2>1 DEF Pointing, Pointers
  <2> HIDE DEF q1, q2, q3, q4, q5, q6, h2, h3, h4, h5, h6, last
  <2>11. h2 \in Seq(Buffers) /\ Once(h2) /\ Rng(h2) = Rng(q1) \cup Rng(q2)
    BY <2>2, <2>8, <2>9, OnceConcat DEF h2
  <2>12. h3 \in Seq(Buffers) /\ Once(h3) /\ Rng(h3) = Rng(h2) \cup Rng(q3)
    <3>1. Rng(h2) \cap Rng(q3) = {}
      BY <2>4, <2>8, <2>10, <2>11
    <3> QED  BY <2>4, <2>11, <3>1, OnceConcat DEF h3
  <2>13. h4 \in Seq(Buffers) /\ Once(h4) /\ Rng(h4) = Rng(h3) \cup Rng(q4)
    <3>1. Rng(h3) \cap Rng(q4) = {}
      BY <2>4, <2>5, <2>8, <2>10, <2>11, <2>12
    <3> QED  BY <2>5, <2>12, <3>1, OnceConcat DEF h4
  <2>14. h5 \in Seq(Buffers) /\ Once(h5) /\ Rng(h5) = Rng(h4)
    <3>1. Rng(h4) \cap Rng(q5) = {}
      BY <2>6
    <3> QED  BY <2>6, <2>13, <3>1, OnceConcat DEF h5
  <2>15. h6 \in Seq(Buffers) /\ Once(h6) /\ Rng(h6) = Rng(h5) \cup Rng(q6)
    <3>1. Rng(h5) \cap Rng(q6) = {}
      BY <2>4, <2>5, <2>7, <2>8, <2>10, <2>11, <2>12, <2>13, <2>14
    <3> QED  BY <2>7, <2>14, <3>1, OnceConcat DEF h6
  <2>16. Rng(h6) = (Rng(q1) \cup Rng(q2) \cup Pointers(dev)) \ {NoBuf}
    <3>1. NoBuf \notin Rng(q1) /\ NoBuf \notin Rng(q2)
      BY <2>2, RngIn
    <3>2. {dev.psRepeatMbx, last, dev.psStoreMbx} \cup {NoBuf}
            = Pointers(dev) \cup {NoBuf}
      BY <2>10 DEF last
    <3> QED
      BY <2>4, <2>5, <2>7, <2>11, <2>12, <2>13, <2>14, <2>15, <3>1, <3>2
  <2>17. \A b \in Buffers :
           dev.mem[b] # NoMsg
             <=> b \in Rng(q1) \cup Rng(q2) \cup Pointers(dev)
    BY <2>1, RequestNotEmpty DEF Memory, q1, q2
  <2>18. Rng(h6) = Buffers \ FreeBuffers(dev)
    <3>1. Rng(h6) \subseteq Buffers /\ NoBuf \notin Buffers
      BY <2>15, RngIn, MailboxAssumptions DEF NoBuf
    <3> QED  BY <2>16, <2>17, <3>1 DEF FreeBuffers
  <2> QED  BY <2>3, <2>15, <2>18 DEF OneHolder, Once, Rng
<1> QED  BY <1>1, Invariance, PTL

=============================================================================
