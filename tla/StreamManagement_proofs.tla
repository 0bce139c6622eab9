----------------------- MODULE StreamManagement_proofs -----------------------
(***************************************************************************)
(* Theorems about StreamManagement for every modulus, bound and threshold: *)
(* its type invariant, and that the server handles the stanzas of a        *)
(* session in order and exactly once, the queue always covering what it    *)
(* has not handled.                                                        *)
(*                                                                         *)
(* The argument.  Every element on its way to the server carries its place *)
(* among the session's stanzas, and the places along the wire form a chain *)
(* that starts where the server stands and ends where the client stands.   *)
(* Every count on its way to the client lies between what the client knows *)
(* and what the server has handled.  The two can differ by no more than    *)
(* the queue is long, which is less than W, so a count modulo W tells how  *)
(* many stanzas to dequeue.                                                *)
(***************************************************************************)
EXTENDS StreamManagement, SequenceTheorems, TLAPS

-----------------------------------------------------------------------------
(* The inductive invariant. *)

(* s leads from the lo-th to the hi-th stanza: a stanza is one step, every *)
(* other element none.  Place is where the first i elements of s end.      *)
Place(lo, s, i) == IF i = 0 THEN lo ELSE s[i].n
StepOf(e)       == IF e.type = "stanza" THEN 1 ELSE 0

Chain(lo, s, hi) ==
  /\ lo \in Nat /\ hi = Place(lo, s, Len(s))
  /\ \A i \in 1..Len(s) : s[i].n = Place(lo, s, i - 1) + StepOf(s[i])
  /\ \A i, j \in 0..Len(s) : i <= j => Place(lo, s, i) <= Place(lo, s, j)

Acked == written - Len(send_queue)

IsCount(e) == e.type \in {"a", "resumed"}

(* Which values the control variables take together. *)
PhaseInv ==
  /\ state = "Active" <=> isActive
  /\ state = "Idle" => step = "Login"
  /\ state = "Active" => step = "Done"
  /\ ~isActive => outData = <<>>
  /\ step = "Login" => request = NoRequest /\ ~attached /\ s2c = <<>>
  /\ request.type # "none" => state = "Connecting" /\ ~attached /\ s2c = <<>>

(* While a login runs the client sends no stanza, and only a session that  *)
(* can be resumed has a past.                                              *)
LoginInv ==
  state = "Connecting" =>
    /\ attached \/ s2c # <<>> => c2s = <<>>
    /\ resumable => /\ request.type # "enable"
                    /\ \A i \in 1..Len(s2c) : s2c[i].type # "enabled"
    /\ ~resumable => /\ written = 0 /\ reported = 0
                     /\ send_queue = <<>> /\ handled = <<>> /\ c2s = <<>>
    /\ \A i \in 1..Len(s2c) : s2c[i].type = "resumed" => s2c[i].n = Len(handled)

CounterInv ==
  /\ server_last_handled = Acked % W
  /\ Len(send_queue) <= MaxQueue

BufferInv ==
  /\ Len(outData) <= written
  /\ \A i \in 1..Len(outData) : outData[i] = Wired + i

WireInv ==
  \E hi \in Nat : /\ Chain(Len(handled), c2s, hi) /\ hi <= written
                  /\ isActive /\ attached => hi = Wired

(* The counts in q lie between lo and hi and never decrease. *)
Counts(q, lo, hi) ==
  /\ \A i \in 1..Len(q) : IsCount(q[i]) => lo <= q[i].n /\ q[i].n <= hi
  /\ \A i, j \in 1..Len(q) :
       i <= j /\ IsCount(q[i]) /\ IsCount(q[j]) => q[i].n <= q[j].n

CountInv == Counts(s2c, Acked, Len(handled))

ReportInv == reported + sm_stanzas_notify <= Acked

(* Type correctness is inductive once the stanzas held by the client are   *)
(* known to be among those written: <a/> is put before Wired.              *)
TypeInv == TypeOK /\ Len(send_queue) <= written /\ Len(outData) <= written

IInv ==
  /\ TypeInv /\ PhaseInv /\ LoginInv
  /\ HandledExactlyOnce /\ QueueCoversUnhandled
  /\ CounterInv /\ BufferInv /\ WireInv /\ CountInv /\ ReportInv

-----------------------------------------------------------------------------
(* Counters modulo W. *)

(* Division with remainder. *)
LEMMA DivMod ==
  \A a \in Int : /\ a = (W * (a \div W)) + (a % W)
                 /\ a \div W \in Int /\ a % W \in 0..(W - 1)
  BY CounterAssumption

(* The remainder is unique. *)
LEMMA UniqueRemainder ==
  ASSUME NEW p \in Int, NEW q \in Int, NEW r \in 0..(W - 1), NEW s \in 0..(W - 1),
         W * p + r = W * q + s
  PROVE  r = s
  <1> DEFINE d == p - q
  <1>1. d \in Int /\ r \in Int /\ s \in Int /\ W \in Int /\ W > 0
    BY CounterAssumption
  <1>2. W * d = s - r
    BY <1>1
  <1> HIDE DEF d
  <1>3. CASE d >= 1
    <2>1. W * d >= W  BY <1>1, <1>3
    <2>2. QED         BY <2>1, <1>1, <1>2
  <1>4. CASE d <= -1
    <2>1. W * d <= -W  BY <1>1, <1>4
    <2>2. QED          BY <2>1, <1>1, <1>2
  <1>5. CASE d = 0
    BY <1>1, <1>2, <1>5
  <1>6. QED
    BY <1>1, <1>3, <1>4, <1>5

(* However far the counters have run, the distance of two counts taken     *)
(* modulo W is their true distance, as long as that is below W.            *)
LEMMA DistanceExact ==
  ASSUME NEW a \in Nat, NEW h \in Nat, a <= h, h - a < W
  PROVE  Distance(a % W, h) = h - a
  <1> DEFINE ra == a % W
             qa == a \div W
             x  == h - ra
  <1>1. a = (W * qa) + ra /\ qa \in Int /\ ra \in 0..(W - 1)
    BY DivMod
  <1> HIDE DEF ra, qa
  <1>2. x \in Int /\ W \in Int
    BY <1>1, CounterAssumption
  <1>3. x = (W * (x \div W)) + (x % W) /\ x \div W \in Int /\ x % W \in 0..(W - 1)
    BY <1>2, DivMod
  <1>4. x = W * qa + (h - a) /\ h - a \in 0..(W - 1)
    BY <1>1, <1>2
  <1>5. x % W = h - a
    <2> DEFINE r == x % W
               q == x \div W
               s == h - a
    <2>1. q \in Int /\ qa \in Int /\ r \in 0..(W - 1) /\ s \in 0..(W - 1) /\ W * q + r = W * qa + s
      BY <1>1, <1>3, <1>4
    <2> HIDE DEF r, q, s
    <2>2. r = s
      BY <2>1, UniqueRemainder
    <2>3. QED
      BY <2>2 DEF r, s
  <1>6. QED
    BY <1>5 DEF Distance, x, ra

(* An acknowledged server count plus what one answer dequeues is a count. *)
LEMMA DequeuedSum ==
  ASSUME NEW last \in Nat, NEW h \in Int, NEW top \in Nat
  PROVE  last + Dequeued(last, h, top - last) \in Nat
  <1>1. h - last \in Int
    OBVIOUS
  <1>2. (h - last) % W \in 0..(W - 1)
    BY <1>1, DivMod
  <1>3. Distance(last, h) \in Nat
    BY <1>2, CounterAssumption DEF Distance
  <1>4. QED
    BY <1>3 DEF Dequeued

(* The dequeueing loop stays within the queue. *)
LEMMA DequeuedRange ==
  ASSUME NEW last \in Int, NEW h \in Int, NEW len \in Nat
  PROVE  Dequeued(last, h, len) \in 0..len
  <1>1. (h - last) % W \in 0..(W - 1)
    BY DivMod
  <1>2. QED
    BY <1>1 DEF Dequeued, Distance

-----------------------------------------------------------------------------
(* Sequences on the wire. *)

(* The queue put on the wire: one stanza element for each, in order. *)
LEMMA WireType ==
  ASSUME NEW q \in Seq(Nat)
  PROVE  /\ Wire(q) \in Seq(ElementsOut)
         /\ Len(Wire(q)) = Len(q)
         /\ \A i \in 1..Len(q) : Wire(q)[i] = StanzaOut(q[i])
  <1>1. \A i \in 1..Len(q) : StanzaOut(q[i]) \in ElementsOut
    BY ElementOfSeq DEF StanzaOut, ElementsOut
  <1>2. Len(q) \in Nat
    BY LenProperties
  <1>3. QED
    BY <1>1, <1>2 DEF Wire

(* A prefix of a sequence has its type. *)
LEMMA PrefixType ==
  ASSUME NEW S, NEW s \in Seq(S), NEW t \in Prefixes(s)
  PROVE  t \in Seq(S)
  <1>1. PICK k \in 0..Len(s) : t = SubSeq(s, 1, k)
    BY DEF Prefixes
  <1>2. QED
    BY <1>1, SubSeqProperties, ElementOfSeq, LenProperties

(* A prefix of a sequence agrees with it where it is defined. *)
LEMMA PrefixElements ==
  ASSUME NEW S, NEW s \in Seq(S), NEW t \in Prefixes(s)
  PROVE  \A i \in 1..Len(t) : i \in 1..Len(s) /\ t[i] = s[i]
  <1>1. PICK k \in 0..Len(s) : t = SubSeq(s, 1, k)
    BY DEF Prefixes
  <1>2. Len(s) \in Nat /\ k \in Nat /\ k <= Len(s)
    BY LenProperties
  <1>3. \A i \in 1..k : s[i] \in S
    BY <1>2, ElementOfSeq
  <1>4. /\ Len(t) = (IF 1 <= k THEN k - 1 + 1 ELSE 0)
        /\ \A i \in 1..(k - 1 + 1) : t[i] = s[1 + i - 1]
    BY <1>1, <1>2, <1>3, SubSeqProperties
  <1>5. QED
    BY <1>2, <1>4

(* What ESend hands to the socket leaves the wire a sequence of elements. *)
LEMMA PutType ==
  ASSUME TypeOK, NEW items \in Seq(ElementsOut)
  PROVE  Put(items) \in Seq(ElementsOut)
  BY ConcatProperties DEF Put, TypeOK

-----------------------------------------------------------------------------
(* Type correctness. *)

(* The part of TypeOK about what SettleTimer and ResetStream assign. *)
TimedTypeOK ==
  /\ state \in {"Idle", "Connecting", "Active"}
  /\ step \in {"Login", "GetSMResponse", "Done"}
  /\ quiet_reconnection \in BOOLEAN /\ pendingWrite \in BOOLEAN
  /\ outData \in Seq(Nat)
  /\ sm \in {"off", "started", "resumed"}
  /\ waiting_answer \in BOOLEAN /\ due \in BOOLEAN
  /\ sm_stanzas_notify \in Nat
  /\ request \in [type : {"none", "enable", "resume"}, h : 0..(W - 1)]
  /\ c2s \in Seq(ElementsOut) /\ s2c \in Seq(ElementsIn)
  /\ attached \in BOOLEAN

(* The absence of a request is a value of request. *)
LEMMA NoRequestType ==
  NoRequest \in [type : {"none", "enable", "resume"}, h : 0..(W - 1)]
  BY CounterAssumption DEF NoRequest

(* A single request or stanza is a sequence of client elements. *)
LEMMA ReqOutType ==
  ASSUME NEW n \in Nat
  PROVE  <<ReqOut(n)>> \in Seq(ElementsOut) /\ <<StanzaOut(n)>> \in Seq(ElementsOut)
  BY DEF ReqOut, StanzaOut, ElementsOut

(* The empty sequence has every sequence type. *)
LEMMA EmptyTypes ==
  <<>> \in Seq(Nat) /\ <<>> \in Seq(ElementsIn) /\ <<>> \in Seq(ElementsOut)
  BY EmptySeq

(* Whatever the timer check at the end of normalStep does keeps the types. *)
LEMMA SettleTimerType ==
  ASSUME TypeOK, written' \in Nat,
         NEW items \in Seq(ElementsOut), NEW stale \in Seq(Nat),
         NEW w \in BOOLEAN, NEW d \in BOOLEAN, NEW p \in BOOLEAN,
         NEW rest \in Seq(ElementsIn),
         SettleTimer(items, stale, w, d, p, rest)
  PROVE  TimedTypeOK' /\ outData' \in {stale, <<>>}
  <1>1. CASE ~d
    <2>1. Put(items) \in Seq(ElementsOut)
      BY PutType
    <2>2. QED
      BY <1>1, <2>1 DEF SettleTimer, TypeOK, TimedTypeOK, streamVars
  <1>2. CASE d /\ ~w
    <2>1. items \o Wire(stale) \o <<ReqOut(written')>> \in Seq(ElementsOut)
      BY WireType, ReqOutType, ConcatProperties
    <2>2. Put(items \o Wire(stale) \o <<ReqOut(written')>>) \in Seq(ElementsOut)
      BY <2>1, PutType
    <2>3. /\ waiting_answer' = TRUE /\ due' = FALSE
          /\ c2s' = Put(items \o Wire(stale) \o <<ReqOut(written')>>) /\ s2c' = rest
          /\ outData' = <<>> /\ pendingWrite' = p
          /\ UNCHANGED <<streamVars, sm, sm_stanzas_notify, request, attached>>
      BY <1>2 DEF SettleTimer
    <2>4. QED
      BY <2>2, <2>3, EmptyTypes DEF TypeOK, TimedTypeOK, streamVars
  <1>3. CASE d /\ w
    <2>1. ConnTimeout(items)
      BY <1>3 DEF SettleTimer
    <2>2. Put(items) \in Seq(ElementsOut)
      BY PutType
    <2>3. c2s' \in Seq(ElementsOut)
      BY <2>1, <2>2, PrefixType DEF ConnTimeout
    <2>4. QED
      BY <2>1, <2>3, NoRequestType, EmptyTypes DEF ConnTimeout, ResetStream, TypeOK, TimedTypeOK
  <1>4. QED
    BY <1>1, <1>2, <1>3

(* An acknowledgement shortens the queue and keeps the counter in its width. *)
LEMMA ProcessAcknowledgementType ==
  ASSUME TypeInv, NEW h \in Nat, ProcessAcknowledgement(h)
  PROVE  /\ send_queue' \in Seq(Nat) /\ Len(send_queue') <= Len(send_queue)
         /\ server_last_handled' \in 0..(W - 1)
         /\ Len(send_queue) - Len(send_queue') \in Nat
  <1> DEFINE len == Len(send_queue)
             k == Dequeued(server_last_handled, h, len)
  <1>1. /\ len \in Nat /\ server_last_handled \in Int /\ h \in Int
        /\ send_queue \in Seq(Nat)
    BY LenProperties DEF TypeInv, TypeOK
  <1>3. /\ send_queue' = SubSeq(send_queue, k + 1, len)
        /\ server_last_handled' = (server_last_handled + k) % W
    BY DEF ProcessAcknowledgement
  <1> HIDE DEF len
  <1>2. k \in 0..len
    BY <1>1, DequeuedRange
  <1> HIDE DEF k
  <1>4. \A i \in (k + 1)..len : send_queue[i] \in Nat
    BY <1>1, <1>2, ElementOfSeq DEF len
  <1>5. /\ send_queue' \in Seq(Nat)
        /\ Len(send_queue') = IF k + 1 <= len THEN len - (k + 1) + 1 ELSE 0
    BY <1>1, <1>2, <1>3, <1>4, SubSeqProperties
  <1>6. Len(send_queue') = len - k
    BY <1>1, <1>2, <1>5
  <1>7. server_last_handled' \in 0..(W - 1)
    BY <1>1, <1>2, <1>3, DivMod
  <1>8. QED
    BY <1>1, <1>2, <1>5, <1>6, <1>7 DEF len

(* Reading an element leaves a sequence of server elements. *)
LEMMA HeadTailIn ==
  ASSUME TypeOK, s2c # <<>>
  PROVE  Tail(s2c) \in Seq(ElementsIn) /\ Head(s2c).n \in Nat
  <1>1. s2c \in Seq(ElementsIn) /\ s2c # <<>>
    BY DEF TypeOK
  <1>2. Tail(s2c) \in Seq(ElementsIn) /\ Head(s2c) \in ElementsIn
    BY <1>1, HeadTailProperties
  <1>3. QED
    BY <1>2 DEF ElementsIn

(* The number of stanzas on the wire is natural: outData never exceeds written. *)
LEMMA WiredType ==
  ASSUME TypeInv
  PROVE  Wired \in Nat /\ Len(outData) \in Nat /\ Len(send_queue) \in Nat
  BY LenProperties DEF TypeInv, TypeOK, Wired

(* A fresh stream is well typed. *)
LEMMA TypeInit == Init => TypeInv
  <1> SUFFICES ASSUME Init PROVE TypeInv
    OBVIOUS
  <1>1. W \in Nat /\ W > 0 /\ 0 \in 0..(W - 1)
    BY CounterAssumption
  <1>2. TypeOK
    BY <1>1, EmptyTypes, NoRequestType DEF Init, TypeOK
  <1>3. QED
    BY <1>2, EmptySeq DEF Init, TypeInv

(* Every step of client, server and link keeps the types. *)
LEMMA TypeStep == TypeInv /\ [Next]_vars => TypeInv'
  <1> SUFFICES ASSUME TypeInv, [Next]_vars PROVE TypeInv'
    OBVIOUS
  <1> USE DEF TypeInv
  <1>0. W \in Nat /\ W > 0 /\ 0 \in 0..(W - 1)
    BY CounterAssumption
  <1>1. CASE Login
    <2>1. TypeOK'
      BY <1>0, <1>1, EmptyTypes, NoRequestType DEF Login, TypeOK
    <2>2. QED
      BY <1>1, <2>1, EmptySeq DEF Login
  <1>2. CASE LoginComplete
    <2>1. request' \in [type : {"none", "enable", "resume"}, h : 0..(W - 1)]
      BY <1>0, <1>2 DEF LoginComplete, TypeOK
    <2>2. QED
      BY <1>2, <2>1 DEF LoginComplete, TypeOK, outVars, timerVars, queueVars,
         smVars, inVars, serverVars, appVars
  <1>3. CASE RecvEnabled
    <2>1. PICK swallowed \in BOOLEAN :
                 s2c' = SubSeq(s2c, IF swallowed THEN 3 ELSE 2, Len(s2c))
      BY <1>3 DEF RecvEnabled
    <2>2. s2c \in Seq(ElementsIn) /\ Len(s2c) \in Nat
      BY LenProperties DEF TypeOK
    <2>3. s2c' \in Seq(ElementsIn)
      BY <2>1, <2>2, SubSeqProperties, ElementOfSeq
    <2>4. c2s' \in Seq(ElementsOut)
      <3>1. /\ <<ReqOut(0)>> \o <<StanzaOut(1)>> \in Seq(ElementsOut)
            /\ <<>> \o <<StanzaOut(1)>> \in Seq(ElementsOut)
        BY ReqOutType, EmptyTypes, ConcatProperties
      <3>2. QED
        BY <1>3, <3>1, PutType DEF RecvEnabled
    <2>5. waiting_answer' \in BOOLEAN /\ resumable' \in BOOLEAN
      BY <1>3 DEF RecvEnabled, AsksAtLength
    <2>6. <<1>> \in Seq(Nat) /\ Len(<<1>>) = 1
      OBVIOUS
    <2>7. /\ state' = "Active" /\ step' = "Done" /\ sm' = "started"
          /\ outData' = <<>> /\ pendingWrite' = TRUE /\ due' = FALSE
          /\ received_count' = 0 /\ server_last_handled' = 0
          /\ sm_stanzas_notify' = 0 /\ written' = 1 /\ send_queue' = <<1>>
          /\ UNCHANGED <<quiet_reconnection, received, serverVars, linkVars, reported>>
      BY <1>3 DEF RecvEnabled
    <2>8. TypeOK'
      BY <1>0, <2>3, <2>4, <2>5, <2>6, <2>7, EmptyTypes DEF TypeOK, serverVars, linkVars
    <2>9. QED
      BY <2>6, <2>7, <2>8, EmptySeq
  <1>4. CASE RecvResumed
    <2>1. Tail(s2c) \in Seq(ElementsIn) /\ Head(s2c).n \in Nat
      BY <1>4, HeadTailIn DEF RecvResumed
    <2>2. /\ send_queue' \in Seq(Nat) /\ Len(send_queue') <= Len(send_queue)
          /\ server_last_handled' \in 0..(W - 1)
          /\ Len(send_queue) - Len(send_queue') \in Nat
      BY <1>4, <2>1, ProcessAcknowledgementType DEF RecvResumed
    <2>3. Len(send_queue') \in Nat /\ Len(send_queue) \in Nat
      BY <2>2, LenProperties, WiredType
    <2>4. /\ state' = "Active" /\ step' = "Done" /\ sm' = "resumed"
          /\ waiting_answer' = FALSE /\ due' = FALSE
          /\ s2c' = Tail(s2c) /\ outData' = send_queue'
          /\ sm_stanzas_notify' = sm_stanzas_notify + Len(send_queue) - Len(send_queue')
          /\ UNCHANGED <<quiet_reconnection, pendingWrite, resumable, inVars,
                         serverVars, linkVars, c2s, appVars>>
      BY <1>4 DEF RecvResumed
    <2>5. sm_stanzas_notify' \in Nat
      BY <2>2, <2>3, <2>4 DEF TypeOK
    <2>6. TypeOK'
      BY <2>1, <2>2, <2>4, <2>5 DEF TypeOK, inVars, serverVars, linkVars, appVars
    <2>7. QED
      BY <2>2, <2>3, <2>4, <2>6 DEF TypeOK, appVars
  <1>5. CASE RecvResumeFailed
    <2>1. c2s' \in Seq(ElementsOut)
      BY <1>5, PrefixType DEF RecvResumeFailed, TypeOK
    <2>2. /\ state' = "Idle" /\ quiet_reconnection' = FALSE /\ resumable' = FALSE
          /\ ResetStream
          /\ UNCHANGED <<server_last_handled, send_queue, inVars, serverVars,
                         losses, appVars>>
      BY <1>5 DEF RecvResumeFailed
    <2>3. TypeOK'
      BY <2>1, <2>2, EmptyTypes, NoRequestType DEF ResetStream, TypeOK, inVars,
         serverVars, appVars
    <2>4. QED
      BY <2>2, <2>3, EmptySeq DEF ResetStream, TypeOK, appVars
  <1>6. CASE RecvEnableFailed
    BY <1>6, HeadTailIn DEF RecvEnableFailed, TypeOK, streamVars, outVars,
       timerVars, queueVars, smVars, inVars, serverVars, linkVars, appVars
  <1>7. CASE Write
    <2> DEFINE asks == AsksAtLength(Len(send_queue) + 1) /\ ~waiting_answer
               request_r == IF asks THEN <<ReqOut(written)>> ELSE <<>>
               items == Wire(outData) \o request_r \o <<StanzaOut(written')>>
    <2>1. /\ written' = written + 1 /\ send_queue' = Append(send_queue, written')
          /\ SettleTimer(items, <<>>, waiting_answer \/ asks, due /\ ~asks, TRUE, s2c)
          /\ UNCHANGED <<server_last_handled, resumable, inVars, serverVars,
                         losses, reported>>
      BY <1>7 DEF Write
    <2>2. written' \in Nat /\ written \in Nat
      BY <2>1 DEF TypeOK
    <2>3. request_r \in Seq(ElementsOut)
      BY <2>2, ReqOutType, EmptyTypes
    <2>4. Wire(outData) \in Seq(ElementsOut) /\ <<StanzaOut(written')>> \in Seq(ElementsOut)
      BY <2>2, ReqOutType, WireType DEF TypeOK
    <2> HIDE DEF request_r
    <2>5. items \in Seq(ElementsOut)
      BY <2>3, <2>4, ConcatProperties
    <2> HIDE DEF items, asks
    <2>6. /\ s2c \in Seq(ElementsIn)
          /\ (waiting_answer \/ asks) \in BOOLEAN /\ (due /\ ~asks) \in BOOLEAN
      BY DEF TypeOK
    <2>7. TimedTypeOK' /\ outData' \in {<<>>}
      BY <2>1, <2>2, <2>5, <2>6, EmptyTypes, SettleTimerType
    <2>8. /\ send_queue' \in Seq(Nat) /\ Len(send_queue') = Len(send_queue) + 1
      BY <2>1, <2>2, AppendProperties DEF TypeOK
    <2>9. TypeOK'
      BY <2>1, <2>2, <2>7, <2>8 DEF TimedTypeOK, TypeOK, inVars, serverVars
    <2>10. QED
      BY <2>1, <2>2, <2>7, <2>8, <2>9, EmptySeq, WiredType
  <1>8. CASE BytesWritten
    <2>1. /\ UNCHANGED <<server_last_handled, send_queue, resumable, inVars, serverVars,
                         losses, appVars>>
          /\ SettleTimer(<<>>, outData, waiting_answer, due, FALSE, s2c)
      BY <1>8 DEF BytesWritten
    <2>2. TimedTypeOK' /\ outData' \in {outData, <<>>}
      <3>1. /\ written' \in Nat /\ outData \in Seq(Nat) /\ s2c \in Seq(ElementsIn)
            /\ waiting_answer \in BOOLEAN /\ due \in BOOLEAN /\ pendingWrite \in BOOLEAN
        BY <2>1 DEF TypeOK, appVars
      <3>2. QED
        BY <2>1, <3>1, EmptyTypes, SettleTimerType
    <2>3. TypeOK'
      BY <2>1, <2>2 DEF TimedTypeOK, TypeOK, inVars, serverVars, appVars
    <2>4. Len(outData') <= written
      BY <2>2, EmptySeq DEF TypeOK
    <2>5. QED
      BY <2>1, <2>3, <2>4 DEF appVars
  <1>9. CASE Noop
    <2>1. /\ UNCHANGED <<server_last_handled, send_queue, resumable, inVars, serverVars,
                         losses, appVars>>
          /\ SettleTimer(Wire(outData), <<>>, waiting_answer, due, pendingWrite, s2c)
      BY <1>9 DEF Noop
    <2>2. Wire(outData) \in Seq(ElementsOut)
      BY WireType DEF TypeOK
    <2>3. TimedTypeOK' /\ outData' = <<>>
      <3>1. /\ written' \in Nat /\ outData \in Seq(Nat) /\ s2c \in Seq(ElementsIn)
            /\ waiting_answer \in BOOLEAN /\ due \in BOOLEAN /\ pendingWrite \in BOOLEAN
        BY <2>1 DEF TypeOK, appVars
      <3>2. QED
        BY <2>1, <2>2, <3>1, EmptyTypes, SettleTimerType
    <2>4. TypeOK'
      BY <2>1, <2>3 DEF TimedTypeOK, TypeOK, inVars, serverVars, appVars
    <2>5. QED
      BY <2>1, <2>3, <2>4, EmptySeq DEF TypeOK, appVars
  <1>10. CASE RecvStanza
    <2> DEFINE d == due /\ ~waiting_answer
    <2>1. /\ received_count' = (received_count + 1) % W
          /\ received' = Append(received, Head(s2c).n)
          /\ UNCHANGED <<server_last_handled, send_queue, resumable, serverVars,
                         losses, appVars>>
          /\ SettleTimer(<<>>, outData, waiting_answer, d, pendingWrite, Tail(s2c))
      BY <1>10 DEF RecvStanza
    <2>2. Tail(s2c) \in Seq(ElementsIn) /\ Head(s2c).n \in Nat
      BY <1>10, HeadTailIn DEF RecvStanza
    <2>3. received_count' \in 0..(W - 1) /\ received' \in Seq(Nat)
      BY <2>1, <2>2, DivMod, AppendProperties DEF TypeOK
    <2>4. d \in BOOLEAN
      OBVIOUS
    <2> HIDE DEF d
    <2>5. TimedTypeOK' /\ outData' \in {outData, <<>>}
      <3>1. /\ written' \in Nat /\ outData \in Seq(Nat)
            /\ waiting_answer \in BOOLEAN /\ pendingWrite \in BOOLEAN
        BY <2>1 DEF TypeOK, appVars
      <3>2. QED
        BY <2>1, <2>2, <2>4, <3>1, EmptyTypes, SettleTimerType
    <2>6. TypeOK'
      BY <2>1, <2>3, <2>5 DEF TimedTypeOK, TypeOK, serverVars, appVars
    <2>7. Len(outData') <= written
      BY <2>5, EmptySeq DEF TypeOK
    <2>8. QED
      BY <2>1, <2>6, <2>7 DEF appVars
  <1>11. CASE RecvRequest
    <2> DEFINE d == due /\ ~waiting_answer
               items == <<AnsOut(Wired, received_count)>> \o Wire(outData)
    <2>1. /\ UNCHANGED <<server_last_handled, send_queue, resumable, inVars, serverVars,
                         losses, appVars>>
          /\ SettleTimer(items, <<>>, waiting_answer, d, pendingWrite, Tail(s2c))
      BY <1>11 DEF RecvRequest
    <2>2. Tail(s2c) \in Seq(ElementsIn)
      BY <1>11, HeadTailIn DEF RecvRequest
    <2>3. <<AnsOut(Wired, received_count)>> \in Seq(ElementsOut)
      BY WiredType DEF AnsOut, ElementsOut, TypeOK
    <2>4. items \in Seq(ElementsOut)
      BY <2>3, WireType, ConcatProperties DEF TypeOK
    <2>5. d \in BOOLEAN
      OBVIOUS
    <2> HIDE DEF d, items
    <2>6. TimedTypeOK' /\ outData' = <<>>
      <3>1. /\ written' \in Nat /\ outData \in Seq(Nat) /\ s2c \in Seq(ElementsIn)
            /\ waiting_answer \in BOOLEAN /\ due \in BOOLEAN /\ pendingWrite \in BOOLEAN
        BY <2>1 DEF TypeOK, appVars
      <3>2. QED
        BY <2>1, <2>2, <2>4, <2>5, <3>1, EmptyTypes, SettleTimerType
    <2>7. TypeOK'
      BY <2>1, <2>6 DEF TimedTypeOK, TypeOK, inVars, serverVars, appVars
    <2>8. QED
      BY <2>1, <2>6, <2>7, EmptySeq DEF TypeOK, appVars
  <1>12. CASE RecvAck
    <2>1. Tail(s2c) \in Seq(ElementsIn) /\ Head(s2c).n \in Nat
      BY <1>12, HeadTailIn DEF RecvAck
    <2>2. /\ send_queue' \in Seq(Nat) /\ Len(send_queue') <= Len(send_queue)
          /\ server_last_handled' \in 0..(W - 1)
          /\ Len(send_queue) - Len(send_queue') \in Nat
      BY <1>12, <2>1, ProcessAcknowledgementType DEF RecvAck
    <2>3. Len(send_queue') \in Nat /\ Len(send_queue) \in Nat
      BY <2>2, LenProperties, WiredType
    <2>4. /\ s2c' = Tail(s2c)
          /\ waiting_answer' = FALSE /\ due' = FALSE
          /\ reported' = reported + sm_stanzas_notify + Len(send_queue) - Len(send_queue')
          /\ sm_stanzas_notify' = 0
          /\ UNCHANGED <<streamVars, outVars, smVars, inVars, serverVars, linkVars,
                         c2s, written>>
      BY <1>12 DEF RecvAck
    <2>5. reported' \in Nat
      BY <2>2, <2>3, <2>4 DEF TypeOK
    <2>6. /\ s2c' \in Seq(ElementsIn) /\ sm_stanzas_notify' \in Nat
          /\ waiting_answer' \in BOOLEAN /\ due' \in BOOLEAN
      BY <2>1, <2>4
    <2>7. UNCHANGED <<streamVars, outVars, smVars, inVars, serverVars, linkVars,
                      c2s, written>>
      BY <2>4
    <2>8. TypeOK'
      BY <2>2, <2>5, <2>6, <2>7 DEF TypeOK, streamVars, outVars, smVars, inVars,
         serverVars, linkVars
    <2>9. QED
      BY <2>2, <2>3, <2>7, <2>8 DEF TypeOK, outVars
  <1>13. CASE ConnectionClosed
    <2>1. c2s' \in Seq(ElementsOut)
      BY <1>13, PrefixType DEF ConnectionClosed, TypeOK
    <2>2. /\ state' = "Idle" /\ ResetStream
          /\ UNCHANGED <<quiet_reconnection, server_last_handled, send_queue, resumable,
                         inVars, serverVars, losses, appVars>>
      BY <1>13 DEF ConnectionClosed
    <2>3. TypeOK'
      BY <2>1, <2>2, EmptyTypes, NoRequestType DEF ResetStream, TypeOK, inVars,
         serverVars, appVars
    <2>4. QED
      BY <2>2, <2>3, EmptySeq DEF ResetStream, TypeOK, appVars
  <1>14. CASE Tick
    BY <1>14 DEF Tick, TypeOK, streamVars, outVars, queueVars,
       smVars, inVars, serverVars, appVars
  <1>15. CASE ServerEnable
    <2>1. PICK answer \in {Enabled(TRUE), Enabled(FALSE), Failed} : s2c' = <<answer>>
      BY <1>15 DEF ServerEnable
    <2>2. s2c' \in Seq(ElementsIn)
      BY <2>1 DEF Enabled, Failed, ElementsIn
    <2>3. /\ request' = NoRequest /\ attached' = TRUE /\ c2s' = <<>>
          /\ UNCHANGED <<streamVars, outVars, timerVars, queueVars, smVars, inVars,
                         serverVars, losses, appVars>>
      BY <1>15 DEF ServerEnable
    <2>4. QED
      BY <2>2, <2>3, EmptyTypes, NoRequestType DEF TypeOK, streamVars, outVars,
         timerVars, queueVars, smVars, inVars, serverVars, appVars
  <1>16. CASE ServerResume
    <2> DEFINE k == Dequeued(srvAcked, request.h, srvSent - srvAcked)
               acked == srvAcked + k
               again == [i \in 1..(srvSent - acked) |-> StanzaIn(acked + i)]
    <2>1. /\ request' = NoRequest /\ attached' = TRUE /\ c2s' = <<>>
          /\ srvAcked' = acked
          /\ s2c' = <<Resumed(Len(handled))>> \o again
          /\ UNCHANGED <<streamVars, outVars, timerVars, queueVars, smVars, inVars,
                         handled, srvSent, losses, appVars>>
      BY <1>16 DEF ServerResume
    <2>2. request.h \in Int /\ srvAcked \in Nat /\ srvSent \in Nat
      BY <1>0 DEF TypeOK
    <2>3. acked \in Nat
      BY <2>2, DequeuedSum
    <2> HIDE DEF acked
    <2>4. srvSent - acked \in Int
      BY <2>2, <2>3
    <2>5. \A i \in 1..(srvSent - acked) : StanzaIn(acked + i) \in ElementsIn
      BY <2>3, <2>4 DEF StanzaIn, ElementsIn
    <2>6. again \in Seq(ElementsIn)
      <3>1. CASE srvSent - acked \in Nat
        BY <2>5, <3>1
      <3>2. CASE srvSent - acked \notin Nat
        <4>1. 1..(srvSent - acked) = 1..0
          BY <2>4, <3>2
        <4>2. again = [i \in 1..0 |-> StanzaIn(acked + i)]
          BY <4>1
        <4>3. again = <<>>
          BY <4>2
        <4>4. QED
          BY <4>3, EmptyTypes
      <3>3. QED
        BY <3>1, <3>2
    <2> HIDE DEF again
    <2>7. <<Resumed(Len(handled))>> \in Seq(ElementsIn)
      BY LenProperties DEF TypeOK, Resumed, ElementsIn
    <2>8. s2c' \in Seq(ElementsIn)
      BY <2>1, <2>6, <2>7, ConcatProperties
    <2>9. QED
      BY <2>1, <2>3, <2>8, EmptyTypes, NoRequestType DEF TypeOK, streamVars, outVars,
         timerVars, queueVars, smVars, inVars, appVars
  <1>17. CASE ServerRefuse
    <2>1. s2c' \in Seq(ElementsIn)
      BY <1>17 DEF ServerRefuse, Failed, ElementsIn
    <2>2. /\ request' = NoRequest /\ attached' = TRUE /\ c2s' = <<>>
          /\ UNCHANGED <<streamVars, outVars, timerVars, queueVars, smVars, inVars,
                         serverVars, losses, appVars>>
      BY <1>17 DEF ServerRefuse
    <2>3. QED
      BY <2>1, <2>2, EmptyTypes, NoRequestType DEF TypeOK, streamVars, outVars,
         timerVars, queueVars, smVars, inVars, serverVars, appVars
  <1>18. CASE ServerRecv
    <2> DEFINE e == Head(c2s)
               k == Dequeued(srvAcked, e.h, srvSent - srvAcked)
    <2>1. c2s \in Seq(ElementsOut) /\ c2s # <<>>
      BY <1>18 DEF ServerRecv, TypeOK
    <2>2. c2s' = Tail(c2s) /\ c2s' \in Seq(ElementsOut) /\ e \in ElementsOut
      BY <1>18, <2>1, HeadTailProperties DEF ServerRecv
    <2>3. e.n \in Nat /\ e.h \in Nat
      BY <2>2 DEF ElementsOut
    <2>4. handled' \in Seq(Nat)
      BY <1>18, <2>3, AppendProperties DEF ServerRecv, TypeOK
    <2>5. AnsIn(Len(handled)) \in ElementsIn
      BY LenProperties DEF TypeOK, AnsIn, ElementsIn
    <2>6. s2c' \in Seq(ElementsIn)
      BY <1>18, <2>5, AppendProperties DEF ServerRecv, TypeOK
    <2>7. srvAcked \in Nat /\ srvSent \in Nat
      BY DEF TypeOK
    <2>8. srvAcked + k \in Nat
      <3> HIDE DEF e
      <3>1. e.h \in Int
        BY <2>3
      <3>2. QED
        BY <2>7, <3>1, DequeuedSum
    <2> HIDE DEF k
    <2>9. srvAcked' \in Nat
      BY <1>18, <2>7, <2>8 DEF ServerRecv, k
    <2>10. UNCHANGED <<streamVars, outVars, timerVars, queueVars, smVars, inVars,
                       srvSent, linkVars, appVars>>
      BY <1>18 DEF ServerRecv
    <2>11. QED
      BY <2>2, <2>4, <2>6, <2>9, <2>10 DEF TypeOK, streamVars, outVars,
         timerVars, queueVars, smVars, inVars, linkVars, appVars
  <1>19. CASE ServerSend
    <2>1. srvSent' = srvSent + 1
      BY <1>19 DEF ServerSend
    <2>2. srvSent' \in Nat
      BY <2>1 DEF TypeOK
    <2>3. StanzaIn(srvSent') \in ElementsIn
      BY <2>2 DEF StanzaIn, ElementsIn
    <2>4. s2c' \in Seq(ElementsIn)
      BY <1>19, <2>3, AppendProperties DEF ServerSend, TypeOK
    <2>5. UNCHANGED <<streamVars, outVars, timerVars, queueVars, smVars, inVars,
                      handled, srvAcked, linkVars, c2s, appVars>>
      BY <1>19 DEF ServerSend
    <2>6. QED
      BY <2>2, <2>4, <2>5 DEF TypeOK, streamVars, outVars, timerVars, queueVars,
         smVars, inVars, linkVars, appVars
  <1>20. CASE ServerRequest
    <2>1. ReqIn \in ElementsIn
      BY DEF ReqIn, ElementsIn
    <2>2. s2c' \in Seq(ElementsIn)
      BY <1>20, <2>1, AppendProperties DEF ServerRequest, TypeOK
    <2>3. UNCHANGED <<streamVars, outVars, timerVars, queueVars, smVars, inVars,
                      serverVars, linkVars, c2s, appVars>>
      BY <1>20 DEF ServerRequest
    <2>4. QED
      BY <2>2, <2>3 DEF TypeOK, streamVars, outVars, timerVars, queueVars,
         smVars, inVars, serverVars, linkVars, appVars
  <1>21. CASE LinkDies
    <2>1. c2s' \in Seq(ElementsOut) /\ s2c' \in Seq(ElementsIn)
      BY <1>21, PrefixType DEF LinkDies, TypeOK
    <2>2. losses' = losses + 1 /\ attached' = FALSE
      BY <1>21 DEF LinkDies
    <2>3. UNCHANGED <<streamVars, outVars, timerVars, queueVars, smVars, inVars,
                      serverVars, request, appVars>>
      BY <1>21 DEF LinkDies
    <2>4. losses' \in Nat
      BY <2>2 DEF TypeOK
    <2>5. attached' \in BOOLEAN
      BY <2>2
    <2>6. QED
      BY <2>1, <2>3, <2>4, <2>5 DEF TypeOK, streamVars, outVars, timerVars, queueVars,
         smVars, inVars, serverVars, appVars
  <1>22. CASE UNCHANGED vars
    BY <1>22 DEF vars, TypeOK, streamVars, outVars, timerVars, queueVars,
       smVars, inVars, serverVars, linkVars, appVars
  <1>23. QED
    BY <1>1, <1>2, <1>3, <1>4, <1>5, <1>6, <1>7, <1>8, <1>9, <1>10, <1>11,
       <1>12, <1>13, <1>14, <1>15, <1>16, <1>17, <1>18, <1>19, <1>20, <1>21,
       <1>22 DEF Next, ClientNext, ServerNext

(* Every reachable state has its types, whatever the bounds: the client's  *)
(* counters stay below W and no count on the wire is negative.             *)
THEOREM TypeCorrect == Spec => []TypeOK
  <1>1. Spec => []TypeInv
    BY TypeInit, TypeStep, PTL DEF Spec
  <1>2. TypeInv => TypeOK
    BY DEF TypeInv
  <1>3. QED
    BY <1>1, <1>2, PTL

-----------------------------------------------------------------------------
(* Chains. *)

(* A place in a chain of elements is a natural number. *)
LEMMA PlaceType ==
  ASSUME NEW lo \in Nat, NEW s \in Seq(ElementsOut), NEW i \in 0..Len(s)
  PROVE  Place(lo, s, i) \in Nat
  <1>1. CASE i = 0
    BY <1>1 DEF Place
  <1>2. CASE i # 0
    <2>1. i \in 1..Len(s)
      BY <1>2, LenProperties
    <2>2. s[i] \in ElementsOut
      BY <2>1, ElementOfSeq
    <2>3. QED
      BY <1>2, <2>2 DEF Place, ElementsOut
  <1>3. QED
    BY <1>1, <1>2

(* Nothing on the wire: a chain that ends where it starts. *)
LEMMA ChainEmpty ==
  ASSUME NEW lo \in Nat
  PROVE  Chain(lo, <<>>, lo)
  BY EmptySeq DEF Chain, Place

(* One <r/> or <a/> stays in place, one stanza moves it by one. *)
LEMMA ChainOne ==
  ASSUME NEW n \in Nat, NEW h \in Nat
  PROVE  /\ Chain(n, <<ReqOut(n)>>, n)
         /\ Chain(n, <<AnsOut(n, h)>>, n)
         /\ Chain(n, <<StanzaOut(n + 1)>>, n + 1)
  BY DEF Chain, Place, StepOf, ReqOut, AnsOut, StanzaOut

(* Consecutive stanzas, put on the wire, form a chain. *)
LEMMA ChainWire ==
  ASSUME NEW lo \in Nat, NEW q \in Seq(Nat),
         \A i \in 1..Len(q) : q[i] = lo + i
  PROVE  Chain(lo, Wire(q), lo + Len(q))
  <1> DEFINE w == Wire(q)
             n == Len(q)
  <1>1. n \in Nat /\ Len(w) = n /\ \A i \in 1..n : w[i] = StanzaOut(lo + i)
    BY LenProperties, WireType
  <1> HIDE DEF w, n
  <1>2. \A i \in 1..n : w[i].n = lo + i /\ StepOf(w[i]) = 1
    <2>1. SUFFICES ASSUME NEW i \in 1..n PROVE w[i].n = lo + i /\ StepOf(w[i]) = 1
      OBVIOUS
    <2>2. w[i] = [type |-> "stanza", n |-> lo + i, h |-> 0]
      BY <1>1 DEF StanzaOut
    <2>3. QED
      BY <2>2 DEF StepOf
  <1>3. \A i \in 0..n : Place(lo, w, i) = lo + i
    <2>1. SUFFICES ASSUME NEW i \in 0..n PROVE Place(lo, w, i) = lo + i
      OBVIOUS
    <2>2. CASE i = 0
      BY <2>2 DEF Place
    <2>3. CASE i \in 1..n
      <3>1. w[i].n = lo + i /\ i # 0
        BY <1>2, <2>3
      <3>2. QED
        BY <3>1 DEF Place
    <2>4. QED
      BY <1>1, <2>2, <2>3
  <1>4. Chain(lo, w, lo + n)
    BY <1>1, <1>2, <1>3 DEF Chain
  <1>5. QED
    BY <1>4 DEF w, n

(* Chains that meet can be joined. *)
LEMMA ChainConcat ==
  ASSUME NEW lo, NEW mid, NEW hi,
         NEW s \in Seq(ElementsOut), NEW t \in Seq(ElementsOut),
         Chain(lo, s, mid), Chain(mid, t, hi)
  PROVE  Chain(lo, s \o t, hi)
  <1> DEFINE u == s \o t
             m == Len(s)
             n == Len(t)
  <1>1. /\ m \in Nat /\ n \in Nat /\ Len(u) = m + n
        /\ \A i \in 1..m : u[i] = s[i]
        /\ \A i \in (m + 1)..(m + n) : u[i] = t[i - m]
    BY ConcatProperties, LenProperties
  <1>2. /\ lo \in Nat /\ mid \in Nat
        /\ mid = Place(lo, s, m) /\ hi = Place(mid, t, n)
        /\ \A i \in 1..m : s[i].n = Place(lo, s, i - 1) + StepOf(s[i])
        /\ \A i \in 1..n : t[i].n = Place(mid, t, i - 1) + StepOf(t[i])
        /\ \A i, j \in 0..m : i <= j => Place(lo, s, i) <= Place(lo, s, j)
        /\ \A i, j \in 0..n : i <= j => Place(mid, t, i) <= Place(mid, t, j)
    BY DEF Chain
  <1>3. /\ \A i \in 0..m : Place(lo, s, i) \in Nat
        /\ \A i \in 0..n : Place(mid, t, i) \in Nat
    BY <1>2, PlaceType
  <1> HIDE DEF u, m, n
  <1>4. \A i \in 0..m : Place(lo, u, i) = Place(lo, s, i)
    BY <1>1 DEF Place
  <1>5. Place(mid, t, 0) = mid
    BY DEF Place
  <1>6. \A i \in m..(m + n) : Place(lo, u, i) = Place(mid, t, i - m)
    <2>1. SUFFICES ASSUME NEW i \in m..(m + n)
                   PROVE  Place(lo, u, i) = Place(mid, t, i - m)
      OBVIOUS
    <2>2. CASE i = m
      BY <1>1, <1>2, <1>4, <1>5, <2>2
    <2>3. CASE i # m
      BY <1>1, <2>3 DEF Place
    <2>4. QED
      BY <2>2, <2>3
  <1>7. hi = Place(lo, u, Len(u))
    <2>1. m + n \in m..(m + n) /\ (m + n) - m = n
      BY <1>1
    <2>2. QED
      BY <1>1, <1>2, <1>6, <2>1
  <1>8. ASSUME NEW i \in 1..Len(u)
        PROVE  u[i].n = Place(lo, u, i - 1) + StepOf(u[i])
    <2>1. CASE i \in 1..m
      <3>1. u[i] = s[i] /\ i - 1 \in 0..m
        BY <1>1, <2>1
      <3>2. QED
        BY <1>2, <1>4, <2>1, <3>1
    <2>2. CASE i \in (m + 1)..(m + n)
      <3>1. i - m \in 1..n /\ i - 1 \in m..(m + n) /\ (i - 1) - m = (i - m) - 1
        BY <1>1, <2>2
      <3>2. u[i] = t[i - m] /\ Place(lo, u, i - 1) = Place(mid, t, (i - m) - 1)
        BY <1>1, <1>6, <2>2, <3>1
      <3>3. QED
        BY <1>2, <3>1, <3>2
    <2>3. QED
      BY <1>1, <2>1, <2>2
  <1>9. ASSUME NEW i \in 0..Len(u), NEW j \in 0..Len(u), i <= j
        PROVE  Place(lo, u, i) <= Place(lo, u, j)
    <2>1. CASE j <= m
      BY <1>1, <1>2, <1>4, <1>9, <2>1
    <2>2. CASE m <= i
      <3>1. i \in m..(m + n) /\ j \in m..(m + n) /\ i - m \in 0..n /\ j - m \in 0..n /\ i - m <= j - m
        BY <1>1, <1>9, <2>2
      <3>2. QED
        BY <1>2, <1>6, <3>1
    <2>3. CASE i <= m /\ m <= j
      <3>1. i \in 0..m /\ m \in 0..m /\ j \in m..(m + n) /\ j - m \in 0..n /\ 0 \in 0..n
        BY <1>1, <1>9, <2>3
      <3>2. Place(lo, u, i) = Place(lo, s, i) /\ Place(lo, u, j) = Place(mid, t, j - m)
        BY <1>4, <1>6, <3>1
      <3>3. Place(lo, s, i) <= mid /\ mid <= Place(mid, t, j - m)
        BY <1>1, <1>2, <1>5, <3>1, <2>3
      <3>4. QED
        BY <1>2, <1>3, <3>1, <3>2, <3>3
    <2>4. QED
      BY <1>1, <2>1, <2>2, <2>3
  <1>10. QED
    BY <1>2, <1>7, <1>8, <1>9 DEF Chain, u

(* The server reads the first element of a chain: the rest is a chain from it. *)
LEMMA ChainTail ==
  ASSUME NEW lo, NEW hi, NEW s \in Seq(ElementsOut), s # <<>>, Chain(lo, s, hi)
  PROVE  /\ Head(s).n = lo + StepOf(Head(s)) /\ Head(s).n <= hi
         /\ Chain(Head(s).n, Tail(s), hi)
  <1> DEFINE t == Tail(s)
             e == Head(s)
             n == Len(s)
  <1>1. /\ n \in Nat /\ n > 0 /\ e = s[1] /\ Len(t) = n - 1
        /\ \A i \in 1..(n - 1) : t[i] = s[i + 1]
    BY HeadTailProperties, LenProperties, EmptySeq
  <1>2. e \in ElementsOut
    BY HeadTailProperties
  <1>3. e.n \in Nat
    BY <1>2 DEF ElementsOut
  <1>4. /\ lo \in Nat /\ hi = Place(lo, s, n)
        /\ \A i \in 1..n : s[i].n = Place(lo, s, i - 1) + StepOf(s[i])
        /\ \A i, j \in 0..n : i <= j => Place(lo, s, i) <= Place(lo, s, j)
    BY DEF Chain
  <1> HIDE DEF t, e, n
  <1>5. Place(lo, s, 0) = lo /\ Place(lo, s, 1) = e.n
    BY <1>1 DEF Place
  <1>6. e.n = lo + StepOf(e) /\ e.n <= hi
    <2>1. 1 \in 1..n /\ 1 \in 0..n /\ n \in 0..n /\ 1 <= n /\ 1 - 1 = 0
      BY <1>1
    <2>2. s[1].n = Place(lo, s, 0) + StepOf(s[1])
      BY <1>4, <2>1
    <2>3. Place(lo, s, 1) <= Place(lo, s, n)
      BY <1>4, <2>1
    <2>4. QED
      BY <1>1, <1>4, <1>5, <2>2, <2>3
  <1>7. \A i \in 0..(n - 1) : Place(e.n, t, i) = Place(lo, s, i + 1)
    BY <1>1 DEF Place
  <1>8. hi = Place(e.n, t, Len(t))
    <2>1. n - 1 \in 0..(n - 1) /\ (n - 1) + 1 = n
      BY <1>1
    <2>2. QED
      BY <1>1, <1>4, <1>7, <2>1
  <1>9. ASSUME NEW i \in 1..(n - 1)
        PROVE  t[i].n = Place(e.n, t, i - 1) + StepOf(t[i])
    <2>1. i + 1 \in 1..n /\ (i + 1) - 1 = (i - 1) + 1 /\ i - 1 \in 0..(n - 1)
      BY <1>1
    <2>2. QED
      BY <1>1, <1>4, <1>7, <2>1
  <1>10. ASSUME NEW i \in 0..(n - 1), NEW j \in 0..(n - 1), i <= j
         PROVE  Place(e.n, t, i) <= Place(e.n, t, j)
    <2>1. i + 1 \in 0..n /\ j + 1 \in 0..n /\ i + 1 <= j + 1
      BY <1>1, <1>10
    <2>2. QED
      BY <1>4, <1>7, <2>1
  <1>11. Chain(e.n, t, hi)
    BY <1>1, <1>3, <1>8, <1>9, <1>10 DEF Chain
  <1>12. QED
    BY <1>6, <1>11 DEF e, t

(* What a dying link still delivers is a chain, to an earlier end. *)
LEMMA ChainPrefix ==
  ASSUME NEW lo, NEW hi, NEW s \in Seq(ElementsOut), Chain(lo, s, hi),
         NEW t \in Prefixes(s)
  PROVE  \E mid \in Nat : Chain(lo, t, mid) /\ mid <= hi
  <1> DEFINE n == Len(s)
  <1>1. PICK k \in 0..n : t = SubSeq(s, 1, k)
    BY DEF Prefixes
  <1>2. n \in Nat /\ k \in Nat /\ k \in 0..n
    BY LenProperties
  <1>3. \A i \in 1..k : s[i] \in ElementsOut
    BY <1>2, ElementOfSeq
  <1>4. Len(t) = k /\ \A i \in 1..k : t[i] = s[i]
    <2>1. /\ Len(t) = (IF 1 <= k THEN k - 1 + 1 ELSE 0)
          /\ \A i \in 1..(k - 1 + 1) : t[i] = s[1 + i - 1]
      BY <1>1, <1>2, <1>3, SubSeqProperties
    <2>2. QED
      BY <1>2, <2>1
  <1>5. /\ lo \in Nat /\ hi = Place(lo, s, n)
        /\ \A i \in 1..n : s[i].n = Place(lo, s, i - 1) + StepOf(s[i])
        /\ \A i, j \in 0..n : i <= j => Place(lo, s, i) <= Place(lo, s, j)
    BY DEF Chain
  <1>6. Place(lo, s, k) \in Nat
    BY <1>2, <1>5, PlaceType
  <1> HIDE DEF n
  <1>7. \A i \in 0..k : Place(lo, t, i) = Place(lo, s, i)
    BY <1>2, <1>4 DEF Place
  <1>8. Place(lo, s, k) <= hi
    <2>1. k \in 0..n /\ n \in 0..n /\ k <= n
      BY <1>2
    <2>2. Place(lo, s, k) <= Place(lo, s, n)
      BY <1>5, <2>1
    <2>3. QED
      BY <1>5, <2>2
  <1>9. ASSUME NEW i \in 1..k
        PROVE  t[i].n = Place(lo, t, i - 1) + StepOf(t[i])
    <2>1. i \in 1..n /\ i - 1 \in 0..k /\ t[i] = s[i]
      BY <1>2, <1>4
    <2>2. Place(lo, t, i - 1) = Place(lo, s, i - 1)
      BY <1>7, <2>1
    <2>3. QED
      BY <1>5, <2>1, <2>2
  <1>10. \A i, j \in 0..k : i <= j => Place(lo, t, i) <= Place(lo, t, j)
    BY <1>2, <1>5, <1>7
  <1>11. Chain(lo, t, Place(lo, s, k))
    BY <1>2, <1>4, <1>5, <1>7, <1>9, <1>10 DEF Chain
  <1>12. QED
    BY <1>6, <1>8, <1>11

-----------------------------------------------------------------------------
(* What the steps of the client share. *)

(* Reducing a summand modulo W does not change the sum modulo W. *)
LEMMA ModAdd ==
  ASSUME NEW a \in Nat, NEW k \in Nat
  PROVE  ((a % W) + k) % W = (a + k) % W
  <1> DEFINE ra == a % W
             qa == a \div W
             x  == ra + k
             y  == a + k
  <1>1. a = (W * qa) + ra /\ qa \in Int /\ ra \in 0..(W - 1) /\ W \in Int
    BY DivMod, CounterAssumption
  <1>2. x \in Int /\ y \in Int /\ y = (W * qa) + x
    BY <1>1
  <1> HIDE DEF ra, qa, x, y
  <1> DEFINE rx == x % W
             qx == x \div W
             ry == y % W
             qy == y \div W
  <1>3. /\ x = (W * qx) + rx /\ qx \in Int /\ rx \in 0..(W - 1)
        /\ y = (W * qy) + ry /\ qy \in Int /\ ry \in 0..(W - 1)
    BY <1>2, DivMod
  <1> HIDE DEF rx, qx, ry, qy
  <1> DEFINE p == qa + qx
  <1>4. p \in Int /\ W * p + rx = W * qy + ry
    BY <1>1, <1>2, <1>3
  <1> HIDE DEF p
  <1>5. rx = ry
    BY <1>3, <1>4, UniqueRemainder
  <1>6. QED
    BY <1>5 DEF rx, ry, x, y, ra

(* The invariant in terms of the counts the server and the client keep. *)
LEMMA QueueFacts ==
  ASSUME IInv
  PROVE  /\ written \in Nat /\ Len(send_queue) \in Nat /\ send_queue \in Seq(Nat)
         /\ Acked \in Nat /\ Acked = written - Len(send_queue)
         /\ Len(handled) \in Nat /\ handled \in Seq(Nat)
         /\ Acked <= Len(handled) /\ Len(handled) <= written
         /\ \A i \in 1..Len(send_queue) : send_queue[i] = Acked + i
         /\ server_last_handled = Acked % W
         /\ Len(send_queue) <= MaxQueue /\ Len(send_queue) < W
         /\ outData \in Seq(Nat) /\ Len(outData) \in Nat /\ Wired \in Nat
         /\ Wired = written - Len(outData)
         /\ \A i \in 1..Len(outData) : outData[i] = Wired + i
  <1>1. /\ TypeOK /\ Len(send_queue) <= written /\ Len(outData) <= written
        /\ QueueCoversUnhandled /\ CounterInv /\ BufferInv
    BY DEF IInv, TypeInv
  <1>2. /\ written \in Nat /\ send_queue \in Seq(Nat) /\ handled \in Seq(Nat)
        /\ outData \in Seq(Nat)
    BY <1>1 DEF TypeOK
  <1>3. Len(send_queue) \in Nat /\ Len(handled) \in Nat /\ Len(outData) \in Nat
    BY <1>2, LenProperties
  <1>4. Acked = written - Len(send_queue) /\ Wired = written - Len(outData)
    BY DEF Acked, Wired
  <1>5. /\ Acked <= Len(handled) /\ Len(handled) <= written
        /\ \A i \in 1..Len(send_queue) : send_queue[i] = Acked + i
    BY <1>1 DEF QueueCoversUnhandled, Acked
  <1>6. Len(send_queue) <= MaxQueue /\ server_last_handled = Acked % W
    BY <1>1 DEF CounterInv
  <1>7. \A i \in 1..Len(outData) : outData[i] = Wired + i
    BY <1>1 DEF BufferInv
  <1>8. Acked \in Nat /\ Wired \in Nat
    BY <1>1, <1>2, <1>3, <1>4
  <1>9. Len(send_queue) < W
    BY <1>3, <1>6, CounterAssumption
  <1>10. QED
    BY <1>2, <1>3, <1>4, <1>5, <1>6, <1>7, <1>8, <1>9

(* An acknowledgement that lies where the counts of the server lie leaves  *)
(* the queue with exactly the stanzas beyond it.                           *)
LEMMA AcknowledgementExact ==
  ASSUME IInv, NEW h \in Nat, Acked <= h, h <= Len(handled),
         ProcessAcknowledgement(h)
  PROVE  /\ send_queue' \in Seq(Nat) /\ Len(send_queue') = written - h
         /\ \A i \in 1..(written - h) : send_queue'[i] = h + i
         /\ server_last_handled' = h % W
  <1> DEFINE q   == send_queue
             len == Len(send_queue)
             k   == h - Acked
  <1>1. /\ written \in Nat /\ len \in Nat /\ q \in Seq(Nat) /\ len < W
        /\ Acked \in Nat /\ Acked = written - len /\ h <= written
        /\ \A i \in 1..len : q[i] = Acked + i
        /\ server_last_handled = Acked % W
    BY QueueFacts
  <1>2. k \in 0..len /\ k \in Nat /\ k < W /\ len - k = written - h /\ Acked + k = h
    <2> HIDE DEF q, len
    <2>1. QED
      BY <1>1, CounterAssumption
  <1>3. Distance(Acked % W, h) = k
    BY <1>1, <1>2, DistanceExact
  <1>4. Dequeued(server_last_handled, h, len) = k
    BY <1>1, <1>2, <1>3 DEF Dequeued
  <1>5. /\ send_queue' = SubSeq(q, k + 1, len)
        /\ server_last_handled' = ((Acked % W) + k) % W
    BY <1>1, <1>4 DEF ProcessAcknowledgement
  <1> HIDE DEF q, len, k
  <1>6. server_last_handled' = h % W
    <2>1. ((Acked % W) + k) % W = (Acked + k) % W
      BY <1>1, <1>2, ModAdd
    <2>2. QED
      BY <1>2, <1>5, <2>1
  <1>7. ASSUME NEW i \in (k + 1)..len
        PROVE  q[i] \in Nat
    <2>1. i \in 1..len
      BY <1>2
    <2>2. QED
      BY <1>1, <2>1, ElementOfSeq DEF len
  <1>8. /\ send_queue' \in Seq(Nat)
        /\ Len(send_queue') = (IF k + 1 <= len THEN len - (k + 1) + 1 ELSE 0)
        /\ \A i \in 1..(len - (k + 1) + 1) : send_queue'[i] = q[k + 1 + i - 1]
    BY <1>1, <1>2, <1>5, <1>7, SubSeqProperties
  <1>9. Len(send_queue') = written - h
    BY <1>1, <1>2, <1>8
  <1>10. \A i \in 1..(written - h) : send_queue'[i] = h + i
    <2>1. SUFFICES ASSUME NEW i \in 1..(written - h) PROVE send_queue'[i] = h + i
      OBVIOUS
    <2>2. i \in 1..(len - (k + 1) + 1) /\ k + 1 + i - 1 = k + i /\ k + i \in 1..len
      BY <1>1, <1>2
    <2>3. send_queue'[i] = q[k + i]
      BY <1>8, <2>2
    <2>4. q[k + i] = Acked + (k + i)
      BY <1>1, <2>2
    <2>5. QED
      BY <1>1, <1>2, <2>3, <2>4
  <1>11. QED
    BY <1>6, <1>8, <1>9, <1>10

(* An empty connection holds no count. *)
LEMMA CountsEmpty ==
  ASSUME NEW lo, NEW hi
  PROVE  Counts(<<>>, lo, hi)
  BY EmptySeq DEF Counts

(* Reading a count raises the lower bound of those behind it. *)
LEMMA CountsTail ==
  ASSUME NEW q \in Seq(ElementsIn), q # <<>>, NEW lo, NEW hi, Counts(q, lo, hi)
  PROVE  /\ Counts(Tail(q), lo, hi)
         /\ IsCount(Head(q)) => /\ lo <= Head(q).n /\ Head(q).n <= hi
                                /\ Counts(Tail(q), Head(q).n, hi)
  <1> DEFINE n == Len(q)
             t == Tail(q)
  <1>1. /\ n \in Nat /\ n > 0 /\ Head(q) = q[1] /\ Len(t) = n - 1
        /\ \A i \in 1..(n - 1) : t[i] = q[i + 1]
    BY HeadTailProperties, LenProperties, EmptySeq
  <1>2. /\ \A i \in 1..n : IsCount(q[i]) => lo <= q[i].n /\ q[i].n <= hi
        /\ \A i, j \in 1..n :
             i <= j /\ IsCount(q[i]) /\ IsCount(q[j]) => q[i].n <= q[j].n
    BY DEF Counts
  <1> HIDE DEF n, t
  <1>3. \A i \in 1..(n - 1) : i + 1 \in 1..n
    BY <1>1
  <1>4. /\ \A i \in 1..Len(t) : IsCount(t[i]) => lo <= t[i].n /\ t[i].n <= hi
        /\ \A i, j \in 1..Len(t) :
             i <= j /\ IsCount(t[i]) /\ IsCount(t[j]) => t[i].n <= t[j].n
    <2>1. ASSUME NEW i \in 1..Len(t), IsCount(t[i])
          PROVE  lo <= t[i].n /\ t[i].n <= hi
      <3>1. t[i] = q[i + 1] /\ i + 1 \in 1..n
        BY <1>1, <1>3
      <3>2. QED
        BY <1>2, <2>1, <3>1
    <2>2. ASSUME NEW i \in 1..Len(t), NEW j \in 1..Len(t),
                 i <= j, IsCount(t[i]), IsCount(t[j])
          PROVE  t[i].n <= t[j].n
      <3>1. t[i] = q[i + 1] /\ i + 1 \in 1..n /\ t[j] = q[j + 1] /\ j + 1 \in 1..n
            /\ i + 1 <= j + 1
        BY <1>1, <1>3, <2>2
      <3>2. QED
        BY <1>2, <2>2, <3>1
    <2>3. QED
      BY <2>1, <2>2
  <1>5. Counts(t, lo, hi)
    BY <1>4 DEF Counts
  <1>6. ASSUME IsCount(q[1])
        PROVE  /\ lo <= q[1].n /\ q[1].n <= hi
               /\ \A i \in 1..Len(t) : IsCount(t[i]) => q[1].n <= t[i].n
    <2>1. 1 \in 1..n /\ \A i \in 1..Len(t) : 1 <= i + 1 /\ i + 1 \in 1..n
      BY <1>1
    <2>2. ASSUME NEW i \in 1..Len(t), IsCount(t[i]) PROVE q[1].n <= t[i].n
      <3>1. t[i] = q[i + 1]
        BY <1>1
      <3>2. QED
        BY <1>2, <1>6, <2>1, <2>2, <3>1
    <2>3. QED
      BY <1>2, <1>6, <2>1, <2>2
  <1>7. ASSUME IsCount(q[1]) PROVE Counts(t, q[1].n, hi)
    BY <1>4, <1>6, <1>7 DEF Counts
  <1>8. QED
    BY <1>1, <1>5, <1>6, <1>7 DEF t

(* Reading several elements keeps the bounds of the rest. *)
LEMMA CountsSuffix ==
  ASSUME NEW q \in Seq(ElementsIn), NEW m \in 1..3, NEW lo, NEW hi, Counts(q, lo, hi)
  PROVE  Counts(SubSeq(q, m, Len(q)), lo, hi)
  <1> DEFINE n == Len(q)
             t == SubSeq(q, m, n)
  <1>1. n \in Nat /\ m \in Nat /\ m > 0
    BY LenProperties
  <1>2. \A i \in m..n : q[i] \in ElementsIn
    BY <1>1, ElementOfSeq
  <1> HIDE DEF n
  <1>3. /\ Len(t) = (IF m <= n THEN n - m + 1 ELSE 0)
        /\ \A i \in 1..(n - m + 1) : t[i] = q[m + i - 1]
    BY <1>1, <1>2, SubSeqProperties
  <1> HIDE DEF t
  <1>4. ASSUME NEW i \in 1..Len(t)
        PROVE  t[i] = q[m + i - 1] /\ m + i - 1 \in 1..n
    BY <1>1, <1>3
  <1>5. /\ \A i \in 1..n : IsCount(q[i]) => lo <= q[i].n /\ q[i].n <= hi
        /\ \A i, j \in 1..n :
             i <= j /\ IsCount(q[i]) /\ IsCount(q[j]) => q[i].n <= q[j].n
    BY DEF Counts, n
  <1>6. ASSUME NEW i \in 1..Len(t), IsCount(t[i])
        PROVE  lo <= t[i].n /\ t[i].n <= hi
    BY <1>4, <1>5, <1>6
  <1>7. ASSUME NEW i \in 1..Len(t), NEW j \in 1..Len(t),
               i <= j, IsCount(t[i]), IsCount(t[j])
        PROVE  t[i].n <= t[j].n
    <2>1. m + i - 1 <= m + j - 1
      BY <1>1, <1>7
    <2>2. QED
      BY <1>4, <1>5, <1>7, <2>1
  <1>8. QED
    BY <1>6, <1>7 DEF Counts, t, n

(* What a dying link still delivers keeps its bounds. *)
LEMMA CountsPrefix ==
  ASSUME NEW q \in Seq(ElementsIn), NEW t \in Prefixes(q), NEW lo, NEW hi,
         Counts(q, lo, hi)
  PROVE  Counts(t, lo, hi) /\ (q = <<>> => t = <<>>)
  <1>1. PICK k \in 0..Len(q) : t = SubSeq(q, 1, k)
    BY DEF Prefixes
  <1>2. Len(q) \in Nat /\ k \in Nat /\ k <= Len(q)
    BY LenProperties
  <1>3. \A i \in 1..k : q[i] \in ElementsIn
    BY <1>2, ElementOfSeq
  <1>4. t \in Seq(ElementsIn) /\ Len(t) = k /\ \A i \in 1..k : t[i] = q[i]
    <2>1. /\ t \in Seq(ElementsIn)
          /\ Len(t) = (IF 1 <= k THEN k - 1 + 1 ELSE 0)
          /\ \A i \in 1..(k - 1 + 1) : t[i] = q[1 + i - 1]
      BY <1>1, <1>2, <1>3, SubSeqProperties
    <2>2. QED
      BY <1>2, <2>1
  <1>5. 1..k \subseteq 1..Len(q)
    BY <1>2
  <1>6. Counts(t, lo, hi)
    BY <1>4, <1>5 DEF Counts
  <1>7. q = <<>> => t = <<>>
    BY <1>2, <1>4, EmptySeq
  <1>8. QED
    BY <1>6, <1>7

(* The server appends its current count, the highest of all. *)
LEMMA CountsAppend ==
  ASSUME NEW q \in Seq(ElementsIn), NEW lo \in Nat, NEW hi \in Nat, lo <= hi,
         Counts(q, lo, hi), NEW e \in ElementsIn, IsCount(e) => e.n = hi
  PROVE  Counts(Append(q, e), lo, hi)
  <1> DEFINE n == Len(q)
             u == Append(q, e)
  <1>1. /\ n \in Nat /\ Len(u) = n + 1 /\ u[n + 1] = e
        /\ \A i \in 1..n : u[i] = q[i]
    BY AppendProperties, LenProperties
  <1>2. /\ \A i \in 1..n : IsCount(q[i]) => lo <= q[i].n /\ q[i].n <= hi
        /\ \A i, j \in 1..n :
             i <= j /\ IsCount(q[i]) /\ IsCount(q[j]) => q[i].n <= q[j].n
    BY DEF Counts
  <1> HIDE DEF n, u
  <1>3. ASSUME NEW i \in 1..Len(u), IsCount(u[i])
        PROVE  lo <= u[i].n /\ u[i].n <= hi
    <2>1. CASE i \in 1..n
      BY <1>1, <1>2, <1>3, <2>1
    <2>2. CASE i = n + 1
      BY <1>1, <1>3, <2>2
    <2>3. QED
      BY <1>1, <2>1, <2>2
  <1>4. ASSUME NEW i \in 1..Len(u), NEW j \in 1..Len(u),
               i <= j, IsCount(u[i]), IsCount(u[j])
        PROVE  u[i].n <= u[j].n
    <2>1. CASE j \in 1..n
      <3>1. i \in 1..n
        BY <1>1, <1>4, <2>1
      <3>2. QED
        BY <1>1, <1>2, <1>4, <2>1, <3>1
    <2>2. CASE j = n + 1
      <3>1. u[j].n = hi
        BY <1>1, <1>4, <2>2
      <3>2. QED
        BY <1>3, <1>4, <3>1
    <2>3. QED
      BY <1>1, <2>1, <2>2
  <1>5. QED
    BY <1>3, <1>4 DEF Counts, u

(* The upper bound may rise: the server handles one more stanza. *)
LEMMA CountsWiden ==
  ASSUME NEW q \in Seq(ElementsIn), NEW lo, NEW hi \in Nat, NEW top \in Nat,
         hi <= top, Counts(q, lo, hi)
  PROVE  Counts(q, lo, top)
  <1>1. \A i \in 1..Len(q) : q[i].n \in Nat
    <2>1. SUFFICES ASSUME NEW i \in 1..Len(q) PROVE q[i].n \in Nat
      OBVIOUS
    <2>2. q[i] \in ElementsIn
      BY ElementOfSeq
    <2>3. QED
      BY <2>2 DEF ElementsIn
  <1>2. QED
    BY <1>1 DEF Counts

(* The invariant in terms of the two directions of the connection. *)
LEMMA WireFacts ==
  ASSUME IInv
  PROVE  /\ c2s \in Seq(ElementsOut) /\ s2c \in Seq(ElementsIn)
         /\ \E hi \in Nat : /\ Chain(Len(handled), c2s, hi) /\ hi <= written
                            /\ isActive /\ attached => hi = Wired
         /\ Counts(s2c, Acked, Len(handled))
         /\ reported \in Nat /\ sm_stanzas_notify \in Nat
         /\ reported + sm_stanzas_notify <= Acked
  BY DEF IInv, TypeInv, TypeOK, WireInv, CountInv, ReportInv

(* In Active the login is over. *)
LEMMA ActiveFacts ==
  ASSUME IInv, state = "Active"
  PROVE  step = "Done" /\ isActive /\ request.type = "none"
  BY DEF IInv, PhaseInv

(* What the end of a step keeps: items continue the wire to the mid-th     *)
(* stanza and stale continues it from there to the last one written.       *)
LEMMA SettleTimerInv ==
  ASSUME IInv, state = "Active",
         NEW items \in Seq(ElementsOut), NEW stale \in Seq(Nat),
         NEW w \in BOOLEAN, NEW d \in BOOLEAN, NEW p \in BOOLEAN,
         NEW rest, rest = s2c \/ (s2c # <<>> /\ rest = Tail(s2c)),
         NEW mid \in Nat, Chain(Wired, items, mid), mid + Len(stale) = written',
         \A i \in 1..Len(stale) : stale[i] = mid + i,
         written' \in Nat, written <= written', Acked' = Acked,
         UNCHANGED <<handled, resumable, reported>>,
         SettleTimer(items, stale, w, d, p, rest)
  PROVE  /\ PhaseInv' /\ LoginInv'
         /\ BufferInv' /\ WireInv' /\ CountInv' /\ ReportInv'
  <1> USE DEF streamVars
  <1>1. PICK hi \in Nat : /\ Chain(Len(handled), c2s, hi) /\ hi <= written
                          /\ isActive /\ attached => hi = Wired
    BY WireFacts
  <1>2. /\ c2s \in Seq(ElementsOut) /\ s2c \in Seq(ElementsIn)
        /\ Counts(s2c, Acked, Len(handled))
        /\ reported \in Nat /\ sm_stanzas_notify \in Nat
        /\ reported + sm_stanzas_notify <= Acked
    BY WireFacts
  <1>3. /\ written \in Nat /\ Wired \in Nat /\ Len(stale) \in Nat /\ mid <= written'
        /\ Acked \in Nat
    BY QueueFacts, LenProperties
  <1>4. isActive /\ step = "Done" /\ request.type = "none"
    BY ActiveFacts
  <1>5. Counts(rest, Acked, Len(handled))
    BY <1>2, CountsTail
  <1>6. \E m \in Nat : /\ Chain(Len(handled), Put(items), m) /\ m <= written'
                       /\ attached => m = mid
    <2>1. CASE attached
      <3>1. Chain(Len(handled), c2s \o items, mid)
        BY <1>1, <1>2, <1>4, <2>1, ChainConcat
      <3>2. QED
        BY <1>3, <2>1, <3>1 DEF Put
    <2>2. CASE ~attached
      BY <1>1, <1>3, <2>2 DEF Put
    <2>3. QED
      BY <2>1, <2>2
  <1>7. CASE ~d
    <2>1. /\ c2s' = Put(items) /\ s2c' = rest /\ outData' = stale
          /\ UNCHANGED <<state, step, sm, sm_stanzas_notify, request, attached>>
      BY <1>7 DEF SettleTimer
    <2>2. isActive' = isActive
      BY <2>1 DEF isActive
    <2>3. Wired' = mid
      BY <1>3, <2>1 DEF Wired
    <2>4. PhaseInv'
      BY <1>4, <2>1, <2>2 DEF PhaseInv
    <2>5. LoginInv'
      BY <2>1 DEF LoginInv
    <2>6. BufferInv'
      BY <1>3, <2>1, <2>3 DEF BufferInv
    <2>7. WireInv'
      BY <1>6, <2>1, <2>3 DEF WireInv
    <2>8. CountInv'
      BY <1>5, <2>1 DEF CountInv
    <2>9. ReportInv'
      BY <1>2, <2>1 DEF ReportInv
    <2>10. QED
      BY <2>4, <2>5, <2>6, <2>7, <2>8, <2>9
  <1>8. CASE d /\ ~w
    <2> DEFINE more == items \o Wire(stale) \o <<ReqOut(written')>>
    <2>1. /\ c2s' = Put(more) /\ s2c' = rest /\ outData' = <<>>
          /\ UNCHANGED <<state, step, sm, sm_stanzas_notify, request, attached>>
      BY <1>8 DEF SettleTimer
    <2> HIDE DEF more
    <2>2. isActive' = isActive
      BY <2>1 DEF isActive
    <2>3. Wired' = written'
      <3>1. Len(outData') = 0
        BY <2>1, EmptySeq
      <3>2. \A a \in Nat : a - 0 = a
        OBVIOUS
      <3>3. Wired' = written' - 0
        BY <3>1 DEF Wired
      <3>4. QED
        BY <3>2, <3>3, Zenon
    <2>4. more \in Seq(ElementsOut) /\ Chain(Wired, more, written')
      <3>1. Wire(stale) \in Seq(ElementsOut) /\ <<ReqOut(written')>> \in Seq(ElementsOut)
        BY WireType, ReqOutType
      <3>2. Chain(mid, Wire(stale), written') /\ Chain(written', <<ReqOut(written')>>, written')
        BY ChainWire, ChainOne
      <3>3. items \o Wire(stale) \in Seq(ElementsOut) /\ Chain(Wired, items \o Wire(stale), written')
        BY <3>1, <3>2, ConcatProperties, ChainConcat
      <3>4. QED
        BY <3>1, <3>2, <3>3, ConcatProperties, ChainConcat DEF more
    <2>5. \E m \in Nat : /\ Chain(Len(handled), Put(more), m) /\ m <= written'
                         /\ attached => m = written'
      <3>1. CASE attached
        <4>1. Chain(Len(handled), c2s \o more, written')
          BY <1>1, <1>2, <1>4, <2>4, <3>1, ChainConcat
        <4>2. QED
          BY <1>3, <3>1, <4>1 DEF Put
      <3>2. CASE ~attached
        BY <1>1, <1>3, <3>2 DEF Put
      <3>3. QED
        BY <3>1, <3>2
    <2>6. PhaseInv'
      BY <1>4, <2>1, <2>2 DEF PhaseInv
    <2>7. LoginInv'
      BY <2>1 DEF LoginInv
    <2>8. BufferInv'
      BY <1>3, <2>1, EmptySeq DEF BufferInv
    <2>9. WireInv'
      BY <2>1, <2>3, <2>5 DEF WireInv
    <2>10. CountInv'
      BY <1>5, <2>1 DEF CountInv
    <2>11. ReportInv'
      BY <1>2, <2>1 DEF ReportInv
    <2>12. QED
      BY <2>6, <2>7, <2>8, <2>9, <2>10, <2>11
  <1>9. CASE d /\ w
    <2>1. /\ state' = (IF resumable THEN "Connecting" ELSE "Idle") /\ step' = "Login"
          /\ outData' = <<>> /\ sm' = "off" /\ sm_stanzas_notify' = 0
          /\ request' = NoRequest /\ attached' = FALSE /\ s2c' = <<>>
          /\ c2s' \in Prefixes(Put(items))
      BY <1>9 DEF SettleTimer, ConnTimeout, ResetStream
    <2>2. ~isActive'
      BY <2>1 DEF isActive
    <2>3. PhaseInv'
      BY <2>1, <2>2 DEF PhaseInv, NoRequest
    <2>4. LoginInv'
      BY <2>1, EmptySeq DEF LoginInv, NoRequest
    <2>5. BufferInv'
      BY <2>1, EmptySeq DEF BufferInv
    <2>6. WireInv'
      <3>1. PICK m \in Nat : Chain(Len(handled), Put(items), m) /\ m <= written'
        BY <1>6
      <3>2. Put(items) \in Seq(ElementsOut)
        BY <1>2, ConcatProperties DEF Put
      <3>3. PICK n \in Nat : Chain(Len(handled), c2s', n) /\ n <= m
        BY <2>1, <3>1, <3>2, ChainPrefix
      <3>4. n <= written'
        BY <3>1, <3>3
      <3>5. QED
        BY <2>2, <3>3, <3>4 DEF WireInv
    <2>7. CountInv'
      BY <2>1, CountsEmpty DEF CountInv
    <2>8. ReportInv'
      BY <1>2, <1>3, <2>1 DEF ReportInv
    <2>9. QED
      BY <2>3, <2>4, <2>5, <2>6, <2>7, <2>8
  <1>10. QED
    BY <1>7, <1>8, <1>9

-----------------------------------------------------------------------------
(* The invariant is inductive. *)

(* The invariant holds of a fresh stream. *)
LEMMA InductiveInit == Init => IInv
  <1> SUFFICES ASSUME Init PROVE IInv
    OBVIOUS
  <1>1. TypeInv
    BY TypeInit
  <1>2. /\ Len(<<>>) = 0 /\ handled = <<>> /\ send_queue = <<>> /\ outData = <<>>
        /\ s2c = <<>> /\ c2s = <<>> /\ written = 0 /\ reported = 0
        /\ sm_stanzas_notify = 0 /\ state = "Idle" /\ sm = "off" /\ step = "Login"
        /\ server_last_handled = 0 /\ request = NoRequest /\ attached = FALSE
    BY EmptySeq DEF Init
  <1>3. PhaseInv /\ LoginInv
    BY <1>2 DEF PhaseInv, LoginInv, isActive, NoRequest
  <1>4. HandledExactlyOnce /\ QueueCoversUnhandled
    BY <1>2 DEF HandledExactlyOnce, QueueCoversUnhandled
  <1>5. CounterInv
    <2>1. 0 % W = 0
      BY CounterAssumption
    <2>2. 0 <= MaxQueue
      BY CounterAssumption
    <2>3. QED
      BY <1>2, <2>1, <2>2 DEF CounterInv, Acked
  <1>6. BufferInv /\ ReportInv
    BY <1>2 DEF BufferInv, ReportInv, Acked
  <1>7. WireInv
    BY <1>2, ChainEmpty DEF WireInv, isActive
  <1>8. CountInv
    BY <1>2, CountsEmpty DEF CountInv
  <1>9. QED
    BY <1>1, <1>3, <1>4, <1>5, <1>6, <1>7, <1>8 DEF IInv

(* The queue invariants after a step that writes and acknowledges nothing. *)
LEMMA QueueUnchanged ==
  ASSUME IInv, UNCHANGED <<written, send_queue, handled, server_last_handled>>
  PROVE  /\ HandledExactlyOnce' /\ QueueCoversUnhandled' /\ CounterInv'
         /\ Acked' = Acked
  BY DEF IInv, HandledExactlyOnce, QueueCoversUnhandled, CounterInv, Acked

(* Login starts a session from nothing, as Init does. *)
LEMMA LoginKeeps ==
  ASSUME IInv, TypeInv', Login
  PROVE  IInv'
  <1>2. /\ Len(<<>>) = 0 /\ handled' = <<>> /\ send_queue' = <<>> /\ outData' = <<>>
        /\ s2c' = <<>> /\ c2s' = <<>> /\ written' = 0 /\ reported' = 0
        /\ sm_stanzas_notify' = 0 /\ state' = "Connecting" /\ sm' = "off"
        /\ step' = "Login" /\ resumable' = FALSE
        /\ server_last_handled' = 0 /\ request' = NoRequest /\ attached' = FALSE
    BY EmptySeq DEF Login
  <1>3. PhaseInv' /\ LoginInv'
    BY <1>2 DEF PhaseInv, LoginInv, isActive, NoRequest
  <1>4. HandledExactlyOnce' /\ QueueCoversUnhandled'
    BY <1>2 DEF HandledExactlyOnce, QueueCoversUnhandled
  <1>5. CounterInv'
    <2>1. 0 % W = 0
      BY CounterAssumption
    <2>2. 0 <= MaxQueue
      BY CounterAssumption
    <2>3. QED
      BY <1>2, <2>1, <2>2 DEF CounterInv, Acked
  <1>6. BufferInv' /\ ReportInv'
    BY <1>2 DEF BufferInv, ReportInv, Acked
  <1>7. WireInv'
    BY <1>2, ChainEmpty DEF WireInv, isActive
  <1>8. CountInv'
    BY <1>2, CountsEmpty DEF CountInv
  <1>9. QED
    BY <1>3, <1>4, <1>5, <1>6, <1>7, <1>8 DEF IInv

(* Sending <enable/> or <resume/> keeps the invariant. *)
LEMMA LoginCompleteKeeps ==
  ASSUME IInv, TypeInv', LoginComplete
  PROVE  IInv'
  <1>1. /\ state = "Connecting" /\ step = "Login" /\ step' = "GetSMResponse"
        /\ request' = IF resumable THEN [type |-> "resume", h |-> received_count]
                                   ELSE [type |-> "enable", h |-> 0]
        /\ UNCHANGED <<state, outVars, queueVars, smVars, serverVars, attached,
                       c2s, s2c, appVars>>
    BY DEF LoginComplete
  <1> USE DEF outVars, queueVars, smVars, serverVars, appVars
  <1>2. PhaseInv /\ LoginInv /\ BufferInv /\ WireInv /\ CountInv /\ ReportInv
    BY DEF IInv
  <1>3. ~isActive /\ ~isActive' /\ ~attached /\ s2c = <<>>
    BY <1>1, <1>2 DEF PhaseInv, isActive
  <1>4. PhaseInv'
    BY <1>1, <1>2, <1>3 DEF PhaseInv, NoRequest
  <1>5. LoginInv'
    BY <1>1, <1>2 DEF LoginInv
  <1>6. HandledExactlyOnce' /\ QueueCoversUnhandled' /\ CounterInv' /\ Acked' = Acked
    BY <1>1, QueueUnchanged
  <1>7. BufferInv'
    BY <1>1, <1>2 DEF BufferInv, Wired
  <1>8. WireInv'
    BY <1>1, <1>2, <1>3 DEF WireInv
  <1>9. CountInv' /\ ReportInv'
    BY <1>1, <1>2, <1>6 DEF CountInv, ReportInv
  <1>10. QED
    BY <1>4, <1>5, <1>6, <1>7, <1>8, <1>9 DEF IInv

(* A session that <enabled/> opens has no past, so what follows <enabled/> *)
(* holds no count but zero.                                                *)
LEMMA RecvEnabledKeeps ==
  ASSUME IInv, TypeInv', RecvEnabled
  PROVE  IInv'
  <1> USE DEF serverVars, linkVars
  <1> DEFINE items == (IF AsksAtLength(1) THEN <<ReqOut(0)>> ELSE <<>>) \o <<StanzaOut(1)>>
  <1>1. PICK m \in 2..3 : s2c' = SubSeq(s2c, m, Len(s2c))
    BY DEF RecvEnabled
  <1>2. /\ state = "Connecting" /\ s2c # <<>> /\ Head(s2c).type = "enabled"
        /\ sm' = "started" /\ state' = "Active" /\ step' = "Done"
        /\ server_last_handled' = 0 /\ sm_stanzas_notify' = 0
        /\ written' = 1 /\ send_queue' = <<1>> /\ outData' = <<>>
        /\ c2s' = Put(items)
        /\ UNCHANGED <<serverVars, linkVars, reported>>
    BY DEF RecvEnabled
  <1> HIDE DEF items
  <1>3. PhaseInv /\ LoginInv /\ HandledExactlyOnce
    BY DEF IInv
  <1>4. s2c \in Seq(ElementsIn) /\ Counts(s2c, Acked, Len(handled)) /\ reported \in Nat
    BY WireFacts
  <1>5. ~resumable
    <2>1. Head(s2c) = s2c[1] /\ 1 \in 1..Len(s2c)
      BY <1>2, <1>4, HeadTailProperties, LenProperties, EmptySeq
    <2>2. QED
      BY <1>2, <1>3, <2>1 DEF LoginInv
  <1>6. written = 0 /\ reported = 0 /\ handled = <<>> /\ c2s = <<>> /\ send_queue = <<>>
    BY <1>2, <1>3, <1>5 DEF LoginInv
  <1>7. Len(<<>>) = 0 /\ Len(<<1>>) = 1 /\ <<1>>[1] = 1
    BY EmptySeq
  <1>8. Acked = 0 /\ Acked' = 0 /\ Wired' = 1 /\ Len(handled) = 0
    <2>1. Len(handled) = 0 /\ Len(send_queue) = 0 /\ Len(send_queue') = 1 /\ Len(outData') = 0
      BY <1>2, <1>6, <1>7
    <2>2. 0 - 0 = 0 /\ 1 - 1 = 0 /\ 1 - 0 = 1
      OBVIOUS
    <2>3. Acked = 0 - 0 /\ Acked' = 1 - 1 /\ Wired' = 1 - 0
      BY <1>2, <1>6, <2>1 DEF Acked, Wired
    <2>4. QED
      BY <2>1, <2>2, <2>3
  <1>9. PhaseInv'
    BY <1>2, <1>3 DEF PhaseInv, isActive
  <1>10. LoginInv'
    BY <1>2 DEF LoginInv
  <1>11. HandledExactlyOnce' /\ QueueCoversUnhandled'
    BY <1>2, <1>6, <1>7 DEF HandledExactlyOnce, QueueCoversUnhandled
  <1>12. CounterInv'
    <2>1. 0 % W = 0 /\ 1 <= MaxQueue
      BY CounterAssumption
    <2>2. QED
      BY <1>2, <1>7, <1>8, <2>1 DEF CounterInv
  <1>13. BufferInv'
    BY <1>2, <1>7 DEF BufferInv
  <1>14. WireInv'
    <2>1. items \in Seq(ElementsOut) /\ Chain(0, items, 1)
      <3>1. /\ Chain(0, <<>>, 0) /\ Chain(0, <<ReqOut(0)>>, 0)
            /\ Chain(0, <<StanzaOut(1)>>, 1)
        <4>1. 0 + 1 = 1
          OBVIOUS
        <4>2. QED
          BY <4>1, ChainEmpty, ChainOne
      <3>2. /\ <<>> \in Seq(ElementsOut) /\ <<ReqOut(0)>> \in Seq(ElementsOut)
            /\ <<StanzaOut(1)>> \in Seq(ElementsOut)
        BY EmptyTypes, ReqOutType
      <3>3. CASE AsksAtLength(1)
        BY <3>1, <3>2, <3>3, ConcatProperties, ChainConcat DEF items
      <3>4. CASE ~AsksAtLength(1)
        BY <3>1, <3>2, <3>4, ConcatProperties, ChainConcat DEF items
      <3>5. QED
        BY <3>3, <3>4
    <2>2. CASE attached
      <3>1. Put(items) = items
        BY <1>6, <2>1, <2>2, ConcatEmptySeq DEF Put
      <3>2. QED
        BY <1>2, <1>8, <2>1, <3>1 DEF WireInv
    <2>3. CASE ~attached
      <3>1. c2s' = <<>> /\ ~attached'
        BY <1>2, <1>6, <2>3 DEF Put
      <3>2. QED
        BY <1>2, <1>8, <3>1, ChainEmpty DEF WireInv
    <2>4. QED
      BY <2>2, <2>3
  <1>15. CountInv'
    <2>1. Counts(s2c', 0, 0)
      BY <1>1, <1>4, <1>8, CountsSuffix
    <2>2. Len(handled') = 0
      BY <1>2, <1>8
    <2>3. QED
      BY <1>8, <2>1, <2>2 DEF CountInv
  <1>16. ReportInv'
    BY <1>2, <1>6, <1>8 DEF ReportInv
  <1>17. QED
    BY <1>9, <1>10, <1>11, <1>12, <1>13, <1>14, <1>15, <1>16 DEF IInv

(* A resumption keeps the invariant: the queue, cut at the server's h, is resent. *)
LEMMA RecvResumedKeeps ==
  ASSUME IInv, TypeInv', RecvResumed
  PROVE  IInv'
  <1> USE DEF outVars, queueVars, smVars, serverVars, appVars, linkVars
  <1> DEFINE h == Head(s2c).n
  <1>1. /\ state = "Connecting" /\ step = "GetSMResponse"
        /\ s2c # <<>> /\ Head(s2c).type = "resumed"
        /\ s2c' = Tail(s2c) /\ ProcessAcknowledgement(h)
        /\ sm' = "resumed" /\ outData' = send_queue'
        /\ sm_stanzas_notify' = sm_stanzas_notify + Len(send_queue) - Len(send_queue')
        /\ state' = "Active" /\ step' = "Done"
        /\ UNCHANGED <<resumable, serverVars, linkVars, c2s, appVars>>
    BY DEF RecvResumed
  <1>2. PhaseInv /\ LoginInv /\ HandledExactlyOnce
    BY DEF IInv
  <1>3. /\ s2c \in Seq(ElementsIn) /\ Counts(s2c, Acked, Len(handled))
        /\ reported \in Nat /\ sm_stanzas_notify \in Nat
        /\ reported + sm_stanzas_notify <= Acked
    BY WireFacts
  <1>4. /\ written \in Nat /\ Len(send_queue) \in Nat /\ Acked \in Nat
        /\ Acked = written - Len(send_queue) /\ Len(handled) \in Nat
        /\ Acked <= Len(handled) /\ Len(handled) <= written
        /\ Len(send_queue) <= MaxQueue
    BY QueueFacts
  <1>5. h = Len(handled) /\ c2s = <<>>
    <2>1. Head(s2c) = s2c[1] /\ 1 \in 1..Len(s2c)
      BY <1>1, <1>3, HeadTailProperties, LenProperties, EmptySeq
    <2>2. QED
      BY <1>1, <1>2, <2>1 DEF LoginInv
  <1>6. /\ send_queue' \in Seq(Nat) /\ Len(send_queue') = written - h
        /\ \A i \in 1..(written - h) : send_queue'[i] = h + i
        /\ server_last_handled' = h % W
    BY <1>1, <1>4, <1>5, AcknowledgementExact
  <1> HIDE DEF h
  <1>7. Acked' = h /\ Wired' = h
    BY <1>1, <1>4, <1>5, <1>6 DEF Acked, Wired
  <1>8. PhaseInv'
    BY <1>1, <1>2 DEF PhaseInv, isActive
  <1>9. LoginInv'
    BY <1>1 DEF LoginInv
  <1>10. HandledExactlyOnce'
    BY <1>1, <1>2 DEF HandledExactlyOnce
  <1>11. QueueCoversUnhandled'
    BY <1>1, <1>4, <1>5, <1>6, <1>7 DEF QueueCoversUnhandled, Acked
  <1>12. CounterInv'
    <2>1. Len(send_queue') <= MaxQueue
      BY <1>4, <1>5, <1>6, CounterAssumption
    <2>2. QED
      BY <1>6, <1>7, <2>1 DEF CounterInv
  <1>13. BufferInv'
    <2>1. Len(outData') <= written' /\ Len(outData') = written - h
      BY <1>1, <1>4, <1>5, <1>6
    <2>2. QED
      BY <1>1, <1>6, <1>7, <2>1 DEF BufferInv
  <1>14. WireInv'
    BY <1>1, <1>4, <1>5, <1>7, ChainEmpty DEF WireInv
  <1>15. CountInv'
    <2>1. Counts(Tail(s2c), h, Len(handled))
      BY <1>1, <1>3, CountsTail DEF IsCount, h
    <2>2. QED
      BY <1>1, <1>7, <2>1 DEF CountInv
  <1>16. ReportInv'
    BY <1>1, <1>3, <1>4, <1>5, <1>6, <1>7 DEF ReportInv
  <1>17. QED
    BY <1>8, <1>9, <1>10, <1>11, <1>12, <1>13, <1>14, <1>15, <1>16 DEF IInv

(* An acknowledgement keeps the invariant, and reports what it dequeues. *)
LEMMA RecvAckKeeps ==
  ASSUME IInv, TypeInv', RecvAck
  PROVE  IInv'
  <1> USE DEF streamVars, outVars, smVars, serverVars, linkVars
  <1> DEFINE h == Head(s2c).n
  <1>1. /\ state = "Active" /\ s2c # <<>> /\ Head(s2c).type = "a"
        /\ s2c' = Tail(s2c) /\ ProcessAcknowledgement(h)
        /\ reported' = reported + sm_stanzas_notify + Len(send_queue) - Len(send_queue')
        /\ sm_stanzas_notify' = 0
        /\ UNCHANGED <<streamVars, outVars, smVars, serverVars, linkVars, c2s, written>>
    BY DEF RecvAck
  <1>2. PhaseInv /\ HandledExactlyOnce /\ BufferInv /\ WireInv
    BY DEF IInv
  <1>3. /\ s2c \in Seq(ElementsIn) /\ Counts(s2c, Acked, Len(handled))
        /\ reported \in Nat /\ sm_stanzas_notify \in Nat
        /\ reported + sm_stanzas_notify <= Acked
    BY WireFacts
  <1>4. /\ written \in Nat /\ Len(send_queue) \in Nat /\ Acked \in Nat
        /\ Acked = written - Len(send_queue) /\ Len(handled) \in Nat
        /\ Acked <= Len(handled) /\ Len(handled) <= written
        /\ Len(send_queue) <= MaxQueue
    BY QueueFacts
  <1>5. /\ Acked <= h /\ h <= Len(handled)
        /\ Counts(Tail(s2c), h, Len(handled))
    BY <1>1, <1>3, CountsTail DEF IsCount
  <1>6. h \in Nat
    <2>1. Head(s2c) \in ElementsIn
      BY <1>1, <1>3, HeadTailProperties
    <2>2. QED
      BY <2>1 DEF ElementsIn
  <1>7. /\ send_queue' \in Seq(Nat) /\ Len(send_queue') = written - h
        /\ \A i \in 1..(written - h) : send_queue'[i] = h + i
        /\ server_last_handled' = h % W
    BY <1>1, <1>5, <1>6, AcknowledgementExact
  <1> HIDE DEF h
  <1>8. Acked' = h
    BY <1>1, <1>4, <1>6, <1>7 DEF Acked
  <1>9. isActive' = isActive /\ Wired' = Wired
    BY <1>1 DEF isActive, Wired
  <1>10. PhaseInv'
    BY <1>1, <1>2, <1>9 DEF PhaseInv, isActive
  <1>11. LoginInv'
    BY <1>1 DEF LoginInv
  <1>12. HandledExactlyOnce'
    BY <1>1, <1>2 DEF HandledExactlyOnce
  <1>13. QueueCoversUnhandled'
    BY <1>1, <1>4, <1>5, <1>7, <1>8 DEF QueueCoversUnhandled, Acked
  <1>14. CounterInv'
    <2>1. Len(send_queue') <= MaxQueue
      BY <1>4, <1>5, <1>6, <1>7, CounterAssumption
    <2>2. QED
      BY <1>7, <1>8, <2>1 DEF CounterInv
  <1>15. BufferInv' /\ WireInv'
    BY <1>1, <1>2, <1>9 DEF BufferInv, WireInv
  <1>16. CountInv'
    BY <1>1, <1>5, <1>8 DEF CountInv
  <1>17. ReportInv'
    BY <1>1, <1>3, <1>4, <1>5, <1>6, <1>7, <1>8 DEF ReportInv
  <1>18. QED
    BY <1>10, <1>11, <1>12, <1>13, <1>14, <1>15, <1>16, <1>17 DEF IInv

(* A stream that is reset leaves a prefix of the wire and nothing else.    *)
LEMMA ResetKeeps ==
  ASSUME IInv, TypeInv', state' = "Idle", ResetStream, c2s' \in Prefixes(c2s),
         UNCHANGED <<server_last_handled, send_queue, handled, appVars>>
  PROVE  IInv'
  <1> USE DEF appVars
  <1>1. /\ step' = "Login" /\ outData' = <<>> /\ sm' = "off" /\ sm_stanzas_notify' = 0
        /\ request' = NoRequest /\ attached' = FALSE /\ s2c' = <<>>
    BY DEF ResetStream
  <1>2. /\ HandledExactlyOnce' /\ QueueCoversUnhandled' /\ CounterInv'
        /\ Acked' = Acked
    BY QueueUnchanged
  <1>3. PhaseInv' /\ LoginInv'
    BY <1>1 DEF PhaseInv, LoginInv, isActive, NoRequest
  <1>4. BufferInv'
    <2>1. Len(<<>>) = 0 /\ written \in Nat
      BY EmptySeq, QueueFacts
    <2>2. QED
      BY <1>1, <2>1 DEF BufferInv
  <1>5. WireInv'
    <2>1. PICK hi \in Nat : Chain(Len(handled), c2s, hi) /\ hi <= written
      BY WireFacts
    <2>2. PICK m \in Nat : Chain(Len(handled), c2s', m) /\ m <= hi
      BY <2>1, WireFacts, ChainPrefix
    <2>3. m <= written
      BY <2>1, <2>2, QueueFacts
    <2>4. QED
      BY <1>1, <2>2, <2>3 DEF WireInv, isActive
  <1>6. CountInv'
    BY <1>1, CountsEmpty DEF CountInv
  <1>7. ReportInv'
    BY <1>1, <1>2, WireFacts, QueueFacts DEF ReportInv
  <1>8. QED
    BY <1>2, <1>3, <1>4, <1>5, <1>6, <1>7 DEF IInv

(* A refused <enable/> keeps the invariant. *)
LEMMA RecvEnableFailedKeeps ==
  ASSUME IInv, TypeInv', RecvEnableFailed
  PROVE  IInv'
  <1> USE DEF streamVars, outVars, queueVars, smVars, serverVars, linkVars, appVars
  <1>1. /\ s2c # <<>> /\ s2c' = Tail(s2c) /\ ~resumable
        /\ UNCHANGED <<streamVars, outVars, queueVars, smVars, serverVars, linkVars,
                       c2s, appVars>>
    BY DEF RecvEnableFailed
  <1>2. PhaseInv /\ LoginInv /\ BufferInv /\ WireInv /\ CountInv /\ ReportInv
    BY DEF IInv
  <1>3. s2c \in Seq(ElementsIn) /\ Counts(s2c, Acked, Len(handled))
    BY WireFacts
  <1>4. isActive' = isActive /\ Wired' = Wired
    BY <1>1 DEF isActive, Wired
  <1>5. PhaseInv'
    BY <1>1, <1>2, <1>4 DEF PhaseInv
  <1>6. LoginInv'
    <2>1. Len(s2c) \in Nat /\ Len(Tail(s2c)) = Len(s2c) - 1
          /\ \A i \in 1..Len(Tail(s2c)) : Tail(s2c)[i] = s2c[i + 1]
      BY <1>1, <1>3, HeadTailProperties, LenProperties
    <2>2. \A i \in 1..Len(s2c') : s2c'[i] = s2c[i + 1] /\ i + 1 \in 1..Len(s2c)
      BY <1>1, <2>1
    <2>3. QED
      BY <1>1, <1>2, <2>2 DEF LoginInv
  <1>7. HandledExactlyOnce' /\ QueueCoversUnhandled' /\ CounterInv' /\ Acked' = Acked
    BY <1>1, QueueUnchanged
  <1>8. BufferInv' /\ WireInv' /\ ReportInv'
    BY <1>1, <1>2, <1>4, <1>7 DEF BufferInv, WireInv, ReportInv
  <1>9. CountInv'
    BY <1>1, <1>3, <1>7, CountsTail DEF CountInv
  <1>10. QED
    BY <1>5, <1>6, <1>7, <1>8, <1>9 DEF IInv

(* Writing a stanza, with or without an <r/>, keeps the invariant. *)
LEMMA WriteKeeps ==
  ASSUME IInv, TypeInv', Write
  PROVE  IInv'
  <1> DEFINE asks == AsksAtLength(Len(send_queue) + 1) /\ ~waiting_answer
             request_r == IF asks THEN <<ReqOut(written)>> ELSE <<>>
             items == Wire(outData) \o request_r \o <<StanzaOut(written')>>
             w == waiting_answer \/ asks
             d == due /\ ~asks
             p == TRUE
  <1>1. /\ state = "Active" /\ Len(send_queue) < MaxQueue
        /\ written' = written + 1 /\ send_queue' = Append(send_queue, written')
        /\ SettleTimer(items, <<>>, w, d, p, s2c)
        /\ UNCHANGED <<server_last_handled, resumable, serverVars, reported>>
    BY DEF Write
  <1>2. /\ written \in Nat /\ Len(send_queue) \in Nat /\ send_queue \in Seq(Nat)
        /\ Acked \in Nat /\ Acked = written - Len(send_queue)
        /\ Len(handled) \in Nat /\ Acked <= Len(handled) /\ Len(handled) <= written
        /\ \A i \in 1..Len(send_queue) : send_queue[i] = Acked + i
        /\ server_last_handled = Acked % W
        /\ outData \in Seq(Nat) /\ Len(outData) \in Nat /\ Wired \in Nat
        /\ Wired + Len(outData) = written
        /\ \A i \in 1..Len(outData) : outData[i] = Wired + i
    BY QueueFacts
  <1>3. written' \in Nat /\ handled' = handled /\ resumable' = resumable /\ reported' = reported
    BY <1>1, <1>2 DEF serverVars
  <1>4. request_r \in Seq(ElementsOut) /\ Chain(written, request_r, written)
    BY <1>2, ReqOutType, EmptyTypes, ChainOne, ChainEmpty
  <1> HIDE DEF request_r
  <1>5. items \in Seq(ElementsOut) /\ Chain(Wired, items, written')
    <2>1. Wire(outData) \in Seq(ElementsOut) /\ Chain(Wired, Wire(outData), written)
      BY <1>2, WireType, ChainWire
    <2>2. /\ <<StanzaOut(written')>> \in Seq(ElementsOut)
          /\ Chain(written, <<StanzaOut(written')>>, written')
      BY <1>1, <1>2, <1>3, ReqOutType, ChainOne
    <2>3. /\ Wire(outData) \o request_r \in Seq(ElementsOut)
          /\ Chain(Wired, Wire(outData) \o request_r, written)
      BY <1>4, <2>1, ConcatProperties, ChainConcat
    <2>4. QED
      BY <2>2, <2>3, ConcatProperties, ChainConcat
  <1> HIDE DEF items, asks
  <1>6. /\ send_queue' \in Seq(Nat) /\ Len(send_queue') = Len(send_queue) + 1
        /\ \A i \in 1..Len(send_queue) : send_queue'[i] = send_queue[i]
        /\ send_queue'[Len(send_queue) + 1] = written + 1
    BY <1>1, <1>2, <1>3, AppendProperties
  <1>7. Acked' = Acked
    BY <1>1, <1>2, <1>6 DEF Acked
  <1>8. PhaseInv' /\ LoginInv' /\ BufferInv' /\ WireInv' /\ CountInv' /\ ReportInv'
    <2>1. w \in BOOLEAN /\ d \in BOOLEAN /\ p \in BOOLEAN /\ <<>> \in Seq(Nat)
      BY EmptyTypes
    <2> HIDE DEF w, d, p
    <2>2. /\ written <= written' /\ written' + Len(<<>>) = written'
          /\ \A i \in 1..Len(<<>>) : <<>>[i] = written' + i
      <3>1. Len(<<>>) = 0
        BY EmptySeq
      <3>2. written <= written + 1 /\ (written + 1) + 0 = written + 1 /\ 1..0 = {}
        BY <1>2
      <3>3. QED
        BY <1>1, <3>1, <3>2
    <2>3. UNCHANGED <<handled, resumable, reported>> /\ s2c = s2c
      BY <1>3
    <2>4. state = "Active" /\ SettleTimer(items, <<>>, w, d, p, s2c)
      BY <1>1
    <2> DEFINE mid == written'
               stale == <<>>
    <2>5. /\ mid \in Nat /\ stale \in Seq(Nat) /\ items \in Seq(ElementsOut)
          /\ Chain(Wired, items, mid) /\ mid + Len(stale) = written'
          /\ \A i \in 1..Len(stale) : stale[i] = mid + i
          /\ SettleTimer(items, stale, w, d, p, s2c)
      BY <1>3, <1>5, <2>1, <2>2, <2>4
    <2>6. written' \in Nat /\ written <= written'
      BY <1>3, <2>2
    <2> HIDE DEF mid, stale
    <2>7. QED
      BY <1>7, <2>1, <2>3, <2>4, <2>5, <2>6, SettleTimerInv
  <1>9. HandledExactlyOnce'
    BY <1>3 DEF IInv, HandledExactlyOnce
  <1>10. QueueCoversUnhandled'
    <2>1. Len(handled') <= written' /\ Acked' <= Len(handled')
      BY <1>1, <1>2, <1>3, <1>7
    <2>2. ASSUME NEW i \in 1..Len(send_queue')
          PROVE  send_queue'[i] = Acked' + i
      <3>1. CASE i \in 1..Len(send_queue)
        BY <1>2, <1>6, <1>7, <3>1
      <3>2. CASE i = Len(send_queue) + 1
        BY <1>2, <1>6, <1>7, <3>2
      <3>3. QED
        BY <1>2, <1>6, <3>1, <3>2
    <2>3. QED
      BY <2>1, <2>2 DEF QueueCoversUnhandled, Acked
  <1>11. CounterInv'
    <2>1. Len(send_queue') <= MaxQueue
      BY <1>1, <1>2, <1>6, CounterAssumption
    <2>2. QED
      BY <1>1, <1>2, <1>7, <2>1 DEF CounterInv
  <1>12. QED
    BY <1>8, <1>9, <1>10, <1>11 DEF IInv

(* A step that neither writes nor acknowledges, ended by SettleTimer.      *)
LEMMA SettledKeeps ==
  ASSUME IInv, TypeInv', state = "Active",
         NEW items \in Seq(ElementsOut), NEW stale \in Seq(Nat),
         NEW d \in BOOLEAN, NEW p \in BOOLEAN,
         NEW rest, rest = s2c \/ (s2c # <<>> /\ rest = Tail(s2c)),
         NEW mid \in Nat, Chain(Wired, items, mid), mid + Len(stale) = written,
         \A i \in 1..Len(stale) : stale[i] = mid + i,
         UNCHANGED <<server_last_handled, send_queue, resumable, serverVars, appVars>>,
         SettleTimer(items, stale, waiting_answer, d, p, rest)
  PROVE  IInv'
  <1>1. UNCHANGED <<written, send_queue, handled, server_last_handled, resumable, reported>>
    BY DEF serverVars, appVars
  <1>2. HandledExactlyOnce' /\ QueueCoversUnhandled' /\ CounterInv' /\ Acked' = Acked
    BY <1>1, QueueUnchanged
  <1>3. written \in Nat /\ written' \in Nat /\ written <= written' /\ mid + Len(stale) = written'
    BY <1>1, QueueFacts
  <1>4. waiting_answer \in BOOLEAN
    BY DEF IInv, TypeInv, TypeOK
  <1>5. PhaseInv' /\ LoginInv' /\ BufferInv' /\ WireInv' /\ CountInv' /\ ReportInv'
    BY <1>1, <1>2, <1>3, <1>4, SettleTimerInv
  <1>6. QED
    BY <1>2, <1>5 DEF IInv

(* What outDataNormal holds, kept back or flushed, as SettledKeeps asks.   *)
LEMMA BufferFacts ==
  ASSUME IInv
  PROVE  /\ Wired \in Nat /\ written \in Nat /\ outData \in Seq(Nat)
         /\ Wired + Len(outData) = written
         /\ \A i \in 1..Len(outData) : outData[i] = Wired + i
         /\ Chain(Wired, <<>>, Wired)
         /\ Wire(outData) \in Seq(ElementsOut) /\ Chain(Wired, Wire(outData), written)
         /\ <<>> \in Seq(Nat) /\ <<>> \in Seq(ElementsOut)
         /\ written + Len(<<>>) = written
         /\ \A i \in 1..Len(<<>>) : <<>>[i] = written + i
         /\ pendingWrite \in BOOLEAN /\ due \in BOOLEAN
  <1>1. /\ Wired \in Nat /\ written \in Nat /\ outData \in Seq(Nat)
        /\ Wired + Len(outData) = written
        /\ \A i \in 1..Len(outData) : outData[i] = Wired + i
    BY QueueFacts
  <1>2. /\ Chain(Wired, <<>>, Wired)
        /\ Wire(outData) \in Seq(ElementsOut) /\ Chain(Wired, Wire(outData), written)
    BY <1>1, ChainEmpty, WireType, ChainWire
  <1>3. /\ written + Len(<<>>) = written
        /\ \A i \in 1..Len(<<>>) : <<>>[i] = written + i
    <2>1. Len(<<>>) = 0 /\ 1..0 = {}
      BY EmptySeq
    <2>2. \A a \in Nat : a + 0 = a
      OBVIOUS
    <2>3. QED
      BY <1>1, <2>1, <2>2
  <1>4. pendingWrite \in BOOLEAN /\ due \in BOOLEAN
    BY DEF IInv, TypeInv, TypeOK
  <1>5. QED
    BY <1>1, <1>2, <1>3, <1>4, EmptyTypes

(* A bytesWritten of the socket keeps the invariant. *)
LEMMA BytesWrittenKeeps ==
  ASSUME IInv, TypeInv', BytesWritten
  PROVE  IInv'
  <1>1. /\ state = "Active"
        /\ UNCHANGED <<server_last_handled, send_queue, resumable, serverVars, appVars>>
        /\ SettleTimer(<<>>, outData, waiting_answer, due, FALSE, s2c)
    BY DEF BytesWritten
  <1>2. QED
    BY <1>1, BufferFacts, SettledKeeps

(* The keep-alive, which flushes outData, keeps the invariant. *)
LEMMA NoopKeeps ==
  ASSUME IInv, TypeInv', Noop
  PROVE  IInv'
  <1>1. /\ state = "Active"
        /\ UNCHANGED <<server_last_handled, send_queue, resumable, serverVars, appVars>>
        /\ SettleTimer(Wire(outData), <<>>, waiting_answer, due, pendingWrite, s2c)
    BY DEF Noop
  <1>2. QED
    BY <1>1, BufferFacts, SettledKeeps

(* Receiving a stanza keeps the invariant. *)
LEMMA RecvStanzaKeeps ==
  ASSUME IInv, TypeInv', RecvStanza
  PROVE  IInv'
  <1> DEFINE d == due /\ ~waiting_answer
  <1>1. /\ state = "Active" /\ s2c # <<>>
        /\ UNCHANGED <<server_last_handled, send_queue, resumable, serverVars, appVars>>
        /\ SettleTimer(<<>>, outData, waiting_answer, d, pendingWrite, Tail(s2c))
    BY DEF RecvStanza
  <1>2. d \in BOOLEAN
    OBVIOUS
  <1> HIDE DEF d
  <1>3. QED
    BY <1>1, <1>2, BufferFacts, SettledKeeps

(* Answering an <r/>, which flushes outData, keeps the invariant. *)
LEMMA RecvRequestKeeps ==
  ASSUME IInv, TypeInv', RecvRequest
  PROVE  IInv'
  <1> DEFINE d == due /\ ~waiting_answer
             answer == <<AnsOut(Wired, received_count)>>
             items == answer \o Wire(outData)
  <1>1. /\ state = "Active" /\ s2c # <<>>
        /\ UNCHANGED <<server_last_handled, send_queue, resumable, serverVars, appVars>>
        /\ SettleTimer(items, <<>>, waiting_answer, d, pendingWrite, Tail(s2c))
    BY DEF RecvRequest
  <1>2. d \in BOOLEAN
    OBVIOUS
  <1>3. Wired \in Nat /\ received_count \in Nat
    BY BufferFacts, CounterAssumption DEF IInv, TypeInv, TypeOK
  <1>4. answer \in Seq(ElementsOut) /\ Chain(Wired, answer, Wired)
    <2>1. AnsOut(Wired, received_count) \in ElementsOut
      BY <1>3 DEF AnsOut, ElementsOut
    <2>2. answer \in Seq(ElementsOut)
      BY <2>1
    <2>3. Chain(Wired, answer, Wired)
      BY <1>3, ChainOne
    <2>4. QED
      BY <2>2, <2>3
  <1> HIDE DEF answer
  <1>5. items \in Seq(ElementsOut) /\ Chain(Wired, items, written)
    BY <1>4, BufferFacts, ConcatProperties, ChainConcat
  <1> HIDE DEF d, items
  <1>6. QED
    BY <1>1, <1>2, <1>5, BufferFacts, SettledKeeps

(* What a step of the server or of the link must show when it leaves the   *)
(* client alone and the stanzas handled as they are.                       *)
LEMMA ClientUnchanged ==
  ASSUME IInv, UNCHANGED <<state, outData, queueVars, sm, handled, appVars>>
  PROVE  /\ HandledExactlyOnce' /\ QueueCoversUnhandled' /\ CounterInv'
         /\ BufferInv' /\ ReportInv' /\ Acked' = Acked
         /\ isActive' = isActive /\ Wired' = Wired
  <1> USE DEF queueVars, appVars
  <1>1. HandledExactlyOnce' /\ QueueCoversUnhandled' /\ CounterInv' /\ Acked' = Acked
    BY QueueUnchanged
  <1>2. Wired' = Wired /\ isActive' = isActive
    BY DEF Wired, isActive
  <1>3. BufferInv'
    BY <1>2 DEF IInv, BufferInv
  <1>4. ReportInv'
    BY <1>1 DEF IInv, ReportInv
  <1>5. QED
    BY <1>1, <1>2, <1>3, <1>4

(* The passing of an interval keeps the invariant. *)
LEMMA TickKeeps ==
  ASSUME IInv, TypeInv', Tick
  PROVE  IInv'
  <1>1. UNCHANGED <<streamVars, outVars, queueVars, smVars, serverVars,
                    request, attached, c2s, s2c, appVars>>
    BY DEF Tick
  <1> USE DEF streamVars, outVars, queueVars, smVars, serverVars, appVars
  <1>2. /\ HandledExactlyOnce' /\ QueueCoversUnhandled' /\ CounterInv'
        /\ BufferInv' /\ ReportInv' /\ Acked' = Acked
        /\ isActive' = isActive /\ Wired' = Wired
    BY <1>1, ClientUnchanged
  <1>3. PhaseInv' /\ LoginInv'
    BY <1>1, <1>2 DEF IInv, PhaseInv, LoginInv
  <1>4. WireInv' /\ CountInv'
    BY <1>1, <1>2 DEF IInv, WireInv, CountInv
  <1>5. QED
    BY <1>2, <1>3, <1>4 DEF IInv

(* The death of the link keeps the invariant: prefixes are left. *)
LEMMA LinkDiesKeeps ==
  ASSUME IInv, TypeInv', LinkDies
  PROVE  IInv'
  <1> USE DEF streamVars, outVars, queueVars, smVars, serverVars, appVars
  <1>1. /\ attached /\ attached' = FALSE
        /\ c2s' \in Prefixes(c2s) /\ s2c' \in Prefixes(s2c)
        /\ UNCHANGED <<streamVars, outVars, queueVars, smVars, serverVars, request, appVars>>
    BY DEF LinkDies
  <1>2. PhaseInv /\ LoginInv
    BY DEF IInv
  <1>3. /\ HandledExactlyOnce' /\ QueueCoversUnhandled' /\ CounterInv'
        /\ BufferInv' /\ ReportInv' /\ Acked' = Acked
        /\ isActive' = isActive /\ Wired' = Wired
    BY <1>1, ClientUnchanged
  <1>4. /\ c2s \in Seq(ElementsOut) /\ s2c \in Seq(ElementsIn)
        /\ Counts(s2c, Acked, Len(handled))
    BY WireFacts
  <1>5. Counts(s2c', Acked, Len(handled)) /\ (s2c = <<>> => s2c' = <<>>)
    BY <1>1, <1>4, CountsPrefix
  <1>6. PhaseInv'
    BY <1>1, <1>2, <1>3, <1>5 DEF PhaseInv
  <1>7. LoginInv'
    <2>1. c2s = <<>> => c2s' = <<>>
      BY <1>1, SubSeqEmpty, EmptySeq DEF Prefixes
    <2>2. \A i \in 1..Len(s2c') : i \in 1..Len(s2c) /\ s2c'[i] = s2c[i]
      BY <1>1, <1>4, PrefixElements
    <2>3. QED
      BY <1>1, <1>2, <2>1, <2>2 DEF LoginInv
  <1>8. WireInv'
    <2>1. PICK hi \in Nat : Chain(Len(handled), c2s, hi) /\ hi <= written
      BY WireFacts
    <2>2. PICK m \in Nat : Chain(Len(handled), c2s', m) /\ m <= hi
      BY <1>1, <1>4, <2>1, ChainPrefix
    <2>3. m <= written
      BY <2>1, <2>2, QueueFacts
    <2>4. QED
      BY <1>1, <2>2, <2>3 DEF WireInv
  <1>9. CountInv'
    BY <1>1, <1>3, <1>5 DEF CountInv
  <1>10. QED
    BY <1>3, <1>6, <1>7, <1>8, <1>9 DEF IInv

(* The server answers a login: a new connection, with nothing on it yet    *)
(* but its answer.                                                         *)
LEMMA AnswerKeeps ==
  ASSUME IInv, TypeInv', request.type # "none", request' = NoRequest,
         attached' = TRUE, c2s' = <<>>,
         UNCHANGED <<streamVars, outVars, queueVars, smVars, handled, appVars>>,
         \A i \in 1..Len(s2c') : s2c'[i].type = "resumed" => s2c'[i].n = Len(handled),
         \A i \in 1..Len(s2c') : s2c'[i].type = "enabled" => request.type = "enable",
         Counts(s2c', Acked, Len(handled))
  PROVE  IInv'
  <1> USE DEF streamVars, outVars, queueVars, smVars, appVars
  <1>1. /\ HandledExactlyOnce' /\ QueueCoversUnhandled' /\ CounterInv'
        /\ BufferInv' /\ ReportInv' /\ Acked' = Acked
        /\ isActive' = isActive /\ Wired' = Wired
    BY ClientUnchanged
  <1>2. PhaseInv /\ LoginInv
    BY DEF IInv
  <1>3. state = "Connecting" /\ step # "Login" /\ ~isActive
    BY <1>2 DEF PhaseInv, NoRequest
  <1>4. PhaseInv'
    BY <1>1, <1>2, <1>3 DEF PhaseInv, NoRequest
  <1>5. LoginInv'
    BY <1>2, <1>3 DEF LoginInv, NoRequest
  <1>6. WireInv'
    BY <1>1, <1>3, ChainEmpty, QueueFacts DEF WireInv
  <1>7. CountInv'
    BY <1>1 DEF CountInv
  <1>8. QED
    BY <1>1, <1>4, <1>5, <1>6, <1>7 DEF IInv

(* The answer to <enable/> keeps the invariant. *)
LEMMA ServerEnableKeeps ==
  ASSUME IInv, TypeInv', ServerEnable
  PROVE  IInv'
  <1>1. PICK answer \in {Enabled(TRUE), Enabled(FALSE), Failed} : s2c' = <<answer>>
    BY DEF ServerEnable
  <1>2. answer.type \in {"enabled", "failed"}
    BY DEF Enabled, Failed
  <1>3. /\ request.type = "enable" /\ request' = NoRequest /\ attached' = TRUE /\ c2s' = <<>>
        /\ UNCHANGED <<streamVars, outVars, queueVars, smVars, handled, appVars>>
    BY DEF ServerEnable, serverVars
  <1>4. Len(s2c') = 1 /\ \A i \in 1..Len(s2c') : s2c'[i].type \in {"enabled", "failed"}
    BY <1>1, <1>2
  <1>5. Counts(s2c', Acked, Len(handled))
    BY <1>4 DEF Counts, IsCount
  <1>6. QED
    BY <1>3, <1>4, <1>5, AnswerKeeps

(* The refusal of <resume/> keeps the invariant. *)
LEMMA ServerRefuseKeeps ==
  ASSUME IInv, TypeInv', ServerRefuse
  PROVE  IInv'
  <1>1. /\ request.type = "resume" /\ request' = NoRequest /\ attached' = TRUE
        /\ c2s' = <<>> /\ s2c' = <<Failed>>
        /\ UNCHANGED <<streamVars, outVars, queueVars, smVars, handled, appVars>>
    BY DEF ServerRefuse, serverVars
  <1>2. Len(s2c') = 1 /\ \A i \in 1..Len(s2c') : s2c'[i].type = "failed"
    BY <1>1 DEF Failed
  <1>3. Counts(s2c', Acked, Len(handled))
    BY <1>2 DEF Counts, IsCount
  <1>4. QED
    BY <1>1, <1>2, <1>3, AnswerKeeps

(* The answer to <resume/>, with the server's exact count, keeps it. *)
LEMMA ServerResumeKeeps ==
  ASSUME IInv, TypeInv', ServerResume
  PROVE  IInv'
  <1> DEFINE acked == srvAcked + Dequeued(srvAcked, request.h, srvSent - srvAcked)
             n     == srvSent - acked
             again == [i \in 1..n |-> StanzaIn(acked + i)]
             first == Resumed(Len(handled))
  <1>1. /\ request.type = "resume" /\ request' = NoRequest /\ attached' = TRUE
        /\ c2s' = <<>> /\ s2c' = <<first>> \o again
        /\ UNCHANGED <<streamVars, outVars, queueVars, smVars, handled, appVars>>
    BY DEF ServerResume
  <1>2. Len(handled) \in Nat /\ Acked \in Nat /\ Acked <= Len(handled)
    BY QueueFacts
  <1>3. s2c' \in Seq(ElementsIn)
    BY DEF TypeInv, TypeOK
  <1>4. \A i \in 1..Len(s2c') :
          \/ s2c'[i].type = "resumed" /\ s2c'[i].n = Len(handled)
          \/ s2c'[i].type = "stanza"
    <2>1. first.type = "resumed" /\ first.n = Len(handled) /\ first \in ElementsIn
      BY <1>2 DEF Resumed, ElementsIn
    <2>2. /\ request.h \in Int /\ srvAcked \in Nat /\ srvSent \in Nat
      BY CounterAssumption DEF IInv, TypeInv, TypeOK
    <2>3. acked \in Nat
      BY <2>2, DequeuedSum
    <2> HIDE DEF acked
    <2>4. n \in Int
      BY <2>2, <2>3
    <2>5. again \in Seq(ElementsIn) /\ \A i \in 1..Len(again) : again[i].type = "stanza"
      <3> DEFINE m == IF n \in Nat THEN n ELSE 0
      <3>1. m \in Nat /\ 1..n = 1..m
        BY <2>4
      <3> HIDE DEF n, m
      <3>2. again = [i \in 1..m |-> StanzaIn(acked + i)]
        BY <3>1
      <3>3. \A i \in 1..m : StanzaIn(acked + i) \in ElementsIn
        BY <2>3, <3>1 DEF StanzaIn, ElementsIn
      <3> HIDE DEF again
      <3>4. again \in Seq(ElementsIn) /\ Len(again) = m
        BY <3>1, <3>2, <3>3
      <3>5. \A i \in 1..m : again[i].type = "stanza"
        BY <3>2 DEF StanzaIn
      <3>6. QED
        BY <3>4, <3>5
    <2> HIDE DEF again, first
    <2>6. <<first>> \in Seq(ElementsIn) /\ Len(<<first>>) = 1 /\ <<first>>[1] = first
      BY <2>1
    <2>7. /\ Len(s2c') = 1 + Len(again) /\ Len(again) \in Nat
          /\ \A i \in 1..(1 + Len(again)) :
               s2c'[i] = IF i <= 1 THEN <<first>>[i] ELSE again[i - 1]
      BY <1>1, <2>5, <2>6, ConcatProperties, LenProperties
    <2>8. SUFFICES ASSUME NEW i \in 1..Len(s2c')
                   PROVE  \/ s2c'[i].type = "resumed" /\ s2c'[i].n = Len(handled)
                          \/ s2c'[i].type = "stanza"
      OBVIOUS
    <2>9. CASE i = 1
      BY <2>1, <2>6, <2>7, <2>9
    <2>10. CASE i # 1
      <3>1. i - 1 \in 1..Len(again) /\ s2c'[i] = again[i - 1]
        BY <2>7, <2>10
      <3>2. QED
        BY <2>5, <3>1
    <2>11. QED
      BY <2>9, <2>10
  <1>5. /\ \A i \in 1..Len(s2c') : s2c'[i].type = "resumed" => s2c'[i].n = Len(handled)
        /\ \A i \in 1..Len(s2c') : s2c'[i].type = "enabled" => request.type = "enable"
        /\ \A i \in 1..Len(s2c') : IsCount(s2c'[i]) => s2c'[i].n = Len(handled)
    BY <1>4 DEF IsCount
  <1>6. Counts(s2c', Acked, Len(handled))
    BY <1>2, <1>5 DEF Counts
  <1>7. request.type # "none"
    BY <1>1
  <1>8. QED
    BY <1>1, <1>5, <1>6, <1>7, AnswerKeeps

(* The server handling an element keeps the invariant. *)
LEMMA ServerRecvKeeps ==
  ASSUME IInv, TypeInv', ServerRecv
  PROVE  IInv'
  <1> USE DEF streamVars, outVars, queueVars, smVars, linkVars, appVars
  <1> DEFINE e == Head(c2s)
  <1>1. /\ c2s # <<>> /\ c2s' = Tail(c2s)
        /\ handled' = (IF e.type = "stanza" THEN Append(handled, e.n) ELSE handled)
        /\ s2c' = (IF e.type = "r" /\ attached THEN Append(s2c, AnsIn(Len(handled))) ELSE s2c)
        /\ UNCHANGED <<streamVars, outVars, queueVars, smVars, linkVars, appVars>>
    BY DEF ServerRecv
  <1> HIDE DEF e
  <1>2. PhaseInv /\ LoginInv /\ HandledExactlyOnce /\ ReportInv /\ BufferInv /\ CounterInv
    BY DEF IInv
  <1>3. /\ c2s \in Seq(ElementsOut) /\ s2c \in Seq(ElementsIn)
        /\ Counts(s2c, Acked, Len(handled))
    BY WireFacts
  <1>4. PICK hi \in Nat : /\ Chain(Len(handled), c2s, hi) /\ hi <= written
                          /\ isActive /\ attached => hi = Wired
    BY WireFacts
  <1>5. /\ written \in Nat /\ Acked \in Nat /\ Len(handled) \in Nat /\ handled \in Seq(Nat)
        /\ Acked <= Len(handled) /\ Len(handled) <= written
        /\ \A i \in 1..Len(send_queue) : send_queue[i] = Acked + i
    BY QueueFacts
  <1>6. /\ e.n = Len(handled) + StepOf(e) /\ e.n <= hi /\ Chain(e.n, Tail(c2s), hi)
    BY <1>1, <1>3, <1>4, ChainTail DEF e
  <1>7. /\ Len(handled') = e.n /\ Len(handled) <= Len(handled') /\ e.n \in Nat
        /\ HandledExactlyOnce'
    <2>1. CASE e.type = "stanza"
      <3>1. e.n = Len(handled) + 1 /\ e.n \in Nat
        BY <1>5, <1>6, <2>1 DEF StepOf
      <3>2. /\ Len(handled') = Len(handled) + 1
            /\ \A i \in 1..Len(handled) : handled'[i] = handled[i]
            /\ handled'[Len(handled) + 1] = e.n
        BY <1>1, <1>5, <2>1, <3>1, AppendProperties
      <3>3. HandledExactlyOnce'
        BY <1>2, <1>5, <3>1, <3>2 DEF HandledExactlyOnce
      <3>4. QED
        BY <1>5, <3>1, <3>2, <3>3
    <2>2. CASE e.type # "stanza"
      <3>1. handled' = handled /\ e.n = Len(handled) + 0
        BY <1>1, <1>6, <2>2 DEF StepOf
      <3>2. HandledExactlyOnce'
        BY <1>2, <3>1 DEF HandledExactlyOnce
      <3>3. QED
        BY <1>5, <3>1, <3>2
    <2>3. QED
      BY <2>1, <2>2
  <1>8. Acked' = Acked /\ isActive' = isActive /\ Wired' = Wired
    BY <1>1 DEF Acked, isActive, Wired
  <1>9. PhaseInv' /\ LoginInv'
    <2>1. state = "Connecting" => ~attached /\ s2c = <<>> /\ resumable
      BY <1>1, <1>2 DEF LoginInv
    <2>2. ~attached => s2c' = s2c
      BY <1>1
    <2>3. PhaseInv'
      BY <1>1, <1>2, <1>8, <2>2 DEF PhaseInv
    <2>4. LoginInv'
      BY <1>1, <1>2, <2>1, <2>2, EmptySeq DEF LoginInv
    <2>5. QED
      BY <2>3, <2>4
  <1>10. QueueCoversUnhandled'
    <2>1. Acked' <= Len(handled') /\ Len(handled') <= written'
      BY <1>1, <1>4, <1>5, <1>6, <1>7, <1>8
    <2>2. \A i \in 1..Len(send_queue') : send_queue'[i] = Acked' + i
      BY <1>1, <1>5, <1>8
    <2>3. QED
      BY <2>1, <2>2 DEF QueueCoversUnhandled, Acked
  <1>11. CounterInv' /\ BufferInv' /\ ReportInv'
    BY <1>1, <1>2, <1>8 DEF CounterInv, BufferInv, ReportInv
  <1>12. WireInv'
    BY <1>1, <1>4, <1>6, <1>7, <1>8 DEF WireInv
  <1>13. CountInv'
    <2>1. CASE e.type = "r" /\ attached
      <3>1. handled' = handled /\ s2c' = Append(s2c, AnsIn(Len(handled)))
        BY <1>1, <2>1
      <3>2. AnsIn(Len(handled)) \in ElementsIn /\ AnsIn(Len(handled)).n = Len(handled)
        BY <1>5 DEF AnsIn, ElementsIn
      <3>3. Counts(s2c', Acked, Len(handled))
        BY <1>3, <1>5, <3>1, <3>2, CountsAppend
      <3>4. QED
        BY <1>8, <3>1, <3>3 DEF CountInv
    <2>2. CASE ~(e.type = "r" /\ attached)
      <3>1. s2c' = s2c
        BY <1>1, <2>2
      <3>2. Counts(s2c, Acked, Len(handled'))
        BY <1>3, <1>5, <1>7, CountsWiden
      <3>3. QED
        BY <1>8, <3>1, <3>2 DEF CountInv
    <2>3. QED
      BY <2>1, <2>2
  <1>14. QED
    BY <1>7, <1>9, <1>10, <1>11, <1>12, <1>13 DEF IInv

(* A stanza or an <r/> from the server is no count.                        *)
LEMMA ServerPushKeeps ==
  ASSUME IInv, TypeInv', NEW e \in ElementsIn, e.type \in {"stanza", "r"},
         s2c' = s2c \/ (attached /\ s2c' = Append(s2c, e)),
         UNCHANGED <<streamVars, outVars, queueVars, smVars, handled, linkVars, c2s, appVars>>
  PROVE  IInv'
  <1> USE DEF streamVars, outVars, queueVars, smVars, linkVars, appVars
  <1>1. /\ HandledExactlyOnce' /\ QueueCoversUnhandled' /\ CounterInv'
        /\ BufferInv' /\ ReportInv' /\ Acked' = Acked
        /\ isActive' = isActive /\ Wired' = Wired
    BY ClientUnchanged
  <1>2. PhaseInv /\ LoginInv /\ WireInv
    BY DEF IInv
  <1>3. s2c \in Seq(ElementsIn) /\ Counts(s2c, Acked, Len(handled))
    BY WireFacts
  <1>4. Acked \in Nat /\ Len(handled) \in Nat /\ Acked <= Len(handled)
    BY QueueFacts
  <1>5. PhaseInv'
    BY <1>1, <1>2 DEF PhaseInv
  <1>6. \A i \in 1..Len(s2c') : (i \in 1..Len(s2c) /\ s2c'[i] = s2c[i]) \/ s2c'[i] = e
    <2>1. CASE s2c' = s2c
      BY <2>1
    <2>2. CASE s2c' = Append(s2c, e)
      BY <1>3, <2>2, AppendProperties, LenProperties
    <2>3. QED
      BY <2>1, <2>2
  <1>7. LoginInv'
    <2>1. state = "Connecting" /\ (attached \/ s2c' # <<>>) => c2s = <<>>
      BY <1>2 DEF LoginInv
    <2>2. QED
      BY <1>2, <1>6, <2>1 DEF LoginInv
  <1>8. WireInv'
    BY <1>1, <1>2 DEF WireInv
  <1>9. CountInv'
    BY <1>1, <1>3, <1>4, CountsAppend DEF CountInv, IsCount
  <1>10. QED
    BY <1>1, <1>5, <1>7, <1>8, <1>9 DEF IInv

(* A stanza from the server keeps the invariant. *)
LEMMA ServerSendKeeps ==
  ASSUME IInv, TypeInv', ServerSend
  PROVE  IInv'
  <1> DEFINE e == StanzaIn(srvSent')
  <1>1. e \in ElementsIn /\ e.type \in {"stanza", "r"}
    BY DEF StanzaIn, ElementsIn, TypeInv, TypeOK
  <1>2. /\ s2c' = s2c \/ (attached /\ s2c' = Append(s2c, e))
        /\ UNCHANGED <<streamVars, outVars, queueVars, smVars, handled, linkVars, c2s, appVars>>
    BY DEF ServerSend, InSession
  <1> HIDE DEF e
  <1>3. QED
    BY <1>1, <1>2, ServerPushKeeps

(* An <r/> from the server keeps the invariant. *)
LEMMA ServerRequestKeeps ==
  ASSUME IInv, TypeInv', ServerRequest
  PROVE  IInv'
  <1>1. ReqIn \in ElementsIn /\ ReqIn.type \in {"stanza", "r"}
    BY DEF ReqIn, ElementsIn
  <1>2. /\ attached /\ s2c' = Append(s2c, ReqIn)
        /\ UNCHANGED <<streamVars, outVars, queueVars, smVars, handled, linkVars, c2s, appVars>>
    BY DEF ServerRequest, InSession, serverVars
  <1>3. QED
    BY <1>1, <1>2, ServerPushKeeps

(* Every step keeps the invariant. *)
LEMMA InductiveStep == IInv /\ [Next]_vars => IInv'
  <1> SUFFICES ASSUME IInv, [Next]_vars PROVE IInv'
    OBVIOUS
  <1>1. TypeInv'
    BY TypeStep DEF IInv
  <1>2. CASE Login             BY <1>1, <1>2, LoginKeeps
  <1>3. CASE LoginComplete     BY <1>1, <1>3, LoginCompleteKeeps
  <1>4. CASE RecvEnabled       BY <1>1, <1>4, RecvEnabledKeeps
  <1>5. CASE RecvResumed       BY <1>1, <1>5, RecvResumedKeeps
  <1>6. CASE RecvResumeFailed
    BY <1>1, <1>6, ResetKeeps DEF RecvResumeFailed, serverVars
  <1>7. CASE RecvEnableFailed  BY <1>1, <1>7, RecvEnableFailedKeeps
  <1>8. CASE Write             BY <1>1, <1>8, WriteKeeps
  <1>9. CASE BytesWritten      BY <1>1, <1>9, BytesWrittenKeeps
  <1>10. CASE Noop             BY <1>1, <1>10, NoopKeeps
  <1>11. CASE RecvStanza       BY <1>1, <1>11, RecvStanzaKeeps
  <1>12. CASE RecvRequest      BY <1>1, <1>12, RecvRequestKeeps
  <1>13. CASE RecvAck          BY <1>1, <1>13, RecvAckKeeps
  <1>14. CASE ConnectionClosed
    BY <1>1, <1>14, ResetKeeps DEF ConnectionClosed, serverVars
  <1>15. CASE Tick             BY <1>1, <1>15, TickKeeps
  <1>16. CASE ServerEnable     BY <1>1, <1>16, ServerEnableKeeps
  <1>17. CASE ServerResume     BY <1>1, <1>17, ServerResumeKeeps
  <1>18. CASE ServerRefuse     BY <1>1, <1>18, ServerRefuseKeeps
  <1>19. CASE ServerRecv       BY <1>1, <1>19, ServerRecvKeeps
  <1>20. CASE ServerSend       BY <1>1, <1>20, ServerSendKeeps
  <1>21. CASE ServerRequest    BY <1>1, <1>21, ServerRequestKeeps
  <1>22. CASE LinkDies         BY <1>1, <1>22, LinkDiesKeeps
  <1>23. CASE UNCHANGED vars
    <2> USE <1>23 DEF vars, streamVars, outVars, timerVars, queueVars, smVars,
                  inVars, serverVars, linkVars, appVars
    <2>1. /\ HandledExactlyOnce' /\ QueueCoversUnhandled' /\ CounterInv'
          /\ BufferInv' /\ ReportInv' /\ Acked' = Acked
          /\ isActive' = isActive /\ Wired' = Wired
      BY ClientUnchanged
    <2>2. PhaseInv' /\ LoginInv' /\ WireInv' /\ CountInv'
      BY <2>1 DEF IInv, PhaseInv, LoginInv, WireInv, CountInv
    <2>3. QED
      BY <1>1, <2>1, <2>2 DEF IInv
  <1>24. QED
    BY <1>2, <1>3, <1>4, <1>5, <1>6, <1>7, <1>8, <1>9, <1>10, <1>11, <1>12,
       <1>13, <1>14, <1>15, <1>16, <1>17, <1>18, <1>19, <1>20, <1>21, <1>22,
       <1>23 DEF Next, ClientNext, ServerNext

(* The invariant holds in every reachable state.                           *)
THEOREM Inductive == Spec => []IInv
  BY InductiveInit, InductiveStep, PTL DEF Spec

(* The server handles the stanzas of a session in order, each of them once,*)
(* through any number of dead links, reconnections and resumptions, and    *)
(* however often the 32-bit counters have wrapped.                         *)
THEOREM ExactlyOnce == Spec => []HandledExactlyOnce
  <1>1. IInv => HandledExactlyOnce
    BY DEF IInv
  <1>2. QED
    BY <1>1, Inductive, PTL

(* The queue holds every stanza that the server is not known to have       *)
(* handled, and nothing the server has not handled has left it.            *)
THEOREM QueueCovers == Spec => []QueueCoversUnhandled
  <1>1. IInv => QueueCoversUnhandled
    BY DEF IInv
  <1>2. QED
    BY <1>1, Inductive, PTL

(* stanzasAcked never announces a stanza the server has not handled.       *)
THEOREM AckedHandled == Spec => []AckedOnlyIfHandled
  <1>1. IInv => AckedOnlyIfHandled
    <2>1. SUFFICES ASSUME IInv PROVE reported <= Len(handled)
      BY DEF AckedOnlyIfHandled
    <2>2. /\ reported \in Nat /\ sm_stanzas_notify \in Nat
          /\ reported + sm_stanzas_notify <= Acked
      BY <2>1, WireFacts
    <2>3. Acked \in Nat /\ Len(handled) \in Nat /\ Acked <= Len(handled)
      BY <2>1, QueueFacts
    <2>4. QED
      BY <2>2, <2>3
  <1>2. QED
    BY <1>1, Inductive, PTL
-----------------------------------------------------------------------------
(* The refinement of OrderedDelivery.                                      *)

(* A step that writes, handles and dequeues nothing is a stutter of the    *)
(* abstract stream.                                                        *)
LEMMA StutterStep ==
  ASSUME UNCHANGED <<written, send_queue, handled>>
  PROVE  UNCHANGED Delivery!deliveryVars
  BY DEF Delivery!deliveryVars

(* The steps of the client that only read, send or wait, and the server's  *)
(* and the link's, leave the abstract stream as it is.                     *)
LEMMA QuietSteps ==
  ASSUME \/ LoginComplete \/ RecvResumeFailed \/ RecvEnableFailed
         \/ BytesWritten \/ Noop \/ RecvStanza \/ RecvRequest
         \/ ConnectionClosed \/ Tick \/ LinkDies
         \/ ServerEnable \/ ServerResume \/ ServerRefuse
         \/ ServerSend \/ ServerRequest
         \/ UNCHANGED vars
  PROVE  UNCHANGED <<written, send_queue, handled>>
  <1> USE DEF vars, queueVars, serverVars, appVars
  <1>1. CASE LoginComplete     BY <1>1 DEF LoginComplete
  <1>2. CASE RecvResumeFailed  BY <1>2 DEF RecvResumeFailed
  <1>3. CASE RecvEnableFailed  BY <1>3 DEF RecvEnableFailed
  <1>4. CASE BytesWritten      BY <1>4 DEF BytesWritten
  <1>5. CASE Noop              BY <1>5 DEF Noop
  <1>6. CASE RecvStanza        BY <1>6 DEF RecvStanza
  <1>7. CASE RecvRequest       BY <1>7 DEF RecvRequest
  <1>8. CASE ConnectionClosed  BY <1>8 DEF ConnectionClosed
  <1>9. CASE Tick              BY <1>9 DEF Tick
  <1>10. CASE LinkDies         BY <1>10 DEF LinkDies
  <1>11. CASE ServerEnable     BY <1>11 DEF ServerEnable
  <1>12. CASE ServerResume     BY <1>12 DEF ServerResume
  <1>13. CASE ServerRefuse     BY <1>13 DEF ServerRefuse
  <1>14. CASE ServerSend       BY <1>14 DEF ServerSend
  <1>15. CASE ServerRequest    BY <1>15 DEF ServerRequest
  <1>16. CASE UNCHANGED vars   BY <1>16
  <1>17. QED
    BY <1>1, <1>2, <1>3, <1>4, <1>5, <1>6, <1>7, <1>8, <1>9, <1>10, <1>11,
       <1>12, <1>13, <1>14, <1>15, <1>16

(* A step that dequeues up to h, which the server has reached, confirms.   *)
LEMMA ConfirmStep ==
  ASSUME IInv, NEW h \in Nat, Acked <= h, h <= Len(handled),
         Len(send_queue') = written - h, UNCHANGED <<written, handled>>
  PROVE  Delivery!Next \/ UNCHANGED Delivery!deliveryVars
  <1>1. /\ written \in Nat /\ Acked \in Nat /\ Acked = written - Len(send_queue)
        /\ Len(handled) \in Nat /\ Len(handled) <= written
    BY QueueFacts
  <1>2. written' - Len(send_queue') = h
    BY <1>1
  <1>3. CASE h = Acked
    BY <1>1, <1>2, <1>3 DEF Delivery!deliveryVars
  <1>4. CASE h # Acked
    <2>1. written - Len(send_queue) < h
      BY <1>1, <1>4
    <2>2. Delivery!Confirm
      BY <1>2, <2>1 DEF Delivery!Confirm
    <2>3. QED
      BY <2>2 DEF Delivery!Next
  <1>5. QED
    BY <1>3, <1>4

(* The server handles the stanza the abstract stream delivers next.        *)
LEMMA DeliverStep ==
  ASSUME IInv, IInv', ServerRecv
  PROVE  Delivery!Next \/ UNCHANGED Delivery!deliveryVars
  <1> DEFINE e == Head(c2s)
             n == Len(handled)
  <1>1. /\ handled' = (IF e.type = "stanza" THEN Append(handled, e.n) ELSE handled)
        /\ UNCHANGED <<written, send_queue>>
    BY DEF ServerRecv, queueVars, appVars
  <1> HIDE DEF e
  <1>2. CASE e.type # "stanza"
    BY <1>1, <1>2, StutterStep
  <1>3. CASE e.type = "stanza"
    <2>1. handled \in Seq(Nat) /\ n \in Nat
      BY QueueFacts
    <2>2. /\ Len(handled') \in Nat /\ handled' \in Seq(Nat)
          /\ Len(handled') <= written
      <3>1. QueueCoversUnhandled' /\ TypeOK'
        BY DEF IInv, TypeInv
      <3>2. handled' \in Seq(Nat) /\ Len(handled') <= written'
        BY <3>1 DEF QueueCoversUnhandled, TypeOK
      <3>3. QED
        BY <1>1, <3>2, LenProperties
    <2>3. HandledExactlyOnce'
      BY DEF IInv
    <2>4. Len(handled') = n + 1 /\ \A i \in 1..n : handled'[i] = handled[i]
      <3>1. handled' = Append(handled, e.n) /\ e.n \in Nat
        <4>1. c2s \in Seq(ElementsOut) /\ c2s # <<>>
          BY WireFacts DEF ServerRecv
        <4>2. e \in ElementsOut
          BY <4>1, HeadTailProperties DEF e
        <4>3. QED
          BY <1>1, <1>3, <4>2 DEF ElementsOut
      <3>2. QED
        BY <2>1, <3>1, AppendProperties
    <2> DEFINE one == [i \in 1..((n + 1) - n) |-> n + i]
    <2>5. one \in Seq(Nat) /\ Len(one) = 1 /\ one[1] = n + 1
      <3>1. (n + 1) - n = 1 /\ 1 \in Nat /\ \A i \in 1..1 : n + i \in Nat
        BY <2>1
      <3>2. one = [i \in 1..1 |-> n + i]
        BY <3>1
      <3>3. QED
        BY <2>1, <3>1, <3>2
    <2>6. handled' = handled \o one
      <3> HIDE DEF one
      <3>1. /\ handled \o one \in Seq(Nat) /\ Len(handled \o one) = n + 1
            /\ \A i \in 1..n : (handled \o one)[i] = handled[i]
            /\ (handled \o one)[n + 1] = one[1]
        <4>1. /\ handled \o one \in Seq(Nat)
              /\ Len(handled \o one) = Len(handled) + Len(one)
              /\ \A i \in 1..(Len(handled) + Len(one)) :
                   (handled \o one)[i] = IF i <= Len(handled) THEN handled[i]
                                                              ELSE one[i - Len(handled)]
          BY <2>1, <2>5, ConcatProperties
        <4>2. (n + 1) - n = 1 /\ ~(n + 1 <= n) /\ n + 1 \in 1..(n + 1)
          BY <2>1
        <4>3. \A i \in 1..n : i \in 1..(n + 1) /\ i <= n
          BY <2>1
        <4>4. QED
          BY <2>1, <2>5, <4>1, <4>2, <4>3
      <3>2. handled'[n + 1] = n + 1
        BY <2>1, <2>3, <2>4 DEF HandledExactlyOnce
      <3>3. \A i \in 1..Len(handled') : handled'[i] = (handled \o one)[i]
        <4>1. \A i \in 1..(n + 1) : i \in 1..n \/ i = n + 1
          BY <2>1
        <4>2. QED
          BY <2>4, <2>5, <3>1, <3>2, <4>1
      <3>4. QED
        BY <2>2, <2>4, <3>1, <3>3, SeqEqual
    <2>7. n + 1 \in (n + 1)..written
      <3>1. written \in Nat
        BY QueueFacts
      <3>2. QED
        BY <2>1, <2>2, <2>4, <3>1
    <2>8. Delivery!Deliver
      BY <1>1, <2>6, <2>7 DEF Delivery!Deliver
    <2>9. QED
      BY <2>8 DEF Delivery!Next
  <1>4. QED
    BY <1>2, <1>3

(* Every step is a step of the abstract stream or a stutter.               *)
LEMMA DeliveryStep ==
  ASSUME IInv, IInv', [Next]_vars
  PROVE  Delivery!Next \/ UNCHANGED Delivery!deliveryVars
  <1>0. /\ written \in Nat /\ Len(send_queue) \in Nat /\ send_queue \in Seq(Nat)
        /\ Acked \in Nat /\ Acked = written - Len(send_queue)
        /\ Acked <= Len(handled) /\ Len(handled) \in Nat
    BY QueueFacts
  <1>1. CASE Login
    <2>1. written' = 0 /\ send_queue' = <<>> /\ handled' = <<>> /\ 0 - 0 = 0 /\ Len(<<>>) = 0
      BY <1>1, EmptySeq DEF Login
    <2>2. written' - Len(send_queue') = 0
      BY <2>1
    <2>3. Delivery!Reopen
      BY <2>1, <2>2 DEF Delivery!Reopen
    <2>4. QED
      BY <2>3 DEF Delivery!Next
  <1>2. CASE RecvEnabled
    <2>1. /\ written' = 1 /\ send_queue' = <<1>> /\ handled' = handled
          /\ Len(<<1>>) = 1 /\ Len(<<>>) = 0
      BY <1>2, EmptySeq DEF RecvEnabled, serverVars
    <2>2. written = 0 /\ send_queue = <<>>
      <3>1. LoginInv
        BY DEF IInv
      <3>2. state = "Connecting" /\ s2c # <<>> /\ Head(s2c).type = "enabled"
        BY <1>2 DEF RecvEnabled
      <3>3. s2c \in Seq(ElementsIn)
        BY WireFacts
      <3>4. Head(s2c) = s2c[1] /\ 1 \in 1..Len(s2c)
        BY <3>2, <3>3, HeadTailProperties, LenProperties, EmptySeq
      <3>5. QED
        BY <3>1, <3>2, <3>4 DEF LoginInv
    <2>3. written' > written /\ written - Len(send_queue) = 0 /\ written' - Len(send_queue') = 0
      <3>1. 1 > 0 /\ 0 - 0 = 0 /\ 1 - 1 = 0
        OBVIOUS
      <3>2. QED
        BY <2>1, <2>2, <3>1
    <2>4. Delivery!Send
      BY <2>1, <2>3 DEF Delivery!Send
    <2>5. QED
      BY <2>4 DEF Delivery!Next
  <1>3. CASE RecvResumed
    <2> DEFINE h == Len(handled)
    <2>1. /\ state = "Connecting" /\ s2c # <<>> /\ Head(s2c).type = "resumed"
          /\ ProcessAcknowledgement(Head(s2c).n) /\ UNCHANGED <<written, handled>>
      BY <1>3 DEF RecvResumed, serverVars, appVars
    <2>2. Head(s2c).n = Len(handled)
      <3>1. LoginInv
        BY DEF IInv
      <3>2. s2c \in Seq(ElementsIn)
        BY WireFacts
      <3>3. Head(s2c) = s2c[1] /\ 1 \in 1..Len(s2c)
        BY <2>1, <3>2, HeadTailProperties, LenProperties, EmptySeq
      <3>4. QED
        BY <2>1, <3>1, <3>3 DEF LoginInv
    <2>3. /\ h \in Nat /\ Acked <= h /\ h <= Len(handled)
          /\ ProcessAcknowledgement(h)
      BY <1>0, <2>1, <2>2
    <2> HIDE DEF h
    <2>4. Len(send_queue') = written - h
      BY <2>3, AcknowledgementExact
    <2>5. QED
      BY <2>1, <2>3, <2>4, ConfirmStep
  <1>4. CASE Write
    <2>1. written' = written + 1 /\ send_queue' = Append(send_queue, written') /\ handled' = handled
      BY <1>4 DEF Write, serverVars
    <2>2. Len(send_queue') = Len(send_queue) + 1
      BY <1>0, <2>1, AppendProperties
    <2>3. written' > written /\ written' - Len(send_queue') = written - Len(send_queue)
      BY <1>0, <2>1, <2>2
    <2>4. Delivery!Send
      BY <2>1, <2>3 DEF Delivery!Send
    <2>5. QED
      BY <2>4 DEF Delivery!Next
  <1>5. CASE RecvAck
    <2> DEFINE h == Head(s2c).n
    <2>1. /\ s2c # <<>> /\ Head(s2c).type = "a" /\ ProcessAcknowledgement(h)
          /\ UNCHANGED <<written, handled>>
      BY <1>5 DEF RecvAck, serverVars
    <2>2. s2c \in Seq(ElementsIn) /\ Counts(s2c, Acked, Len(handled))
      BY WireFacts
    <2>3. Acked <= h /\ h <= Len(handled)
      BY <2>1, <2>2, CountsTail DEF IsCount
    <2>4. h \in Nat
      <3>1. Head(s2c) \in ElementsIn
        BY <2>1, <2>2, HeadTailProperties
      <3>2. QED
        BY <3>1 DEF ElementsIn
    <2> HIDE DEF h
    <2>5. Len(send_queue') = written - h
      BY <2>1, <2>3, <2>4, AcknowledgementExact
    <2>6. QED
      BY <2>1, <2>3, <2>4, <2>5, ConfirmStep
  <1>6. CASE ServerRecv
    BY <1>6, DeliverStep
  <1>7. CASE ~(Login \/ RecvEnabled \/ RecvResumed \/ Write \/ RecvAck \/ ServerRecv)
    <2>1. UNCHANGED <<written, send_queue, handled>>
      BY <1>7, QuietSteps DEF Next, ClientNext, ServerNext
    <2>2. QED
      BY <2>1, StutterStep
  <1>8. QED
    BY <1>1, <1>2, <1>3, <1>4, <1>5, <1>6, <1>7

(* The stream implements ordered delivery: a dead link, a resumption, a    *)
(* wrapped counter are steps the application never sees, until the session *)
(* itself is lost and everything starts anew.                              *)
THEOREM DeliversInOrder == Spec => DeliveryInOrder
  <1>1. Init => Delivery!Init
    <2>1. SUFFICES ASSUME Init PROVE Delivery!Init
      OBVIOUS
    <2>2. written = 0 /\ handled = <<>> /\ Len(send_queue) = 0 /\ 0 - 0 = 0
      BY <2>1, EmptySeq DEF Init
    <2>3. written - Len(send_queue) = 0
      BY <2>2
    <2>4. QED
      BY <2>2, <2>3 DEF Delivery!Init
  <1>2. IInv /\ IInv' /\ [Next]_vars => [Delivery!Next]_(Delivery!deliveryVars)
    BY DeliveryStep
  <1>3. QED
    BY <1>1, <1>2, Inductive, PTL DEF Spec, DeliveryInOrder, Delivery!Spec
-----------------------------------------------------------------------------
(* The end of a run of processNext reconnects only when the interval was   *)
(* over and an answer outstanding when it was reached.                     *)
LEMMA SettleTimerGivesUp ==
  ASSUME NEW items, NEW stale, NEW w, NEW d, NEW p, NEW rest,
         SettleTimer(items, stale, w, d, p, rest),
         state = "Active", state' = "Connecting"
  PROVE  d /\ w
  BY DEF SettleTimer, streamVars

(* A stream that works gives its connection up for a quiet reconnection    *)
(* only when an <r/> has gone unanswered for a whole interval: none of the *)
(* steps that ask, answer or read does so by itself.                       *)
THEOREM GivesUpUnanswered == Spec => GivesUpOnlyUnanswered
  <1>1. ASSUME [Next]_vars, state = "Active", state' = "Connecting"
        PROVE  waiting_answer /\ due
    <2>0. state = "Active" /\ state' = "Connecting"
      BY <1>1
    <2>1. CASE Write
      <3> DEFINE asks == AsksAtLength(Len(send_queue) + 1) /\ ~waiting_answer
                 items == Wire(outData) \o (IF asks THEN <<ReqOut(written)>> ELSE <<>>)
                                        \o <<StanzaOut(written')>>
                 w == waiting_answer \/ asks
                 d == due /\ ~asks
                 p == TRUE
      <3>1. SettleTimer(items, <<>>, w, d, p, s2c)
        BY <2>1 DEF Write
      <3> HIDE DEF items, w, d, p
      <3>2. d /\ w
        BY <2>0, <3>1, SettleTimerGivesUp
      <3>3. QED
        BY <3>2 DEF d, w
    <2>2. CASE BytesWritten
      <3> DEFINE p == FALSE
      <3>1. SettleTimer(<<>>, outData, waiting_answer, due, p, s2c)
        BY <2>2 DEF BytesWritten
      <3> HIDE DEF p
      <3>2. QED
        BY <2>0, <3>1, SettleTimerGivesUp
    <2>3. CASE Noop
      <3>1. SettleTimer(Wire(outData), <<>>, waiting_answer, due, pendingWrite, s2c)
        BY <2>3 DEF Noop
      <3>2. QED
        BY <2>0, <3>1, SettleTimerGivesUp
    <2>4. CASE RecvStanza
      <3> DEFINE d == due /\ ~waiting_answer
      <3>1. SettleTimer(<<>>, outData, waiting_answer, d, pendingWrite, Tail(s2c))
        BY <2>4 DEF RecvStanza
      <3> HIDE DEF d
      <3>2. d /\ waiting_answer
        BY <2>0, <3>1, SettleTimerGivesUp
      <3>3. QED
        BY <3>2 DEF d
    <2>5. CASE RecvRequest
      <3> DEFINE d == due /\ ~waiting_answer
                 items == <<AnsOut(Wired, received_count)>> \o Wire(outData)
      <3>1. SettleTimer(items, <<>>, waiting_answer, d, pendingWrite, Tail(s2c))
        BY <2>5 DEF RecvRequest
      <3> HIDE DEF d, items
      <3>2. d /\ waiting_answer
        BY <2>0, <3>1, SettleTimerGivesUp
      <3>3. QED
        BY <3>2 DEF d
    <2>6. CASE RecvEnabled       BY <2>0, <2>6 DEF RecvEnabled
    <2>7. CASE RecvResumed       BY <2>0, <2>7 DEF RecvResumed
    <2>8. CASE RecvResumeFailed  BY <2>0, <2>8 DEF RecvResumeFailed
    <2>9. CASE ConnectionClosed  BY <2>0, <2>9 DEF ConnectionClosed
    <2>10. CASE Login            BY <2>0, <2>10 DEF Login
    <2>11. CASE RecvAck          BY <2>0, <2>11 DEF RecvAck, streamVars
    <2>12. CASE LoginComplete    BY <2>0, <2>12 DEF LoginComplete
    <2>13. CASE \/ RecvEnableFailed \/ Tick \/ ServerNext \/ LinkDies \/ UNCHANGED vars
      <3>1. UNCHANGED streamVars
        BY <2>13 DEF RecvEnableFailed, Tick, ServerNext, ServerEnable, ServerResume,
                     ServerRefuse, ServerRecv, ServerSend, ServerRequest, LinkDies, vars
      <3>2. QED
        BY <2>0, <3>1 DEF streamVars
    <2>14. QED
      BY <1>1, <2>1, <2>2, <2>3, <2>4, <2>5, <2>6, <2>7, <2>8, <2>9, <2>10, <2>11,
         <2>12, <2>13 DEF Next, ClientNext
  <1>2. [Next]_vars => [state = "Active" /\ state' = "Connecting" => waiting_answer /\ due]_vars
    BY <1>1
  <1>3. QED
    BY <1>2, PTL DEF Spec, GivesUpOnlyUnanswered
=============================================================================
