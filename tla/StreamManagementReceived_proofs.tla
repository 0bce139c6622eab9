------------------- MODULE StreamManagementReceived_proofs -------------------
EXTENDS StreamManagement_proofs

(***************************************************************************)
(* Theorems about the other direction of StreamManagement: the client sees *)
(* the server's stanzas in order and each once, over any number of dead    *)
(* links and resumptions.  The hypothesis is ~Coalesced: SMCoalesced shows *)
(* that a stanza read together with <enabled/> is lost.                    *)
(*                                                                         *)
(* The argument.  The stanzas on their way to the client continue, without *)
(* a gap, those that it has received (Arrives), and on a link that works   *)
(* and has a session they are all that the server has sent (Complete).     *)
(* A new link starts with what the server holds back, so Complete rests on *)
(* the server's srvAcked being the client's own count after a resumption:  *)
(* every count on its way to the server, one of an <a/> or that of the     *)
(* <resume/>, lies between the two (Answers), and the two differ by less   *)
(* than W, so that a count modulo W tells how far to go.                   *)
(***************************************************************************)

-----------------------------------------------------------------------------
(* The stanzas of q go on from the lo-th and end by the hi-th.             *)
Arrives(q, lo, hi) ==
  /\ \A i \in 1..Len(q) : q[i].type = "stanza" =>
       /\ lo < q[i].n /\ q[i].n <= hi
       /\ \A n \in (lo + 1)..(q[i].n - 1) : \E j \in 1..(i - 1) : q[j] = StanzaIn(n)
  /\ \A i, j \in 1..Len(q) :
       i < j /\ q[i].type = "stanza" /\ q[j].type = "stanza" => q[i].n < q[j].n

(* All of them, up to the hi-th, are in q.                                 *)
Complete(q, lo, hi) ==
  \A n \in (lo + 1)..hi : \E i \in 1..Len(q) : q[i] = StanzaIn(n)

(* The counts in s, on their way to a server that knows lo, go up to hi.   *)
Answers(s, lo, hi) ==
  /\ \A i \in 1..Len(s) : s[i].type = "a" => lo + Distance(lo, s[i].h) <= hi
  /\ \A i, j \in 1..Len(s) : i <= j /\ s[i].type = "a" /\ s[j].type = "a"
       => Distance(lo, s[i].h) <= Distance(lo, s[j].h)

(* A session that has not begun has no stanzas, and a resumption asks for  *)
(* what follows those received.                                            *)
SessionInv ==
  /\ state = "Connecting" /\ ~resumable => received = <<>>
  /\ state = "Connecting" /\ ~resumable /\ (step = "Login" \/ request.type = "enable")
       => srvSent = 0
  /\ request.type = "resume" => request.h = received_count /\ resumable

(* What the server knows to be received has been, and what has been        *)
(* received was sent.                                                      *)
HeldInv ==
  /\ received_count = Len(received) % W
  /\ srvAcked <= Len(received) /\ Len(received) <= srvSent
  /\ srvSent - srvAcked <= MaxQueue

InboundInv ==
  /\ Arrives(s2c, Len(received), srvSent)
  /\ InSession => Complete(s2c, Len(received), srvSent)

AnswerInv == Answers(c2s, srvAcked, Len(received))

RInv == ReceivedExactlyOnce /\ SessionInv /\ HeldInv /\ InboundInv /\ AnswerInv

-----------------------------------------------------------------------------
(* Counts modulo W.                                                        *)

(* The distance to a count that is less than W ahead is the true one.      *)
LEMMA DistanceAhead ==
  ASSUME NEW a \in Nat, NEW h \in Nat, a <= h, h - a < W
  PROVE  Distance(a, h % W) = h - a
  <1> DEFINE rh == h % W
             qh == h \div W
             x  == rh - a
  <1>1. h = (W * qh) + rh /\ qh \in Int /\ rh \in 0..(W - 1)
    BY DivMod
  <1> HIDE DEF rh, qh
  <1>2. x \in Int /\ W \in Int
    BY <1>1, CounterAssumption
  <1>3. x = (W * (x \div W)) + (x % W) /\ x \div W \in Int /\ x % W \in 0..(W - 1)
    BY <1>2, DivMod
  <1>4. h - a \in 0..(W - 1)
    BY <1>2
  <1>5. h - a = (W * qh) + x
    BY <1>1, <1>2
  <1> HIDE DEF x
  <1> DEFINE y == x \div W
             z == x % W
  <1>6. x = (W * y) + z /\ y \in Int /\ z \in 0..(W - 1)
    BY <1>3
  <1> HIDE DEF y, z
  <1>7. W * (qh + y) = W * qh + W * y
    BY <1>1, <1>2, <1>6
  <1>8. W * (qh + y) + z = W * 0 + (h - a)
    BY <1>1, <1>2, <1>5, <1>6, <1>7
  <1>9. qh + y \in Int
    BY <1>1, <1>6
  <1>10. z = h - a
    BY <1>4, <1>6, <1>8, <1>9, UniqueRemainder
  <1> QED
    BY <1>10 DEF z, x, rh, Distance

(* From further on, the distance is shorter by as much.                    *)
LEMMA DistanceShift ==
  ASSUME NEW a \in Nat, NEW d \in Nat, NEW h \in Nat, d <= Distance(a, h)
  PROVE  Distance(a + d, h) = Distance(a, h) - d
  <1> DEFINE x == h - a
             y == h - (a + d)
             ex == x % W
             qx == x \div W
             ey == y % W
             qy == y \div W
  <1>1. x = (W * qx) + ex /\ qx \in Int /\ ex \in 0..(W - 1)
    BY DivMod
  <1>2. y = (W * qy) + ey /\ qy \in Int /\ ey \in 0..(W - 1)
    BY DivMod
  <1>3. y = x - d /\ x \in Int /\ y \in Int
    OBVIOUS
  <1>4. d <= ex
    BY DEF Distance
  <1> HIDE DEF ex, qx, ey, qy, x, y
  <1>5. ex - d \in 0..(W - 1) /\ W \in Int
    BY <1>1, <1>4, CounterAssumption
  <1>6. W * qy + ey = W * qx + (ex - d)
    BY <1>1, <1>2, <1>3, <1>5
  <1>7. ey = ex - d
    BY <1>1, <1>2, <1>5, <1>6, UniqueRemainder
  <1> QED
    BY <1>7 DEF ey, ex, x, y, Distance

(* A distance is a count less than W.                                      *)
LEMMA DistanceType ==
  ASSUME NEW a \in Nat, NEW h \in Nat
  PROVE  Distance(a, h) \in Nat
  <1>1. h - a \in Int
    OBVIOUS
  <1>2. (h - a) % W \in 0..(W - 1)
    BY <1>1, DivMod
  <1> QED
    BY <1>2, CounterAssumption DEF Distance

-----------------------------------------------------------------------------
(* The server's stanzas on their way.                                      *)

(* Nothing is on its way.                                                  *)
LEMMA ArrivesEmpty ==
  ASSUME NEW lo \in Nat, NEW hi \in Nat
  PROVE  Arrives(<<>>, lo, hi) /\ (hi <= lo => Complete(<<>>, lo, hi))
  <1>1. Len(<<>>) = 0 /\ 1..0 = {}
    BY EmptySeq
  <1> QED
    BY <1>1 DEF Arrives, Complete

(* What follows the head of q.                                             *)
LEMMA TailElements ==
  ASSUME NEW q \in Seq(ElementsIn), q # <<>>
  PROVE  /\ Len(q) \in Nat /\ Len(q) >= 1 /\ Len(Tail(q)) = Len(q) - 1 /\ Head(q) = q[1]
         /\ \A i \in 1..Len(Tail(q)) : i + 1 \in 1..Len(q) /\ Tail(q)[i] = q[i + 1]
         /\ \A i \in 1..Len(q) : q[i].n \in Nat
  <1>1. Len(q) \in Nat /\ Len(q) >= 1
    BY EmptySeq, LenProperties
  <1>2. Len(Tail(q)) = Len(q) - 1 /\ \A i \in 1..Len(Tail(q)) : Tail(q)[i] = q[i + 1]
    BY HeadTailProperties
  <1>3. \A i \in 1..Len(Tail(q)) : i + 1 \in 1..Len(q)
    BY <1>1, <1>2
  <1>4. \A i \in 1..Len(q) : q[i].n \in Nat
    <2>1. \A i \in 1..Len(q) : q[i] \in ElementsIn
      BY ElementOfSeq
    <2> QED
      BY <2>1 DEF ElementsIn
  <1> QED
    BY <1>1, <1>2, <1>3, <1>4

(* A stanza at the head is the next one, and those behind it follow it.    *)
LEMMA ArrivesNext ==
  ASSUME NEW q \in Seq(ElementsIn), q # <<>>, NEW lo \in Nat, NEW hi \in Nat,
         Arrives(q, lo, hi), Head(q).type = "stanza"
  PROVE  /\ Head(q).n = lo + 1 /\ lo + 1 <= hi /\ Arrives(Tail(q), lo + 1, hi)
         /\ Complete(q, lo, hi) => Complete(Tail(q), lo + 1, hi)
  <1> DEFINE t == Tail(q)
  <1>1. /\ Len(q) \in Nat /\ Len(q) >= 1 /\ Len(t) = Len(q) - 1 /\ Head(q) = q[1]
        /\ \A i \in 1..Len(t) : i + 1 \in 1..Len(q) /\ t[i] = q[i + 1]
        /\ \A i \in 1..Len(q) : q[i].n \in Nat
    BY TailElements
  <1> HIDE DEF t
  <1>2. 1 \in 1..Len(q) /\ q[1].type = "stanza" /\ q[1].n \in Nat
    BY <1>1
  <1>3. lo < q[1].n /\ q[1].n <= hi
    BY <1>2 DEF Arrives
  <1>4. q[1].n = lo + 1
    <2>1. ASSUME q[1].n # lo + 1 PROVE FALSE
      <3>1. lo + 1 \in (lo + 1)..(q[1].n - 1)
        BY <1>2, <1>3, <2>1
      <3>2. \E j \in 1..(1 - 1) : q[j] = StanzaIn(lo + 1)
        BY <1>2, <3>1 DEF Arrives
      <3> QED
        BY <3>2
    <2> QED
      BY <2>1
  <1>5. ASSUME NEW n \in Nat, n > lo + 1, NEW k \in 1..Len(q), q[k] = StanzaIn(n)
        PROVE  k > 1 /\ t[k - 1] = StanzaIn(n) /\ k - 1 \in 1..Len(t)
    <2>1. q[k].n = n
      BY <1>5 DEF StanzaIn
    <2>2. k # 1
      BY <1>4, <1>5, <2>1
    <2>3. k > 1 /\ k - 1 \in 1..Len(t)
      BY <1>1, <2>2
    <2>4. t[k - 1] = q[k - 1 + 1] /\ k - 1 + 1 = k
      BY <1>1, <2>3
    <2> QED
      BY <1>5, <2>3, <2>4
  <1>6. ASSUME NEW i \in 1..Len(t), t[i].type = "stanza"
        PROVE  /\ lo + 1 < t[i].n /\ t[i].n <= hi
               /\ \A n \in (lo + 1 + 1)..(t[i].n - 1) : \E j \in 1..(i - 1) : t[j] = StanzaIn(n)
    <2>1. i + 1 \in 1..Len(q) /\ t[i] = q[i + 1] /\ 1 < i + 1 /\ q[i + 1].n \in Nat
      BY <1>1
    <2>2. q[1].n < q[i + 1].n
      BY <1>2, <1>6, <2>1 DEF Arrives
    <2>3. q[i + 1].n <= hi
      BY <1>6, <2>1 DEF Arrives
    <2>4. ASSUME NEW n \in (lo + 1 + 1)..(t[i].n - 1)
          PROVE  \E j \in 1..(i - 1) : t[j] = StanzaIn(n)
      <3>1. n \in (lo + 1)..(q[i + 1].n - 1) /\ n \in Nat /\ n > lo + 1
        BY <2>1
      <3>2. \E j \in 1..(i + 1 - 1) : q[j] = StanzaIn(n)
        <4>1. i + 1 \in 1..Len(q) /\ q[i + 1].type = "stanza"
          BY <1>6, <2>1
        <4>2. \A m \in (lo + 1)..(q[i + 1].n - 1) : \E j \in 1..(i + 1 - 1) : q[j] = StanzaIn(m)
          BY <4>1 DEF Arrives
        <4> QED
          BY <3>1, <4>2, Zenon
      <3>3. PICK j \in 1..i : q[j] = StanzaIn(n)
        BY <3>2
      <3>4. j \in 1..Len(q)
        BY <1>1, <2>1
      <3>5. j > 1 /\ t[j - 1] = StanzaIn(n)
        BY <1>5, <3>1, <3>3, <3>4
      <3>6. j - 1 \in 1..(i - 1)
        BY <3>5
      <3> QED
        BY <3>5, <3>6
    <2> QED
      BY <1>4, <2>1, <2>2, <2>3, <2>4
  <1>7. ASSUME NEW i \in 1..Len(t), NEW j \in 1..Len(t), i < j,
               t[i].type = "stanza", t[j].type = "stanza"
        PROVE  t[i].n < t[j].n
    <2>1. \A k \in 1..Len(t) : k + 1 \in 1..Len(q) /\ t[k] = q[k + 1]
      BY <1>1
    <2>2. i + 1 < j + 1
      BY <1>1, <1>7
    <2>3. \A k, m \in 1..Len(q) :
            k < m /\ q[k].type = "stanza" /\ q[m].type = "stanza" => q[k].n < q[m].n
      BY DEF Arrives
    <2> QED
      BY <1>7, <2>1, <2>2, <2>3, Zenon
  <1>8. Arrives(t, lo + 1, hi)
    BY <1>6, <1>7 DEF Arrives
  <1>9. ASSUME Complete(q, lo, hi) PROVE Complete(t, lo + 1, hi)
    <2>1. ASSUME NEW n \in (lo + 1 + 1)..hi
          PROVE  \E i \in 1..Len(t) : t[i] = StanzaIn(n)
      <3>1. n \in (lo + 1)..hi /\ n \in Nat /\ n > lo + 1
        OBVIOUS
      <3>2. PICK k \in 1..Len(q) : q[k] = StanzaIn(n)
        BY <1>9, <3>1 DEF Complete
      <3> QED
        BY <1>5, <3>1, <3>2
    <2> QED
      BY <2>1 DEF Complete
  <1> QED
    BY <1>1, <1>3, <1>4, <1>8, <1>9 DEF t

(* Any other element at the head may go.                                   *)
LEMMA ArrivesTail ==
  ASSUME NEW q \in Seq(ElementsIn), q # <<>>, NEW lo \in Nat, NEW hi \in Nat,
         Arrives(q, lo, hi), Head(q).type # "stanza"
  PROVE  /\ Arrives(Tail(q), lo, hi)
         /\ Complete(q, lo, hi) => Complete(Tail(q), lo, hi)
  <1> DEFINE t == Tail(q)
  <1>1. /\ Len(q) \in Nat /\ Len(q) >= 1 /\ Len(t) = Len(q) - 1 /\ Head(q) = q[1]
        /\ \A i \in 1..Len(t) : i + 1 \in 1..Len(q) /\ t[i] = q[i + 1]
        /\ \A i \in 1..Len(q) : q[i].n \in Nat
    BY TailElements
  <1> HIDE DEF t
  <1>2. ASSUME NEW n, NEW k \in 1..Len(q), q[k] = StanzaIn(n)
        PROVE  k > 1 /\ t[k - 1] = StanzaIn(n) /\ k - 1 \in 1..Len(t)
    <2>1. q[k].type = "stanza"
      BY <1>2 DEF StanzaIn
    <2>2. k # 1
      BY <1>1, <2>1
    <2>3. k > 1 /\ k - 1 \in 1..Len(t)
      BY <1>1, <2>2
    <2>4. t[k - 1] = q[k - 1 + 1] /\ k - 1 + 1 = k
      BY <1>1, <2>3
    <2> QED
      BY <1>2, <2>3, <2>4
  <1>3. ASSUME NEW i \in 1..Len(t), t[i].type = "stanza"
        PROVE  /\ lo < t[i].n /\ t[i].n <= hi
               /\ \A n \in (lo + 1)..(t[i].n - 1) : \E j \in 1..(i - 1) : t[j] = StanzaIn(n)
    <2>1. i + 1 \in 1..Len(q) /\ t[i] = q[i + 1]
      BY <1>1
    <2>2. lo < q[i + 1].n /\ q[i + 1].n <= hi
      BY <1>3, <2>1 DEF Arrives
    <2>3. ASSUME NEW n \in (lo + 1)..(t[i].n - 1)
          PROVE  \E j \in 1..(i - 1) : t[j] = StanzaIn(n)
      <3>1. \E j \in 1..(i + 1 - 1) : q[j] = StanzaIn(n)
        <4>1. n \in (lo + 1)..(q[i + 1].n - 1) /\ q[i + 1].type = "stanza"
          BY <1>3, <2>1
        <4>2. \A m \in (lo + 1)..(q[i + 1].n - 1) : \E j \in 1..(i + 1 - 1) : q[j] = StanzaIn(m)
          BY <2>1, <4>1 DEF Arrives
        <4> QED
          BY <4>1, <4>2, Zenon
      <3>2. PICK j \in 1..i : q[j] = StanzaIn(n)
        BY <3>1
      <3>3. j \in 1..Len(q)
        BY <1>1, <2>1
      <3>4. j > 1 /\ t[j - 1] = StanzaIn(n)
        BY <1>2, <3>2, <3>3
      <3>5. j - 1 \in 1..(i - 1)
        BY <3>4
      <3> QED
        BY <3>4, <3>5
    <2> QED
      BY <2>1, <2>2, <2>3
  <1>4. ASSUME NEW i \in 1..Len(t), NEW j \in 1..Len(t), i < j,
               t[i].type = "stanza", t[j].type = "stanza"
        PROVE  t[i].n < t[j].n
    <2>1. /\ i + 1 \in 1..Len(q) /\ t[i] = q[i + 1] /\ j + 1 \in 1..Len(q) /\ t[j] = q[j + 1]
          /\ i + 1 < j + 1
      BY <1>1, <1>4
    <2> QED
      BY <1>4, <2>1 DEF Arrives
  <1>5. Arrives(t, lo, hi)
    BY <1>3, <1>4 DEF Arrives
  <1>6. ASSUME Complete(q, lo, hi) PROVE Complete(t, lo, hi)
    <2>1. ASSUME NEW n \in (lo + 1)..hi
          PROVE  \E i \in 1..Len(t) : t[i] = StanzaIn(n)
      <3>1. PICK k \in 1..Len(q) : q[k] = StanzaIn(n)
        BY <1>6 DEF Complete
      <3> QED
        BY <1>2, <3>1
    <2> QED
      BY <2>1 DEF Complete
  <1> QED
    BY <1>5, <1>6 DEF t

(* What a dead link still delivers.                                        *)
LEMMA ArrivesPrefix ==
  ASSUME NEW q \in Seq(ElementsIn), NEW lo \in Nat, NEW hi \in Nat, Arrives(q, lo, hi),
         NEW t \in Prefixes(q)
  PROVE  Arrives(t, lo, hi)
  <1>1. t \in Seq(ElementsIn) /\ Len(t) \in Nat
    BY PrefixType, LenProperties
  <1>2. \A i \in 1..Len(t) : i \in 1..Len(q) /\ t[i] = q[i]
    BY PrefixElements
  <1>3. ASSUME NEW i \in 1..Len(t), t[i].type = "stanza"
        PROVE  /\ lo < t[i].n /\ t[i].n <= hi
               /\ \A n \in (lo + 1)..(t[i].n - 1) : \E j \in 1..(i - 1) : t[j] = StanzaIn(n)
    <2>1. i \in 1..Len(q) /\ t[i] = q[i]
      BY <1>2
    <2>2. lo < q[i].n /\ q[i].n <= hi
      BY <1>3, <2>1 DEF Arrives
    <2>3. ASSUME NEW n \in (lo + 1)..(t[i].n - 1)
          PROVE  \E j \in 1..(i - 1) : t[j] = StanzaIn(n)
      <3>1. PICK j \in 1..(i - 1) : q[j] = StanzaIn(n)
        BY <1>3, <2>1 DEF Arrives
      <3>2. j \in 1..Len(t)
        BY <1>1
      <3> QED
        BY <1>2, <3>1, <3>2
    <2> QED
      BY <2>1, <2>2, <2>3
  <1>4. \A i, j \in 1..Len(t) :
          i < j /\ t[i].type = "stanza" /\ t[j].type = "stanza" => t[i].n < t[j].n
    BY <1>2 DEF Arrives
  <1> QED
    BY <1>3, <1>4 DEF Arrives

(* The server's next stanza.                                               *)
LEMMA ArrivesSend ==
  ASSUME NEW q \in Seq(ElementsIn), NEW lo \in Nat, NEW hi \in Nat, lo <= hi,
         Arrives(q, lo, hi)
  PROVE  /\ Arrives(q, lo, hi + 1)
         /\ Complete(q, lo, hi) => /\ Arrives(Append(q, StanzaIn(hi + 1)), lo, hi + 1)
                                   /\ Complete(Append(q, StanzaIn(hi + 1)), lo, hi + 1)
  <1> DEFINE e == StanzaIn(hi + 1)
             t == Append(q, e)
  <1>1. e \in ElementsIn /\ e.type = "stanza" /\ e.n = hi + 1
    BY DEF StanzaIn, ElementsIn
  <1> HIDE DEF e
  <1>2. /\ Len(q) \in Nat /\ Len(t) = Len(q) + 1 /\ t[Len(q) + 1] = e
        /\ \A i \in 1..Len(q) : t[i] = q[i]
    BY <1>1, AppendProperties, LenProperties
  <1> HIDE DEF t
  <1>3. \A i \in 1..Len(t) : i \in 1..Len(q) \/ i = Len(q) + 1
    BY <1>2
  <1>4. \A i \in 1..Len(q) : q[i].n \in Nat
    <2>1. \A i \in 1..Len(q) : q[i] \in ElementsIn
      BY ElementOfSeq
    <2> QED
      BY <2>1 DEF ElementsIn
  <1>5. Arrives(q, lo, hi + 1)
    <2>1. ASSUME NEW i \in 1..Len(q), q[i].type = "stanza"
          PROVE  /\ lo < q[i].n /\ q[i].n <= hi + 1
                 /\ \A n \in (lo + 1)..(q[i].n - 1) : \E j \in 1..(i - 1) : q[j] = StanzaIn(n)
      <3>1. q[i].n <= hi /\ q[i].n \in Nat
        BY <1>4, <2>1 DEF Arrives
      <3>2. q[i].n <= hi + 1
        BY <3>1
      <3> QED
        BY <2>1, <3>2 DEF Arrives
    <2> QED
      BY <2>1 DEF Arrives
  <1>6. ASSUME Complete(q, lo, hi)
        PROVE  Arrives(t, lo, hi + 1) /\ Complete(t, lo, hi + 1)
    <2>1. ASSUME NEW n \in (lo + 1)..hi
          PROVE  \E j \in 1..Len(q) : t[j] = StanzaIn(n)
      <3>1. PICK j \in 1..Len(q) : q[j] = StanzaIn(n)
        BY <1>6 DEF Complete
      <3> QED
        BY <1>2, <3>1
    <2>2. ASSUME NEW i \in 1..Len(t), t[i].type = "stanza"
          PROVE  /\ lo < t[i].n /\ t[i].n <= hi + 1
                 /\ \A n \in (lo + 1)..(t[i].n - 1) : \E j \in 1..(i - 1) : t[j] = StanzaIn(n)
      <3>1. CASE i \in 1..Len(q)
        <4>1. t[i] = q[i]
          BY <1>2, <3>1
        <4>2. lo < q[i].n /\ q[i].n <= hi + 1
          BY <1>5, <2>2, <3>1, <4>1 DEF Arrives
        <4>3. ASSUME NEW n \in (lo + 1)..(t[i].n - 1)
              PROVE  \E j \in 1..(i - 1) : t[j] = StanzaIn(n)
          <5>1. PICK j \in 1..(i - 1) : q[j] = StanzaIn(n)
            BY <1>5, <2>2, <3>1, <4>1 DEF Arrives
          <5>2. j \in 1..Len(q)
            BY <1>2, <3>1
          <5> QED
            BY <1>2, <5>1, <5>2
        <4> QED
          BY <4>1, <4>2, <4>3
      <3>2. CASE i = Len(q) + 1
        <4>1. t[i].n = hi + 1
          BY <1>1, <1>2, <3>2
        <4>2. lo < hi + 1 /\ hi + 1 <= hi + 1
          OBVIOUS
        <4>3. ASSUME NEW n \in (lo + 1)..(t[i].n - 1)
              PROVE  \E j \in 1..(i - 1) : t[j] = StanzaIn(n)
          <5>1. n \in (lo + 1)..hi
            BY <4>1
          <5>2. i - 1 = Len(q)
            BY <1>2, <3>2
          <5> QED
            BY <2>1, <5>1, <5>2
        <4> QED
          BY <4>1, <4>2, <4>3
      <3> QED
        BY <1>3, <3>1, <3>2
    <2>3. ASSUME NEW i \in 1..Len(t), NEW j \in 1..Len(t), i < j,
                 t[i].type = "stanza", t[j].type = "stanza"
          PROVE  t[i].n < t[j].n
      <3>1. i \in 1..Len(q) /\ t[i] = q[i] /\ q[i].type = "stanza"
        BY <1>2, <1>3, <2>3
      <3>2. CASE j \in 1..Len(q)
        <4>1. t[j] = q[j]
          BY <1>2, <3>2
        <4> QED
          BY <2>3, <3>1, <3>2, <4>1 DEF Arrives
      <3>3. CASE j = Len(q) + 1
        <4>1. t[j].n = hi + 1
          BY <1>1, <1>2, <3>3
        <4>2. q[i].n <= hi /\ q[i].n \in Nat
          BY <1>4, <3>1 DEF Arrives
        <4> QED
          BY <3>1, <4>1, <4>2
      <3> QED
        BY <1>3, <3>2, <3>3
    <2>4. Arrives(t, lo, hi + 1)
      BY <2>2, <2>3 DEF Arrives
    <2>5. ASSUME NEW n \in (lo + 1)..(hi + 1)
          PROVE  \E j \in 1..Len(t) : t[j] = StanzaIn(n)
      <3>1. CASE n \in (lo + 1)..hi
        <4>1. PICK j \in 1..Len(q) : t[j] = StanzaIn(n)
          BY <2>1, <3>1
        <4>2. j \in 1..Len(t)
          BY <1>2
        <4> QED
          BY <4>1, <4>2
      <3>2. CASE n = hi + 1
        <4>1. Len(q) + 1 \in 1..Len(t) /\ t[Len(q) + 1] = StanzaIn(n)
          BY <1>2, <3>2 DEF e
        <4> QED
          BY <4>1
      <3> QED
        BY <3>1, <3>2
    <2> QED
      BY <2>4, <2>5 DEF Complete
  <1> QED
    BY <1>5, <1>6 DEF t, e

(* A request or an answer of the server behind its stanzas.                *)
LEMMA ArrivesBefore ==
  ASSUME NEW q \in Seq(ElementsIn), NEW lo \in Nat, NEW hi \in Nat, Arrives(q, lo, hi),
         NEW e \in ElementsIn, e.type # "stanza"
  PROVE  /\ Arrives(Append(q, e), lo, hi)
         /\ Complete(q, lo, hi) => Complete(Append(q, e), lo, hi)
  <1> DEFINE t == Append(q, e)
  <1>1. /\ Len(q) \in Nat /\ Len(t) = Len(q) + 1 /\ t[Len(q) + 1] = e
        /\ \A i \in 1..Len(q) : t[i] = q[i]
    BY AppendProperties, LenProperties
  <1> HIDE DEF t
  <1>2. \A i \in 1..Len(t) : t[i].type = "stanza" => i \in 1..Len(q) /\ t[i] = q[i]
    BY <1>1
  <1>3. ASSUME NEW i \in 1..Len(t), t[i].type = "stanza"
        PROVE  /\ lo < t[i].n /\ t[i].n <= hi
               /\ \A n \in (lo + 1)..(t[i].n - 1) : \E j \in 1..(i - 1) : t[j] = StanzaIn(n)
    <2>1. i \in 1..Len(q) /\ t[i] = q[i]
      BY <1>2, <1>3
    <2>2. lo < q[i].n /\ q[i].n <= hi
      BY <1>3, <2>1 DEF Arrives
    <2>3. ASSUME NEW n \in (lo + 1)..(t[i].n - 1)
          PROVE  \E j \in 1..(i - 1) : t[j] = StanzaIn(n)
      <3>1. PICK j \in 1..(i - 1) : q[j] = StanzaIn(n)
        BY <1>3, <2>1 DEF Arrives
      <3>2. j \in 1..Len(q)
        BY <1>1, <2>1
      <3> QED
        BY <1>1, <3>1, <3>2
    <2> QED
      BY <2>1, <2>2, <2>3
  <1>4. \A i, j \in 1..Len(t) :
          i < j /\ t[i].type = "stanza" /\ t[j].type = "stanza" => t[i].n < t[j].n
    BY <1>2 DEF Arrives
  <1>5. Arrives(t, lo, hi)
    BY <1>3, <1>4 DEF Arrives
  <1>6. ASSUME Complete(q, lo, hi) PROVE Complete(t, lo, hi)
    <2>1. ASSUME NEW n \in (lo + 1)..hi
          PROVE  \E i \in 1..Len(t) : t[i] = StanzaIn(n)
      <3>1. PICK k \in 1..Len(q) : q[k] = StanzaIn(n)
        BY <1>6 DEF Complete
      <3>2. k \in 1..Len(t) /\ t[k] = q[k]
        BY <1>1
      <3> QED
        BY <3>1, <3>2
    <2> QED
      BY <2>1 DEF Complete
  <1> QED
    BY <1>5, <1>6 DEF t

(* A session that is resumed: what the server repeats goes on from lo.     *)
LEMMA ArrivesAgain ==
  ASSUME NEW lo \in Nat, NEW hi \in Nat, lo <= hi, NEW e \in ElementsIn, e.type # "stanza"
  PROVE  LET t == <<e>> \o [i \in 1..(hi - lo) |-> StanzaIn(lo + i)]
         IN  Arrives(t, lo, hi) /\ Complete(t, lo, hi)
  <1> DEFINE k     == hi - lo
             again == [i \in 1..k |-> StanzaIn(lo + i)]
             t     == <<e>> \o again
  <1>1. k \in Nat /\ lo + k = hi
    OBVIOUS
  <1> HIDE DEF k
  <1>2. again \in Seq(ElementsIn) /\ Len(again) = k /\ \A i \in 1..k : again[i] = StanzaIn(lo + i)
    <2>1. \A i \in 1..k : StanzaIn(lo + i) \in ElementsIn
      BY <1>1 DEF StanzaIn, ElementsIn
    <2> QED
      BY <1>1, <2>1
  <1> HIDE DEF again
  <1>3. <<e>> \in Seq(ElementsIn) /\ Len(<<e>>) = 1 /\ <<e>>[1] = e
    OBVIOUS
  <1>4. /\ Len(t) = 1 + k
        /\ \A i \in 1..(1 + k) : t[i] = IF i <= 1 THEN <<e>>[i] ELSE again[i - 1]
    BY <1>2, <1>3, ConcatProperties
  <1> HIDE DEF t
  <1>5. t[1] = e /\ \A i \in 1..k : i + 1 \in 1..Len(t) /\ t[i + 1] = StanzaIn(lo + i)
    <2>1. t[1] = e
      BY <1>1, <1>3, <1>4
    <2>2. ASSUME NEW i \in 1..k
          PROVE  i + 1 \in 1..Len(t) /\ t[i + 1] = StanzaIn(lo + i)
      <3>1. i + 1 \in 1..(1 + k) /\ ~(i + 1 <= 1) /\ i + 1 - 1 = i
        BY <1>1
      <3>2. t[i + 1] = again[i]
        BY <1>4, <3>1
      <3> QED
        BY <1>2, <1>4, <3>1, <3>2
    <2> QED
      BY <2>1, <2>2
  <1>6. ASSUME NEW i \in 1..Len(t), t[i].type = "stanza"
        PROVE  i - 1 \in 1..k /\ t[i].n = lo + (i - 1)
    <2>1. i # 1
      BY <1>5, <1>6
    <2>2. i - 1 \in 1..k /\ i - 1 + 1 = i
      BY <1>1, <1>4, <2>1
    <2>3. t[i] = StanzaIn(lo + (i - 1))
      BY <1>5, <2>2
    <2> QED
      BY <2>2, <2>3 DEF StanzaIn
  <1>7. ASSUME NEW n \in (lo + 1)..hi
        PROVE  n - lo \in 1..k /\ t[n - lo + 1] = StanzaIn(n)
    <2>1. n - lo \in 1..k /\ lo + (n - lo) = n
      BY <1>1
    <2> QED
      BY <1>5, <2>1
  <1>8. ASSUME NEW i \in 1..Len(t), t[i].type = "stanza"
        PROVE  /\ lo < t[i].n /\ t[i].n <= hi
               /\ \A n \in (lo + 1)..(t[i].n - 1) : \E j \in 1..(i - 1) : t[j] = StanzaIn(n)
    <2>1. i - 1 \in 1..k /\ t[i].n = lo + (i - 1)
      BY <1>6, <1>8
    <2>2. lo < lo + (i - 1) /\ lo + (i - 1) <= hi
      BY <1>1, <2>1
    <2>3. ASSUME NEW n \in (lo + 1)..(t[i].n - 1)
          PROVE  \E j \in 1..(i - 1) : t[j] = StanzaIn(n)
      <3>1. n \in (lo + 1)..hi
        BY <2>1, <2>2
      <3>2. n - lo + 1 \in 1..(i - 1)
        BY <2>1
      <3> QED
        BY <1>7, <3>1, <3>2
    <2> QED
      BY <2>1, <2>2, <2>3
  <1>9. ASSUME NEW i \in 1..Len(t), NEW j \in 1..Len(t), i < j,
               t[i].type = "stanza", t[j].type = "stanza"
        PROVE  t[i].n < t[j].n
    <2>1. t[i].n = lo + (i - 1) /\ t[j].n = lo + (j - 1)
      BY <1>6, <1>9
    <2> QED
      BY <1>9, <2>1
  <1>10. Arrives(t, lo, hi)
    BY <1>8, <1>9 DEF Arrives
  <1>11. Complete(t, lo, hi)
    <2>1. ASSUME NEW n \in (lo + 1)..hi
          PROVE  \E i \in 1..Len(t) : t[i] = StanzaIn(n)
      <3>1. n - lo + 1 \in 1..Len(t)
        BY <1>5, <1>7
      <3> QED
        BY <1>7, <3>1
    <2> QED
      BY <2>1 DEF Complete
  <1> QED
    BY <1>10, <1>11 DEF t, again, k

-----------------------------------------------------------------------------
(* The client's counts on their way.                                       *)

(* Nothing is on its way.                                                  *)
LEMMA AnswersEmpty ==
  ASSUME NEW lo, NEW hi
  PROVE  Answers(<<>>, lo, hi)
  <1>1. Len(<<>>) = 0 /\ 1..0 = {}
    BY EmptySeq
  <1> QED
    BY <1>1 DEF Answers

(* What the socket still delivers.                                         *)
LEMMA AnswersPrefix ==
  ASSUME NEW s \in Seq(ElementsOut), NEW lo, NEW hi, Answers(s, lo, hi), NEW t \in Prefixes(s)
  PROVE  Answers(t, lo, hi)
  <1>1. \A i \in 1..Len(t) : i \in 1..Len(s) /\ t[i] = s[i]
    BY PrefixElements
  <1> QED
    BY <1>1 DEF Answers

(* The client has received more meanwhile.                                 *)
LEMMA AnswersWiden ==
  ASSUME NEW s \in Seq(ElementsOut), NEW lo \in Nat, NEW hi \in Nat, Answers(s, lo, hi)
  PROVE  Answers(s, lo, hi + 1)
  <1>1. ASSUME NEW i \in 1..Len(s), s[i].type = "a"
        PROVE  lo + Distance(lo, s[i].h) <= hi + 1
    <2>1. lo + Distance(lo, s[i].h) <= hi
      BY <1>1 DEF Answers
    <2>2. s[i] \in ElementsOut
      BY ElementOfSeq
    <2>3. s[i].h \in Nat
      BY <2>2 DEF ElementsOut
    <2>4. Distance(lo, s[i].h) \in Nat
      BY <2>3, DistanceType
    <2> QED
      BY <2>1, <2>4
  <1> QED
    BY <1>1 DEF Answers

(* Elements of which none is a count, or only one of all that is received. *)
LEMMA AnswersConcat ==
  ASSUME NEW s \in Seq(ElementsOut), NEW t \in Seq(ElementsOut), NEW lo \in Nat, NEW hi \in Nat,
         Answers(s, lo, hi),
         \A i \in 1..Len(t) : t[i].type = "a" => lo + Distance(lo, t[i].h) = hi
  PROVE  Answers(s \o t, lo, hi)
  <1> DEFINE u == s \o t
  <1>1. /\ Len(u) = Len(s) + Len(t) /\ Len(s) \in Nat /\ Len(t) \in Nat /\ u \in Seq(ElementsOut)
        /\ \A i \in 1..(Len(s) + Len(t)) : u[i] = IF i <= Len(s) THEN s[i] ELSE t[i - Len(s)]
    BY ConcatProperties, LenProperties
  <1> HIDE DEF u
  <1>2. \A i \in 1..Len(u) : Distance(lo, u[i].h) \in Nat
    <2>1. \A i \in 1..Len(u) : u[i] \in ElementsOut
      BY <1>1, ElementOfSeq
    <2>2. \A i \in 1..Len(u) : u[i].h \in Nat
      BY <2>1 DEF ElementsOut
    <2> QED
      BY <2>2, DistanceType
  <1>3. ASSUME NEW i \in 1..Len(u), u[i].type = "a"
        PROVE  /\ i <= Len(s) => i \in 1..Len(s) /\ u[i] = s[i]
               /\ i > Len(s) => lo + Distance(lo, u[i].h) = hi
    <2>1. CASE i <= Len(s)
      BY <1>1, <2>1
    <2>2. CASE i > Len(s)
      <3>1. i - Len(s) \in 1..Len(t) /\ u[i] = t[i - Len(s)]
        BY <1>1, <2>2
      <3> QED
        BY <1>3, <2>2, <3>1
    <2> QED
      BY <1>1, <2>1, <2>2
  <1>4. ASSUME NEW i \in 1..Len(u), u[i].type = "a"
        PROVE  lo + Distance(lo, u[i].h) <= hi
    <2>1. CASE i <= Len(s)
      BY <1>3, <1>4, <2>1 DEF Answers
    <2>2. CASE i > Len(s)
      <3>1. lo + Distance(lo, u[i].h) = hi
        BY <1>3, <1>4, <2>2
      <3> QED
        BY <3>1
    <2> QED
      BY <1>1, <2>1, <2>2
  <1>5. ASSUME NEW i \in 1..Len(u), NEW j \in 1..Len(u), i <= j, u[i].type = "a", u[j].type = "a"
        PROVE  Distance(lo, u[i].h) <= Distance(lo, u[j].h)
    <2>1. CASE j <= Len(s)
      <3>1. i <= Len(s)
        BY <1>1, <1>5, <2>1
      <3> QED
        BY <1>3, <1>5, <2>1, <3>1 DEF Answers
    <2>2. CASE j > Len(s)
      <3>1. lo + Distance(lo, u[j].h) = hi
        BY <1>3, <1>5, <2>2
      <3>2. lo + Distance(lo, u[i].h) <= hi
        BY <1>4, <1>5
      <3>3. Distance(lo, u[i].h) \in Nat /\ Distance(lo, u[j].h) \in Nat
        BY <1>2
      <3>4. \A x, y \in Nat : lo + y = hi /\ lo + x <= hi => x <= y
        OBVIOUS
      <3> QED
        BY <3>1, <3>2, <3>3, <3>4
    <2> QED
      BY <1>1, <2>1, <2>2
  <1> QED
    BY <1>4, <1>5 DEF Answers, u

(* The server takes the first element: a count moves it to where it says,  *)
(* which is no further than the client is.                                 *)
LEMMA AnswersTaken ==
  ASSUME NEW s \in Seq(ElementsOut), s # <<>>, NEW lo \in Nat, NEW hi \in Nat,
         Answers(s, lo, hi),
         NEW to \in Nat, Head(s).type = "a" => to = lo + Distance(lo, Head(s).h),
         Head(s).type # "a" => to = lo
  PROVE  Answers(Tail(s), to, hi) /\ (Head(s).type = "a" => to <= hi)
  <1> DEFINE t == Tail(s)
  <1>1. Len(s) \in Nat /\ Len(s) >= 1
    BY EmptySeq, LenProperties
  <1>2. Len(t) = Len(s) - 1 /\ \A i \in 1..Len(t) : t[i] = s[i + 1]
    BY HeadTailProperties
  <1> HIDE DEF t
  <1>3. Head(s) = s[1] /\ 1 \in 1..Len(s)
    BY <1>1
  <1>4. \A i \in 1..Len(t) : i + 1 \in 1..Len(s) /\ t[i] = s[i + 1] /\ 1 <= i + 1
    BY <1>1, <1>2
  <1>5. \A i \in 1..Len(s) : s[i].h \in Nat /\ Distance(lo, s[i].h) \in Nat
    <2>1. \A i \in 1..Len(s) : s[i] \in ElementsOut
      BY ElementOfSeq
    <2>2. \A i \in 1..Len(s) : s[i].h \in Nat
      BY <2>1 DEF ElementsOut
    <2> QED
      BY <2>2, DistanceType
  <1>6. CASE Head(s).type # "a"
    <2>1. ASSUME NEW i \in 1..Len(t), t[i].type = "a"
          PROVE  lo + Distance(lo, t[i].h) <= hi
      BY <1>4, <2>1 DEF Answers
    <2>2. ASSUME NEW i \in 1..Len(t), NEW j \in 1..Len(t), i <= j, t[i].type = "a", t[j].type = "a"
          PROVE  Distance(lo, t[i].h) <= Distance(lo, t[j].h)
      <3>1. i + 1 \in 1..Len(s) /\ j + 1 \in 1..Len(s) /\ i + 1 <= j + 1
        BY <1>4, <2>2
      <3> QED
        BY <1>4, <2>2, <3>1 DEF Answers
    <2>3. Answers(t, lo, hi)
      BY <2>1, <2>2 DEF Answers
    <2> QED
      BY <1>6, <2>3 DEF t
  <1>7. CASE Head(s).type = "a"
    <2> DEFINE d == Distance(lo, s[1].h)
    <2>1. d \in Nat /\ to = lo + d /\ s[1].type = "a"
      BY <1>3, <1>5, <1>7
    <2>2. to <= hi
      BY <1>3, <2>1 DEF Answers
    <2> HIDE DEF d
    <2>3. ASSUME NEW i \in 1..Len(t), t[i].type = "a"
          PROVE  /\ Distance(to, t[i].h) = Distance(lo, t[i].h) - d
                 /\ d <= Distance(lo, t[i].h) /\ Distance(lo, t[i].h) \in Nat
                 /\ lo + Distance(lo, t[i].h) <= hi
      <3>1. i + 1 \in 1..Len(s) /\ t[i] = s[i + 1] /\ 1 <= i + 1
        BY <1>4
      <3>2. t[i].h \in Nat /\ Distance(lo, t[i].h) \in Nat
        BY <1>5, <3>1
      <3>3. d <= Distance(lo, t[i].h)
        BY <1>3, <2>1, <2>3, <3>1 DEF Answers, d
      <3>4. lo + Distance(lo, t[i].h) <= hi
        BY <2>3, <3>1 DEF Answers
      <3> QED
        BY <2>1, <3>2, <3>3, <3>4, DistanceShift
    <2>4. \A x \in Nat : d <= x /\ lo + x <= hi => to + (x - d) <= hi
      BY <2>1
    <2>5. ASSUME NEW i \in 1..Len(t), t[i].type = "a"
          PROVE  to + Distance(to, t[i].h) <= hi
      BY <2>3, <2>4, <2>5
    <2>6. ASSUME NEW i \in 1..Len(t), NEW j \in 1..Len(t), i <= j, t[i].type = "a", t[j].type = "a"
          PROVE  Distance(to, t[i].h) <= Distance(to, t[j].h)
      <3>1. i + 1 \in 1..Len(s) /\ j + 1 \in 1..Len(s) /\ i + 1 <= j + 1
        BY <1>4, <2>6
      <3>2. Distance(lo, t[i].h) <= Distance(lo, t[j].h)
        BY <1>4, <2>6, <3>1 DEF Answers
      <3>3. \A x, y \in Nat : x <= y => x - d <= y - d
        BY <2>1
      <3> QED
        BY <2>3, <2>6, <3>2, <3>3
    <2>7. Answers(t, to, hi)
      BY <2>5, <2>6 DEF Answers
    <2> QED
      BY <2>2, <2>7 DEF t
  <1> QED
    BY <1>6, <1>7

-----------------------------------------------------------------------------
(* Steps of the client that end in the timer check.                        *)

(* The counts in t are those of everything received.                       *)
Current(t, lo, hi) ==
  \A i \in 1..Len(t) : t[i].type = "a" => lo + Distance(lo, t[i].h) = hi

(* Stanzas and requests hold no count.                                     *)
LEMMA CurrentPlain ==
  ASSUME NEW lo, NEW hi, NEW q \in Seq(Nat), NEW n \in Nat
  PROVE  /\ Current(<<>>, lo, hi) /\ <<>> \in Seq(ElementsOut)
         /\ Current(Wire(q), lo, hi) /\ Wire(q) \in Seq(ElementsOut)
         /\ Current(<<ReqOut(n)>>, lo, hi) /\ <<ReqOut(n)>> \in Seq(ElementsOut)
         /\ Current(<<StanzaOut(n)>>, lo, hi) /\ <<StanzaOut(n)>> \in Seq(ElementsOut)
  <1>1. Current(<<>>, lo, hi)
    BY DEF Current
  <1>2. Current(Wire(q), lo, hi)
    <2>1. ASSUME NEW i \in 1..Len(Wire(q))
          PROVE  Wire(q)[i].type # "a"
      <3>1. Wire(q)[i] = StanzaOut(q[i])
        BY WireType
      <3> QED
        BY <3>1 DEF StanzaOut
    <2> QED
      BY <2>1 DEF Current
  <1>3. Current(<<ReqOut(n)>>, lo, hi) /\ Current(<<StanzaOut(n)>>, lo, hi)
    <2>1. /\ Len(<<ReqOut(n)>>) = 1 /\ <<ReqOut(n)>>[1].type = "r"
          /\ Len(<<StanzaOut(n)>>) = 1 /\ <<StanzaOut(n)>>[1].type = "stanza"
      BY DEF ReqOut, StanzaOut
    <2>2. \A i \in 1..1 : i = 1
      OBVIOUS
    <2> QED
      BY <2>1, <2>2 DEF Current
  <1> QED
    BY <1>1, <1>2, <1>3, WireType, ReqOutType, EmptyTypes

(* One after the other.                                                    *)
LEMMA CurrentConcat ==
  ASSUME NEW lo, NEW hi, NEW s \in Seq(ElementsOut), NEW t \in Seq(ElementsOut),
         Current(s, lo, hi), Current(t, lo, hi)
  PROVE  s \o t \in Seq(ElementsOut) /\ Current(s \o t, lo, hi)
  <1> DEFINE u == s \o t
  <1>1. /\ Len(u) = Len(s) + Len(t) /\ Len(s) \in Nat /\ Len(t) \in Nat /\ u \in Seq(ElementsOut)
        /\ \A i \in 1..(Len(s) + Len(t)) : u[i] = IF i <= Len(s) THEN s[i] ELSE t[i - Len(s)]
    BY ConcatProperties, LenProperties
  <1> HIDE DEF u
  <1>2. ASSUME NEW i \in 1..Len(u), u[i].type = "a"
        PROVE  lo + Distance(lo, u[i].h) = hi
    <2>1. CASE i <= Len(s)
      <3>1. i \in 1..Len(s) /\ u[i] = s[i]
        BY <1>1, <2>1
      <3> QED
        BY <1>2, <3>1 DEF Current
    <2>2. CASE i > Len(s)
      <3>1. i - Len(s) \in 1..Len(t) /\ u[i] = t[i - Len(s)]
        BY <1>1, <2>2
      <3> QED
        BY <1>2, <3>1 DEF Current
    <2> QED
      BY <1>1, <2>1, <2>2
  <1> QED
    BY <1>1, <1>2 DEF Current, u

(* What ESend hands to the socket.                                         *)
LEMMA PutAnswers ==
  ASSUME TypeOK, NEW t \in Seq(ElementsOut), NEW lo \in Nat, NEW hi \in Nat,
         Answers(c2s, lo, hi), Current(t, lo, hi)
  PROVE  Put(t) \in Seq(ElementsOut) /\ Answers(Put(t), lo, hi)
  <1>1. c2s \in Seq(ElementsOut)
    BY DEF TypeOK
  <1>2. Answers(c2s \o t, lo, hi)
    BY <1>1, AnswersConcat DEF Current
  <1> QED
    BY <1>2, PutType DEF Put

(* Whatever the timer check puts behind items or cuts off.                 *)
LEMMA SettledAnswers ==
  ASSUME TypeOK, written' \in Nat,
         NEW items \in Seq(ElementsOut), NEW stale \in Seq(Nat),
         NEW w \in BOOLEAN, NEW d \in BOOLEAN, NEW p, NEW rest,
         SettleTimer(items, stale, w, d, p, rest),
         NEW lo \in Nat, NEW hi \in Nat, Answers(c2s, lo, hi), Current(items, lo, hi)
  PROVE  Answers(c2s', lo, hi)
  <1>1. CASE ~d
    <2>1. c2s' = Put(items)
      BY <1>1 DEF SettleTimer
    <2> QED
      BY <2>1, PutAnswers
  <1>2. CASE d /\ ~w
    <2> DEFINE r == <<ReqOut(written')>>
               more == (items \o Wire(stale)) \o r
    <2>1. c2s' = Put(more)
      BY <1>2 DEF SettleTimer
    <2>2. /\ Wire(stale) \in Seq(ElementsOut) /\ Current(Wire(stale), lo, hi)
          /\ r \in Seq(ElementsOut) /\ Current(r, lo, hi)
      BY CurrentPlain
    <2> HIDE DEF r
    <2>3. more \in Seq(ElementsOut) /\ Current(more, lo, hi)
      BY <2>2, CurrentConcat
    <2> HIDE DEF more
    <2> QED
      BY <2>1, <2>3, PutAnswers
  <1>3. CASE d /\ w
    <2>1. c2s' \in Prefixes(Put(items))
      BY <1>3 DEF SettleTimer, ConnTimeout
    <2>2. Put(items) \in Seq(ElementsOut) /\ Answers(Put(items), lo, hi)
      BY PutAnswers
    <2> QED
      BY <2>1, <2>2, AnswersPrefix
  <1> QED
    BY <1>1, <1>2, <1>3

(* The step goes on, or the connection is given up.                        *)
LEMMA SettledSession ==
  ASSUME NEW items, NEW stale, NEW w \in BOOLEAN, NEW d \in BOOLEAN, NEW p, NEW rest,
         SettleTimer(items, stale, w, d, p, rest)
  PROVE  \/ s2c' = rest /\ UNCHANGED <<state, step, sm, request, attached>>
         \/ /\ s2c' = <<>> /\ attached' = FALSE /\ request' = NoRequest
            /\ state' = IF resumable THEN "Connecting" ELSE "Idle"
  <1>1. CASE d /\ w
    BY <1>1 DEF SettleTimer, ConnTimeout, ResetStream
  <1>2. CASE ~(d /\ w)
    BY <1>2 DEF SettleTimer, streamVars
  <1> QED
    BY <1>1, <1>2

(* Types, and the bounds that make a count modulo W unique.                *)
LEMMA RFacts ==
  ASSUME IInv, RInv
  PROVE  /\ TypeOK /\ TypeInv /\ received \in Seq(Nat) /\ Len(received) \in Nat
         /\ srvSent \in Nat /\ srvAcked \in Nat /\ s2c \in Seq(ElementsIn) /\ c2s \in Seq(ElementsOut)
         /\ srvAcked <= Len(received) /\ Len(received) <= srvSent
         /\ Len(received) - srvAcked < W /\ received_count = Len(received) % W
         /\ Arrives(s2c, Len(received), srvSent) /\ Answers(c2s, srvAcked, Len(received))
         /\ waiting_answer \in BOOLEAN /\ due \in BOOLEAN
  <1>1. TypeOK /\ TypeInv
    BY DEF IInv, TypeInv
  <1>2. received \in Seq(Nat) /\ srvSent \in Nat /\ srvAcked \in Nat
    BY <1>1 DEF TypeOK
  <1>3. Len(received) \in Nat
    BY <1>2, LenProperties
  <1>4. srvAcked <= Len(received) /\ Len(received) <= srvSent /\ srvSent - srvAcked <= MaxQueue
    BY DEF RInv, HeldInv
  <1>5. MaxQueue \in Nat /\ MaxQueue < W /\ W \in Nat
    BY CounterAssumption
  <1>6. \A r \in Nat : srvAcked <= r /\ r <= srvSent => r - srvAcked < W
    BY <1>2, <1>4, <1>5
  <1> QED
    BY <1>1, <1>2, <1>3, <1>4, <1>6 DEF RInv, HeldInv, InboundInv, AnswerInv, TypeOK

(* What a step in Active must show: of what it has received, of what it    *)
(* leaves unread and of what it sends.                                     *)
LEMMA SettledReceived ==
  ASSUME IInv, IInv', RInv, state = "Active",
         NEW items \in Seq(ElementsOut), NEW stale \in Seq(Nat),
         NEW d \in BOOLEAN, NEW w \in BOOLEAN, NEW p, NEW rest,
         SettleTimer(items, stale, w, d, p, rest),
         UNCHANGED <<resumable, srvSent, srvAcked>>,
         NEW hi \in Nat, hi = Len(received'), srvAcked <= hi, hi <= srvSent,
         ReceivedExactlyOnce', received_count' = hi % W,
         Answers(c2s, srvAcked, hi), Current(items, srvAcked, hi),
         Arrives(rest, hi, srvSent), attached => Complete(rest, hi, srvSent)
  PROVE  RInv'
  <1>1. TypeOK /\ srvSent \in Nat /\ srvAcked \in Nat /\ srvSent - srvAcked <= MaxQueue
    BY RFacts DEF RInv, HeldInv
  <1>2. written' \in Nat
    BY DEF IInv, TypeInv, TypeOK
  <1>3. HeldInv'
    BY <1>1 DEF HeldInv
  <1>4. AnswerInv'
    <2>1. Answers(c2s', srvAcked, hi)
      BY <1>1, <1>2, SettledAnswers
    <2> QED
      BY <2>1 DEF AnswerInv
  <1>5. SessionInv' /\ InboundInv'
    <2>1. request.type = "none" /\ isActive
      BY ActiveFacts
    <2>2. CASE s2c' = rest /\ UNCHANGED <<state, step, sm, request, attached>>
      <3>1. SessionInv'
        BY <2>1, <2>2 DEF SessionInv
      <3>2. InSession' => attached
        BY <2>2 DEF InSession
      <3> QED
        BY <2>2, <3>1, <3>2 DEF InboundInv
    <2>3. CASE /\ s2c' = <<>> /\ attached' = FALSE /\ request' = NoRequest
               /\ state' = IF resumable THEN "Connecting" ELSE "Idle"
      <3>1. SessionInv'
        BY <2>3 DEF SessionInv, NoRequest
      <3>2. Arrives(s2c', hi, srvSent) /\ ~InSession'
        BY <1>1, <2>3, ArrivesEmpty DEF InSession
      <3> QED
        BY <3>1, <3>2 DEF InboundInv
    <2> QED
      BY <2>2, <2>3, SettledSession
  <1> QED
    BY <1>3, <1>4, <1>5 DEF RInv

-----------------------------------------------------------------------------
(* The steps.                                                              *)

(* What a step keeps that receives nothing, at either end.                 *)
LEMMA HeldStays ==
  ASSUME RInv, UNCHANGED <<inVars, srvSent, srvAcked>>
  PROVE  ReceivedExactlyOnce' /\ HeldInv'
  BY DEF RInv, ReceivedExactlyOnce, HeldInv, inVars

(* A session starts from nothing.                                          *)
LEMMA LoginReceives ==
  ASSUME Login
  PROVE  RInv'
  <1>1. /\ received' = <<>> /\ received_count' = 0 /\ srvSent' = 0 /\ srvAcked' = 0
        /\ s2c' = <<>> /\ c2s' = <<>> /\ attached' = FALSE /\ request' = NoRequest
    BY DEF Login
  <1>2. Len(<<>>) = 0 /\ 1..0 = {} /\ 0 % W = 0 /\ 0 \in Nat /\ 0 - 0 <= MaxQueue
    BY EmptySeq, CounterAssumption
  <1>3. ReceivedExactlyOnce' /\ HeldInv'
    BY <1>1, <1>2 DEF ReceivedExactlyOnce, HeldInv
  <1>4. SessionInv'
    BY <1>1 DEF SessionInv, NoRequest
  <1>5. InboundInv' /\ AnswerInv'
    <2>1. Arrives(<<>>, 0, 0) /\ Answers(<<>>, 0, 0)
      BY <1>2, ArrivesEmpty, AnswersEmpty
    <2>2. ~InSession'
      BY <1>1 DEF InSession
    <2> QED
      BY <1>1, <1>2, <2>1, <2>2 DEF InboundInv, AnswerInv
  <1> QED
    BY <1>3, <1>4, <1>5 DEF RInv

(* loginComplete asks for what follows the stanzas received.               *)
LEMMA LoginCompleteReceives ==
  ASSUME IInv, RInv, LoginComplete
  PROVE  RInv'
  <1>1. /\ state = "Connecting" /\ step = "Login" /\ step' = "GetSMResponse"
        /\ request' = IF resumable THEN [type |-> "resume", h |-> received_count]
                                   ELSE [type |-> "enable", h |-> 0]
        /\ UNCHANGED <<state, smVars, inVars, serverVars, attached, c2s, s2c>>
    BY DEF LoginComplete
  <1> USE DEF smVars, serverVars, inVars
  <1>2. ReceivedExactlyOnce' /\ HeldInv'
    BY <1>1, HeldStays
  <1>3. SessionInv'
    BY <1>1 DEF RInv, SessionInv
  <1>4. InboundInv' /\ AnswerInv'
    <2>1. InSession' => InSession
      BY <1>1 DEF InSession, isActive
    <2> QED
      BY <1>1, <2>1 DEF RInv, InboundInv, AnswerInv
  <1> QED
    BY <1>2, <1>3, <1>4 DEF RInv

(* With the head of s2c taken, the session at the server's end is the one  *)
(* that was there.                                                         *)
LEMMA TakenSession ==
  ASSUME s2c \in Seq(ElementsIn), s2c # <<>>, s2c' = Tail(s2c), attached' = attached,
         isActive' => isActive \/ Head(s2c).type \in {"enabled", "resumed"}
  PROVE  InSession' => InSession
  <1>1. /\ Len(s2c) \in Nat /\ Len(s2c) >= 1 /\ Head(s2c) = s2c[1]
        /\ \A i \in 1..Len(Tail(s2c)) : i + 1 \in 1..Len(s2c) /\ Tail(s2c)[i] = s2c[i + 1]
    BY TailElements
  <1>2. ASSUME NEW i \in 1..Len(s2c'), s2c'[i].type \in {"enabled", "resumed"}
        PROVE  \E j \in 1..Len(s2c) : s2c[j].type \in {"enabled", "resumed"}
    <2>1. i + 1 \in 1..Len(s2c) /\ s2c'[i] = s2c[i + 1]
      BY <1>1
    <2> QED
      BY <1>2, <2>1
  <1>3. ASSUME Head(s2c).type \in {"enabled", "resumed"}
        PROVE  \E j \in 1..Len(s2c) : s2c[j].type \in {"enabled", "resumed"}
    <2>1. 1 \in 1..Len(s2c)
      BY <1>1
    <2> QED
      BY <1>1, <1>3, <2>1
  <1> QED
    BY <1>2, <1>3 DEF InSession

(* A step that takes an element other than a stanza.                       *)
LEMMA TakenReceives ==
  ASSUME IInv, RInv, s2c # <<>>, Head(s2c).type # "stanza", s2c' = Tail(s2c),
         UNCHANGED <<inVars, serverVars, attached>>,
         isActive' => isActive \/ Head(s2c).type \in {"enabled", "resumed"}
  PROVE  ReceivedExactlyOnce' /\ HeldInv' /\ InboundInv'
  <1> USE DEF inVars, serverVars
  <1>1. /\ s2c \in Seq(ElementsIn) /\ Len(received) \in Nat /\ srvSent \in Nat
        /\ Arrives(s2c, Len(received), srvSent)
    BY RFacts
  <1>2. /\ Arrives(Tail(s2c), Len(received), srvSent)
        /\ Complete(s2c, Len(received), srvSent) => Complete(Tail(s2c), Len(received), srvSent)
    BY <1>1, ArrivesTail
  <1>3. InSession' => InSession
    BY <1>1, TakenSession
  <1>4. InSession => Complete(s2c, Len(received), srvSent)
    BY DEF RInv, InboundInv
  <1>5. InboundInv'
    BY <1>2, <1>3, <1>4 DEF InboundInv
  <1> QED
    BY <1>5, HeldStays

(* <enabled/>, read alone: what the session's counter is set to is what    *)
(* has been received.                                                      *)
LEMMA RecvEnabledReceives ==
  ASSUME ~Coalesced, IInv, IInv', RInv, RecvEnabled
  PROVE  RInv'
  <1>1. /\ state = "Connecting" /\ s2c # <<>> /\ Head(s2c).type = "enabled"
        /\ state' = "Active" /\ sm' = "started" /\ received_count' = 0
        /\ UNCHANGED <<received, serverVars, linkVars>>
        /\ c2s' = Put((IF AsksAtLength(1) THEN <<ReqOut(0)>> ELSE <<>>) \o <<StanzaOut(1)>>)
    BY DEF RecvEnabled
  <1>2. s2c' = SubSeq(s2c, 2, Len(s2c))
    BY DEF RecvEnabled
  <1> USE DEF serverVars, linkVars
  <1>3. s2c \in Seq(ElementsIn) /\ srvAcked \in Nat /\ TypeOK /\ Answers(c2s, srvAcked, Len(received))
    BY RFacts
  <1>4. s2c' = Tail(s2c)
    BY <1>1, <1>2, <1>3, TailIsSubSeq
  <1>5. received = <<>>
    <2>1. Len(s2c) \in Nat /\ Len(s2c) >= 1 /\ Head(s2c) = s2c[1]
      BY <1>1, <1>3, TailElements
    <2>2. 1 \in 1..Len(s2c) /\ s2c[1].type = "enabled"
      BY <1>1, <2>1
    <2>3. ~resumable
      BY <1>1, <2>2 DEF IInv, LoginInv
    <2> QED
      BY <1>1, <2>3 DEF RInv, SessionInv
  <1>6. received_count = 0
    <2>1. Len(<<>>) = 0 /\ 0 % W = 0
      BY EmptySeq, CounterAssumption
    <2> QED
      BY <1>5, <2>1 DEF RInv, HeldInv
  <1>7. ReceivedExactlyOnce' /\ HeldInv' /\ InboundInv'
    BY <1>1, <1>4, <1>6, TakenReceives DEF inVars
  <1>8. request.type = "none"
    <2>1. isActive'
      BY <1>1 DEF isActive
    <2>2. request'.type = "none"
      BY <1>1 DEF IInv, PhaseInv
    <2> QED
      BY <1>1, <2>2
  <1>9. SessionInv'
    BY <1>1, <1>8 DEF SessionInv
  <1>10. AnswerInv'
    <2> DEFINE asks == IF AsksAtLength(1) THEN <<ReqOut(0)>> ELSE <<>>
               roster == <<StanzaOut(1)>>
    <2>1. Len(received) \in Nat
      BY RFacts
    <2>2. /\ asks \in Seq(ElementsOut) /\ Current(asks, srvAcked, Len(received))
          /\ roster \in Seq(ElementsOut) /\ Current(roster, srvAcked, Len(received))
      BY CurrentPlain, EmptyTypes
    <2> HIDE DEF asks, roster
    <2>3. asks \o roster \in Seq(ElementsOut) /\ Current(asks \o roster, srvAcked, Len(received))
      BY <2>2, CurrentConcat
    <2>4. Answers(Put(asks \o roster), srvAcked, Len(received))
      BY <1>3, <2>1, <2>3, PutAnswers
    <2> QED
      BY <1>1, <2>4 DEF AnswerInv, asks, roster
  <1> QED
    BY <1>7, <1>9, <1>10 DEF RInv

(* <resumed/>, <failed/> to <enable/>, and an <a/>: nothing is sent.       *)
LEMMA QuietReceives ==
  ASSUME IInv, RInv, RecvResumed \/ RecvEnableFailed \/ RecvAck
  PROVE  RInv'
  <1> USE DEF inVars, serverVars, linkVars, smVars, streamVars
  <1>1. /\ s2c # <<>> /\ Head(s2c).type \in {"resumed", "failed", "a"} /\ s2c' = Tail(s2c)
        /\ UNCHANGED <<inVars, serverVars, linkVars, c2s, resumable>>
    BY DEF RecvResumed, RecvEnableFailed, RecvAck
  <1>2. isActive' => isActive \/ Head(s2c).type \in {"enabled", "resumed"}
    BY DEF RecvResumed, RecvEnableFailed, RecvAck, isActive
  <1>3. ReceivedExactlyOnce' /\ HeldInv' /\ InboundInv'
    BY <1>1, <1>2, TakenReceives
  <1>4. SessionInv'
    <2>1. state' = "Active" \/ UNCHANGED <<state, step>>
      BY DEF RecvResumed, RecvEnableFailed, RecvAck
    <2> QED
      BY <1>1, <2>1 DEF RInv, SessionInv
  <1>5. AnswerInv'
    BY <1>1 DEF RInv, AnswerInv
  <1> QED
    BY <1>3, <1>4, <1>5 DEF RInv

(* The end of a stream, whether or not the session can be resumed.         *)
LEMMA ResetReceives ==
  ASSUME IInv, RInv, RecvResumeFailed \/ ConnectionClosed
  PROVE  RInv'
  <1>1. /\ ResetStream /\ state' = "Idle" /\ c2s' \in Prefixes(c2s)
        /\ UNCHANGED <<inVars, serverVars>>
    BY DEF RecvResumeFailed, ConnectionClosed
  <1>2. s2c' = <<>> /\ attached' = FALSE /\ request' = NoRequest
    BY <1>1 DEF ResetStream
  <1> USE DEF inVars, serverVars
  <1>3. ReceivedExactlyOnce' /\ HeldInv'
    BY <1>1, HeldStays
  <1>4. SessionInv'
    BY <1>1, <1>2 DEF SessionInv, NoRequest
  <1>5. InboundInv'
    <2>1. Arrives(<<>>, Len(received), srvSent)
      BY RFacts, ArrivesEmpty
    <2> QED
      BY <1>1, <1>2, <2>1 DEF InboundInv, InSession
  <1>6. AnswerInv'
    <2>1. Answers(c2s', srvAcked, Len(received))
      BY <1>1, RFacts, AnswersPrefix
    <2> QED
      BY <1>1, <2>1 DEF AnswerInv
  <1> QED
    BY <1>3, <1>4, <1>5, <1>6 DEF RInv

(* In Active, all that the server has sent is on a link that works.        *)
LEMMA ActiveReceives ==
  ASSUME IInv, RInv, state = "Active"
  PROVE  attached => Complete(s2c, Len(received), srvSent)
  <1>1. isActive
    BY ActiveFacts
  <1>2. attached => InSession
    BY <1>1 DEF InSession
  <1> QED
    BY <1>2 DEF RInv, InboundInv

(* A step that only sends stanzas and requests.                            *)
LEMMA SendReceives ==
  ASSUME IInv, IInv', RInv, state = "Active",
         NEW items \in Seq(ElementsOut), Current(items, srvAcked, Len(received)),
         NEW stale \in Seq(Nat), NEW w \in BOOLEAN, NEW d \in BOOLEAN, NEW p,
         SettleTimer(items, stale, w, d, p, s2c),
         UNCHANGED <<resumable, inVars, serverVars>>
  PROVE  RInv'
  <1> USE DEF inVars, serverVars
  <1>1. ReceivedExactlyOnce'
    BY HeldStays DEF inVars, serverVars
  <1>2. attached => Complete(s2c, Len(received), srvSent)
    BY ActiveReceives
  <1>3. /\ Len(received) \in Nat /\ srvAcked <= Len(received) /\ Len(received) <= srvSent
        /\ received_count = Len(received) % W
        /\ Arrives(s2c, Len(received), srvSent) /\ Answers(c2s, srvAcked, Len(received))
    BY RFacts
  <1> QED
    BY <1>1, <1>2, <1>3, SettledReceived

(* Write, a bytesWritten and the keep-alive.                               *)
LEMMA WriteReceives ==
  ASSUME IInv, IInv', RInv, Write
  PROVE  RInv'
  <1> DEFINE asks  == AsksAtLength(Len(send_queue) + 1) /\ ~waiting_answer
             first == Wire(outData)
             ask   == IF asks THEN <<ReqOut(written)>> ELSE <<>>
             last  == <<StanzaOut(written')>>
             w     == waiting_answer \/ asks
             d     == due /\ ~asks
  <1>1. /\ state = "Active"
        /\ SettleTimer((first \o ask) \o last, <<>>, w, d, TRUE, s2c)
        /\ UNCHANGED <<resumable, inVars, serverVars>>
    BY DEF Write
  <1>2. outData \in Seq(Nat) /\ written \in Nat /\ written' \in Nat
    BY DEF IInv, TypeInv, TypeOK
  <1>3. /\ first \in Seq(ElementsOut) /\ Current(first, srvAcked, Len(received))
        /\ ask \in Seq(ElementsOut) /\ Current(ask, srvAcked, Len(received))
        /\ last \in Seq(ElementsOut) /\ Current(last, srvAcked, Len(received))
    BY <1>2, CurrentPlain
  <1>4. w \in BOOLEAN /\ d \in BOOLEAN
    BY RFacts
  <1> HIDE DEF first, ask, last, w, d
  <1>5. first \o ask \in Seq(ElementsOut) /\ Current(first \o ask, srvAcked, Len(received))
    BY <1>3, CurrentConcat
  <1>6. /\ (first \o ask) \o last \in Seq(ElementsOut)
        /\ Current((first \o ask) \o last, srvAcked, Len(received))
    BY <1>3, <1>5, CurrentConcat
  <1> QED
    BY <1>1, <1>4, <1>6, EmptyTypes, SendReceives

LEMMA TimerReceives ==
  ASSUME IInv, IInv', RInv, BytesWritten \/ Noop
  PROVE  RInv'
  <1>1. outData \in Seq(Nat) /\ <<>> \in Seq(Nat) /\ waiting_answer \in BOOLEAN /\ due \in BOOLEAN
    BY EmptyTypes DEF IInv, TypeInv, TypeOK
  <1>2. /\ Current(<<>>, srvAcked, Len(received)) /\ <<>> \in Seq(ElementsOut)
        /\ Current(Wire(outData), srvAcked, Len(received)) /\ Wire(outData) \in Seq(ElementsOut)
    BY <1>1, CurrentPlain
  <1>3. CASE BytesWritten
    <2>1. /\ state = "Active" /\ UNCHANGED <<resumable, inVars, serverVars>>
          /\ SettleTimer(<<>>, outData, waiting_answer, due, FALSE, s2c)
      BY <1>3 DEF BytesWritten
    <2> QED
      BY <1>1, <1>2, <2>1, SendReceives
  <1>4. CASE Noop
    <2>1. /\ state = "Active" /\ UNCHANGED <<resumable, inVars, serverVars>>
          /\ SettleTimer(Wire(outData), <<>>, waiting_answer, due, pendingWrite, s2c)
      BY <1>4 DEF Noop
    <2> QED
      BY <1>1, <1>2, <2>1, SendReceives
  <1> QED
    BY <1>3, <1>4

(* A stanza that is read is the next one.                                  *)
LEMMA RecvStanzaReceives ==
  ASSUME IInv, IInv', RInv, RecvStanza
  PROVE  RInv'
  <1> DEFINE d  == due /\ ~waiting_answer
             lo == Len(received)
  <1>1. /\ state = "Active" /\ s2c # <<>> /\ Head(s2c).type = "stanza"
        /\ received_count' = (received_count + 1) % W
        /\ received' = Append(received, Head(s2c).n)
        /\ UNCHANGED <<resumable, srvSent, srvAcked>>
        /\ SettleTimer(<<>>, outData, waiting_answer, d, pendingWrite, Tail(s2c))
    BY DEF RecvStanza, serverVars
  <1>2. /\ received \in Seq(Nat) /\ lo \in Nat /\ srvSent \in Nat /\ srvAcked \in Nat
        /\ s2c \in Seq(ElementsIn) /\ c2s \in Seq(ElementsOut) /\ srvAcked <= lo
        /\ received_count = lo % W
        /\ Arrives(s2c, lo, srvSent) /\ Answers(c2s, srvAcked, lo)
        /\ waiting_answer \in BOOLEAN /\ d \in BOOLEAN
    BY RFacts
  <1>3. outData \in Seq(Nat)
    BY DEF IInv, TypeInv, TypeOK
  <1>4. \A i \in 1..lo : received[i] = i
    BY DEF RInv, ReceivedExactlyOnce
  <1>5. attached => Complete(s2c, lo, srvSent)
    BY <1>1, ActiveReceives
  <1> HIDE DEF d, lo
  <1>6. /\ Head(s2c).n = lo + 1 /\ lo + 1 <= srvSent /\ Arrives(Tail(s2c), lo + 1, srvSent)
        /\ Complete(s2c, lo, srvSent) => Complete(Tail(s2c), lo + 1, srvSent)
    BY <1>1, <1>2, ArrivesNext
  <1>7. /\ Len(received') = lo + 1 /\ received'[lo + 1] = lo + 1
        /\ \A i \in 1..lo : received'[i] = received[i]
    <2>1. received' = Append(received, lo + 1) /\ lo + 1 \in Nat
      BY <1>1, <1>2, <1>6
    <2> QED
      BY <1>2, <2>1, AppendProperties DEF lo
  <1>8. ReceivedExactlyOnce'
    <2>1. \A i \in 1..(lo + 1) : i \in 1..lo \/ i = lo + 1
      BY <1>2
    <2> QED
      BY <1>4, <1>7, <2>1 DEF ReceivedExactlyOnce
  <1>9. received_count' = (lo + 1) % W
    BY <1>1, <1>2, ModAdd
  <1>10. Answers(c2s, srvAcked, lo + 1)
    BY <1>2, AnswersWiden
  <1>11. Current(<<>>, srvAcked, lo + 1) /\ <<>> \in Seq(ElementsOut)
    BY <1>3, CurrentPlain
  <1>12. lo + 1 \in Nat /\ srvAcked <= lo + 1
    BY <1>2
  <1>13. Arrives(Tail(s2c), lo + 1, srvSent) /\ (attached => Complete(Tail(s2c), lo + 1, srvSent))
    BY <1>5, <1>6
  <1>14. lo + 1 = Len(received') /\ lo + 1 <= srvSent
    BY <1>6, <1>7
  <1> QED
    <2> DEFINE hi == lo + 1
    <2>1. /\ hi \in Nat /\ hi = Len(received') /\ srvAcked <= hi /\ hi <= srvSent
          /\ received_count' = hi % W /\ Answers(c2s, srvAcked, hi) /\ Current(<<>>, srvAcked, hi)
          /\ Arrives(Tail(s2c), hi, srvSent) /\ (attached => Complete(Tail(s2c), hi, srvSent))
      BY <1>9, <1>10, <1>11, <1>12, <1>13, <1>14
    <2> HIDE DEF hi
    <2> QED
      BY <1>1, <1>2, <1>3, <1>8, <1>11, <2>1, SettledReceived

(* The answer to an <r/> counts everything received.                       *)
LEMMA RecvRequestReceives ==
  ASSUME IInv, IInv', RInv, RecvRequest
  PROVE  RInv'
  <1> DEFINE d      == due /\ ~waiting_answer
             lo     == Len(received)
             answer == <<AnsOut(Wired, received_count)>>
             items  == answer \o Wire(outData)
  <1>1. /\ state = "Active" /\ s2c # <<>> /\ Head(s2c).type = "r"
        /\ UNCHANGED <<resumable, inVars, serverVars>>
        /\ SettleTimer(items, <<>>, waiting_answer, d, pendingWrite, Tail(s2c))
    BY DEF RecvRequest
  <1> USE DEF inVars, serverVars
  <1>2. /\ received \in Seq(Nat) /\ lo \in Nat /\ srvSent \in Nat /\ srvAcked \in Nat
        /\ s2c \in Seq(ElementsIn) /\ srvAcked <= lo /\ lo <= srvSent
        /\ lo - srvAcked < W /\ received_count = lo % W
        /\ Arrives(s2c, lo, srvSent) /\ Answers(c2s, srvAcked, lo)
        /\ waiting_answer \in BOOLEAN /\ d \in BOOLEAN
    BY RFacts
  <1>3. /\ Wired \in Nat /\ outData \in Seq(Nat) /\ received_count \in Nat
    BY BufferFacts, CounterAssumption DEF IInv, TypeInv, TypeOK
  <1>4. attached => Complete(s2c, lo, srvSent)
    BY <1>1, ActiveReceives
  <1>5. ReceivedExactlyOnce'
    BY <1>1, HeldStays
  <1>6. lo' = lo
    BY <1>1
  <1> HIDE DEF d, lo
  <1>7. /\ Arrives(Tail(s2c), lo, srvSent)
        /\ Complete(s2c, lo, srvSent) => Complete(Tail(s2c), lo, srvSent)
    BY <1>1, <1>2, ArrivesTail
  <1>8. answer \in Seq(ElementsOut) /\ Current(answer, srvAcked, lo)
    <2> DEFINE a == AnsOut(Wired, received_count)
    <2>1. a \in ElementsOut /\ a.h = received_count
      BY <1>3 DEF AnsOut, ElementsOut
    <2>2. Distance(srvAcked, received_count) = lo - srvAcked
      BY <1>2, DistanceAhead
    <2>3. srvAcked + Distance(srvAcked, a.h) = lo
      BY <1>2, <2>1, <2>2
    <2> HIDE DEF a
    <2>4. <<a>> \in Seq(ElementsOut) /\ Len(<<a>>) = 1 /\ <<a>>[1] = a
      BY <2>1
    <2>5. \A i \in 1..1 : i = 1
      OBVIOUS
    <2>6. Current(<<a>>, srvAcked, lo)
      BY <2>3, <2>4, <2>5 DEF Current
    <2> QED
      BY <2>4, <2>6 DEF a
  <1>9. Wire(outData) \in Seq(ElementsOut) /\ Current(Wire(outData), srvAcked, lo)
    BY <1>3, CurrentPlain
  <1> HIDE DEF answer
  <1>10. items \in Seq(ElementsOut) /\ Current(items, srvAcked, lo)
    BY <1>8, <1>9, CurrentConcat
  <1>11. received_count' = lo % W /\ lo = Len(received')
    BY <1>1, <1>2, <1>6 DEF lo
  <1> HIDE DEF items
  <1> QED
    BY <1>1, <1>2, <1>4, <1>5, <1>7, <1>10, <1>11, EmptyTypes, SettledReceived

(* The passing of an interval, and the death of the link.                  *)
LEMMA TickReceives ==
  ASSUME RInv, Tick
  PROVE  RInv'
  <1> USE DEF streamVars, smVars, inVars, serverVars
  <1>1. UNCHANGED <<streamVars, smVars, inVars, serverVars, request, attached, c2s, s2c>>
    BY DEF Tick
  <1>2. InSession' = InSession
    BY <1>1 DEF InSession, isActive
  <1>3. ReceivedExactlyOnce' /\ HeldInv'
    BY <1>1, HeldStays
  <1> QED
    BY <1>1, <1>2, <1>3 DEF RInv, SessionInv, InboundInv, AnswerInv

LEMMA LinkDiesReceives ==
  ASSUME IInv, RInv, LinkDies
  PROVE  RInv'
  <1> USE DEF streamVars, smVars, inVars, serverVars
  <1>1. /\ attached' = FALSE /\ c2s' \in Prefixes(c2s) /\ s2c' \in Prefixes(s2c)
        /\ UNCHANGED <<streamVars, smVars, inVars, serverVars, request>>
    BY DEF LinkDies
  <1>2. ReceivedExactlyOnce' /\ HeldInv'
    BY <1>1, HeldStays
  <1>3. SessionInv'
    BY <1>1 DEF RInv, SessionInv
  <1>4. Arrives(s2c', Len(received), srvSent) /\ Answers(c2s', srvAcked, Len(received))
    BY <1>1, RFacts, ArrivesPrefix, AnswersPrefix
  <1> QED
    BY <1>1, <1>2, <1>3, <1>4 DEF RInv, InboundInv, AnswerInv, InSession

(* The server's first element on a new connection.                         *)
LEMMA ArrivesFirst ==
  ASSUME NEW lo \in Nat, NEW hi \in Nat, NEW e \in ElementsIn, e.type # "stanza"
  PROVE  /\ Arrives(<<e>>, lo, hi) /\ (hi <= lo => Complete(<<e>>, lo, hi))
         /\ Len(<<e>>) = 1 /\ <<e>>[1] = e
  <1>1. Arrives(<<>>, lo, hi) /\ (hi <= lo => Complete(<<>>, lo, hi))
    BY ArrivesEmpty
  <1>2. Append(<<>>, e) = <<e>> /\ <<>> \in Seq(ElementsIn)
    BY EmptyTypes
  <1>3. /\ Arrives(Append(<<>>, e), lo, hi)
        /\ Complete(<<>>, lo, hi) => Complete(Append(<<>>, e), lo, hi)
    BY <1>1, <1>2, ArrivesBefore
  <1> QED
    BY <1>1, <1>2, <1>3

(* A login under way, at the end of the server that answers it.            *)
LEMMA RequestFacts ==
  ASSUME IInv, request.type # "none"
  PROVE  state = "Connecting" /\ step # "Login" /\ ~isActive /\ ~attached
  BY DEF IInv, PhaseInv, NoRequest

(* A session that the server opens has sent nothing.                       *)
LEMMA ServerEnableReceives ==
  ASSUME IInv, RInv, ServerEnable
  PROVE  RInv'
  <1> USE DEF streamVars, smVars, inVars, serverVars
  <1>1. /\ request.type = "enable" /\ request' = NoRequest /\ attached' = TRUE /\ c2s' = <<>>
        /\ UNCHANGED <<streamVars, smVars, inVars, serverVars>>
    BY DEF ServerEnable
  <1>2. state = "Connecting" /\ step # "Login" /\ ~isActive
    BY <1>1, RequestFacts
  <1>3. ~resumable
    BY <1>1, <1>2 DEF IInv, LoginInv
  <1>4. received = <<>> /\ srvSent = 0
    BY <1>1, <1>2, <1>3 DEF RInv, SessionInv
  <1>5. ReceivedExactlyOnce' /\ HeldInv'
    BY <1>1, HeldStays
  <1>6. SessionInv'
    BY <1>1, <1>2, <1>4 DEF SessionInv, NoRequest
  <1>7. PICK answer \in {Enabled(TRUE), Enabled(FALSE), Failed} : s2c' = <<answer>>
    BY DEF ServerEnable
  <1>8. answer \in ElementsIn /\ answer.type # "stanza"
    BY <1>7 DEF Enabled, Failed, ElementsIn
  <1>9. Len(received) = 0
    BY <1>4, EmptySeq
  <1>10. Arrives(<<answer>>, 0, 0) /\ Complete(<<answer>>, 0, 0)
    BY <1>8, ArrivesFirst
  <1>11. Arrives(s2c', Len(received'), srvSent') /\ Complete(s2c', Len(received'), srvSent')
    BY <1>1, <1>4, <1>7, <1>9, <1>10
  <1>12. AnswerInv'
    BY <1>1, AnswersEmpty DEF AnswerInv
  <1> QED
    BY <1>5, <1>6, <1>11, <1>12 DEF RInv, InboundInv

(* A session that it refuses to resume sends nothing more.                 *)
LEMMA ServerRefuseReceives ==
  ASSUME IInv, RInv, ServerRefuse
  PROVE  RInv'
  <1> USE DEF streamVars, smVars, inVars, serverVars
  <1>1. /\ request.type = "resume" /\ request' = NoRequest /\ c2s' = <<>> /\ s2c' = <<Failed>>
        /\ UNCHANGED <<streamVars, smVars, inVars, serverVars>>
    BY DEF ServerRefuse
  <1>2. ~isActive
    BY <1>1, RequestFacts
  <1>3. ReceivedExactlyOnce' /\ HeldInv'
    BY <1>1, HeldStays
  <1>4. SessionInv'
    BY <1>1 DEF RInv, SessionInv, NoRequest
  <1>5. Failed \in ElementsIn /\ Failed.type = "failed"
    BY DEF Failed, ElementsIn
  <1>6. /\ Arrives(<<Failed>>, Len(received), srvSent) /\ Len(<<Failed>>) = 1
        /\ <<Failed>>[1] = Failed
    BY <1>5, RFacts, ArrivesFirst
  <1>7. ~InSession'
    <2>1. ASSUME NEW i \in 1..Len(s2c') PROVE s2c'[i].type = "failed"
      <3>1. i = 1
        BY <1>1, <1>6
      <3> QED
        BY <1>1, <1>5, <1>6, <3>1
    <2>2. ~isActive'
      BY <1>1, <1>2 DEF isActive
    <2> QED
      BY <2>1, <2>2 DEF InSession
  <1>8. AnswerInv'
    BY <1>1, AnswersEmpty DEF AnswerInv
  <1> QED
    BY <1>1, <1>3, <1>4, <1>6, <1>7, <1>8 DEF RInv, InboundInv

(* The h of <resume/> tells the server what the client has received, and   *)
(* it repeats what comes after that.                                       *)
LEMMA ServerResumeReceives ==
  ASSUME IInv, RInv, ServerResume
  PROVE  RInv'
  <1> USE DEF streamVars, smVars, inVars
  <1> DEFINE acked == srvAcked + Dequeued(srvAcked, request.h, srvSent - srvAcked)
             lo    == Len(received)
             first == Resumed(Len(handled))
  <1>1. /\ request.type = "resume" /\ request' = NoRequest /\ c2s' = <<>>
        /\ srvAcked' = acked /\ UNCHANGED <<streamVars, smVars, inVars, srvSent>>
        /\ s2c' = <<first>> \o [i \in 1..(srvSent - acked) |-> StanzaIn(acked + i)]
    BY DEF ServerResume
  <1>2. /\ lo \in Nat /\ srvSent \in Nat /\ srvAcked \in Nat /\ srvAcked <= lo /\ lo <= srvSent
        /\ lo - srvAcked < W /\ received_count = lo % W
    BY RFacts
  <1>3. request.h = received_count /\ resumable
    BY <1>1 DEF RInv, SessionInv
  <1>4. lo' = lo
    BY <1>1
  <1>5. srvSent - srvAcked <= MaxQueue /\ MaxQueue \in Nat
    BY CounterAssumption DEF RInv, HeldInv
  <1>6. first \in ElementsIn /\ first.type # "stanza"
    <2>1. Len(handled) \in Nat
      BY QueueFacts
    <2> QED
      BY <2>1 DEF Resumed, ElementsIn
  <1> HIDE DEF lo, first
  <1>7. acked = lo
    <2>1. Distance(srvAcked, request.h) = lo - srvAcked
      BY <1>2, <1>3, DistanceAhead
    <2>2. lo - srvAcked <= srvSent - srvAcked
      BY <1>2
    <2>3. Dequeued(srvAcked, request.h, srvSent - srvAcked) = lo - srvAcked
      BY <2>1, <2>2 DEF Dequeued
    <2> QED
      BY <1>2, <2>3
  <1> HIDE DEF acked
  <1>8. ReceivedExactlyOnce'
    BY <1>1 DEF RInv, ReceivedExactlyOnce
  <1>9. HeldInv'
    <2>1. srvSent - lo <= MaxQueue
      BY <1>2, <1>5
    <2>2. Len(received') = lo /\ srvAcked' = lo /\ received_count' = lo % W /\ srvSent' = srvSent
      BY <1>1, <1>2, <1>4, <1>7 DEF lo
    <2>3. lo <= lo
      BY <1>2
    <2> QED
      BY <1>2, <2>1, <2>2, <2>3 DEF HeldInv
  <1>10. SessionInv'
    BY <1>1, <1>3 DEF RInv, SessionInv, NoRequest
  <1>11. Arrives(s2c', lo, srvSent) /\ Complete(s2c', lo, srvSent)
    BY <1>1, <1>2, <1>6, <1>7, ArrivesAgain
  <1>12. InboundInv'
    BY <1>1, <1>4, <1>11 DEF InboundInv, lo
  <1>13. AnswerInv'
    BY <1>1, AnswersEmpty DEF AnswerInv
  <1> QED
    BY <1>8, <1>9, <1>10, <1>12, <1>13 DEF RInv

(* An element put behind the others opens no session.                      *)
LEMMA AddedSession ==
  ASSUME s2c \in Seq(ElementsIn), NEW e \in ElementsIn, e.type \notin {"enabled", "resumed"},
         s2c' = Append(s2c, e), UNCHANGED <<sm, attached>>
  PROVE  InSession' => InSession
  <1>1. /\ Len(s2c) \in Nat /\ Len(s2c') = Len(s2c) + 1 /\ s2c'[Len(s2c) + 1] = e
        /\ \A i \in 1..Len(s2c) : s2c'[i] = s2c[i]
    BY AppendProperties, LenProperties
  <1>2. ASSUME NEW i \in 1..Len(s2c'), s2c'[i].type \in {"enabled", "resumed"}
        PROVE  i \in 1..Len(s2c) /\ s2c[i].type \in {"enabled", "resumed"}
    <2>1. i # Len(s2c) + 1
      BY <1>1, <1>2
    <2>2. i \in 1..Len(s2c)
      BY <1>1, <2>1
    <2> QED
      BY <1>1, <1>2, <2>2
  <1> QED
    BY <1>2 DEF InSession, isActive

(* The server takes an element: a count moves it up to what the client has *)
(* received at most.                                                       *)
LEMMA ServerRecvReceives ==
  ASSUME IInv, RInv, ServerRecv
  PROVE  RInv'
  <1> USE DEF streamVars, smVars, inVars, linkVars
  <1> DEFINE e  == Head(c2s)
             lo == Len(received)
  <1>1. /\ c2s # <<>> /\ c2s' = Tail(c2s)
        /\ s2c' = IF e.type = "r" /\ attached THEN Append(s2c, AnsIn(Len(handled))) ELSE s2c
        /\ srvAcked' = IF e.type = "a" THEN srvAcked + Dequeued(srvAcked, e.h, srvSent - srvAcked)
                                       ELSE srvAcked
        /\ UNCHANGED <<streamVars, smVars, inVars, srvSent, linkVars>>
    BY DEF ServerRecv
  <1>2. /\ lo \in Nat /\ srvSent \in Nat /\ srvAcked \in Nat /\ srvAcked <= lo /\ lo <= srvSent
        /\ received_count = lo % W /\ s2c \in Seq(ElementsIn) /\ c2s \in Seq(ElementsOut)
        /\ Arrives(s2c, lo, srvSent) /\ Answers(c2s, srvAcked, lo)
    BY RFacts
  <1>3. srvSent - srvAcked <= MaxQueue /\ MaxQueue \in Nat
    BY CounterAssumption DEF RInv, HeldInv
  <1>4. lo' = lo
    BY <1>1
  <1>5. /\ e.h \in Nat /\ Distance(srvAcked, e.h) \in Nat
        /\ e.type = "a" => srvAcked + Distance(srvAcked, e.h) <= lo
    <2>1. e \in ElementsOut /\ Len(c2s) >= 1 /\ Len(c2s) \in Nat
      BY <1>1, <1>2, HeadTailProperties, EmptySeq, LenProperties
    <2>2. 1 \in 1..Len(c2s) /\ e = c2s[1]
      BY <1>1, <1>2, <2>1
    <2>3. e.h \in Nat
      BY <2>1 DEF ElementsOut
    <2>4. e.type = "a" => srvAcked + Distance(srvAcked, e.h) <= lo
      BY <1>2, <2>2 DEF Answers
    <2> QED
      BY <1>2, <2>3, <2>4, DistanceType
  <1> HIDE DEF e, lo
  <1>6. e.type = "a" => srvAcked' = srvAcked + Distance(srvAcked, e.h)
    <2>1. \A x \in Nat : srvAcked + x <= lo => x <= srvSent - srvAcked
      BY <1>2
    <2>2. e.type = "a" => Dequeued(srvAcked, e.h, srvSent - srvAcked) = Distance(srvAcked, e.h)
      BY <1>5, <2>1 DEF Dequeued
    <2> QED
      BY <1>1, <2>2
  <1>7. srvAcked' \in Nat /\ srvAcked <= srvAcked'
    BY <1>1, <1>2, <1>5, <1>6
  <1>8. Answers(c2s', srvAcked', lo) /\ srvAcked' <= lo
    <2>1. Answers(Tail(c2s), srvAcked', lo) /\ (e.type = "a" => srvAcked' <= lo)
      BY <1>1, <1>2, <1>6, <1>7, AnswersTaken DEF e
    <2> QED
      BY <1>1, <1>2, <2>1
  <1>9. ReceivedExactlyOnce'
    BY <1>1 DEF RInv, ReceivedExactlyOnce
  <1>10. HeldInv'
    <2>1. srvSent - srvAcked' <= MaxQueue
      <3>1. \A x \in Nat : srvAcked <= x => srvSent - x <= MaxQueue
        BY <1>2, <1>3
      <3> QED
        BY <3>1, <1>7, Zenon
    <2>2. Len(received') = lo /\ received_count' = lo % W /\ srvSent' = srvSent
      BY <1>1, <1>2, <1>4 DEF lo
    <2> QED
      BY <1>2, <1>8, <2>1, <2>2 DEF HeldInv
  <1>11. SessionInv'
    BY <1>1 DEF RInv, SessionInv
  <1>12. InboundInv'
    <2>1. CASE e.type = "r" /\ attached
      <3> DEFINE a == AnsIn(Len(handled))
      <3>1. Len(handled) \in Nat
        BY QueueFacts
      <3>2. a \in ElementsIn /\ a.type = "a"
        BY <3>1 DEF AnsIn, ElementsIn
      <3>3. s2c' = Append(s2c, a)
        BY <1>1, <2>1
      <3> HIDE DEF a
      <3>4. /\ Arrives(s2c', lo, srvSent)
            /\ Complete(s2c, lo, srvSent) => Complete(s2c', lo, srvSent)
        BY <1>2, <3>2, <3>3, ArrivesBefore
      <3>5. InSession' => InSession
        BY <1>1, <1>2, <3>2, <3>3, AddedSession
      <3> QED
        BY <1>1, <1>4, <3>4, <3>5 DEF RInv, InboundInv, lo
    <2>2. CASE ~(e.type = "r" /\ attached)
      <3>1. s2c' = s2c
        BY <1>1, <2>2
      <3>2. InSession' => InSession
        BY <1>1, <3>1 DEF InSession, isActive
      <3> QED
        BY <1>1, <1>4, <3>1, <3>2 DEF RInv, InboundInv, lo
    <2> QED
      BY <2>1, <2>2
  <1>13. AnswerInv'
    BY <1>1, <1>4, <1>8 DEF AnswerInv, lo
  <1> QED
    BY <1>9, <1>10, <1>11, <1>12, <1>13 DEF RInv

(* The server's next stanza, sent or held back.                            *)
LEMMA ServerSendReceives ==
  ASSUME IInv, RInv, ServerSend
  PROVE  RInv'
  <1> USE DEF streamVars, smVars, inVars, linkVars
  <1> DEFINE lo == Len(received)
  <1>1. /\ srvSent - srvAcked < MaxQueue /\ (InSession \/ resumable) /\ srvSent' = srvSent + 1
        /\ s2c' = IF InSession THEN Append(s2c, StanzaIn(srvSent')) ELSE s2c
        /\ UNCHANGED <<streamVars, smVars, inVars, srvAcked, linkVars, c2s>>
    BY DEF ServerSend
  <1>2. /\ lo \in Nat /\ srvSent \in Nat /\ srvAcked \in Nat /\ srvAcked <= lo /\ lo <= srvSent
        /\ received_count = lo % W /\ s2c \in Seq(ElementsIn)
        /\ Arrives(s2c, lo, srvSent)
    BY RFacts
  <1>3. lo' = lo
    BY <1>1
  <1>4. MaxQueue \in Nat
    BY CounterAssumption
  <1> HIDE DEF lo
  <1>5. /\ Arrives(s2c, lo, srvSent + 1)
        /\ Complete(s2c, lo, srvSent) =>
             /\ Arrives(Append(s2c, StanzaIn(srvSent + 1)), lo, srvSent + 1)
             /\ Complete(Append(s2c, StanzaIn(srvSent + 1)), lo, srvSent + 1)
    BY <1>2, ArrivesSend
  <1>6. ReceivedExactlyOnce'
    BY <1>1 DEF RInv, ReceivedExactlyOnce
  <1>7. HeldInv'
    <2>1. srvSent + 1 - srvAcked <= MaxQueue /\ lo <= srvSent + 1
      BY <1>1, <1>2, <1>4
    <2>2. Len(received') = lo /\ received_count' = lo % W
      BY <1>1, <1>2, <1>3 DEF lo
    <2> QED
      BY <1>1, <1>2, <2>1, <2>2 DEF HeldInv
  <1>8. SessionInv'
    <2>1. step = "Login" \/ request.type = "enable" => ~attached
      BY DEF IInv, PhaseInv
    <2>2. InSession => attached
      BY DEF InSession
    <2> QED
      BY <1>1, <2>1, <2>2 DEF RInv, SessionInv
  <1>9. InboundInv'
    <2>1. CASE InSession
      <3>1. Complete(s2c, lo, srvSent)
        BY <2>1 DEF RInv, InboundInv, lo
      <3>2. Arrives(s2c', lo, srvSent') /\ Complete(s2c', lo, srvSent')
        BY <1>1, <1>5, <2>1, <3>1
      <3> QED
        BY <1>3, <3>2 DEF InboundInv, lo
    <2>2. CASE ~InSession
      <3>1. s2c' = s2c
        BY <1>1, <2>2
      <3>2. ~InSession'
        BY <1>1, <2>2, <3>1 DEF InSession, isActive
      <3>3. Arrives(s2c', lo, srvSent')
        BY <1>1, <1>5, <3>1
      <3> QED
        BY <1>3, <3>2, <3>3 DEF InboundInv, lo
    <2> QED
      BY <2>1, <2>2
  <1>10. AnswerInv'
    BY <1>1 DEF RInv, AnswerInv
  <1> QED
    BY <1>6, <1>7, <1>8, <1>9, <1>10 DEF RInv

(* The server's <r/>.                                                      *)
LEMMA ServerRequestReceives ==
  ASSUME IInv, RInv, ServerRequest
  PROVE  RInv'
  <1> USE DEF streamVars, smVars, inVars, linkVars, serverVars
  <1>1. /\ s2c' = Append(s2c, ReqIn)
        /\ UNCHANGED <<streamVars, smVars, inVars, serverVars, linkVars, c2s>>
    BY DEF ServerRequest
  <1>2. ReqIn \in ElementsIn /\ ReqIn.type = "r"
    BY DEF ReqIn, ElementsIn
  <1>3. s2c \in Seq(ElementsIn)
    BY RFacts
  <1>4. /\ Arrives(s2c', Len(received), srvSent)
        /\ Complete(s2c, Len(received), srvSent) => Complete(s2c', Len(received), srvSent)
    BY <1>1, <1>2, RFacts, ArrivesBefore
  <1>5. InSession' => InSession
    BY <1>1, <1>2, <1>3, AddedSession
  <1>6. ReceivedExactlyOnce' /\ HeldInv'
    BY <1>1, HeldStays
  <1>7. SessionInv' /\ AnswerInv'
    BY <1>1 DEF RInv, SessionInv, AnswerInv
  <1>8. InboundInv'
    BY <1>1, <1>4, <1>5 DEF RInv, InboundInv
  <1> QED
    BY <1>6, <1>7, <1>8 DEF RInv

-----------------------------------------------------------------------------
(* The invariant.                                                          *)

(* It holds of a fresh stream,                                             *)
LEMMA ReceivedInit == Init => RInv
  <1> SUFFICES ASSUME Init PROVE RInv
    OBVIOUS
  <1>1. /\ received = <<>> /\ received_count = 0 /\ srvSent = 0 /\ srvAcked = 0
        /\ s2c = <<>> /\ c2s = <<>> /\ attached = FALSE /\ request = NoRequest /\ state = "Idle"
    BY DEF Init
  <1>2. Len(<<>>) = 0 /\ 1..0 = {} /\ 0 % W = 0 /\ 0 \in Nat /\ 0 - 0 <= MaxQueue
    BY EmptySeq, CounterAssumption
  <1>3. ReceivedExactlyOnce /\ HeldInv
    BY <1>1, <1>2 DEF ReceivedExactlyOnce, HeldInv
  <1>4. SessionInv
    BY <1>1 DEF SessionInv, NoRequest
  <1>5. Arrives(<<>>, 0, 0) /\ Answers(<<>>, 0, 0)
    BY <1>2, ArrivesEmpty, AnswersEmpty
  <1> QED
    BY <1>1, <1>2, <1>3, <1>4, <1>5 DEF RInv, InboundInv, AnswerInv, InSession

(* and every step keeps it.                                                *)
LEMMA ReceivedStep ==
  ASSUME ~Coalesced, IInv, RInv, [Next]_vars
  PROVE  RInv'
  <1>1. IInv'
    BY InductiveStep
  <1>2. CASE Login                  BY <1>2, LoginReceives
  <1>3. CASE LoginComplete          BY <1>3, LoginCompleteReceives
  <1>4. CASE RecvEnabled            BY <1>1, <1>4, RecvEnabledReceives
  <1>5. CASE RecvResumed \/ RecvEnableFailed \/ RecvAck
    BY <1>5, QuietReceives
  <1>6. CASE RecvResumeFailed \/ ConnectionClosed
    BY <1>6, ResetReceives
  <1>7. CASE Write                  BY <1>1, <1>7, WriteReceives
  <1>8. CASE BytesWritten \/ Noop   BY <1>1, <1>8, TimerReceives
  <1>9. CASE RecvStanza             BY <1>1, <1>9, RecvStanzaReceives
  <1>10. CASE RecvRequest           BY <1>1, <1>10, RecvRequestReceives
  <1>11. CASE Tick                  BY <1>11, TickReceives
  <1>12. CASE ServerEnable          BY <1>12, ServerEnableReceives
  <1>13. CASE ServerResume          BY <1>13, ServerResumeReceives
  <1>14. CASE ServerRefuse          BY <1>14, ServerRefuseReceives
  <1>15. CASE ServerRecv            BY <1>15, ServerRecvReceives
  <1>16. CASE ServerSend            BY <1>16, ServerSendReceives
  <1>17. CASE ServerRequest         BY <1>17, ServerRequestReceives
  <1>18. CASE LinkDies              BY <1>18, LinkDiesReceives
  <1>19. CASE UNCHANGED vars
    <2> USE <1>19 DEF vars, streamVars, smVars, inVars, serverVars, linkVars
    <2>1. InSession' = InSession
      BY DEF InSession, isActive
    <2> QED
      BY <2>1 DEF RInv, ReceivedExactlyOnce, SessionInv, HeldInv, InboundInv, AnswerInv
  <1> QED
    BY <1>2, <1>3, <1>4, <1>5, <1>6, <1>7, <1>8, <1>9, <1>10, <1>11, <1>12, <1>13,
       <1>14, <1>15, <1>16, <1>17, <1>18, <1>19, Zenon DEF Next, ClientNext, ServerNext

(* ReceivedExactlyOnce: when <enabled/> is read alone, the client sees the *)
(* server's stanzas in order and each once, for every modulus and through  *)
(* any number of dead links and resumptions; the h in its <resume/> and    *)
(* <a/> is what it has stored.                                             *)
THEOREM ReceivesOnce ==
  ASSUME ~Coalesced
  PROVE  Spec => []ReceivedExactlyOnce
  <1>1. Init => IInv /\ RInv
    BY InductiveInit, ReceivedInit
  <1>2. IInv /\ RInv /\ [Next]_vars => (IInv /\ RInv)'
    BY InductiveStep, ReceivedStep
  <1>3. RInv => ReceivedExactlyOnce
    BY DEF RInv
  <1> QED
    BY <1>1, <1>2, <1>3, PTL DEF Spec
=============================================================================
