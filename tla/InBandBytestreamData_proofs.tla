--------------------- MODULE InBandBytestreamData_proofs ---------------------
EXTENDS InBandBytestream_proofs

(***************************************************************************)
(* Theorems about the bytes of a stream on which one end only writes: what *)
(* is announced has been read, bytes are read in order, and an orderly     *)
(* close leaves none behind.  Two ends that both write share one counter   *)
(* for what they send and what they receive, and none of it holds: ~Duplex *)
(* is the hypothesis, and IBBDuplex shows why.                             *)
(*                                                                         *)
(* The argument.  Flow accounts for every byte of a direction: it has been *)
(* read, is in the one block on its way, or is still in the buffer, in     *)
(* this order; the sender's task carries the block's length until its      *)
(* answer comes, and an answer that is under way speaks of bytes already   *)
(* read.  That an arriving block is the one its receiver expects needs     *)
(* Synced, the agreement of the two counters, and that holds because the   *)
(* other direction is silent (OneWay) and both counters start at zero      *)
(* (Uncounted).  The lemmas take the functions of the connection one by    *)
(* one (trySend, close, a task's success, a block's arrival), first for    *)
(* Flow and then for Synced; the handlers follow from them.                *)
(*                                                                         *)
(* The steps of the refinement are read off the same invariant: a step     *)
(* writes, announces, reads or rests in each direction.  Orderlies adds    *)
(* what an answered <close/> says of the end that answered.                *)
(***************************************************************************)

-----------------------------------------------------------------------------
(* The blocks among the IQs of a queue; whether the answer to the task of  *)
(* c is in it; and bytes that go on from byte n.                           *)
Blocks(s)     == {m \in Range(s) : m.type = "data"}
Told(c, in)   == \E a \in Results(in) : a.id = c.tasks
Follows(v, n) == \A j \in 1..Len(v) : v[j] = n + j

(* Where the w bytes written to connection c are, of which its owner knows *)
(* cf to have arrived and of which r have been read at the far end, when   *)
(* out is on its way from c and in to it.                                  *)
Flow(c, w, cf, r, out, in) ==
  /\ cf <= Len(r) /\ Len(r) + Len(c.writeBuf) <= w
  /\ Follows(c.writeBuf, w - Len(c.writeBuf))
  /\ c.state \in {"Requesting", "WaitingForAccept"} => w = 0
  /\ \A m \in Blocks(out) :
       /\ Len(m.data) \in 1..BlockSize /\ Len(r) + Len(m.data) <= w
       /\ Follows(m.data, Len(r))
       /\ c.state = "Active" => /\ Len(c.writeBuf) + Len(m.data) + Len(r) = w
                                /\ c.task.bytes = Len(m.data)
  /\ c.state = "Active" /\ c.task.mode # "data" => Len(c.writeBuf) + Len(r) = w
  /\ c.state = "Active" /\ c.task.mode = "data" /\ Told(c, in)
       => Len(c.writeBuf) + Len(r) = w /\ cf + c.task.bytes <= Len(r)

(* The two ends of a direction agree on the number of its next block: c    *)
(* sends, d receives.                                                      *)
Synced(c, d, out, in) ==
  c.state = "Active" /\ d.state # "Idle" =>
    /\ c.task.mode # "data" => c.seq = d.seq
    /\ \A m \in Blocks(out) : m.seq = d.seq /\ c.seq = (d.seq + 1) % SeqSpace
    /\ c.task.mode = "data" /\ Told(c, in) => c.seq = d.seq

Flows == \A e \in End : Flow(conn[e], written[e], confirmed[e], received[Peer(e)],
                             net[e], net[Peer(e)])
Syncs == \A e \in End : written[Peer(e)] = 0
                          => Synced(conn[e], conn[Peer(e)], net[e], net[Peer(e)])

(* One end writes at most, and until it does every block counter is zero.  *)
OneWay    == \E e \in End : written[e] = 0
Uncounted == (\A e \in End : written[e] = 0)
               => \A e \in End : conn[e].state # "Idle" => conn[e].seq = 0

Data == Flows /\ Syncs /\ OneWay /\ Uncounted

(* d goes on with the counter of c.                                        *)
KeepsCount(c, d) == d.state # "Idle" => c.state # "Idle" /\ d.seq = c.seq

(* The fields of a block on its way.                                       *)
LEMMA BlockIs ==
  ASSUME NEW s \in Seq(IQs), NEW m \in Blocks(s)
  PROVE  /\ m \in IQs /\ m.data \in Seq(Nat) /\ Len(m.data) \in Nat /\ m.id \in Nat
         /\ m.seq \in 0..(SeqSpace - 1) /\ m \in Requests(s)
  <1>1. m \in IQs /\ m \in Requests(s)
    BY DEF Blocks, Requests, Request, Range
  <1>2. m.data \in Seq(Nat) /\ m.id \in Nat /\ m.seq \in 0..(SeqSpace - 1)
    BY <1>1 DEF IQs
  <1> QED
    BY <1>1, <1>2

(* The blocks of a queue that is added to, and of one that is taken from   *)
(* or holds no request.                                                    *)
LEMMA BlocksOfConcat ==
  ASSUME NEW s \in Seq(IQs), NEW t \in Seq(IQs)
  PROVE  Blocks(s \o t) = Blocks(s) \union Blocks(t)
  BY RangeOfConcat DEF Blocks

LEMMA BlocksOfPart ==
  ASSUME NEW s \in Seq(IQs)
  PROVE  /\ s # <<>> => Blocks(Tail(s)) \subseteq Blocks(s)
         /\ Requests(s) = {} => Blocks(s) = {}
         /\ Blocks(s) \subseteq Requests(s)
         /\ OneRequest(s) /\ s # <<>> /\ Request(Head(s)) => Blocks(Tail(s)) = {}
         /\ s # <<>> /\ Head(s).type = "data" => Head(s) \in Blocks(s)
  <1>1. Blocks(s) \subseteq Requests(s)
    BY DEF Blocks, Requests, Request
  <1>2. s # <<>> => Blocks(Tail(s)) \subseteq Blocks(s) /\ Head(s) \in Range(s)
    BY RangeOfTail DEF Blocks
  <1>3. s # <<>> => Blocks(Tail(s)) \subseteq Requests(Tail(s))
    BY DEF Blocks, Requests, Request
  <1>4. OneRequest(s) /\ s # <<>> /\ Request(Head(s)) => Requests(Tail(s)) = {}
    BY OneRequestOfPart
  <1>5. s # <<>> /\ Head(s).type = "data" => Head(s) \in Blocks(s)
    BY <1>2 DEF Blocks
  <1> QED
    BY <1>1, <1>2, <1>3, <1>4, <1>5

(* A direction whose sender does not send and whose receiver reads nothing *)
(* keeps its account, in particular when its sender is reset.              *)
LEMMA FlowStays ==
  ASSUME NEW c, NEW d, NEW w \in Nat, NEW cf \in Nat, NEW r \in Seq(Nat),
         NEW out, NEW in, NEW out2, NEW in2,
         Flow(c, w, cf, r, out, in), c.writeBuf \in Seq(Nat), Blocks(out2) \subseteq Blocks(out),
         d.state = "Active" /\ d.task.mode = "data" => Results(in2) \subseteq Results(in),
         \/ d.state = "Idle" /\ d.writeBuf = <<>>
         \/ /\ d.state = c.state /\ d.writeBuf = c.writeBuf
            /\ d.task = c.task /\ d.tasks = c.tasks
  PROVE  Flow(d, w, cf, r, out2, in2)
  <1>1. CASE d.state = "Idle" /\ d.writeBuf = <<>>
    <2>1. Len(d.writeBuf) = 0 /\ Follows(d.writeBuf, w - Len(d.writeBuf))
      BY <1>1 DEF Follows
    <2>2. Len(r) <= w
      <3>1. Len(c.writeBuf) \in Nat /\ Len(r) \in Nat
        OBVIOUS
      <3> QED
        BY <3>1 DEF Flow
    <2>3. \A m \in Blocks(out2) : /\ Len(m.data) \in 1..BlockSize /\ Len(r) + Len(m.data) <= w
                                  /\ Follows(m.data, Len(r))
      BY DEF Flow
    <2>4. Len(r) + Len(d.writeBuf) <= w
      <3>1. Len(r) \in Nat
        OBVIOUS
      <3> QED
        BY <2>1, <2>2, <3>1
    <2> QED
      BY <1>1, <2>1, <2>3, <2>4 DEF Flow
  <1>2. CASE /\ d.state = c.state /\ d.writeBuf = c.writeBuf
             /\ d.task = c.task /\ d.tasks = c.tasks
    <2>1. d.state = "Active" /\ d.task.mode = "data" /\ Told(d, in2) => Told(c, in)
      BY <1>2 DEF Told
    <2>2. \A m \in Blocks(out2) : m \in Blocks(out)
      OBVIOUS
    <2> QED
      BY <1>2, <2>1, <2>2 DEF Flow
  <1> QED
    BY <1>1, <1>2

(* Nothing has been written yet.                                           *)
LEMMA FlowBegins ==
  ASSUME NEW d, NEW out, NEW in, d.writeBuf = <<>>, d.task.mode # "data", Blocks(out) = {}
  PROVE  Flow(d, 0, 0, <<>>, out, in)
  <1>1. Len(d.writeBuf) = 0 /\ Len(<<>>) = 0 /\ Follows(d.writeBuf, 0 - Len(d.writeBuf))
    BY DEF Follows
  <1> QED
    BY <1>1 DEF Flow

(* Two counters that do not move stay in agreement while no block and no   *)
(* answer is added.                                                        *)
LEMMA SyncedStays ==
  ASSUME NEW c, NEW c2, NEW d, NEW d2, NEW out, NEW in, NEW out2, NEW in2,
         Synced(c, d, out, in),
         c2.state = "Active" /\ d2.state # "Idle" =>
           /\ c.state = "Active" /\ c2.seq = c.seq /\ c2.task = c.task /\ c2.tasks = c.tasks
           /\ d.state # "Idle" /\ d2.seq = d.seq
           /\ Blocks(out2) \subseteq Blocks(out)
           /\ c.task.mode = "data" => Results(in2) \subseteq Results(in)
  PROVE  Synced(c2, d2, out2, in2)
  <1>1. ASSUME c2.state = "Active", d2.state # "Idle"
        PROVE  /\ c2.task.mode # "data" => c2.seq = d2.seq
               /\ \A m \in Blocks(out2) : m.seq = d2.seq /\ c2.seq = (d2.seq + 1) % SeqSpace
               /\ c2.task.mode = "data" /\ Told(c2, in2) => c2.seq = d2.seq
    <2>1. c2.task.mode = "data" /\ Told(c2, in2) => Told(c, in)
      BY <1>1 DEF Told
    <2>2. \A m \in Blocks(out2) : m \in Blocks(out)
      BY <1>1
    <2> QED
      BY <1>1, <2>1, <2>2 DEF Synced
  <1> QED
    BY <1>1 DEF Synced

-----------------------------------------------------------------------------
(* trySend: the next block of the buffer goes on where the last one ended, *)
(* with the receiver's number.                                             *)
LEMMA FlowTrySend ==
  ASSUME NEW c \in Connections, NEW w \in Nat, NEW cf \in Nat, NEW r \in Seq(Nat),
         NEW out \in Seq(IQs), NEW in \in Seq(IQs),
         Flow(c, w, cf, r, out, in), Wire(c, out, in), Shape(c), c.alive
  PROVE  Flow(TrySend(c), w, cf, r, out \o Sends(c), in)
  <1> DEFINE t == TrySend(c)
             n == Len(c.writeBuf)
  <1>1. /\ t \in Connections /\ SameRole(c, t) /\ c.tasks \in Nat /\ Sends(c) \in Seq(IQs)
        /\ n \in Nat /\ Len(r) \in Nat
    <2>1. c.writeBuf \in Seq(Nat)
      BY ConnectionFields
    <2>2. n \in Nat /\ Len(r) \in Nat
      BY <2>1
    <2> QED
      BY <2>2, TrySendIs, SendsIs, ConnectionFields
  <1>2. \A a \in Results(in) : a.id \in Nat
    <2>1. \A a \in Results(in) : a \in IQs
      BY DEF Results, Range
    <2> QED
      BY <2>1 DEF IQs
  <1>3. ASSUME c.task = NoTask, c.state = "Active"
        PROVE  Blocks(out) = {} /\ n + Len(r) = w /\ (t.tasks = c.tasks + 1 => ~Told(t, in))
    <2>1. c.task.mode = "none"
      BY <1>3 DEF NoTask
    <2>2. Requests(out) = {} /\ \A a \in Results(in) : a.id <= c.tasks
      BY <1>3, <2>1 DEF Wire, Requests, Request
    <2>3. Blocks(out) = {}
      BY <2>2, BlocksOfPart
    <2>4. n + Len(r) = w
      BY <1>3, <2>1 DEF Flow
    <2>5. t.tasks = c.tasks + 1 => ~Told(t, in)
      BY <1>1, <1>2, <2>2 DEF Told
    <2> QED
      BY <2>3, <2>4, <2>5
  <1>4. CASE SendsBlock(c)
    <2> DEFINE b == NextBlock(c)
               m == DataIQ(c.tasks + 1, c.seq, b)
               rest == Rest(c)
    <2>1. /\ Sends(c) = <<m>> /\ t.tasks = c.tasks + 1 /\ t.writeBuf = rest
          /\ t.task = [mode |-> "data", id |-> c.tasks + 1, bytes |-> Len(b)]
      BY <1>4, SendsIs, TrySendIs
    <2>2. c.task = NoTask /\ c.state = "Active"
      BY <1>4, Sending
    <2>3. m.data = b /\ m.type = "data"
      BY DEF DataIQ
    <2>4. /\ Len(b) \in 1..BlockSize /\ Len(b) \in Nat /\ Len(rest) \in Nat /\ Len(b) + Len(rest) = n
          /\ \A j \in 1..Len(b) : b[j] = c.writeBuf[j]
          /\ \A j \in 1..Len(rest) : rest[j] = c.writeBuf[Len(b) + j]
      <3>1. /\ b \in Seq(Nat) /\ rest \in Seq(Nat) /\ Len(b) \in 0..BlockSize
            /\ Len(b) + Len(rest) = n /\ Len(b) >= 1
            /\ \A j \in 1..Len(b) : b[j] = c.writeBuf[j]
            /\ \A j \in 1..Len(rest) : rest[j] = c.writeBuf[Len(b) + j]
        BY <1>4, NextBlockIs DEF SendsBlock
      <3>2. Len(b) \in Nat /\ Len(rest) \in Nat
        BY <3>1
      <3>3. Len(b) \in 1..BlockSize
        BY <3>1, <3>2, SpaceAssumption
      <3> QED
        BY <3>1, <3>2, <3>3
    <2>5. \A j \in 1..n : c.writeBuf[j] = w - n + j
      BY DEF Flow, Follows
    <2>6. Blocks(out) = {} /\ n + Len(r) = w /\ ~Told(t, in)
      BY <1>3, <2>1, <2>2
    <2>7. Blocks(out \o Sends(c)) \subseteq {m}
      <3>1. Range(Sends(c)) = {m}
        BY <2>1, RangeOfOne
      <3> QED
        BY <1>1, <2>6, <3>1, BlocksOfConcat DEF Blocks
    <2>8. t.task.mode = "data" /\ t.task.bytes = Len(b)
      BY <2>1
    <2>9. t.state = "Active"
      BY <1>1, <2>2 DEF SameRole
    <2> HIDE DEF b, m, rest, t, n
    <2>10. cf <= Len(r) /\ Len(r) + Len(rest) <= w /\ Len(r) + Len(b) <= w
           /\ Len(rest) + Len(b) + Len(r) = w
      <3>1. cf <= Len(r)
        BY DEF Flow
      <3>2. \A x, y, z, k \in Nat : y + z = x /\ x + k = w => k + z <= w /\ k + y <= w /\ z + y + k = w
        OBVIOUS
      <3>3. Len(r) \in Nat /\ Len(b) \in Nat /\ Len(rest) \in Nat /\ n \in Nat
        BY <1>1, <2>4
      <3>4. Len(b) + Len(rest) = n
        BY <2>4
      <3>5. n + Len(r) = w
        BY <2>6
      <3>6. Len(r) + Len(rest) <= w
        BY <3>2, <3>3, <3>4, <3>5
      <3>7. Len(r) + Len(b) <= w
        BY <3>2, <3>3, <3>4, <3>5
      <3>8. Len(rest) + Len(b) + Len(r) = w
        BY <3>2, <3>3, <3>4, <3>5
      <3> QED
        BY <3>1, <3>6, <3>7, <3>8
    <2>11. Follows(b, Len(r))
      <3>1. ASSUME NEW j \in 1..Len(b)
            PROVE  b[j] = Len(r) + j
        <4>1. j \in 1..n /\ b[j] = c.writeBuf[j]
          BY <1>1, <2>4
        <4>2. b[j] = w - n + j
          BY <2>5, <4>1
        <4>3. w - n = Len(r)
          BY <1>1, <2>6
        <4> QED
          BY <4>2, <4>3
      <3> QED
        BY <3>1 DEF Follows
    <2>12. Follows(rest, w - Len(rest))
      <3>1. ASSUME NEW j \in 1..Len(rest)
            PROVE  rest[j] = w - Len(rest) + j
        <4>1. Len(b) + j \in 1..n /\ j \in Nat
          BY <1>1, <2>4
        <4>2. rest[j] = c.writeBuf[Len(b) + j]
          BY <2>4
        <4>3. rest[j] = w - n + (Len(b) + j)
          BY <2>5, <4>1, <4>2
        <4>4. Len(b) \in Nat /\ Len(rest) \in Nat /\ Len(b) + Len(rest) = n
          BY <2>4
        <4>5. w - n + (Len(b) + j) = w - Len(rest) + j
          <5>1. \A x, y, z, k \in Int : x - (y + z) + (y + k) = x - z + k
            OBVIOUS
          <5>2. w \in Int /\ Len(b) \in Int /\ Len(rest) \in Int /\ j \in Int
            BY <4>1, <4>4
          <5> QED
            BY <4>4, <5>1, <5>2
        <4> QED
          BY <4>3, <4>5
      <3> QED
        BY <3>1 DEF Follows
    <2>13. Flow(t, w, cf, r, out \o Sends(c), in)
      BY <2>1, <2>3, <2>4, <2>6, <2>7, <2>8, <2>9, <2>10, <2>11, <2>12 DEF Flow
    <2> QED
      BY <2>13 DEF t
  <1>5. CASE SendsClose(c)
    <2>1. /\ Sends(c) = <<CloseIQ(c.tasks + 1)>> /\ t.writeBuf = <<>> /\ c.writeBuf = <<>>
          /\ t.task = [mode |-> "close", id |-> c.tasks + 1, bytes |-> 0]
      BY <1>5, SendsIs, TrySendIs DEF SendsClose
    <2>2. c.task = NoTask /\ c.state = "Active"
      BY <1>5, Sending
    <2>3. Blocks(out) = {} /\ n + Len(r) = w
      BY <1>3, <2>2
    <2>4. Blocks(out \o Sends(c)) = {}
      <3>1. Range(Sends(c)) = {CloseIQ(c.tasks + 1)} /\ CloseIQ(c.tasks + 1).type = "close"
        BY <2>1, RangeOfOne DEF CloseIQ
      <3>2. Blocks(Sends(c)) = {}
        BY <3>1 DEF Blocks
      <3> QED
        BY <1>1, <2>3, <3>2, BlocksOfConcat
    <2>5. t.task.mode = "close" /\ t.state = "Active"
      BY <1>1, <2>1, <2>2 DEF SameRole
    <2> HIDE DEF t
    <2>6. Flow(t, w, cf, r, out \o Sends(c), in)
      BY <2>1, <2>3, <2>4, <2>5 DEF Flow
    <2> QED
      BY <2>6 DEF t
  <1>6. CASE ~SendsBlock(c) /\ ~SendsClose(c)
    <2>1. t = c /\ Sends(c) = <<>> /\ out \o <<>> = out
      BY <1>6, TrySendIs, SendsIs, NoFurtherIQ
    <2> QED
      BY <2>1
  <1> QED
    BY <1>4, <1>5, <1>6

(* trySend counts the block that it sends.                                 *)
LEMMA SyncedTrySend ==
  ASSUME NEW c \in Connections, NEW d, NEW out \in Seq(IQs), NEW in \in Seq(IQs),
         Synced(c, d, out, in), Wire(c, out, in), Shape(c), c.alive
  PROVE  Synced(TrySend(c), d, out \o Sends(c), in)
  <1> DEFINE t == TrySend(c)
  <1>1. /\ t \in Connections /\ SameRole(c, t) /\ c.tasks \in Nat /\ Sends(c) \in Seq(IQs)
    BY TrySendIs, SendsIs, ConnectionFields
  <1>2. \A a \in Results(in) : a.id \in Nat
    <2>1. \A a \in Results(in) : a \in IQs
      BY DEF Results, Range
    <2> QED
      BY <2>1 DEF IQs
  <1>3. ASSUME c.task = NoTask, c.state = "Active", d.state # "Idle"
        PROVE  Blocks(out) = {} /\ c.seq = d.seq /\ (t.tasks = c.tasks + 1 => ~Told(t, in))
    <2>1. c.task.mode = "none"
      BY <1>3 DEF NoTask
    <2>2. Requests(out) = {} /\ \A a \in Results(in) : a.id <= c.tasks
      BY <1>3, <2>1 DEF Wire, Requests, Request
    <2>3. Blocks(out) = {}
      BY <2>2, BlocksOfPart
    <2>4. c.seq = d.seq
      BY <1>3, <2>1 DEF Synced
    <2>5. t.tasks = c.tasks + 1 => ~Told(t, in)
      BY <1>1, <1>2, <2>2 DEF Told
    <2> QED
      BY <2>3, <2>4, <2>5
  <1>4. CASE SendsBlock(c)
    <2> DEFINE m == DataIQ(c.tasks + 1, c.seq, NextBlock(c))
    <2>1. /\ Sends(c) = <<m>> /\ t.tasks = c.tasks + 1 /\ t.seq = (c.seq + 1) % SeqSpace
          /\ t.task = [mode |-> "data", id |-> c.tasks + 1, bytes |-> Len(NextBlock(c))]
      BY <1>4, SendsIs, TrySendIs
    <2>2. c.task = NoTask /\ c.state = "Active"
      BY <1>4, Sending
    <2>3. m.seq = c.seq
      BY DEF DataIQ
    <2>4. d.state # "Idle" => Blocks(out \o Sends(c)) \subseteq {m}
      <3>1. Range(Sends(c)) = {m}
        BY <2>1, RangeOfOne
      <3>2. Blocks(Sends(c)) \subseteq {m}
        BY <3>1 DEF Blocks
      <3> QED
        BY <1>1, <1>3, <2>2, <3>2, BlocksOfConcat
    <2>5. t.task.mode = "data"
      BY <2>1
    <2> HIDE DEF m, t
    <2>6. Synced(t, d, out \o Sends(c), in)
      BY <1>3, <2>1, <2>2, <2>3, <2>4, <2>5 DEF Synced, t
    <2> QED
      BY <2>6 DEF t
  <1>5. CASE SendsClose(c)
    <2>1. /\ Sends(c) = <<CloseIQ(c.tasks + 1)>> /\ t.seq = c.seq
          /\ t.task = [mode |-> "close", id |-> c.tasks + 1, bytes |-> 0]
      BY <1>5, SendsIs, TrySendIs
    <2>2. c.task = NoTask /\ c.state = "Active"
      BY <1>5, Sending
    <2>3. Blocks(Sends(c)) = {}
      <3>1. Range(Sends(c)) = {CloseIQ(c.tasks + 1)} /\ CloseIQ(c.tasks + 1).type = "close"
        BY <2>1, RangeOfOne DEF CloseIQ
      <3> QED
        BY <3>1 DEF Blocks
    <2>4. d.state # "Idle" => Blocks(out \o Sends(c)) = {} /\ c.seq = d.seq
      BY <1>1, <1>3, <2>2, <2>3, BlocksOfConcat
    <2>5. t.task.mode = "close"
      BY <2>1
    <2> HIDE DEF t
    <2>6. Synced(t, d, out \o Sends(c), in)
      BY <2>1, <2>4, <2>5 DEF Synced
    <2> QED
      BY <2>6 DEF t
  <1>6. CASE ~SendsBlock(c) /\ ~SendsClose(c)
    <2>1. t = c /\ Sends(c) = <<>> /\ out \o <<>> = out
      BY <1>6, TrySendIs, SendsIs, NoFurtherIQ
    <2> QED
      BY <2>1
  <1> QED
    BY <1>4, <1>5, <1>6

(* writeData: the new bytes go on where those written before ended.        *)
LEMMA FlowFilled ==
  ASSUME NEW c \in Connections, NEW w \in Nat, NEW cf \in Nat, NEW r \in Seq(Nat), NEW n \in Nat,
         NEW out \in Seq(IQs), NEW in \in Seq(IQs),
         Flow(c, w, cf, r, out, in), c.state = "Active"
  PROVE  Flow(Filled(c, w, n), w + n, cf, r, out, in)
  <1> DEFINE b == Filled(c, w, n)
             k == Len(c.writeBuf)
  <1>1. /\ b.state = c.state /\ b.task = c.task /\ b.tasks = c.tasks
    BY FilledIs DEF SameRole
  <1>2. /\ Len(b.writeBuf) = k + n /\ \A j \in 1..k : b.writeBuf[j] = c.writeBuf[j]
        /\ \A j \in 1..n : b.writeBuf[k + j] = w + j
    BY FilledBuffer
  <1>3. k \in Nat /\ Len(r) \in Nat
    <2>1. c.writeBuf \in Seq(Nat)
      BY ConnectionFields
    <2> QED
      BY <2>1
  <1>4. \A j \in 1..k : c.writeBuf[j] = w - k + j
    BY DEF Flow, Follows
  <1>5. /\ cf <= Len(r) /\ Len(r) + k <= w
        /\ c.state = "Active" /\ c.task.mode # "data" => k + Len(r) = w
        /\ c.state = "Active" /\ c.task.mode = "data" /\ Told(c, in)
             => k + Len(r) = w /\ cf + c.task.bytes <= Len(r)
    BY DEF Flow
  <1>6. \A m \in Blocks(out) :
          /\ Len(m.data) \in 1..BlockSize /\ Len(m.data) \in Nat /\ Len(r) + Len(m.data) <= w
          /\ Follows(m.data, Len(r)) /\ k + Len(m.data) + Len(r) = w
          /\ c.task.bytes = Len(m.data)
    BY BlockIs DEF Flow
  <1> HIDE DEF b, k
  <1>7. Len(r) + (k + n) <= w + n /\ (k + Len(r) = w => k + n + Len(r) = w + n)
    BY <1>3, <1>5
  <1>8. Follows(b.writeBuf, (w + n) - Len(b.writeBuf))
    <2>1. (w + n) - (k + n) = w - k
      BY <1>3
    <2>2. ASSUME NEW j \in 1..(k + n)
          PROVE  b.writeBuf[j] = w - k + j
      <3>1. CASE j \in 1..k
        BY <1>2, <1>4, <3>1
      <3>2. CASE j \notin 1..k
        <4> DEFINE i == j - k
        <4>1. i \in 1..n /\ k + i = j /\ w + i = w - k + j
          BY <1>3, <3>2
        <4> HIDE DEF i
        <4> QED
          BY <1>2, <4>1
      <3> QED
        BY <3>1, <3>2
    <2> QED
      BY <1>2, <2>1, <2>2 DEF Follows
  <1>9. \A m \in Blocks(out) :
          /\ Len(r) + Len(m.data) <= w + n /\ k + n + Len(m.data) + Len(r) = w + n
    <2>1. \A x \in Nat : Len(r) + x <= w => Len(r) + x <= w + n
      BY <1>3
    <2>2. \A x \in Nat : k + x + Len(r) = w => k + n + x + Len(r) = w + n
      BY <1>3
    <2> QED
      BY <1>6, <2>1, <2>2
  <1>10. Told(b, in) => Told(c, in)
    BY <1>1 DEF Told
  <1>11. Flow(b, w + n, cf, r, out, in)
    BY <1>1, <1>2, <1>5, <1>6, <1>7, <1>8, <1>9, <1>10 DEF Flow
  <1> QED
    BY <1>11 DEF b

(* close(): what trySend sends, if anything, and then perhaps the end.     *)
LEMMA FlowClosed ==
  ASSUME NEW c \in Connections, NEW w \in Nat, NEW cf \in Nat, NEW r \in Seq(Nat),
         NEW out \in Seq(IQs), NEW in \in Seq(IQs),
         Flow(c, w, cf, r, out, in), Wire(c, out, in), Shape(c), c.alive, c.state # "Idle"
  PROVE  Flow(Closed(c), w, cf, r, out \o CloseSends(c), in)
  <1>1. c.state \in {"Requesting", "WaitingForAccept", "Active"} /\ c.writeBuf \in Seq(Nat)
        /\ c.iq_id \in Nat
    BY ConnectionFields
  <1>2. Reset(c).state = "Idle" /\ Reset(c).writeBuf = <<>>
    BY ResetIs
  <1>3. CASE c.state = "Active"
    <2> DEFINE b == Pending(c)
    <2>1. /\ b \in Connections /\ Shape(b) /\ b.alive /\ b.writeBuf = c.writeBuf
          /\ b.tasks = c.tasks /\ b.state = c.state /\ b.task = c.task
      BY <1>3, PendingIs, ShapePending DEF SameRole
    <2>2. CloseSends(c) = Sends(b) /\ (Closed(c) = TrySend(b) \/ Closed(c) = Reset(c))
      BY <1>3, ClosedIs, CloseSendsIs
    <2> HIDE DEF b
    <2>3. Wire(b, out, in)
      BY <2>1, WireShrinks DEF Wire
    <2>4. Flow(b, w, cf, r, out, in)
      BY <1>1, <2>1, FlowStays
    <2>5. Flow(TrySend(b), w, cf, r, out \o Sends(b), in)
      BY <2>1, <2>3, <2>4, FlowTrySend
    <2>6. TrySend(b).writeBuf \in Seq(Nat)
      BY <2>1, TrySendIs, ConnectionFields
    <2>7. Flow(Reset(c), w, cf, r, out \o Sends(b), in)
      BY <1>2, <2>5, <2>6, FlowStays
    <2> QED
      BY <2>2, <2>5, <2>7
  <1>4. CASE c.state # "Active"
    <2>1. Closed(c) = Reset(c) /\ (CloseSends(c) = <<>> \/ CloseSends(c) = <<Error(c.iq_id)>>)
      BY <1>1, <1>4, ClosedIs, CloseSendsIs
    <2>2. Blocks(out \o CloseSends(c)) \subseteq Blocks(out)
      <3>1. CloseSends(c) \in Seq(IQs)
        BY CloseSendsIs
      <3>2. Blocks(<<>>) = {}
        BY RangeOfNone DEF Blocks
      <3>3. Blocks(<<Error(c.iq_id)>>) = {}
        BY RangeOfOne DEF Blocks, Error
      <3> QED
        BY <2>1, <3>1, <3>2, <3>3, BlocksOfConcat
    <2> QED
      BY <1>1, <1>2, <2>1, <2>2, FlowStays
  <1> QED
    BY <1>3, <1>4

(* So does close().                                                        *)
LEMMA SyncedClosed ==
  ASSUME NEW c \in Connections, NEW d, NEW out \in Seq(IQs), NEW in \in Seq(IQs),
         Synced(c, d, out, in), Wire(c, out, in), Shape(c), c.alive, c.state # "Idle"
  PROVE  Synced(Closed(c), d, out \o CloseSends(c), in)
  <1>1. c.state \in {"Requesting", "WaitingForAccept", "Active"}
    BY ConnectionFields
  <1>2. Synced(Reset(c), d, out \o CloseSends(c), in)
    BY ResetIs DEF Synced
  <1>3. CASE c.state = "Active"
    <2> DEFINE b == Pending(c)
    <2>1. /\ b \in Connections /\ Shape(b) /\ b.alive /\ b.seq = c.seq
          /\ b.tasks = c.tasks /\ b.state = c.state /\ b.task = c.task
      BY <1>3, PendingIs, ShapePending DEF SameRole
    <2>2. CloseSends(c) = Sends(b) /\ (Closed(c) = TrySend(b) \/ Closed(c) = Reset(c))
      BY <1>3, ClosedIs, CloseSendsIs
    <2> HIDE DEF b
    <2>3. Wire(b, out, in)
      BY <2>1, WireShrinks DEF Wire
    <2>4. Synced(b, d, out, in)
      BY <2>1, SyncedStays
    <2>5. Synced(TrySend(b), d, out \o Sends(b), in)
      BY <2>1, <2>3, <2>4, SyncedTrySend
    <2> QED
      BY <1>2, <2>2, <2>5
  <1>4. CASE c.state # "Active"
    BY <1>1, <1>2, <1>4, ClosedIs
  <1> QED
    BY <1>3, <1>4

(* The destructor throws the buffer away before it closes: no block goes   *)
(* out.                                                                    *)
LEMMA EmptiedSendsNoBlock ==
  ASSUME NEW c \in Connections
  PROVE  CloseSends(Emptied(c)) \in Seq(IQs) /\ Blocks(CloseSends(Emptied(c))) = {}
  <1> DEFINE b == Emptied(c)
             s == CloseSends(b)
  <1>1. b \in Connections /\ b.writeBuf = <<>>
    BY EmptiedIs
  <1> HIDE DEF b
  <1>2. s \in Seq(IQs) /\ b.state \in {"Idle", "Requesting", "WaitingForAccept", "Active"}
    BY <1>1, CloseSendsIs, ConnectionFields
  <1>3. Blocks(<<>>) = {}
    BY RangeOfNone DEF Blocks
  <1>4. Blocks(<<Error(b.iq_id)>>) = {}
    BY RangeOfOne DEF Blocks, Error
  <1>5. Blocks(Sends(Pending(b))) = {}
    <2> DEFINE q == Pending(b)
    <2>1. q \in Connections /\ q.writeBuf = <<>>
      BY <1>1, PendingIs
    <2> HIDE DEF q
    <2>2. Sends(q) = <<CloseIQ(q.tasks + 1)>> \/ Sends(q) = <<>>
      BY <2>1, SendsIs DEF SendsBlock
    <2>3. Blocks(<<CloseIQ(q.tasks + 1)>>) = {}
      BY RangeOfOne DEF Blocks, CloseIQ
    <2>4. Blocks(Sends(q)) = {}
      BY <1>3, <2>2, <2>3
    <2> QED
      BY <2>4 DEF q
  <1>6. s = <<Error(b.iq_id)>> \/ s = Sends(Pending(b)) \/ s = <<>>
    BY <1>1, <1>2, CloseSendsIs
  <1>7. Blocks(s) = {}
    BY <1>3, <1>4, <1>5, <1>6
  <1> QED
    BY <1>2, <1>7 DEF b

(* A task of c succeeds: what it carried has arrived, and a stream that is *)
(* now open starts with nothing written.                                   *)
LEMMA FlowSucceeded ==
  ASSUME NEW c \in Connections, NEW w \in Nat, NEW cf \in Nat, NEW r \in Seq(Nat),
         NEW out \in Seq(IQs), NEW in \in Seq(IQs),
         Flow(c, w, cf, r, out, in), Wire(c, out, in), Shape(c), c.task # NoTask,
         in # <<>>, Head(in).type = "result", Head(in).id = c.tasks
  PROVE  /\ Flow(Succeeded(c), w, cf + c.task.bytes, r, out, Tail(in))
         /\ c.task.bytes \in Nat /\ cf + c.task.bytes <= Len(r)
  <1> DEFINE d == Succeeded(c)
             n == c.task.bytes
  <1>1. (c.task.mode = "open" => ~c.closing) /\ c.state # "Idle"
    BY ShapeSucceeded DEF Shape
  <1>2. /\ n \in Nat /\ c.writeBuf \in Seq(Nat) /\ Len(c.writeBuf) \in Nat /\ Len(r) \in Nat
        /\ c.state \in {"Requesting", "WaitingForAccept", "Active"}
    <2>1. c.task \in Tasks /\ c.writeBuf \in Seq(Nat)
      BY ConnectionFields
    <2>2. n \in Nat
      BY <2>1 DEF Tasks
    <2>3. Len(c.writeBuf) \in Nat /\ Len(r) \in Nat
      BY <2>1
    <2> QED
      BY <1>1, <2>1, <2>2, <2>3, ConnectionFields
  <1>3. Told(c, in)
    BY RangeOfTail DEF Told, Results
  <1>4. Requests(out) = {} /\ Blocks(out) = {}
    BY <1>1, WireSucceeded, BlocksOfPart
  <1>5. d.task = NoTask /\ NoTask.mode = "none"
    BY <1>1, SucceededIs DEF NoTask
  <1>6. cf <= Len(r) /\ Len(r) + Len(c.writeBuf) <= w /\ Follows(c.writeBuf, w - Len(c.writeBuf))
    BY DEF Flow
  <1>7. CASE c.task.mode = "open"
    <2>1. c.state = "Requesting" /\ c.writeBuf = <<>> /\ n = 0
      BY <1>2, <1>7 DEF Shape
    <2>2. w = 0 /\ Len(c.writeBuf) = 0
      BY <2>1 DEF Flow
    <2>3. d.state = "Active" /\ d.writeBuf = c.writeBuf
      BY <1>1, <1>7, SucceededIs
    <2>4. Len(c.writeBuf) + Len(r) = w /\ cf + n <= Len(r)
      BY <1>2, <1>6, <2>1, <2>2
    <2>5. cf + n = cf
      BY <1>2, <2>1
    <2> HIDE DEF d, n
    <2>6. Flow(d, w, cf, r, out, Tail(in))
      BY <1>4, <1>5, <1>6, <2>3, <2>4 DEF Flow
    <2> QED
      BY <1>2, <2>4, <2>5, <2>6 DEF d, n
  <1>8. CASE c.task.mode # "open" /\ c.closing
    <2>1. d.state = "Idle" /\ d.writeBuf = <<>>
      BY <1>1, <1>8, SucceededIs, ResetIs
    <2>2. c.task.mode # "data" /\ n = 0
      BY <1>2, <1>8 DEF Shape
    <2>3. cf + n = cf
      BY <2>2
    <2> HIDE DEF d, n
    <2>4. Flow(d, w, cf, r, out, Tail(in))
      BY <1>2, <2>1, FlowStays
    <2> QED
      BY <1>2, <1>6, <2>3, <2>4 DEF d, n
  <1>9. CASE c.task.mode # "open" /\ ~c.closing
    <2>1. d.state = c.state /\ d.writeBuf = c.writeBuf
      BY <1>1, <1>9, SucceededIs
    <2>2. c.state = "Active" /\ c.task.mode = "data"
      <3>1. c.state = "Active" /\ c.task.mode # "none" /\ c.task.mode # "close"
        BY <1>2, <1>9, ConnectionFields DEF Shape
      <3>2. c.task.mode \in {"none", "open", "data", "close"}
        BY ConnectionFields DEF Tasks
      <3> QED
        BY <1>9, <3>1, <3>2
    <2>3. Len(c.writeBuf) + Len(r) = w /\ cf + n <= Len(r)
      BY <1>3, <2>2 DEF Flow
    <2> HIDE DEF d, n
    <2>4. Flow(d, w, cf + n, r, out, Tail(in))
      BY <1>4, <1>5, <1>6, <2>1, <2>2, <2>3 DEF Flow
    <2> QED
      BY <1>2, <2>3, <2>4 DEF d, n
  <1> QED
    BY <1>7, <1>8, <1>9

(* The answer to a block finds both counters after it, and a stream that   *)
(* is now open begins with both at zero.                                   *)
LEMMA SyncedSucceeded ==
  ASSUME NEW c \in Connections, NEW d, NEW out \in Seq(IQs), NEW in \in Seq(IQs),
         Synced(c, d, out, in), Wire(c, out, in), Shape(c), c.task # NoTask,
         in # <<>>, Head(in).type = "result", Head(in).id = c.tasks,
         c.state = "Requesting" /\ d.state # "Idle" => d.seq = 0
  PROVE  Synced(Succeeded(c), d, out, Tail(in))
  <1> DEFINE s == Succeeded(c)
  <1>1. (c.task.mode = "open" => ~c.closing) /\ c.state # "Idle"
    BY ShapeSucceeded DEF Shape
  <1>2. Told(c, in)
    BY RangeOfTail DEF Told, Results
  <1>3. Blocks(out) = {}
    BY <1>1, WireSucceeded, BlocksOfPart
  <1>4. s.task = NoTask /\ NoTask.mode = "none"
    BY <1>1, SucceededIs DEF NoTask
  <1>5. CASE c.task.mode = "open"
    <2>1. c.state = "Requesting" /\ c.seq = 0 /\ s.seq = c.seq
      BY <1>1, <1>5, SucceededIs DEF Shape
    <2> HIDE DEF s
    <2>2. Synced(s, d, out, Tail(in))
      BY <1>3, <1>4, <2>1 DEF Synced
    <2> QED
      BY <2>2 DEF s
  <1>6. CASE c.task.mode # "open" /\ c.closing
    BY <1>1, <1>6, SucceededIs, ResetIs DEF Synced
  <1>7. CASE c.task.mode # "open" /\ ~c.closing
    <2>1. s.state = c.state /\ s.seq = c.seq
      BY <1>1, <1>7, SucceededIs
    <2>2. c.state = "Active" /\ d.state # "Idle" => c.seq = d.seq
      BY <1>2 DEF Synced
    <2> HIDE DEF s
    <2>3. Synced(s, d, out, Tail(in))
      BY <1>3, <1>4, <2>1, <2>2 DEF Synced
    <2> QED
      BY <2>3 DEF s
  <1> QED
    BY <1>5, <1>6, <1>7

(* The receiver has read the block of c that was on its way.               *)
LEMMA FlowDelivered ==
  ASSUME NEW c \in Connections, NEW w \in Nat, NEW cf \in Nat, NEW r \in Seq(Nat),
         NEW out \in Seq(IQs), NEW in, NEW in2,
         Flow(c, w, cf, r, out, in), Wire(c, out, in), Shape(c),
         out # <<>>, Head(out).type = "data"
  PROVE  /\ r \o Head(out).data \in Seq(Nat) /\ Head(out).data \in Seq(Nat)
         /\ Len(Head(out).data) \in 1..BlockSize
         /\ Follows(Head(out).data, Len(r)) /\ Len(r) + Len(Head(out).data) <= w
         /\ Flow(c, w, cf, r \o Head(out).data, Tail(out), in2)
  <1> DEFINE m == Head(out)
             n == Len(m.data)
             k == Len(c.writeBuf)
             r2 == r \o m.data
  <1>1. m \in Blocks(out) /\ Request(m) /\ Blocks(Tail(out)) = {}
    BY BlocksOfPart DEF Wire, Request
  <1>2. m.data \in Seq(Nat) /\ n \in Nat /\ m \in Requests(out)
    BY <1>1, BlockIs
  <1>3. k \in Nat /\ Len(r) \in Nat /\ c.writeBuf \in Seq(Nat) /\ c.state \in {"Idle", "Requesting", "WaitingForAccept", "Active"}
    <2>1. c.writeBuf \in Seq(Nat)
      BY ConnectionFields
    <2>2. k \in Nat /\ Len(r) \in Nat
      BY <2>1
    <2> QED
      BY <2>1, <2>2, ConnectionFields
  <1>4. /\ n \in 1..BlockSize /\ Len(r) + n <= w /\ Follows(m.data, Len(r))
        /\ c.state = "Active" => k + n + Len(r) = w /\ c.task.bytes = n
        /\ cf <= Len(r)
        /\ c.state \in {"Requesting", "WaitingForAccept"} => w = 0
        /\ Follows(c.writeBuf, w - k)
    BY <1>1 DEF Flow
  <1>5. r2 \in Seq(Nat) /\ Len(r2) = Len(r) + n
    BY <1>2, BytesConcat
  <1>6. c.state = "Active" => c.task.mode = "data"
    BY <1>1, <1>2 DEF Wire
  <1>7. c.state # "Active" => k = 0
    <2>1. c.state # "Active" => c.writeBuf = <<>>
      BY DEF Shape
    <2> QED
      BY <2>1
  <1> HIDE DEF m, n, k, r2
  <1>8. cf <= Len(r2) /\ Len(r2) + k <= w
    <2>1. Len(r2) = Len(r) + n /\ Len(r) \in Nat /\ n \in Nat /\ k \in Nat
      BY <1>2, <1>3, <1>5
    <2>2. cf <= Len(r) /\ Len(r) + n <= w
      BY <1>4
    <2>3. c.state = "Active" => Len(r2) + k = w
      BY <1>4, <2>1
    <2>4. c.state # "Active" => Len(r2) + k = Len(r) + n
      BY <1>7, <2>1
    <2> HIDE DEF r2
    <2>5. cf <= Len(r2)
      BY <2>1, <2>2
    <2> QED
      BY <2>1, <2>2, <2>3, <2>4, <2>5
  <1>9. c.state = "Active" => k + Len(r2) = w /\ cf + c.task.bytes <= Len(r2)
    BY <1>2, <1>3, <1>4, <1>5
  <1>10. Flow(c, w, cf, r2, Tail(out), in2)
    BY <1>1, <1>4, <1>6, <1>8, <1>9 DEF Flow, k
  <1> QED
    BY <1>2, <1>4, <1>5, <1>10 DEF m, n, r2

(* The receiver that reads a block counts it too.                          *)
LEMMA SyncedDelivered ==
  ASSUME NEW c \in Connections, NEW d, NEW out \in Seq(IQs), NEW in, NEW in2, NEW d2,
         Synced(c, d, out, in), Wire(c, out, in),
         out # <<>>, Head(out).type = "data",
         d.state # "Idle", d2.seq = (d.seq + 1) % SeqSpace
  PROVE  Synced(c, d2, Tail(out), in2)
  <1> DEFINE m == Head(out)
  <1>1. m \in Blocks(out) /\ Request(m) /\ Blocks(Tail(out)) = {}
    BY BlocksOfPart DEF Wire, Request
  <1>2. m \in Requests(out)
    BY <1>1, BlockIs
  <1>3. c.state = "Active" => c.task.mode = "data" /\ c.seq = (d.seq + 1) % SeqSpace
    BY <1>1, <1>2 DEF Wire, Synced
  <1> QED
    BY <1>1, <1>3 DEF Synced

-----------------------------------------------------------------------------
(* What the account says of an end e and of the direction from e.          *)
LEMMA DataState ==
  ASSUME Base, Data, NEW e \in End
  PROVE  /\ TypeOK /\ Shapes /\ conn[e] \in Connections /\ Shape(conn[e])
         /\ net[e] \in Seq(IQs) /\ net[Peer(e)] \in Seq(IQs)
         /\ Wire(conn[e], net[e], net[Peer(e)])
         /\ written[e] \in Nat /\ confirmed[e] \in Nat /\ received[Peer(e)] \in Seq(Nat)
         /\ Flow(conn[e], written[e], confirmed[e], received[Peer(e)], net[e], net[Peer(e)])
         /\ written[Peer(e)] = 0 => Synced(conn[e], conn[Peer(e)], net[e], net[Peer(e)])
  BY BaseState, StateIs, Ends2 DEF Data, Flows, Syncs

(* End e has gone on with d: what is to be shown of the direction from e   *)
(* and of the one to e.                                                    *)
LEMMA DataOrdinary ==
  ASSUME Base, Base', NEW e \in End, NEW d, NEW iqs, NEW takes \in BOOLEAN,
         Ordinary(e, d, iqs, takes), Data,
         written'[Peer(e)] = written[Peer(e)], confirmed'[Peer(e)] = confirmed[Peer(e)],
         received'[Peer(e)] = received[Peer(e)],
         Flow(d, written'[e], confirmed'[e], received[Peer(e)], net[e] \o iqs, net'[Peer(e)]),
         written[Peer(e)] = 0 => Synced(d, conn[Peer(e)], net[e] \o iqs, net'[Peer(e)]),
         Flow(conn[Peer(e)], written[Peer(e)], confirmed[Peer(e)], received'[e],
              net'[Peer(e)], net[e] \o iqs),
         written'[e] = 0 => Synced(conn[Peer(e)], d, net'[Peer(e)], net[e] \o iqs),
         written[Peer(e)] = 0 \/ written'[e] = 0,
         written'[e] = 0 /\ written[Peer(e)] = 0 => written[e] = 0 /\ KeepsCount(conn[e], d)
  PROVE  Data'
  <1> DEFINE p == Peer(e)
             sent == net[e] \o iqs
  <1>1. /\ p \in End /\ Peer(p) = e /\ \A q \in End : q = e \/ q = p
        /\ conn'[e] = d /\ conn'[p] = conn[p]
        /\ net'[e] = sent \/ net'[e] = net[e] \o <<>>
        /\ d \in Connections /\ iqs \in Seq(IQs)
    BY Ends2 DEF Ordinary, Goes
  \* What has not been sent is not on its way.
  <1>2. Blocks(net'[e]) \subseteq Blocks(sent) /\ Results(net'[e]) \subseteq Results(sent)
    <2>1. net[e] \in Seq(IQs) /\ net[e] \o <<>> = net[e]
      BY BaseState, NoFurtherIQ
    <2>2. Blocks(net[e]) \subseteq Blocks(sent) /\ Results(net[e]) \subseteq Results(sent)
      BY <1>1, <2>1, BlocksOfConcat, ConcatParts
    <2>3. net'[e] = sent \/ net'[e] = net[e]
      BY <1>1, <2>1
    <2> QED
      BY <2>2, <2>3
  <1>3. /\ d.writeBuf \in Seq(Nat) /\ conn[p].writeBuf \in Seq(Nat)
        /\ written'[e] \in Nat /\ confirmed'[e] \in Nat /\ received[p] \in Seq(Nat)
        /\ written[p] \in Nat /\ confirmed[p] \in Nat /\ received'[e] \in Seq(Nat)
    BY <1>1, ConnectionFields DEF Base, TypeOK
  <1> HIDE DEF p, sent
  <1>4. Flows'
    <2>1. Flow(conn'[e], written'[e], confirmed'[e], received'[p], net'[e], net'[p])
      <3>1. Flow(d, written'[e], confirmed'[e], received[p], sent, net'[p])
        BY DEF p, sent
      <3>2. Flow(d, written'[e], confirmed'[e], received[p], net'[e], net'[p])
        BY <1>2, <1>3, <3>1, FlowStays
      <3> QED
        BY <1>1, <3>2 DEF p
    <2>2. Flow(conn'[p], written'[p], confirmed'[p], received'[e], net'[p], net'[e])
      <3>1. Flow(conn[p], written[p], confirmed[p], received'[e], net'[p], sent)
        BY DEF p, sent
      <3>2. Flow(conn[p], written[p], confirmed[p], received'[e], net'[p], net'[e])
        BY <1>2, <1>3, <3>1, FlowStays
      <3> QED
        BY <1>1, <3>2 DEF p
    <2>3. Peer(e) = p
      BY DEF p
    <2> QED
      BY <1>1, <2>1, <2>2, <2>3 DEF Flows
  <1>5. Syncs'
    <2>1. written'[p] = 0 => Synced(conn'[e], conn'[p], net'[e], net'[p])
      <3>1. written'[p] = 0 => Synced(d, conn[p], sent, net'[p])
        BY DEF p, sent
      <3>2. written'[p] = 0 => Synced(d, conn[p], net'[e], net'[p])
        BY <1>2, <3>1, SyncedStays
      <3> QED
        BY <1>1, <3>2
    <2>2. written'[e] = 0 => Synced(conn'[p], conn'[e], net'[p], net'[e])
      <3>1. written'[e] = 0 => Synced(conn[p], d, net'[p], sent)
        BY DEF p, sent
      <3>2. written'[e] = 0 => Synced(conn[p], d, net'[p], net'[e])
        BY <1>2, <3>1, SyncedStays
      <3> QED
        BY <1>1, <3>2
    <2>3. Peer(e) = p
      BY DEF p
    <2> QED
      BY <1>1, <2>1, <2>2, <2>3 DEF Syncs
  <1>6. OneWay'
    BY <1>1 DEF OneWay, p
  <1>7. Uncounted'
    <2>1. ASSUME \A q \in End : written'[q] = 0
          PROVE  \A q \in End : conn'[q].state # "Idle" => conn'[q].seq = 0
      <3>1. written'[e] = 0 /\ written[p] = 0 /\ written[e] = 0 /\ KeepsCount(conn[e], d)
        BY <1>1, <2>1 DEF p
      <3>2. \A q \in End : conn[q].state # "Idle" => conn[q].seq = 0
        BY <1>1, <3>1 DEF Data, Uncounted
      <3> QED
        BY <1>1, <3>1, <3>2 DEF KeepsCount
    <2> QED
      BY <2>1 DEF Uncounted
  <1> QED
    BY <1>4, <1>5, <1>6, <1>7 DEF Data

(* The same when e reads nothing: the direction to e keeps its account.    *)
LEMMA DataQuiet ==
  ASSUME Base, Base', Data, NEW e \in End, NEW d, NEW iqs, NEW takes \in BOOLEAN,
         Ordinary(e, d, iqs, takes), UNCHANGED received,
         written'[Peer(e)] = written[Peer(e)], confirmed'[Peer(e)] = confirmed[Peer(e)],
         Flow(d, written'[e], confirmed'[e], received[Peer(e)], net[e] \o iqs, net'[Peer(e)]),
         written[Peer(e)] = 0 => Synced(d, conn[Peer(e)], net[e] \o iqs, net'[Peer(e)]),
         conn[Peer(e)].state = "Active" /\ conn[Peer(e)].task.mode = "data" => Results(iqs) = {},
         written[Peer(e)] = 0 \/ written'[e] = 0,
         written'[e] = 0 => written[e] = 0 /\ KeepsCount(conn[e], d)
  PROVE  Data'
  <1> DEFINE p == Peer(e)
             c == conn[p]
  <1>1. p \in End /\ Peer(p) = e
    BY Ends2
  <1>2. /\ c \in Connections /\ net[p] \in Seq(IQs) /\ net[e] \in Seq(IQs) /\ iqs \in Seq(IQs)
        /\ written[p] \in Nat /\ confirmed[p] \in Nat /\ received[e] \in Seq(Nat)
        /\ Flow(c, written[p], confirmed[p], received[e], net[p], net[e])
        /\ written[e] = 0 => Synced(c, conn[e], net[p], net[e])
    BY <1>1, DataState DEF Ordinary
  <1>3. Blocks(net'[p]) \subseteq Blocks(net[p])
    BY <1>2, BlocksOfPart DEF Ordinary
  <1>4. c.state = "Active" /\ c.task.mode = "data" => Results(net[e] \o iqs) \subseteq Results(net[e])
    BY <1>2, ConcatParts
  <1>5. c.writeBuf \in Seq(Nat)
    BY <1>2, ConnectionFields
  <1> HIDE DEF c
  <1>6. Flow(c, written[p], confirmed[p], received[e], net'[p], net[e] \o iqs)
    BY <1>2, <1>3, <1>4, <1>5, FlowStays
  <1>7. written'[e] = 0 => Synced(c, d, net'[p], net[e] \o iqs)
    <2>1. ASSUME written'[e] = 0
          PROVE  Synced(c, d, net'[p], net[e] \o iqs)
      <3>1. Synced(c, conn[e], net[p], net[e])
        BY <1>2, <2>1
      <3>2. d.state # "Idle" => conn[e].state # "Idle" /\ d.seq = conn[e].seq
        BY <2>1 DEF KeepsCount
      <3> QED
        BY <1>3, <1>4, <3>1, <3>2, SyncedStays
    <2> QED
      BY <2>1
  <1> QED
    BY <1>6, <1>7, DataOrdinary DEF c

(* The direction from an end that sends no block.                          *)
LEMMA OwnKeeps ==
  ASSUME Base, Data, NEW e \in End, NEW d, NEW iqs, NEW takes \in BOOLEAN,
         Ordinary(e, d, iqs, takes), Blocks(iqs) = {},
         \/ d.state = "Idle" /\ d.writeBuf = <<>>
         \/ /\ d.state = conn[e].state /\ d.writeBuf = conn[e].writeBuf
            /\ d.task = conn[e].task /\ d.tasks = conn[e].tasks
  PROVE  /\ Flow(d, written[e], confirmed[e], received[Peer(e)], net[e] \o iqs, net'[Peer(e)])
         /\ written[Peer(e)] = 0 /\ (d.state = "Idle" \/ d.seq = conn[e].seq)
              => Synced(d, conn[Peer(e)], net[e] \o iqs, net'[Peer(e)])
  <1> DEFINE c == conn[e]
             out == net[e] \o iqs
             in == net'[Peer(e)]
  <1>1. /\ c \in Connections /\ c.writeBuf \in Seq(Nat) /\ net[e] \in Seq(IQs)
        /\ net[Peer(e)] \in Seq(IQs) /\ iqs \in Seq(IQs)
        /\ written[e] \in Nat /\ confirmed[e] \in Nat /\ received[Peer(e)] \in Seq(Nat)
        /\ Flow(c, written[e], confirmed[e], received[Peer(e)], net[e], net[Peer(e)])
        /\ written[Peer(e)] = 0 => Synced(c, conn[Peer(e)], net[e], net[Peer(e)])
    BY DataState, ConnectionFields DEF Ordinary
  <1>2. Blocks(out) \subseteq Blocks(net[e])
    BY <1>1, BlocksOfConcat
  <1>3. Results(in) \subseteq Results(net[Peer(e)])
    BY <1>1, RangeOfTail DEF Ordinary, Results
  <1> HIDE DEF c, out, in
  <1>4. Flow(d, written[e], confirmed[e], received[Peer(e)], out, in)
    BY <1>1, <1>2, <1>3, FlowStays DEF c
  <1>5. ASSUME written[Peer(e)] = 0, d.state = "Idle" \/ d.seq = c.seq
        PROVE  Synced(d, conn[Peer(e)], out, in)
    <2>1. Synced(c, conn[Peer(e)], net[e], net[Peer(e)])
      BY <1>1, <1>5
    <2>2. d.state = "Active" =>
            /\ c.state = "Active" /\ d.seq = c.seq /\ d.task = c.task /\ d.tasks = c.tasks
      BY <1>5 DEF c
    <2> QED
      BY <1>2, <1>3, <2>1, <2>2, SyncedStays
  <1> QED
    BY <1>4, <1>5 DEF c, out, in

(* An end that sends no block and reads none.                              *)
LEMMA DataIdle ==
  ASSUME Base, Base', Data, NEW e \in End, NEW d, NEW iqs, NEW takes \in BOOLEAN,
         Ordinary(e, d, iqs, takes), Blocks(iqs) = {}, UNCHANGED <<written, confirmed, received>>,
         \/ d.state = "Idle" /\ d.writeBuf = <<>>
         \/ d = conn[e],
         conn[Peer(e)].state = "Active" /\ conn[Peer(e)].task.mode = "data" => Results(iqs) = {}
  PROVE  Data'
  <1>1. /\ Flow(d, written'[e], confirmed'[e], received[Peer(e)], net[e] \o iqs, net'[Peer(e)])
        /\ written[Peer(e)] = 0 => Synced(d, conn[Peer(e)], net[e] \o iqs, net'[Peer(e)])
    BY OwnKeeps
  <1>2. written[Peer(e)] = 0 \/ written'[e] = 0
    BY Ends2 DEF Data, OneWay
  <1>3. KeepsCount(conn[e], d)
    BY DEF KeepsCount
  <1> QED
    BY <1>1, <1>2, <1>3, DataQuiet

(* Until something is written, trySend and close() count no block.         *)
LEMMA CountKept ==
  ASSUME NEW c \in Connections, NEW cf, NEW r \in Seq(Nat), NEW out, NEW in,
         Flow(c, 0, cf, r, out, in), Shape(c), c.alive
  PROVE  KeepsCount(c, TrySend(c)) /\ KeepsCount(c, Closed(c)) /\ c.writeBuf = <<>>
  <1>1. c.writeBuf = <<>>
    <2>1. c.writeBuf \in Seq(Nat) /\ Len(r) \in Nat
      BY ConnectionFields
    <2>2. Len(r) + Len(c.writeBuf) <= 0 /\ Len(c.writeBuf) \in Nat
      BY <2>1 DEF Flow
    <2>3. Len(c.writeBuf) = 0
      BY <2>1, <2>2
    <2> QED
      BY <2>1, <2>3
  <1>2. ASSUME NEW b \in Connections, b.writeBuf = <<>>
        PROVE  TrySend(b).seq = b.seq /\ TrySend(b).state = b.state
    <2>1. ~SendsBlock(b)
      BY <1>2 DEF SendsBlock
    <2>2. SameRole(b, TrySend(b)) /\ TrySend(b).seq = b.seq
      BY <2>1, TrySendIs
    <2> QED
      BY <2>2 DEF SameRole
  <1>3. KeepsCount(c, TrySend(c))
    BY <1>1, <1>2 DEF KeepsCount
  <1>4. KeepsCount(c, Closed(c))
    <2>1. c.state \in {"Idle", "Requesting", "WaitingForAccept", "Active"}
      BY ConnectionFields
    <2>2. Reset(c).state = "Idle"
      BY ResetIs
    <2>3. /\ Pending(c) \in Connections /\ Pending(c).writeBuf = <<>>
          /\ Pending(c).seq = c.seq /\ Pending(c).state = c.state
      BY <1>1, PendingIs DEF SameRole
    <2>4. TrySend(Pending(c)).seq = c.seq
      BY <1>2, <2>3
    <2>5. \/ Closed(c) = c \/ Closed(c) = Reset(c)
          \/ c.state = "Active" /\ Closed(c) = TrySend(Pending(c))
      BY <2>1, ClosedIs
    <2> QED
      BY <2>2, <2>4, <2>5 DEF KeepsCount
  <1> QED
    BY <1>1, <1>3, <1>4

-----------------------------------------------------------------------------
(* The owner's calls keep the account of an owner that does not write      *)
(* while its peer does.                                                    *)
LEMMA OwnerData ==
  ASSUME ~Duplex, Base, Base', Data, NEW e \in End, Owner(e)
  PROVE  Data'
  <1> DEFINE c == conn[e]
             p == Peer(e)
             out == net[e]
             in == net[p]
             r == received[p]
  <1>1. /\ TypeOK /\ Shapes /\ c \in Connections /\ Shape(c) /\ out \in Seq(IQs) /\ in \in Seq(IQs)
        /\ Wire(c, out, in) /\ written[e] \in Nat /\ confirmed[e] \in Nat /\ r \in Seq(Nat)
        /\ Flow(c, written[e], confirmed[e], r, out, in)
        /\ written[p] = 0 => Synced(c, conn[p], out, in)
        /\ c.writeBuf \in Seq(Nat)
    BY DataState, ConnectionFields
  <1>2. written[p] = 0 \/ written[e] = 0
    BY Ends2 DEF Data, OneWay
  <1>3. CASE WriteData(e)
    <2>1. PICK n \in 1..(MaxBytes - written[e]) :
            /\ written' = [written EXCEPT ![e] = @ + n]
            /\ Becomes(e, TrySend(Filled(c, written[e], n)), Sends(Filled(c, written[e], n)))
      BY <1>3, Zenon DEF WriteData, Filled
    <2>2. /\ c.alive /\ c.state = "Active" /\ ~c.closePending /\ ~c.closing
          /\ UNCHANGED <<stream, confirmed, received, ended, failures>> /\ written[p] = 0
      BY <1>3 DEF WriteData
    <2> DEFINE b == Filled(c, written[e], n)
               w == written[e] + n
    <2>3. /\ Ordinary(e, TrySend(b), Sends(b), FALSE) /\ Shape(b) /\ b.alive
          /\ written'[e] = w /\ written'[p] = written[p]
      BY <1>1, <2>1, <2>2, WriteDataIs
    <2>4. n \in Nat /\ n >= 1 /\ w \in Nat /\ w # 0
      BY <1>1
    <2>5. /\ b \in Connections /\ b.state = c.state /\ b.tasks = c.tasks /\ b.task = c.task
          /\ b.seq = c.seq
      <3>1. c \in Connections /\ written[e] \in Nat /\ n \in Nat
        BY <1>1, <2>4
      <3> HIDE DEF c
      <3>2. /\ b \in Connections /\ SameRole(c, b)
            /\ b.seq = c.seq /\ b.task = c.task /\ b.tasks = c.tasks
        BY <3>1, FilledIs
      <3> HIDE DEF b
      <3> QED
        BY <3>2 DEF SameRole
    <2>6. Flow(b, w, confirmed[e], r, out, in)
      BY <1>1, <2>2, <2>4, FlowFilled
    <2> HIDE DEF b, w
    <2>7. Wire(b, out, in) /\ Synced(b, conn[p], out, in)
      BY <1>1, <2>2, <2>5, WireShrinks, SyncedStays DEF Wire
    <2>8. /\ Flow(TrySend(b), w, confirmed[e], r, out \o Sends(b), in)
          /\ Synced(TrySend(b), conn[p], out \o Sends(b), in)
          /\ Results(Sends(b)) = {}
      BY <1>1, <2>3, <2>4, <2>5, <2>6, <2>7, FlowTrySend, SyncedTrySend, WireTrySend
    <2>9. net'[p] = in
      BY <2>3 DEF Ordinary
    <2> QED
      BY <2>2, <2>3, <2>4, <2>8, <2>9, DataQuiet
  <1>4. CASE CloseConnection(e)
    <2>1. /\ Ordinary(e, Closed(c), CloseSends(c), FALSE) /\ c.alive /\ c.state # "Idle"
          /\ UNCHANGED <<written, confirmed, received>>
      BY <1>1, <1>4, CloseConnectionIs DEF CloseConnection
    <2>2. /\ Flow(Closed(c), written[e], confirmed[e], r, out \o CloseSends(c), in)
          /\ written[p] = 0 => Synced(Closed(c), conn[p], out \o CloseSends(c), in)
          /\ Results(CloseSends(c)) = {}
      BY <1>1, <2>1, FlowClosed, SyncedClosed, WireClosed
    <2>3. net'[p] = in
      BY <2>1 DEF Ordinary
    <2>4. written[e] = 0 => KeepsCount(c, Closed(c))
      BY <1>1, <2>1, CountKept
    <2> QED
      BY <1>2, <2>1, <2>2, <2>3, <2>4, DataQuiet
  <1>5. CASE Destroy(e)
    <2> DEFINE b == Emptied(c)
               d == Dead(b)
    <2>1. /\ Ordinary(e, d, CloseSends(b), FALSE) /\ Shape(b) /\ c.alive
          /\ UNCHANGED <<written, confirmed, received>>
      BY <1>1, <1>5, DestroyIs DEF Destroy
    <2>2. d.state = "Idle" /\ d.writeBuf = <<>>
      BY <1>1, DeadIs
    <2>3. Blocks(CloseSends(b)) = {}
      BY <1>1, EmptiedSendsNoBlock
    <2>4. b \in Connections /\ b.state = c.state /\ b.tasks = c.tasks /\ b.task = c.task /\ b.alive = c.alive
      BY <1>1, EmptiedIs DEF SameRole
    <2> HIDE DEF b, d
    <2>5. Wire(b, out, in)
      BY <1>1, <2>4, WireShrinks DEF Wire
    <2>6. Results(CloseSends(b)) = {}
      BY <1>1, <2>1, <2>4, <2>5, WireClosed
    <2> QED
      BY <2>1, <2>2, <2>3, <2>6, DataIdle
  <1> QED
    BY <1>3, <1>4, <1>5 DEF Owner

(* A block that the receiver's connection takes is the next one, and one   *)
(* that it cannot take has no sender that still waits for it.              *)
LEMMA TakeData ==
  ASSUME Base, Base', Data, NEW e \in End, TakeIncomingData(e)
  PROVE  Data'
  <1> DEFINE c == conn[e]
             p == Peer(e)
             q == conn[p]
             m == Head(net[p])
             r == received[e]
  <1>1. /\ TypeOK /\ Shapes /\ c \in Connections /\ Shape(c) /\ c.iq_id \in Nat
        /\ net[e] \in Seq(IQs) /\ net[p] \in Seq(IQs)
        /\ p \in End /\ Peer(p) = e
    BY DataState, ConnectionFields, Ends2
  <1>2. /\ q \in Connections /\ Shape(q) /\ Wire(q, net[p], net[e])
        /\ written[p] \in Nat /\ confirmed[p] \in Nat /\ r \in Seq(Nat)
        /\ Flow(q, written[p], confirmed[p], r, net[p], net[e])
        /\ written[e] = 0 => Synced(q, c, net[p], net[e])
    BY <1>1, DataState
  <1>3. /\ m.type = "data" /\ net[p] # <<>> /\ UNCHANGED <<written, confirmed, ended>>
        /\ \/ ~c.linked /\ Ordinary(e, c, <<Error(m.id)>>, TRUE) /\ UNCHANGED received
           \/ /\ c.linked /\ ~Expected(c, m) /\ UNCHANGED received
              /\ Ordinary(e, c, <<Result(m.id), Error(c.iq_id)>>, TRUE)
           \/ /\ c.linked /\ c.state = "Active" /\ Expected(c, m)
              /\ received' = [received EXCEPT ![e] = @ \o m.data]
              /\ Ordinary(e, Counted(c), <<Result(m.id)>>, TRUE)
    BY <1>1, TakeIncomingDataIs
  <1>4. m \in Blocks(net[p]) /\ m.id \in Nat /\ Len(m.data) \in Nat
    BY <1>1, <1>3, BlocksOfPart, BlockIs
  <1>5. Len(m.data) \in 1..BlockSize /\ Len(r) + Len(m.data) <= written[p]
    BY <1>2, <1>4 DEF Flow
  <1>6. written[p] # 0 /\ written[e] = 0
    <2>1. written[p] >= 1
      <3>1. \A x, y, z \in Nat : y >= 1 /\ x + y <= z => z >= 1
        OBVIOUS
      <3>2. Len(r) \in Nat /\ Len(m.data) >= 1
        BY <1>2, <1>5
      <3> QED
        BY <1>2, <1>4, <1>5, <3>1, <3>2
    <2>2. written[p] # 0
      BY <1>2, <2>1
    <2> QED
      BY <2>2, Ends2 DEF Data, OneWay
  <1>7. /\ Blocks(<<Error(m.id)>>) = {} /\ Results(<<Error(m.id)>>) = {}
        /\ Blocks(<<Result(m.id), Error(c.iq_id)>>) = {} /\ Blocks(<<Result(m.id)>>) = {}
    <2>1. /\ <<Error(m.id)>> \in Seq(IQs) /\ <<Result(m.id), Error(c.iq_id)>> \in Seq(IQs)
          /\ <<Result(m.id)>> \in Seq(IQs)
          /\ Requests(<<Error(m.id)>>) = {} /\ Requests(<<Result(m.id), Error(c.iq_id)>>) = {}
          /\ Requests(<<Result(m.id)>>) = {} /\ Results(<<Error(m.id)>>) = {}
      BY <1>1, <1>4, AnswerParts
    <2> QED
      BY <2>1, BlocksOfPart
  <1>8. CASE ~c.linked /\ Ordinary(e, c, <<Error(m.id)>>, TRUE) /\ UNCHANGED received
    BY <1>3, <1>7, <1>8, DataIdle
  <1>9. CASE /\ c.linked /\ ~Expected(c, m) /\ UNCHANGED received
             /\ Ordinary(e, c, <<Result(m.id), Error(c.iq_id)>>, TRUE)
    <2>1. c.state = "Active"
      BY <1>1, <1>9 DEF TakeIncomingData, Incoming, Shape
    <2>2. q.state # "Active"
      <3>1. q.state = "Active" => m.seq = c.seq
        BY <1>2, <1>4, <1>6, <2>1 DEF Synced
      <3>2. Len(m.data) <= BlockSize
        BY <1>5, SpaceAssumption
      <3> QED
        BY <1>9, <3>1, <3>2 DEF Expected
    <2> QED
      BY <1>3, <1>7, <1>9, <2>2, DataIdle
  <1>10. CASE /\ c.linked /\ c.state = "Active" /\ Expected(c, m)
              /\ received' = [received EXCEPT ![e] = @ \o m.data]
              /\ Ordinary(e, Counted(c), <<Result(m.id)>>, TRUE)
    <2> DEFINE d == Counted(c)
               in2 == net[e] \o <<Result(m.id)>>
    <2>1. /\ d.state = c.state /\ d.writeBuf = c.writeBuf /\ d.task = c.task /\ d.tasks = c.tasks
          /\ d.seq = (c.seq + 1) % SeqSpace
      BY <1>1, CountedIs DEF SameRole
    <2>2. received'[e] = r \o m.data /\ received'[p] = received[p]
      BY <1>1, <1>10, Ends2 DEF TypeOK
    <2>3. net'[p] = Tail(net[p])
      BY <1>10 DEF Ordinary
    <2>4. Flow(d, written[e], confirmed[e], received[p], in2, net'[p])
      BY <1>7, <1>10, <2>1, OwnKeeps
    <2>5. Flow(q, written[p], confirmed[p], r \o m.data, Tail(net[p]), in2)
      BY <1>2, <1>1, <1>3, FlowDelivered
    <2>6. Synced(q, d, Tail(net[p]), in2)
      BY <1>1, <1>2, <1>3, <1>6, <1>10, <2>1, SyncedDelivered
    <2> HIDE DEF d, in2
    <2>7. /\ Flow(d, written'[e], confirmed'[e], received[p], in2, net'[p])
          /\ Flow(q, written[p], confirmed[p], received'[e], net'[p], in2)
          /\ Synced(q, d, net'[p], in2)
      BY <1>3, <2>2, <2>3, <2>4, <2>5, <2>6
    <2>8. /\ written'[p] = written[p] /\ confirmed'[p] = confirmed[p] /\ written'[e] = 0
      BY <1>3, <1>6
    <2> QED
      BY <1>6, <1>10, <2>2, <2>7, <2>8, DataOrdinary DEF d, in2
  <1> QED
    BY <1>3, <1>8, <1>9, <1>10

(* What arrives at end e, and its timers.                                  *)
LEMMA EventLoopData ==
  ASSUME Base, Base', Data, NEW e \in End, EventLoop(e)
  PROVE  Data'
  <1> DEFINE c == conn[e]
             p == Peer(e)
             m == Head(net[p])
             out == net[e]
             in == net[p]
             r == received[p]
  <1>1. /\ TypeOK /\ Shapes /\ c \in Connections /\ Shape(c) /\ out \in Seq(IQs) /\ in \in Seq(IQs)
        /\ Wire(c, out, in) /\ written[e] \in Nat /\ confirmed[e] \in Nat /\ r \in Seq(Nat)
        /\ Flow(c, written[e], confirmed[e], r, out, in)
        /\ written[p] = 0 => Synced(c, conn[p], out, in)
        /\ p \in End /\ Peer(p) = e
    BY DataState, Ends2
  <1>2. written[p] = 0 \/ written[e] = 0
    BY Ends2 DEF Data, OneWay
  <1>3. /\ Reset(c).state = "Idle" /\ Reset(c).writeBuf = <<>>
        /\ Blocks(<<>>) = {} /\ Results(<<>>) = {}
    BY <1>1, ResetIs, RangeOfNone DEF Blocks, Results
  <1>4. CASE TakeIncomingData(e)
    BY <1>4, TakeData
  <1>5. CASE CloseRequest(e)
    <2>1. /\ m.type = "close" /\ in # <<>> /\ UNCHANGED <<written, confirmed, received>>
          /\ \/ Ordinary(e, c, <<Error(m.id)>>, TRUE)
             \/ Ordinary(e, Reset(c), <<Result(m.id)>>, TRUE)
      BY <1>1, <1>5, CloseRequestIs
    <2>2. m \in Requests(in) /\ m.id \in Nat
      <3>1. m \in Range(in) /\ m \in IQs
        BY <1>1, <2>1, RangeOfTail
      <3> QED
        BY <2>1, <3>1 DEF Requests, Request, IQs
    <2>3. conn[p].state = "Active" => conn[p].task.mode # "data"
      <3>1. Wire(conn[p], in, out)
        BY <1>1, DataState
      <3> QED
        BY <2>1, <2>2, <3>1 DEF Wire
    <2>4. Blocks(<<Error(m.id)>>) = {} /\ Blocks(<<Result(m.id)>>) = {}
      <3>1. /\ <<Error(m.id)>> \in Seq(IQs) /\ Requests(<<Error(m.id)>>) = {}
            /\ <<Result(m.id)>> \in Seq(IQs) /\ Requests(<<Result(m.id)>>) = {}
        BY <2>2, AnswerParts
      <3> QED
        BY <3>1, BlocksOfPart
    <2> QED
      BY <1>3, <2>1, <2>3, <2>4, DataIdle
  <1>6. CASE Unexpected(e)
    <2>1. Ordinary(e, c, <<>>, TRUE) /\ UNCHANGED <<written, confirmed, received>>
      BY <1>1, <1>6, UnexpectedIs
    <2> QED
      BY <1>3, <2>1, DataIdle
  <1>7. CASE TaskSucceeds(e)
    <2> DEFINE d == Succeeded(c)
               n == confirmed[e] + c.task.bytes
    <2>1. /\ Ordinary(e, d, <<>>, TRUE) /\ c.task # NoTask /\ (c.task.mode = "open" => ~c.closing)
          /\ in # <<>> /\ m.type = "result" /\ m.id = c.tasks
          /\ UNCHANGED <<written, received>>
          /\ confirmed' = [confirmed EXCEPT ![e] = @ + c.task.bytes]
      BY <1>1, <1>7, TaskSucceedsIs
    <2>2. confirmed'[e] = n /\ confirmed'[p] = confirmed[p] /\ out \o <<>> = out
          /\ net'[p] = Tail(in)
      BY <1>1, <2>1, Ends2, NoFurtherIQ DEF TypeOK, Ordinary
    <2>3. Flow(d, written[e], n, r, out, Tail(in))
      BY <1>1, <2>1, FlowSucceeded
    <2>4. written[p] = 0 => Synced(d, conn[p], out, Tail(in))
      <3>1. written[p] = 0 /\ c.state = "Requesting" /\ conn[p].state # "Idle" => conn[p].seq = 0
        <4>1. c.state = "Requesting" => written[e] = 0
          BY <1>1 DEF Flow
        <4> QED
          BY <1>1, <4>1, Ends2 DEF Data, Uncounted
      <3> QED
        BY <1>1, <2>1, <3>1, SyncedSucceeded
    <2>5. KeepsCount(c, d)
      <3>1. c.task.mode = "open" \/ ~c.closing => d.seq = c.seq
        BY <1>1, <2>1, SucceededIs
      <3>2. c.task.mode # "open" /\ c.closing => d = Reset(c)
        BY <1>1, <2>1, SucceededIs
      <3>3. c.state # "Idle"
        BY <1>1, <2>1 DEF Shape
      <3> QED
        BY <1>3, <3>1, <3>2, <3>3 DEF KeepsCount
    <2> HIDE DEF d, n
    <2> QED
      BY <1>2, <1>3, <2>1, <2>2, <2>3, <2>4, <2>5, DataQuiet
  <1>8. CASE TaskRefused(e)
    <2>1. Ordinary(e, Reset(c), <<>>, TRUE) /\ UNCHANGED <<written, confirmed, received>>
      BY <1>1, <1>8, TaskRefusedIs
    <2> QED
      BY <1>3, <2>1, DataIdle
  <1>9. CASE TaskTimesOut(e)
    <2>1. Ordinary(e, Reset(c), <<>>, FALSE) /\ UNCHANGED <<written, confirmed, received>>
      BY <1>1, <1>9, TaskTimesOutIs
    <2> QED
      BY <1>3, <2>1, DataIdle
  <1>10. CASE TimerFires(e)
    <2> DEFINE b == Fired(c)
    <2>1. /\ Ordinary(e, TrySend(b), Sends(b), FALSE) /\ c.alive /\ Shape(b)
          /\ UNCHANGED <<written, confirmed, received>>
      BY <1>1, <1>10, TimerFiresIs
    <2>2. /\ b \in Connections /\ b.alive = c.alive /\ b.state = c.state /\ b.seq = c.seq
          /\ b.task = c.task /\ b.tasks = c.tasks /\ b.writeBuf = c.writeBuf
      BY <1>1, FiredIs
    <2> HIDE DEF b
    <2>3. /\ Wire(b, out, in) /\ Flow(b, written[e], confirmed[e], r, out, in)
          /\ written[p] = 0 => Synced(b, conn[p], out, in)
      <3>1. c.writeBuf \in Seq(Nat)
        BY <1>1, ConnectionFields
      <3>2. Wire(b, out, in)
        BY <1>1, <2>2, WireShrinks DEF Wire
      <3>3. Flow(b, written[e], confirmed[e], r, out, in)
        BY <1>1, <2>2, <3>1, FlowStays
      <3>4. written[p] = 0 => Synced(b, conn[p], out, in)
        BY <1>1, <2>2, SyncedStays
      <3> QED
        BY <3>2, <3>3, <3>4
    <2>4. /\ Flow(TrySend(b), written[e], confirmed[e], r, out \o Sends(b), in)
          /\ written[p] = 0 => Synced(TrySend(b), conn[p], out \o Sends(b), in)
          /\ Results(Sends(b)) = {}
      BY <1>1, <2>1, <2>2, <2>3, FlowTrySend, SyncedTrySend, WireTrySend
    <2>5. written[e] = 0 => KeepsCount(c, TrySend(b))
      <3>1. written[e] = 0 => KeepsCount(b, TrySend(b))
        BY <1>1, <2>1, <2>2, <2>3, CountKept
      <3> QED
        BY <2>2, <3>1 DEF KeepsCount
    <2>6. net'[p] = in
      BY <2>1 DEF Ordinary
    <2> QED
      BY <1>2, <2>1, <2>4, <2>5, <2>6, DataQuiet
  <1> QED
    BY <1>4, <1>5, <1>6, <1>7, <1>8, <1>9, <1>10 DEF EventLoop

(* A lost stream leaves what has been read; an end that goes on has lost   *)
(* nothing of its account.                                                 *)
LEMMA NetworkData ==
  ASSUME Base, Data, NEW e \in End, Cuts(e)
  PROVE  Data'
  <1>1. /\ UNCHANGED <<written, confirmed, received>>
        /\ \A q \in End : Range(net'[q]) \subseteq Range(net[q])
        /\ conn'[Peer(e)] = conn[Peer(e)]
        /\ conn'[e] = Reset(conn[e]) \/ conn'[e] = Crashed(conn[e]) \/ conn'[e] = conn[e]
    BY DEF Cuts
  <1>2. \A q \in End : \/ conn'[q] = conn[q] \/ conn'[q] = Reset(conn[q])
                       \/ conn'[q] = Crashed(conn[q])
    BY <1>1, Ends2
  <1>3. ASSUME NEW q \in End
        PROVE  /\ Flow(conn'[q], written'[q], confirmed'[q], received'[Peer(q)], net'[q], net'[Peer(q)])
               /\ written'[Peer(q)] = 0
                    => Synced(conn'[q], conn'[Peer(q)], net'[q], net'[Peer(q)])
               /\ KeepsCount(conn[q], conn'[q])
    <2> DEFINE c == conn[q]
               p == Peer(q)
    <2>1. /\ c \in Connections /\ c.writeBuf \in Seq(Nat) /\ conn[p] \in Connections /\ p \in End
          /\ written[q] \in Nat /\ confirmed[q] \in Nat /\ received[p] \in Seq(Nat)
          /\ Flow(c, written[q], confirmed[q], received[p], net[q], net[p])
          /\ written[p] = 0 => Synced(c, conn[p], net[q], net[p])
      BY DataState, ConnectionFields, Ends2
    <2>2. /\ Blocks(net'[q]) \subseteq Blocks(net[q]) /\ Results(net'[p]) \subseteq Results(net[p])
      BY <1>1, <2>1 DEF Blocks, Results
    <2>3. /\ Reset(c).state = "Idle" /\ Reset(c).writeBuf = <<>> /\ Reset(conn[p]).state = "Idle"
          /\ Crashed(c).state = "Idle" /\ Crashed(c).writeBuf = <<>>
          /\ Crashed(conn[p]).state = "Idle"
      BY <2>1, ResetIs, CrashedIs
    <2>4. /\ conn'[q] = c \/ (conn'[q].state = "Idle" /\ conn'[q].writeBuf = <<>>)
          /\ conn'[p] = conn[p] \/ conn'[p].state = "Idle"
      <3>1. conn'[q] = c \/ conn'[q] = Reset(c) \/ conn'[q] = Crashed(c)
        BY <1>2
      <3>2. conn'[p] = conn[p] \/ conn'[p] = Reset(conn[p]) \/ conn'[p] = Crashed(conn[p])
        BY <1>2, <2>1
      <3>3. conn'[q] = c \/ (conn'[q].state = "Idle" /\ conn'[q].writeBuf = <<>>)
        BY <2>3, <3>1, Zenon
      <3>4. conn'[p] = conn[p] \/ conn'[p].state = "Idle"
        BY <2>3, <3>2, Zenon
      <3> QED
        BY <3>3, <3>4
    <2>5. Flow(conn'[q], written[q], confirmed[q], received[p], net'[q], net'[p])
      BY <2>1, <2>2, <2>4, FlowStays
    <2>6. written[p] = 0 => Synced(conn'[q], conn'[p], net'[q], net'[p])
      BY <2>1, <2>2, <2>4, SyncedStays
    <2> QED
      BY <1>1, <2>4, <2>5, <2>6 DEF KeepsCount
  <1>4. Flows' /\ Syncs'
    BY <1>3 DEF Flows, Syncs
  <1>5. OneWay' /\ Uncounted'
    BY <1>1, <1>3 DEF Data, OneWay, Uncounted, KeepsCount
  <1> QED
    BY <1>4, <1>5 DEF Data

(* While a stream is being opened nothing has been written.                *)
LEMMA OpeningData ==
  ASSUME Base, Base', Data, ConnectToJid \/ IncomingRequest \/ Accept
  PROVE  Data'
  <1>1. NothingSent' /\ (\A q \in End : Blocks(net'[q]) = {})
        /\ conn'["initiator"].state \in {"Idle", "Requesting"}
        /\ (conn'["responder"].state = "Active" => conn'["responder"].seq = 0)
    <2>1. CASE ConnectToJid
      <3>1. OpenUnderWay'
        BY <2>1, ConnectToJidIs DEF Base
      <3>2. Blocks(<<OpenIQ(1)>>) = {} /\ Blocks(<<>>) = {}
        BY RangeOfOne, RangeOfNone DEF Blocks, OpenIQ
      <3>3. \A q \in End : net'[q] = <<OpenIQ(1)>> \/ net'[q] = <<>>
        BY <3>1, TwoEnds DEF OpenUnderWay
      <3>4. Fresh.state = "Idle"
        BY DEF Fresh
      <3> QED
        BY <3>1, <3>2, <3>3, <3>4 DEF OpenUnderWay, HasAsked
    <2>2. CASE IncomingRequest
      <3>1. OpenHeld'
        BY <2>2, IncomingRequestIs DEF Base
      <3>2. Blocks(<<>>) = {} /\ \A q \in End : net'[q] = <<>>
        BY <3>1, TwoEnds, RangeOfNone DEF Blocks, OpenHeld
      <3> QED
        BY <3>1, <3>2 DEF OpenHeld, HasAsked
    <2>3. CASE Accept
      <3>1. /\ OpenHeld /\ conn'["initiator"] = conn["initiator"]
            /\ conn'["responder"] = Accepted(conn["responder"])
            /\ net'["initiator"] = <<>> /\ net'["responder"] \in {<<>>, <<Result(1)>>}
            /\ UNCHANGED <<written, confirmed, received, ended>>
        BY <2>3, AcceptIs DEF Base
      <3>2. NothingSent'
        BY <3>1, NothingSentStays DEF OpenHeld
      <3>3. Blocks(<<>>) = {} /\ Blocks(<<Result(1)>>) = {}
        BY RangeOfOne, RangeOfNone DEF Blocks, Result
      <3>4. \A q \in End : Blocks(net'[q]) = {}
        BY <3>1, <3>3, TwoEnds
      <3>5. conn'["responder"].seq = 0
        BY <3>1, BaseState, TwoEnds, AcceptedIs DEF OpenHeld, Shape
      <3> QED
        BY <3>1, <3>2, <3>4, <3>5 DEF OpenHeld, HasAsked
    <2> QED
      BY <2>1, <2>2, <2>3
  <1>2. \A q \in End : written'[q] = 0 /\ confirmed'[q] = 0 /\ received'[q] = <<>>
    BY <1>1 DEF NothingSent
  <1>3. \A q \in End : conn'[q] \in Connections /\ Shape(conn'[q])
    BY DEF Base, TypeOK, Shapes
  <1>4. Uncounted'
    <2>1. ASSUME NEW q \in End, conn'[q].state # "Idle"
          PROVE  conn'[q].seq = 0
      <3>1. conn'[q].state \in {"Idle", "Requesting", "WaitingForAccept", "Active"}
        BY <1>3, ConnectionFields
      <3>2. conn'[q].state \in {"Requesting", "WaitingForAccept"} => conn'[q].seq = 0
        BY <1>3 DEF Shape
      <3> QED
        BY <1>1, <2>1, <3>1, <3>2, TwoEnds
    <2> QED
      BY <2>1 DEF Uncounted
  <1>5. ASSUME NEW q \in End
        PROVE  conn'[q].writeBuf = <<>> /\ conn'[q].task.mode # "data"
    <2>1. CASE conn'[q].state # "Active"
      <3>1. Shape(conn'[q])
        BY <1>3
      <3>2. conn'[q].state \in {"Idle", "Requesting", "WaitingForAccept"}
        BY <1>3, <2>1, ConnectionFields
      <3> QED
        BY <2>1, <3>1, <3>2 DEF Shape, NoTask
    <2>2. CASE conn'[q].state = "Active"
      <3>1. q = "responder"
        BY <1>1, <2>2, TwoEnds
      <3>2. CASE Accept
        <4>1. /\ OpenHeld /\ conn'[q] = Accepted(conn[q])
          BY <3>1, <3>2, AcceptIs DEF Base
        <4>2. conn[q] \in Connections /\ Shape(conn[q]) /\ conn[q].state = "WaitingForAccept"
          BY <3>1, <4>1, BaseState, TwoEnds DEF OpenHeld
        <4>3. conn[q].writeBuf = <<>> /\ conn[q].task = NoTask
          BY <4>2 DEF Shape
        <4> QED
          BY <4>1, <4>2, <4>3, AcceptedIs DEF NoTask
      <3>3. CASE ConnectToJid
        <4>1. conn'["responder"] = Fresh
          BY <3>3, ConnectToJidIs DEF Base, OpenUnderWay
        <4> QED
          BY <2>2, <3>1, <4>1 DEF Fresh
      <3>4. CASE IncomingRequest
        <4>1. conn'["responder"].state = "WaitingForAccept"
          BY <3>4, IncomingRequestIs DEF Base, OpenHeld
        <4> QED
          BY <2>2, <3>1, <4>1
      <3> QED
        BY <3>2, <3>3, <3>4
    <2> QED
      BY <2>1, <2>2
  <1>6. Flows'
    BY <1>1, <1>2, <1>5, FlowBegins, Ends2 DEF Flows
  <1>7. Syncs'
    <2>1. ASSUME NEW q \in End
          PROVE  Synced(conn'[q], conn'[Peer(q)], net'[q], net'[Peer(q)])
      <3>1. conn'[q].state = "Active" /\ conn'[Peer(q)].state # "Idle"
              => conn'[q].seq = conn'[Peer(q)].seq
        BY <1>2, <1>4, Ends2 DEF Uncounted
      <3> QED
        BY <1>1, <1>5, <3>1 DEF Synced
    <2> QED
      BY <2>1 DEF Syncs
  <1>8. OneWay'
    BY <1>2, TwoEnds DEF OneWay
  <1> QED
    BY <1>4, <1>6, <1>7, <1>8 DEF Data

(* Data holds at first,                                                    *)
LEMMA DataInit ==
  ASSUME Init
  PROVE  Data
  <1>1. /\ \A q \in End : /\ conn[q] = Fresh /\ net[q] = <<>> /\ written[q] = 0
                          /\ confirmed[q] = 0 /\ received[q] = <<>>
    BY DEF Init
  <1>2. /\ Fresh.state = "Idle" /\ Fresh.writeBuf = <<>> /\ Fresh.task.mode # "data"
        /\ Blocks(<<>>) = {}
    BY RangeOfNone DEF Fresh, NoTask, Blocks
  <1>3. Flows
    BY <1>1, <1>2, FlowBegins, Ends2 DEF Flows
  <1>4. Syncs
    BY <1>1, <1>2 DEF Syncs, Synced
  <1>5. OneWay /\ Uncounted
    BY <1>1, <1>2, TwoEnds DEF OneWay, Uncounted
  <1> QED
    BY <1>3, <1>4, <1>5 DEF Data

(* and is an invariant when one end only writes.                           *)
LEMMA DataNext ==
  ASSUME ~Duplex, Base, Data, [Next]_vars
  PROVE  Data'
  <1>1. CASE ConnectToJid \/ IncomingRequest \/ Accept
    BY <1>1, OpeningData, BaseNext
  <1>2. CASE \E e \in End : Owner(e)
    BY <1>2, OwnerData, OwnerBase
  <1>3. CASE \E e \in End : EventLoop(e)
    BY <1>3, EventLoopData, EventLoopBase
  <1>4. CASE \E e \in End : Network(e)
    BY <1>4, NetworkData, NetworkBase
  <1>5. CASE UNCHANGED vars
    <2>1. UNCHANGED <<conn, net, written, confirmed, received>>
      BY <1>5 DEF vars
    <2>2. Flows'
      BY <2>1 DEF Data, Flows
    <2>3. Syncs'
      BY <2>1 DEF Data, Syncs
    <2>4. OneWay' /\ Uncounted'
      BY <2>1 DEF Data, OneWay, Uncounted
    <2> QED
      BY <2>2, <2>3, <2>4 DEF Data
  <1> QED
    BY <1>1, <1>2, <1>3, <1>4, <1>5, Zenon DEF Next

(* ConfirmedReceived: when one end only writes, bytesWritten announces no  *)
(* byte the peer cannot read, however the stream is closed, deleted or     *)
(* lost.                                                                   *)
THEOREM AnnouncedIsReceived ==
  ASSUME ~Duplex
  PROVE  Spec => []ConfirmedReceived
  <1>1. Init => Base /\ Data
    BY BaseInit, DataInit
  <1>2. Base /\ Data /\ [Next]_vars => (Base /\ Data)'
    BY BaseNext, DataNext
  <1>3. Data => ConfirmedReceived
    BY DEF Data, Flows, Flow, ConfirmedReceived
  <1> QED
    BY <1>1, <1>2, <1>3, PTL DEF Spec

-----------------------------------------------------------------------------
(* Each direction of the stream is an ordered delivery: the steps.         *)
LEMMA DirectionRests ==
  ASSUME NEW e \in End, written'[e] = written[e], confirmed'[e] = confirmed[e],
         received'[Peer(e)] = received[Peer(e)]
  PROVE  UNCHANGED Direction(e)!deliveryVars
  BY DEF Direction!deliveryVars

(* A direction with more bytes written, announced or read takes the step   *)
(* of that name of OrderedDelivery.                                        *)
LEMMA DirectionSends ==
  ASSUME NEW e \in End, written'[e] > written[e], confirmed'[e] = confirmed[e],
         received'[Peer(e)] = received[Peer(e)]
  PROVE  Direction(e)!Next
  <1>1. Direction(e)!Send
    BY DEF Direction!Send
  <1> QED
    BY <1>1 DEF Direction!Next

LEMMA DirectionConfirms ==
  ASSUME NEW e \in End, written'[e] = written[e], confirmed[e] < confirmed'[e],
         confirmed'[e] <= Len(received[Peer(e)]), received'[Peer(e)] = received[Peer(e)]
  PROVE  Direction(e)!Next
  <1>1. Direction(e)!Confirm
    BY DEF Direction!Confirm
  <1> QED
    BY <1>1 DEF Direction!Next

LEMMA DirectionDelivers ==
  ASSUME NEW e \in End, written'[e] = written[e], confirmed'[e] = confirmed[e],
         NEW r \in Seq(Nat), NEW b \in Seq(Nat), received[Peer(e)] = r,
         received'[Peer(e)] = r \o b, Len(b) >= 1, Follows(b, Len(r)),
         written[e] \in Nat, Len(r) + Len(b) <= written[e]
  PROVE  Direction(e)!Next
  <1> DEFINE n == Len(r) + Len(b)
  <1>1. Len(r) \in Nat /\ Len(b) \in Nat /\ n \in (Len(r) + 1)..written[e] /\ n - Len(r) = Len(b)
    OBVIOUS
  <1>2. b = [i \in 1..Len(b) |-> Len(r) + i]
    <2>1. b = [i \in 1..Len(b) |-> b[i]]
      OBVIOUS
    <2>2. \A i \in 1..Len(b) : b[i] = Len(r) + i
      BY DEF Follows
    <2> QED
      BY <2>1, <2>2
  <1> HIDE DEF n
  <1>3. received'[Peer(e)] = r \o [i \in 1..(n - Len(r)) |-> Len(r) + i]
    BY <1>1, <1>2
  <1>4. Direction(e)!Deliver
    BY <1>1, <1>3 DEF Direction!Deliver
  <1> QED
    BY <1>4 DEF Direction!Next

(* Each direction steps with the stream or rests.                          *)
LEMMA DeliveryStep ==
  ASSUME ~Duplex, Base, Data, [Next]_vars
  PROVE  \A q \in End : Direction(q)!Next \/ UNCHANGED Direction(q)!deliveryVars
  <1>1. ASSUME UNCHANGED <<written, confirmed, received>>
        PROVE  \A q \in End : UNCHANGED Direction(q)!deliveryVars
    BY <1>1, DirectionRests
  <1>2. ASSUME NEW e \in End, Direction(e)!Next,
               written'[Peer(e)] = written[Peer(e)], confirmed'[Peer(e)] = confirmed[Peer(e)],
               received'[e] = received[e]
        PROVE  \A q \in End : Direction(q)!Next \/ UNCHANGED Direction(q)!deliveryVars
    <2>1. UNCHANGED Direction(Peer(e))!deliveryVars
      BY <1>2, DirectionRests, Ends2
    <2> QED
      BY <1>2, <2>1, Ends2
  <1>3. ASSUME NEW e \in End, WriteData(e)
        PROVE  \A q \in End : Direction(q)!Next \/ UNCHANGED Direction(q)!deliveryVars
    <2>1. PICK n \in 1..(MaxBytes - written[e]) : written' = [written EXCEPT ![e] = @ + n]
      BY <1>3, Zenon DEF WriteData
    <2>2. UNCHANGED <<confirmed, received>>
      BY <1>3 DEF WriteData
    <2>3. /\ written'[e] > written[e] /\ written'[Peer(e)] = written[Peer(e)]
      BY <2>1, Ends2 DEF Base, TypeOK
    <2> QED
      BY <1>2, <2>2, <2>3, DirectionSends
  <1>4. ASSUME NEW e \in End, TakeIncomingData(e)
        PROVE  \A q \in End : Direction(q)!Next \/ UNCHANGED Direction(q)!deliveryVars
    <2> DEFINE p == Peer(e)
               m == Head(net[p])
    <2>1. /\ m.type = "data" /\ net[p] # <<>> /\ UNCHANGED <<written, confirmed>>
          /\ UNCHANGED received \/ received' = [received EXCEPT ![e] = @ \o m.data]
      BY <1>4, TakeIncomingDataIs DEF Base
    <2>2. /\ p \in End /\ Peer(p) = e /\ p # e
          /\ conn[p] \in Connections /\ Shape(conn[p]) /\ Wire(conn[p], net[p], net[e])
          /\ net[p] \in Seq(IQs) /\ written[p] \in Nat /\ confirmed[p] \in Nat
          /\ received[e] \in Seq(Nat)
          /\ Flow(conn[p], written[p], confirmed[p], received[e], net[p], net[e])
      BY Ends2, DataState
    <2>3. /\ m.data \in Seq(Nat) /\ Len(m.data) \in 1..BlockSize /\ Follows(m.data, Len(received[e]))
          /\ Len(received[e]) + Len(m.data) <= written[p]
      BY <2>1, <2>2, FlowDelivered
    <2>4. Len(m.data) >= 1
      BY <2>3, SpaceAssumption
    <2>5. CASE received' = [received EXCEPT ![e] = @ \o m.data]
      <3>1. received'[e] = received[e] \o m.data /\ received'[p] = received[p]
        BY <2>2, <2>5 DEF Base, TypeOK
      <3> HIDE DEF m, p
      <3>2. Direction(p)!Next
        BY <2>1, <2>2, <2>3, <2>4, <3>1, DirectionDelivers
      <3> QED
        BY <1>2, <2>1, <2>2, <3>1, <3>2
    <2> QED
      BY <1>1, <2>1, <2>5
  <1>5. ASSUME NEW e \in End, TaskSucceeds(e)
        PROVE  \A q \in End : Direction(q)!Next \/ UNCHANGED Direction(q)!deliveryVars
    <2> DEFINE c == conn[e]
               n == confirmed[e] + c.task.bytes
    <2>1. /\ c.task # NoTask /\ UNCHANGED <<written, received>>
          /\ net[Peer(e)] # <<>> /\ Head(net[Peer(e)]).type = "result" /\ Head(net[Peer(e)]).id = c.tasks
          /\ confirmed' = [confirmed EXCEPT ![e] = @ + c.task.bytes]
      BY <1>5, TaskSucceedsIs DEF Base
    <2>2. c.task.bytes \in Nat /\ n <= Len(received[Peer(e)]) /\ confirmed[e] \in Nat
      BY <2>1, DataState, FlowSucceeded
    <2>3. confirmed'[e] = n /\ confirmed'[Peer(e)] = confirmed[Peer(e)]
      BY <2>1, Ends2 DEF Base, TypeOK
    <2>4. CASE c.task.bytes = 0
      <3>1. confirmed'[e] = confirmed[e]
        BY <2>2, <2>3, <2>4
      <3>2. \A q \in End : confirmed'[q] = confirmed[q]
        BY <2>3, <3>1, Ends2
      <3> QED
        BY <2>1, <3>2, DirectionRests, Ends2
    <2>5. CASE c.task.bytes # 0
      <3>1. confirmed[e] < confirmed'[e]
        BY <2>2, <2>3, <2>5
      <3>2. Direction(e)!Next
        BY <2>1, <2>2, <2>3, <3>1, DirectionConfirms
      <3> QED
        BY <1>2, <2>1, <2>3, <3>2
    <2> QED
      BY <2>4, <2>5
  <1>6. CASE ConnectToJid \/ IncomingRequest \/ Accept
    BY <1>1, <1>6 DEF ConnectToJid, IncomingRequest, Accept
  <1>7. CASE \E e \in End : CloseConnection(e) \/ Destroy(e) \/ Network(e)
    BY <1>1, <1>7, NetworkBase DEF CloseConnection, Destroy, Cuts
  <1>8. CASE \E e \in End : CloseRequest(e) \/ Unexpected(e) \/ TaskRefused(e)
                              \/ TimerFires(e) \/ TaskTimesOut(e)
    BY <1>1, <1>8 DEF CloseRequest, Unexpected, TaskRefused, TimerFires, TaskTimesOut
  <1>9. CASE UNCHANGED vars
    BY <1>1, <1>9 DEF vars
  <1> QED
    BY <1>3, <1>4, <1>5, <1>6, <1>7, <1>8, <1>9, Zenon DEF Next, Owner, EventLoop

(* DeliveryInOrder: when one end only writes, each direction of the stream *)
(* implements an ordered delivery: its bytes are read in the order they    *)
(* were written, none twice and none left out, and bytesWritten announces  *)
(* them after that, in whatever way the stream ends.                       *)
THEOREM StreamIsOrdered ==
  ASSUME ~Duplex
  PROVE  Spec => DeliveryInOrder
  <1>1. Init => Base /\ Data
    BY BaseInit, DataInit
  <1>2. Base /\ Data /\ [Next]_vars => (Base /\ Data)'
    BY BaseNext, DataNext
  <1>3. Init => \A e \in End : Direction(e)!Init
    BY Ends2 DEF Init, Direction!Init
  <1>4. Base /\ Data /\ [Next]_vars
          => [\A e \in End : Direction(e)!Next \/ UNCHANGED Direction(e)!deliveryVars]_vars
    BY DeliveryStep
  <1> QED
    BY <1>1, <1>2, <1>3, <1>4, PTL DEF Spec, DeliveryInOrder

-----------------------------------------------------------------------------
(* An orderly close: the answer to a closing request comes from a peer     *)
(* that is Idle, and a stream that says "closed" has delivered everything. *)
(* The initiator's first request, and so that of an answer "closed", is    *)
(* never the one that closes.                                              *)
Orderly(e) ==
  /\ conn[e].state = "Active" /\ conn[e].task.mode = "close"
       => /\ Told(conn[e], net[Peer(e)]) => conn[Peer(e)].state = "Idle"
          /\ e = "initiator" => conn[e].tasks >= 2
  /\ ended[e] = "closed"
       => /\ conn[e].state = "Idle" /\ conn[Peer(e)].state = "Idle"
          /\ Len(received[Peer(e)]) = written[e]
          /\ e = "initiator" => conn[e].tasks >= 2

Orderlies == \A e \in End : Orderly(e)

(* End e has gone on with d: what is to be shown of its close.             *)
LEMMA OrderlyOrdinary ==
  ASSUME Base, Orderlies, NEW e \in End, NEW d, NEW iqs, NEW takes \in BOOLEAN,
         Ordinary(e, d, iqs, takes),
         written'[Peer(e)] = written[Peer(e)], received'[Peer(e)] = received[Peer(e)],
         conn[e].state = "Idle" =>
           d.state = "Idle" /\ written'[e] = written[e] /\ received'[e] = received[e],
         conn[Peer(e)].state = "Active" /\ conn[Peer(e)].task.mode = "close" /\ d.state # "Idle"
           => Results(iqs) = {},
         ended'[e] = "closed" =>
           \/ ended[e] = "closed"
           \/ /\ d.state = "Idle" /\ conn[Peer(e)].state = "Idle"
              /\ Len(received[Peer(e)]) = written'[e] /\ (e = "initiator" => d.tasks >= 2),
         d.state = "Active" /\ d.task.mode = "close"
           => /\ Told(d, net'[Peer(e)]) => conn[Peer(e)].state = "Idle"
              /\ e = "initiator" => d.tasks >= 2
  PROVE  Orderlies'
  <1> DEFINE p == Peer(e)
  <1>1. /\ p \in End /\ Peer(p) = e /\ \A q \in End : q = e \/ q = p
        /\ conn'[e] = d /\ conn'[p] = conn[p]
        /\ net'[e] = net[e] \o iqs \/ net'[e] = net[e] \o <<>>
        /\ ended'[p] = ended[p] /\ d \in Connections /\ d.tasks >= conn[e].tasks
        /\ iqs \in Seq(IQs)
    BY Ends2 DEF Ordinary, Goes
  <1>2. net[e] \in Seq(IQs) /\ conn[e] \in Connections
    BY BaseState
  <1>3. Orderly(e) /\ Orderly(p)
    BY <1>1 DEF Orderlies
  <1>4. d.tasks \in Nat /\ conn[e].tasks \in Nat
    BY <1>1, <1>2, ConnectionFields
  <1>5. ended[e] = "closed" /\ e = "initiator" => d.tasks >= 2
    BY <1>1, <1>3, <1>4 DEF Orderly
  <1>6. Orderly(e)'
    <2>1. ended'[e] = "closed"
            => /\ d.state = "Idle" /\ conn[p].state = "Idle"
               /\ Len(received[p]) = written'[e] /\ (e = "initiator" => d.tasks >= 2)
      BY <1>3, <1>5 DEF Orderly
    <2> QED
      BY <1>1, <2>1 DEF Orderly
  <1>7. Orderly(p)'
    <2>1. conn[p].state = "Active" /\ conn[p].task.mode = "close" /\ Told(conn[p], net'[e])
            => d.state = "Idle"
      <3>1. ASSUME conn[p].state = "Active", conn[p].task.mode = "close", Told(conn[p], net'[e]),
                   d.state # "Idle"
            PROVE  FALSE
        <4>1. Results(net'[e]) = Results(net[e])
          BY <1>1, <1>2, <3>1, ConcatParts, NoFurtherIQ
        <4>2. Told(conn[p], net[e])
          BY <3>1, <4>1 DEF Told
        <4> QED
          BY <1>1, <1>3, <3>1, <4>2 DEF Orderly
      <3> QED
        BY <3>1
    <2>2. ended[p] = "closed"
            => /\ conn[p].state = "Idle" /\ d.state = "Idle" /\ Len(received'[e]) = written[p]
               /\ p = "initiator" => conn[p].tasks >= 2
      BY <1>1, <1>3 DEF Orderly
    <2>3. /\ conn'[p].state = "Active" /\ conn'[p].task.mode = "close"
               => /\ Told(conn'[p], net'[e]) => conn'[e].state = "Idle"
                  /\ p = "initiator" => conn'[p].tasks >= 2
          /\ ended'[p] = "closed"
               => /\ conn'[p].state = "Idle" /\ conn'[e].state = "Idle"
                  /\ Len(received'[e]) = written'[p]
                  /\ p = "initiator" => conn'[p].tasks >= 2
      BY <1>1, <1>3, <2>1, <2>2 DEF Orderly
    <2> QED
      BY <1>1, <2>3 DEF Orderly
  <1> QED
    BY <1>1, <1>6, <1>7 DEF Orderlies

(* trySend asks for nothing that has been answered.                        *)
LEMMA TrySendUntold ==
  ASSUME Base, Orderlies, NEW e \in End, NEW b \in Connections, Shape(b), b.alive,
         b.state = conn[e].state, b.task = conn[e].task, b.tasks = conn[e].tasks,
         TrySend(b).state = "Active", TrySend(b).task.mode = "close"
  PROVE  /\ Told(TrySend(b), net[Peer(e)]) => conn[Peer(e)].state = "Idle"
         /\ e = "initiator" => TrySend(b).tasks >= 2
  <1> DEFINE t == TrySend(b)
             in == net[Peer(e)]
  <1>1. conn[e] \in Connections /\ Wire(conn[e], net[e], in) /\ in \in Seq(IQs) /\ Opening
        /\ b.tasks \in Nat
    BY BaseState, ConnectionFields
  <1>2. CASE SendsBlock(b)
    <2>1. t.task = [mode |-> "data", id |-> b.tasks + 1, bytes |-> Len(NextBlock(b))]
      BY <1>2, TrySendIs
    <2>2. t.task.mode = "data"
      BY <2>1
    <2> QED
      BY <2>2
  <1>3. CASE SendsClose(b)
    <2>1. t.tasks = b.tasks + 1 /\ b.state = "Active"
      BY <1>3, TrySendIs, Sending
    <2>2. \A a \in Results(in) : a.id \in Nat /\ a.id <= b.tasks
      <3>1. \A a \in Results(in) : a \in IQs
        BY <1>1 DEF Results, Range
      <3> QED
        BY <1>1, <2>1, <3>1 DEF Wire, IQs
    <2>3. ~Told(t, in)
      BY <1>1, <2>1, <2>2 DEF Told
    <2>4. e = "initiator" => b.tasks >= 1
      <3>1. Fresh.state = "Idle"
        BY DEF Fresh
      <3> QED
        BY <1>1, <2>1, <3>1 DEF Opening, Unopened, OpenUnderWay, OpenHeld, HasAsked, Opened
    <2> HIDE DEF t
    <2>5. e = "initiator" => t.tasks >= 2
      BY <1>1, <2>1, <2>4
    <2> QED
      BY <2>3, <2>5 DEF t
  <1>4. CASE ~SendsBlock(b) /\ ~SendsClose(b)
    <2>1. t = b
      BY <1>4, TrySendIs
    <2>2. Orderly(e)
      BY DEF Orderlies
    <2>3. Told(b, in) => Told(conn[e], in)
      BY DEF Told
    <2> QED
      BY <2>1, <2>2, <2>3 DEF Orderly
  <1> QED
    BY <1>2, <1>3, <1>4

(* An owner that closes only when nothing is in flight waits for the end.  *)
LEMMA CloseWaits ==
  ASSUME NEW c \in Connections, Shape(c), c.alive, c.state = "Active", NothingInFlight(c)
  PROVE  Closed(c) = TrySend(Pending(c)) /\ Closed(c).state = "Active"
  <1> DEFINE b == Pending(c)
             t == TrySend(b)
  <1>1. /\ b \in Connections /\ b.closePending /\ b.task = c.task /\ b.writeBuf = c.writeBuf
        /\ b.closing = c.closing /\ b.state = c.state
    BY PendingIs DEF SameRole
  <1>2. t.state = b.state
    BY <1>1, TrySendIs DEF SameRole
  <1>3. t.writeBuf # <<>> \/ t.closing
    <2>1. CASE c.closing
      <3>1. c.task # NoTask
        BY <2>1 DEF Shape, NoTask
      <3>2. ~SendsBlock(b) /\ ~SendsClose(b)
        BY <1>1, <3>1 DEF SendsBlock, SendsClose
      <3> QED
        BY <1>1, <2>1, <3>2, TrySendIs
    <2>2. CASE c.task = NoTask /\ c.writeBuf = <<>>
      <3>1. SendsClose(b)
        BY <1>1, <2>2 DEF SendsClose
      <3> QED
        BY <1>1, <3>1, TrySendIs
    <2>3. CASE Len(c.writeBuf) > BlockSize
      <3>1. c.writeBuf # <<>>
        <4>1. c.writeBuf = <<>> => Len(c.writeBuf) = 0
          OBVIOUS
        <4> QED
          BY <2>3, <4>1, SpaceAssumption
      <3>2. CASE SendsBlock(b)
        <4>1. t.writeBuf = Rest(b)
          BY <1>1, <3>2, TrySendIs
        <4>2. /\ Len(NextBlock(b)) \in 0..BlockSize /\ Rest(b) \in Seq(Nat)
              /\ Len(NextBlock(b)) + Len(Rest(b)) = Len(c.writeBuf)
          BY <1>1, NextBlockIs
        <4>3. Rest(b) # <<>>
          <5>1. Rest(b) = <<>> => Len(Rest(b)) = 0
            OBVIOUS
          <5> QED
            BY <2>3, <4>2, <5>1, SpaceAssumption
        <4> QED
          BY <4>1, <4>3
      <3>3. CASE ~SendsBlock(b)
        <4>1. ~SendsClose(b)
          BY <1>1, <3>1 DEF SendsClose
        <4> QED
          BY <1>1, <3>1, <3>3, <4>1, TrySendIs
      <3> QED
        BY <3>2, <3>3
    <2> QED
      BY <2>1, <2>2, <2>3 DEF NothingInFlight
  <1>4. Closed(c) = t
    BY <1>3, ClosedIs
  <1> QED
    BY <1>1, <1>2, <1>4

(* An owner that closes only when nothing is in flight, and may delete a   *)
(* stream at any time.                                                     *)
LEMMA OwnerOrderly ==
  ASSUME ~EarlyClose, Base, Data, Orderlies, NEW e \in End, Owner(e)
  PROVE  Orderlies'
  <1> DEFINE c == conn[e]
             p == Peer(e)
             out == net[e]
             in == net[p]
  <1>1. /\ TypeOK /\ Shapes /\ c \in Connections /\ Shape(c) /\ out \in Seq(IQs) /\ in \in Seq(IQs)
        /\ Wire(c, out, in) /\ written[e] \in Nat /\ Orderly(e)
    BY DataState DEF Orderlies
  <1>2. CASE WriteData(e)
    <2>1. PICK n \in 1..(MaxBytes - written[e]) :
            /\ written' = [written EXCEPT ![e] = @ + n]
            /\ Becomes(e, TrySend(Filled(c, written[e], n)), Sends(Filled(c, written[e], n)))
      BY <1>2, Zenon DEF WriteData, Filled
    <2>2. /\ c.alive /\ c.state = "Active" /\ ~c.closePending /\ ~c.closing
          /\ UNCHANGED <<stream, confirmed, received, ended, failures>>
      BY <1>2 DEF WriteData
    <2> DEFINE b == Filled(c, written[e], n)
    <2>3. /\ Ordinary(e, TrySend(b), Sends(b), FALSE) /\ Shape(b) /\ b.alive
          /\ written'[p] = written[p]
      BY <1>1, <2>1, <2>2, WriteDataIs
    <2>4. n \in Nat
      OBVIOUS
    <2>5. b \in Connections /\ b.state = c.state /\ b.tasks = c.tasks /\ b.task = c.task
      <3>1. c \in Connections /\ written[e] \in Nat /\ n \in Nat
        BY <1>1, <2>4
      <3> HIDE DEF c
      <3>2. /\ b \in Connections /\ SameRole(c, b)
            /\ b.seq = c.seq /\ b.task = c.task /\ b.tasks = c.tasks
        BY <3>1, FilledIs
      <3> HIDE DEF b
      <3> QED
        BY <3>2 DEF SameRole
    <2> HIDE DEF b
    <2>6. Wire(b, out, in)
      BY <1>1, <2>5, WireShrinks DEF Wire
    <2>7. Results(Sends(b)) = {}
      BY <1>1, <2>3, <2>5, <2>6, WireTrySend
    <2>8. net'[p] = in
      BY <2>3 DEF Ordinary
    <2>9. TrySend(b).state = "Active" /\ TrySend(b).task.mode = "close"
            => /\ Told(TrySend(b), in) => conn[p].state = "Idle"
               /\ e = "initiator" => TrySend(b).tasks >= 2
      BY <2>3, <2>5, TrySendUntold
    <2> QED
      BY <2>2, <2>3, <2>7, <2>8, <2>9, OrderlyOrdinary
  <1>3. CASE CloseConnection(e)
    <2>1. /\ Ordinary(e, Closed(c), CloseSends(c), FALSE) /\ c.alive /\ c.state # "Idle"
          /\ UNCHANGED <<written, confirmed, received>> /\ NothingInFlight(c)
          /\ IF Closed(c).state = "Idle"
             THEN Ends(e, IF c.state = "Active" THEN "closed" ELSE "cancelled")
             ELSE UNCHANGED ended
      BY <1>1, <1>3, CloseConnectionIs DEF CloseConnection
    <2>2. Results(CloseSends(c)) = {} /\ net'[p] = in
      BY <1>1, <2>1, WireClosed DEF Ordinary
    <2>3. CASE c.state = "Active"
      <3> DEFINE b == Pending(c)
      <3>1. Closed(c) = TrySend(b) /\ Closed(c).state = "Active"
        BY <1>1, <2>1, <2>3, CloseWaits
      <3>2. /\ b \in Connections /\ Shape(b) /\ b.alive
            /\ b.tasks = c.tasks /\ b.state = c.state /\ b.task = c.task
        BY <1>1, <2>1, <2>3, PendingIs, ShapePending DEF SameRole
      <3> HIDE DEF b
      <3>3. UNCHANGED ended
        BY <2>1, <3>1
      <3>4. TrySend(b).state = "Active" /\ TrySend(b).task.mode = "close"
              => /\ Told(TrySend(b), in) => conn[p].state = "Idle"
                 /\ e = "initiator" => TrySend(b).tasks >= 2
        BY <3>2, TrySendUntold
      <3> QED
        BY <2>1, <2>2, <2>3, <3>1, <3>3, <3>4, OrderlyOrdinary
    <2>4. CASE c.state # "Active"
      <3>1. Closed(c).state = "Idle"
        BY <1>1, <2>1, <2>4, CloseOrdinary
      <3>2. Ends(e, "cancelled")
        BY <2>1, <2>4, <3>1
      <3>3. ended'[e] = "closed" => ended[e] = "closed"
        BY <1>1, <3>2, EndsIs DEF Endings
      <3> QED
        BY <2>1, <2>2, <3>1, <3>3, OrderlyOrdinary
    <2> QED
      BY <2>3, <2>4
  <1>4. CASE Destroy(e)
    <2> DEFINE b == Emptied(c)
               d == Dead(b)
    <2>1. /\ Ordinary(e, d, CloseSends(b), FALSE) /\ Shape(b) /\ c.alive
          /\ UNCHANGED <<written, confirmed, received>> /\ Ends(e, "destroyed")
      BY <1>1, <1>4, DestroyIs DEF Destroy
    <2>2. d.state = "Idle"
      BY <1>1, DeadIs
    <2>3. b \in Connections /\ b.state = c.state /\ b.tasks = c.tasks /\ b.task = c.task /\ b.alive = c.alive
      BY <1>1, EmptiedIs DEF SameRole
    <2> HIDE DEF b, d
    <2>4. Wire(b, out, in)
      BY <1>1, <2>3, WireShrinks DEF Wire
    <2>5. Results(CloseSends(b)) = {}
      BY <1>1, <2>1, <2>3, <2>4, WireClosed
    <2>6. ended'[e] = "closed" => ended[e] = "closed"
      BY <1>1, <2>1, EndsIs DEF Endings
    <2> QED
      BY <2>1, <2>2, <2>5, <2>6, OrderlyOrdinary
  <1> QED
    BY <1>2, <1>3, <1>4 DEF Owner

(* What an event loop handles: the far end's <close/> answer comes from a  *)
(* connection that has been reset, and by then nothing is left to deliver. *)
LEMMA EventLoopOrderly ==
  ASSUME Base, Data, Orderlies, NEW e \in End, EventLoop(e)
  PROVE  Orderlies'
  <1> DEFINE c == conn[e]
             p == Peer(e)
             m == Head(net[p])
             out == net[e]
             in == net[p]
             r == received[p]
  <1>1. /\ TypeOK /\ Shapes /\ c \in Connections /\ Shape(c) /\ out \in Seq(IQs) /\ in \in Seq(IQs)
        /\ Wire(c, out, in) /\ written[e] \in Nat /\ confirmed[e] \in Nat /\ r \in Seq(Nat)
        /\ Flow(c, written[e], confirmed[e], r, out, in)
        /\ p \in End /\ Peer(p) = e /\ p # e /\ Orderly(e) /\ Wire(conn[p], in, out)
    BY DataState, Ends2 DEF Orderlies
  <1>2. Reset(c).state = "Idle" /\ Results(<<>>) = {}
    BY <1>1, ResetIs, RangeOfNone DEF Results
  <1>3. ASSUME in # <<>>
        PROVE  /\ Request(m) => m \in Requests(in)
               /\ m.type = "result" => m \in Results(in)
               /\ Results(Tail(in)) \subseteq Results(in) /\ m.id \in Nat
    <2>1. m \in Range(in) /\ Range(Tail(in)) \subseteq Range(in) /\ m \in IQs
      BY <1>1, <1>3, RangeOfTail
    <2>2. m.id \in Nat
      BY <2>1 DEF IQs
    <2> QED
      BY <2>1, <2>2 DEF Requests, Results
  \* What e did not ask for again has no new answer.
  <1>4. ASSUME NEW d, d.state = c.state, d.task = c.task, d.tasks = c.tasks,
               d.state = "Active", d.task.mode = "close", Results(net'[p]) \subseteq Results(in)
        PROVE  /\ Told(d, net'[p]) => conn[p].state = "Idle"
               /\ e = "initiator" => d.tasks >= 2
    BY <1>1, <1>4 DEF Orderly, Told
  <1>5. CASE TakeIncomingData(e)
    <2>1. /\ m.type = "data" /\ in # <<>> /\ UNCHANGED <<written, confirmed, ended>>
          /\ \/ ~c.linked /\ Ordinary(e, c, <<Error(m.id)>>, TRUE) /\ UNCHANGED received
             \/ /\ c.linked /\ ~Expected(c, m) /\ UNCHANGED received
                /\ Ordinary(e, c, <<Result(m.id), Error(c.iq_id)>>, TRUE)
             \/ /\ c.linked /\ c.state = "Active" /\ Expected(c, m)
                /\ received' = [received EXCEPT ![e] = @ \o m.data]
                /\ Ordinary(e, Counted(c), <<Result(m.id)>>, TRUE)
      BY <1>1, <1>5, TakeIncomingDataIs
    <2>2. ~(conn[p].state = "Active" /\ conn[p].task.mode = "close")
      BY <1>1, <1>3, <2>1 DEF Wire, Request
    <2>3. net'[p] = Tail(in)
      BY <2>1 DEF Ordinary
    <2>4. Counted(c).state = c.state /\ Counted(c).task = c.task /\ Counted(c).tasks = c.tasks
      BY <1>1, CountedIs DEF SameRole
    <2>5. ASSUME NEW iqs, Ordinary(e, c, iqs, TRUE), UNCHANGED received
          PROVE  Orderlies'
      BY <1>3, <1>4, <2>1, <2>2, <2>3, <2>5, OrderlyOrdinary
    <2>6. ASSUME c.state = "Active", received' = [received EXCEPT ![e] = @ \o m.data],
                 Ordinary(e, Counted(c), <<Result(m.id)>>, TRUE)
          PROVE  Orderlies'
      <3>1. received'[p] = received[p]
        BY <1>1, <2>6 DEF TypeOK
      <3>2. Counted(c).state = "Active" /\ Counted(c).task.mode = "close"
              => /\ Told(Counted(c), net'[p]) => conn[p].state = "Idle"
                 /\ e = "initiator" => Counted(c).tasks >= 2
        BY <1>3, <1>4, <2>1, <2>3, <2>4
      <3> QED
        BY <2>1, <2>2, <2>6, <3>1, <3>2, OrderlyOrdinary
    <2> QED
      BY <2>1, <2>5, <2>6
  <1>6. CASE CloseRequest(e)
    <2>1. /\ m.type = "close" /\ in # <<>> /\ UNCHANGED <<written, confirmed, received>>
          /\ \/ ~c.linked /\ Ordinary(e, c, <<Error(m.id)>>, TRUE) /\ UNCHANGED ended
             \/ Ends(e, "remote") /\ Ordinary(e, Reset(c), <<Result(m.id)>>, TRUE)
      BY <1>1, <1>6, CloseRequestIs
    <2>2. net'[p] = Tail(in)
      BY <2>1 DEF Ordinary
    <2>3. Results(<<Error(m.id)>>) = {}
      BY <1>3, <2>1, AnswerParts
    <2>4. ASSUME Ordinary(e, c, <<Error(m.id)>>, TRUE), UNCHANGED ended
          PROVE  Orderlies'
      BY <1>3, <1>4, <2>1, <2>2, <2>3, <2>4, OrderlyOrdinary
    <2>5. ASSUME Ends(e, "remote"), Ordinary(e, Reset(c), <<Result(m.id)>>, TRUE)
          PROVE  Orderlies'
      <3>1. ended'[e] = "closed" => ended[e] = "closed"
        BY <1>1, <2>5, EndsIs DEF Endings
      <3> QED
        BY <1>2, <2>1, <2>5, <3>1, OrderlyOrdinary
    <2> QED
      BY <2>1, <2>4, <2>5
  <1>7. CASE Unexpected(e)
    <2>1. Ordinary(e, c, <<>>, TRUE) /\ UNCHANGED <<written, confirmed, received, ended>>
      BY <1>1, <1>7, UnexpectedIs
    <2>2. in # <<>> /\ net'[p] = Tail(in)
      BY <2>1 DEF Ordinary
    <2> QED
      BY <1>2, <1>3, <1>4, <2>1, <2>2, OrderlyOrdinary
  <1>8. CASE TaskSucceeds(e)
    <2> DEFINE d == Succeeded(c)
    <2>1. /\ Ordinary(e, d, <<>>, TRUE) /\ c.task # NoTask /\ (c.task.mode = "open" => ~c.closing)
          /\ in # <<>> /\ m.type = "result" /\ m.id = c.tasks /\ c.alive
          /\ UNCHANGED <<written, received>>
          /\ (IF c.closing THEN Ends(e, "closed") ELSE UNCHANGED ended)
      BY <1>1, <1>8, TaskSucceedsIs
    <2>2. d.task.mode = "none" /\ c.state # "Idle"
      BY <1>1, <2>1, SucceededIs DEF Shape, NoTask
    <2>3. ended'[e] = "closed" =>
            \/ ended[e] = "closed"
            \/ /\ d.state = "Idle" /\ conn[p].state = "Idle"
               /\ Len(received[p]) = written'[e] /\ (e = "initiator" => d.tasks >= 2)
      <3>1. ASSUME c.closing
            PROVE  /\ d.state = "Idle" /\ conn[p].state = "Idle"
                   /\ Len(received[p]) = written'[e] /\ (e = "initiator" => d.tasks >= 2)
        <4>1. c.state = "Active" /\ c.task.mode = "close" /\ c.writeBuf = <<>>
          BY <1>1, <2>1, <3>1 DEF Shape
        <4>2. d = Reset(c) /\ Reset(c).tasks = c.tasks
          BY <1>1, <2>1, <3>1, <4>1, SucceededIs, ResetIs
        <4>3. Told(c, in)
          BY <1>3, <2>1 DEF Told
        <4>4. conn[p].state = "Idle" /\ (e = "initiator" => c.tasks >= 2)
          BY <1>1, <4>1, <4>3 DEF Orderly
        <4>5. Len(r) = written[e]
          <5>1. Len(c.writeBuf) = 0 /\ Len(c.writeBuf) + Len(r) = written[e] /\ Len(r) \in Nat
            BY <1>1, <4>1 DEF Flow
          <5> QED
            BY <5>1
        <4> QED
          BY <1>2, <2>1, <4>2, <4>4, <4>5
      <3> QED
        BY <2>1, <3>1
    <2> HIDE DEF d
    <2> QED
      BY <1>2, <2>1, <2>2, <2>3, OrderlyOrdinary
  <1>9. CASE TaskRefused(e)
    <2>1. /\ Ordinary(e, Reset(c), <<>>, TRUE) /\ UNCHANGED <<written, confirmed, received>>
          /\ Ends(e, "failed")
      BY <1>1, <1>9, TaskRefusedIs
    <2>2. ended'[e] = "closed" => ended[e] = "closed"
      BY <1>1, <2>1, EndsIs DEF Endings
    <2> QED
      BY <1>2, <2>1, <2>2, OrderlyOrdinary
  <1>10. CASE TaskTimesOut(e)
    <2>1. /\ Ordinary(e, Reset(c), <<>>, FALSE) /\ UNCHANGED <<written, confirmed, received>>
          /\ Ends(e, "failed")
      BY <1>1, <1>10, TaskTimesOutIs
    <2>2. ended'[e] = "closed" => ended[e] = "closed"
      BY <1>1, <2>1, EndsIs DEF Endings
    <2> QED
      BY <1>2, <2>1, <2>2, OrderlyOrdinary
  <1>11. CASE TimerFires(e)
    <2> DEFINE b == Fired(c)
    <2>1. /\ Ordinary(e, TrySend(b), Sends(b), FALSE) /\ c.alive /\ Shape(b)
          /\ UNCHANGED <<written, confirmed, received, ended>>
      BY <1>1, <1>11, TimerFiresIs
    <2>2. /\ b \in Connections /\ b.alive = c.alive /\ b.state = c.state
          /\ b.task = c.task /\ b.tasks = c.tasks
      BY <1>1, FiredIs
    <2> HIDE DEF b
    <2>3. Wire(b, out, in)
      BY <1>1, <2>2, WireShrinks DEF Wire
    <2>4. Results(Sends(b)) = {} /\ net'[p] = in
      BY <1>1, <2>1, <2>2, <2>3, WireTrySend DEF Ordinary
    <2>5. TrySend(b).state = c.state
      BY <2>2, TrySendIs DEF SameRole
    <2>6. TrySend(b).state = "Active" /\ TrySend(b).task.mode = "close"
            => /\ Told(TrySend(b), in) => conn[p].state = "Idle"
               /\ e = "initiator" => TrySend(b).tasks >= 2
      BY <2>1, <2>2, TrySendUntold
    <2> QED
      BY <2>1, <2>4, <2>5, <2>6, OrderlyOrdinary
  <1> QED
    BY <1>5, <1>6, <1>7, <1>8, <1>9, <1>10, <1>11 DEF EventLoop

(* The loss of a stream invents no answer.                                 *)
LEMMA NetworkOrderly ==
  ASSUME Base, Orderlies, NEW e \in End, Cuts(e)
  PROVE  Orderlies'
  <1>1. /\ UNCHANGED <<written, confirmed, received>> /\ TypeOK
        /\ \A q \in End : Range(net'[q]) \subseteq Range(net[q])
        /\ conn'[Peer(e)] = conn[Peer(e)] /\ ended'[Peer(e)] = ended[Peer(e)]
        /\ \/ /\ conn'[e] = Reset(conn[e]) \/ conn'[e] = Crashed(conn[e])
              /\ Ends(e, "failed") \/ Ends(e, "crashed")
           \/ conn'[e] = conn[e] /\ ended'[e] = ended[e]
    BY DEF Cuts, Base
  <1>2. ended'[e] = "closed" => ended[e] = "closed"
    BY <1>1, EndsIs DEF Endings
  <1>3. \A q \in End : /\ Reset(conn[q]).state = "Idle" /\ Reset(conn[q]).tasks = conn[q].tasks
                       /\ Crashed(conn[q]).state = "Idle" /\ Crashed(conn[q]).tasks = conn[q].tasks
    BY BaseState, ResetIs, CrashedIs
  <1>4. \A q \in End : /\ \/ conn'[q] = conn[q] \/ conn'[q] = Reset(conn[q])
                          \/ conn'[q] = Crashed(conn[q])
                       /\ ended'[q] = "closed" => ended[q] = "closed"
    BY <1>1, <1>2, Ends2
  <1>5. \A q \in End : /\ conn[q].state = "Idle" => conn'[q].state = "Idle"
                       /\ conn'[q].tasks = conn[q].tasks
                       /\ conn'[q].state = "Active" => conn'[q] = conn[q]
    BY <1>3, <1>4
  <1>6. ASSUME NEW q \in End
        PROVE  Orderly(q)'
    <2>1. Orderly(q) /\ Peer(q) \in End
      BY Ends2 DEF Orderlies
    <2>2. Results(net'[Peer(q)]) \subseteq Results(net[Peer(q)])
      BY <1>1, <2>1 DEF Results
    <2>3. Told(conn[q], net'[Peer(q)]) => Told(conn[q], net[Peer(q)])
      BY <2>2 DEF Told
    <2> QED
      BY <1>1, <1>4, <1>5, <2>1, <2>3 DEF Orderly
  <1> QED
    BY <1>6 DEF Orderlies

(* A stream that is being opened is not being closed.                      *)
LEMMA OpeningOrderly ==
  ASSUME Base, Base', Orderlies, ConnectToJid \/ IncomingRequest \/ Accept
  PROVE  Orderlies'
  <1>1. /\ \A q \in End : ended'[q] # "closed"
        /\ \A q \in End : conn'[q].state # "Active" \/ conn'[q].task.mode # "close"
    <2>1. ASSUME HasAsked
          PROVE  ended["initiator"] # "closed"
      <3>1. Orderly("initiator") /\ conn["initiator"].tasks = 1
        BY <2>1, TwoEnds DEF Orderlies, HasAsked
      <3> QED
        BY <3>1 DEF Orderly
    <2>2. CASE ConnectToJid
      <3>1. Unopened /\ OpenUnderWay' /\ UNCHANGED ended
        BY <2>2, ConnectToJidIs DEF Base
      <3>2. Fresh.state = "Idle"
        BY DEF Fresh
      <3> QED
        BY <3>1, <3>2, TwoEnds DEF Unopened, OpenUnderWay, HasAsked
    <2>3. CASE IncomingRequest
      <3>1. OpenUnderWay /\ OpenHeld' /\ UNCHANGED ended
        BY <2>3, IncomingRequestIs DEF Base
      <3> QED
        BY <2>1, <3>1, TwoEnds DEF OpenUnderWay, OpenHeld, HasAsked
    <2>4. CASE Accept
      <3>1. /\ OpenHeld /\ conn'["initiator"] = conn["initiator"] /\ UNCHANGED ended
            /\ conn'["responder"] = Accepted(conn["responder"])
        BY <2>4, AcceptIs DEF Base
      <3>2. /\ conn["responder"] \in Connections /\ Shape(conn["responder"])
            /\ conn["responder"].state = "WaitingForAccept" /\ Orderly("responder")
        BY <3>1, BaseState, TwoEnds DEF OpenHeld, Orderlies
      <3>3. ended["responder"] # "closed" /\ conn["responder"].task = NoTask
        BY <3>2 DEF Orderly, Shape
      <3>4. conn'["responder"].task.mode = "none"
        BY <3>1, <3>2, <3>3, AcceptedIs DEF NoTask
      <3> QED
        BY <2>1, <3>1, <3>3, <3>4, TwoEnds DEF OpenHeld, HasAsked
    <2> QED
      BY <2>2, <2>3, <2>4
  <1> QED
    BY <1>1 DEF Orderlies, Orderly

(* Orderlies is an invariant.                                              *)
LEMMA OrderlyNext ==
  ASSUME ~EarlyClose, Base, Data, Orderlies, [Next]_vars
  PROVE  Orderlies'
  <1>1. CASE ConnectToJid \/ IncomingRequest \/ Accept
    BY <1>1, OpeningOrderly, BaseNext
  <1>2. CASE \E e \in End : Owner(e)
    BY <1>2, OwnerOrderly
  <1>3. CASE \E e \in End : EventLoop(e)
    BY <1>3, EventLoopOrderly
  <1>4. CASE \E e \in End : Network(e)
    BY <1>4, NetworkOrderly, NetworkBase
  <1>5. CASE UNCHANGED vars
    <2>1. UNCHANGED <<conn, net, written, received, ended>>
      BY <1>5 DEF vars
    <2> QED
      BY <2>1 DEF Orderlies, Orderly
  <1> QED
    BY <1>1, <1>2, <1>3, <1>4, <1>5, Zenon DEF Next

(* OrderlyClose: a stream on which one end only writes, and that is closed *)
(* when nothing is in flight, has delivered every byte written to it and   *)
(* is closed at the far end when it says that it is closed.                *)
THEOREM CloseIsOrderly ==
  ASSUME ~Duplex, ~EarlyClose
  PROVE  Spec => []OrderlyClose
  <1>1. Init => Base /\ Data /\ Orderlies
    <2>1. Init => \A e \in End : ended[e] = "no" /\ conn[e].state = "Idle"
      BY DEF Init, Fresh
    <2>2. Init => Orderlies
      BY <2>1 DEF Orderlies, Orderly
    <2> QED
      BY <2>2, BaseInit, DataInit
  <1>2. Base /\ Data /\ Orderlies /\ [Next]_vars => (Base /\ Data /\ Orderlies)'
    BY BaseNext, DataNext, OrderlyNext
  <1>3. Orderlies => OrderlyClose
    BY DEF Orderlies, Orderly, OrderlyClose
  <1> QED
    BY <1>1, <1>2, <1>3, PTL DEF Spec
===============================================================================
