----------------------- MODULE InBandBytestream_proofs -----------------------
EXTENDS InBandBytestream, Functions, TLAPS

(***************************************************************************)
(* Theorems about InBandBytestream, for any block size, any sequence space *)
(* and any number of bytes: types, and that nothing waits in vain.         *)
(*                                                                         *)
(* The argument.  Types are not an invariant by themselves: Succeeded sets *)
(* the state of a connection by its task, so that it must be known which   *)
(* task it can be.  Shapes says which values the fields of a connection    *)
(* take together.  Opening says how far the opening of the stream is; it   *)
(* is needed because the open request reaches a manager that must not have *)
(* a connection yet.  Wires says that an end has one request on its way at *)
(* most, that of its task, and that no answer to it is under way before it *)
(* has arrived: an answer that succeeds a task is the answer to it.  Base  *)
(* is their conjunction with TypeOK.                                       *)
(*                                                                         *)
(* Handlers are first shown to be instances of one shape, Ordinary: end e  *)
(* goes on with a connection d, sends some IQs, and takes one or none.     *)
(* What Ordinary preserves is shown once, and each handler then owes only  *)
(* what it says of d and of the IQs.  What a Client does to its stream is  *)
(* of another shape, Cuts.  Livelies, for NeverStalled, adds that whoever  *)
(* has something to send has a task or a timer, and Faults that no task is *)
(* refused by go() before a stream has been lost.                          *)
(***************************************************************************)

-----------------------------------------------------------------------------
(* What is left of c's buffer when its next block is taken.                *)
Rest(c) == SubSeq(c.writeBuf, Len(NextBlock(c)) + 1, Len(c.writeBuf))

(* d is the connection c, its buffer, task and close() aside.              *)
SameRole(c, d) ==
  /\ d.state = c.state /\ d.linked = c.linked /\ d.alive = c.alive
  /\ d.iq_id = c.iq_id /\ d.timer = c.timer

(* What the two ends send each other are IQs.                              *)
LEMMA Messages ==
  ASSUME NEW id \in Nat, NEW n \in 0..(SeqSpace - 1), NEW bytes \in Seq(Nat)
  PROVE  /\ OpenIQ(id) \in IQs /\ DataIQ(id, n, bytes) \in IQs /\ CloseIQ(id) \in IQs
         /\ Result(id) \in IQs /\ Error(id) \in IQs
  BY SpaceAssumption DEF IQs, OpenIQ, DataIQ, CloseIQ, Result, Error

(* The answers to a request, and the requests without a payload.           *)
LEMMA Answers ==
  ASSUME NEW id \in Nat
  PROVE  /\ Result(id) \in IQs /\ Error(id) \in IQs /\ OpenIQ(id) \in IQs /\ CloseIQ(id) \in IQs
         /\ Result(id).type = "result" /\ Error(id).type = "error"
         /\ Result(id).id = id /\ Error(id).id = id
  BY Messages, SpaceAssumption DEF IQs, OpenIQ, CloseIQ, Result, Error

(* The fields of a connection.                                             *)
LEMMA ConnectionFields ==
  ASSUME NEW c \in Connections
  PROVE  /\ c.state \in {"Idle", "Requesting", "WaitingForAccept", "Active"}
         /\ c.linked \in BOOLEAN /\ c.alive \in BOOLEAN /\ c.seq \in 0..(SeqSpace - 1)
         /\ c.task \in Tasks /\ c.tasks \in Nat /\ c.iq_id \in Nat /\ c.writeBuf \in Seq(Nat)
         /\ c.closePending \in BOOLEAN /\ c.closing \in BOOLEAN /\ c.timer \in BOOLEAN
  BY DEF Connections

(* The buffer is the next block followed by the rest, byte for byte, and   *)
(* no block of a buffer that holds something is empty.                     *)
LEMMA NextBlockIs ==
  ASSUME NEW c \in Connections
  PROVE  /\ NextBlock(c) \in Seq(Nat) /\ Rest(c) \in Seq(Nat)
         /\ Len(NextBlock(c)) \in 0..BlockSize
         /\ Len(NextBlock(c)) + Len(Rest(c)) = Len(c.writeBuf)
         /\ c.writeBuf # <<>> => Len(NextBlock(c)) >= 1
         /\ \A j \in 1..Len(NextBlock(c)) : NextBlock(c)[j] = c.writeBuf[j]
         /\ \A j \in 1..Len(Rest(c)) : Rest(c)[j] = c.writeBuf[Len(NextBlock(c)) + j]
  <1> DEFINE w == c.writeBuf
             n == IF Len(w) < BlockSize THEN Len(w) ELSE BlockSize
  <1>1. w \in Seq(Nat)
    BY ConnectionFields
  <1>2. n \in 0..Len(w) /\ n <= BlockSize /\ BlockSize \in Nat /\ (Len(w) >= 1 => n >= 1)
    BY <1>1, SpaceAssumption
  <1>3. w # <<>> => Len(w) >= 1
    BY <1>1
  <1>4. NextBlock(c) = SubSeq(w, 1, n)
    BY DEF NextBlock
  <1> HIDE DEF n
  <1>5. /\ SubSeq(w, 1, n) \in Seq(Nat) /\ Len(SubSeq(w, 1, n)) = n
        /\ \A j \in 1..n : SubSeq(w, 1, n)[j] = w[j]
    BY <1>1, <1>2
  <1>6. /\ SubSeq(w, n + 1, Len(w)) \in Seq(Nat)
        /\ Len(SubSeq(w, n + 1, Len(w))) = Len(w) - n
        /\ \A j \in 1..(Len(w) - n) : SubSeq(w, n + 1, Len(w))[j] = w[n + j]
    BY <1>1, <1>2
  <1>7. Rest(c) = SubSeq(w, n + 1, Len(w))
    BY <1>4, <1>5 DEF Rest
  <1>8. /\ NextBlock(c) \in Seq(Nat) /\ Len(NextBlock(c)) = n
        /\ \A j \in 1..n : NextBlock(c)[j] = w[j]
    BY <1>4, <1>5
  <1>9. /\ Rest(c) \in Seq(Nat) /\ Len(Rest(c)) = Len(w) - n
        /\ \A j \in 1..(Len(w) - n) : Rest(c)[j] = w[n + j]
    BY <1>6, <1>7
  <1>10. Len(w) \in Nat
    BY <1>1
  <1> HIDE DEF w
  <1>11. /\ Len(NextBlock(c)) \in 0..BlockSize
         /\ Len(NextBlock(c)) + Len(Rest(c)) = Len(w)
         /\ w # <<>> => Len(NextBlock(c)) >= 1
    BY <1>2, <1>3, <1>8, <1>9, <1>10
  <1> QED
    BY <1>8, <1>9, <1>11 DEF w

(* A new task takes the next id and changes nothing else.                  *)
LEMMA WithTaskIs ==
  ASSUME NEW c \in Connections, NEW mode \in {"open", "data", "close"}, NEW n \in Nat
  PROVE  /\ WithTask(c, mode, n) \in Connections
         /\ WithTask(c, mode, n).task = [mode |-> mode, id |-> c.tasks + 1, bytes |-> n]
         /\ WithTask(c, mode, n).tasks = c.tasks + 1
         /\ SameRole(c, WithTask(c, mode, n))
         /\ WithTask(c, mode, n).seq = c.seq /\ WithTask(c, mode, n).writeBuf = c.writeBuf
         /\ WithTask(c, mode, n).closePending = c.closePending
         /\ WithTask(c, mode, n).closing = c.closing
  <1>1. [mode |-> mode, id |-> c.tasks + 1, bytes |-> n] \in Tasks /\ c.tasks + 1 \in Nat
    BY DEF Tasks, Connections
  <1> QED
    BY <1>1 DEF WithTask, Connections, SameRole

(* What trySend leaves of a connection: a block's task, a close's task, or *)
(* the connection as it was.                                               *)
LEMMA TrySendIs ==
  ASSUME NEW c \in Connections
  PROVE  /\ TrySend(c) \in Connections /\ SameRole(c, TrySend(c))
         /\ SendsBlock(c) =>
              /\ TrySend(c).task = [mode |-> "data", id |-> c.tasks + 1, bytes |-> Len(NextBlock(c))]
              /\ TrySend(c).tasks = c.tasks + 1 /\ TrySend(c).seq = (c.seq + 1) % SeqSpace
              /\ TrySend(c).writeBuf = Rest(c)
              /\ TrySend(c).closePending = c.closePending /\ TrySend(c).closing = c.closing
         /\ SendsClose(c) =>
              /\ TrySend(c).task = [mode |-> "close", id |-> c.tasks + 1, bytes |-> 0]
              /\ TrySend(c).tasks = c.tasks + 1 /\ TrySend(c).seq = c.seq
              /\ TrySend(c).writeBuf = <<>>
              /\ ~TrySend(c).closePending /\ TrySend(c).closing
         /\ ~SendsBlock(c) /\ ~SendsClose(c) => TrySend(c) = c
  <1>1. CASE SendsBlock(c)
    <2> DEFINE b == WithTask(c, "data", Len(NextBlock(c)))
               n == (c.seq + 1) % SeqSpace
    <2>1. /\ b \in Connections /\ SameRole(c, b)
          /\ b.task = [mode |-> "data", id |-> c.tasks + 1, bytes |-> Len(NextBlock(c))]
          /\ b.tasks = c.tasks + 1 /\ b.seq = c.seq /\ b.writeBuf = c.writeBuf
          /\ b.closePending = c.closePending /\ b.closing = c.closing
      BY WithTaskIs, NextBlockIs
    <2>2. n \in 0..(SeqSpace - 1)
      BY SpaceAssumption DEF Connections
    <2>3. TrySend(c) = [b EXCEPT !.seq = n, !.writeBuf = Rest(c)]
      <3>1. ~SendsClose(c)
        BY <1>1 DEF SendsBlock, SendsClose
      <3>2. TrySend(c) = [b EXCEPT !.seq = (b.seq + 1) % SeqSpace,
                                   !.writeBuf = SubSeq(b.writeBuf, Len(NextBlock(c)) + 1, Len(b.writeBuf))]
        BY <1>1, <3>1, Zenon DEF TrySend
      <3> QED
        BY <2>1, <3>2, Zenon DEF Rest
    <2>4. ~SendsClose(c) /\ Rest(c) \in Seq(Nat)
      BY <1>1, NextBlockIs DEF SendsBlock, SendsClose
    <2> HIDE DEF b, n
    <2>5. TrySend(c) \in Connections /\ SameRole(c, TrySend(c))
      BY <2>1, <2>2, <2>3, <2>4 DEF Connections, SameRole
    <2>6. /\ TrySend(c).task = b.task /\ TrySend(c).tasks = b.tasks /\ TrySend(c).seq = n
          /\ TrySend(c).writeBuf = Rest(c)
          /\ TrySend(c).closePending = b.closePending /\ TrySend(c).closing = b.closing
      BY <2>1, <2>3 DEF Connections
    <2> QED
      BY <1>1, <2>1, <2>4, <2>5, <2>6 DEF n
  <1>2. CASE SendsClose(c)
    <2> DEFINE b == WithTask(c, "close", 0)
    <2>1. /\ b \in Connections /\ SameRole(c, b)
          /\ b.task = [mode |-> "close", id |-> c.tasks + 1, bytes |-> 0]
          /\ b.tasks = c.tasks + 1 /\ b.seq = c.seq /\ b.writeBuf = c.writeBuf
      BY WithTaskIs
    <2>2. ~SendsBlock(c) /\ c.writeBuf = <<>>
      BY <1>2 DEF SendsBlock, SendsClose
    <2>3. TrySend(c) = [b EXCEPT !.closePending = FALSE, !.closing = TRUE]
      BY <1>2, <2>2 DEF TrySend
    <2> HIDE DEF b
    <2>4. TrySend(c) \in Connections /\ SameRole(c, TrySend(c))
      BY <2>1, <2>3 DEF Connections, SameRole
    <2>5. /\ TrySend(c).task = b.task /\ TrySend(c).tasks = b.tasks /\ TrySend(c).seq = b.seq
          /\ TrySend(c).writeBuf = b.writeBuf
          /\ ~TrySend(c).closePending /\ TrySend(c).closing
      BY <2>1, <2>3 DEF Connections
    <2> QED
      BY <1>2, <2>1, <2>2, <2>4, <2>5
  <1>3. CASE ~SendsBlock(c) /\ ~SendsClose(c)
    BY <1>3 DEF TrySend, SameRole
  <1> QED
    BY <1>1, <1>2, <1>3

(* What trySend puts on the wire.                                          *)
LEMMA SendsIs ==
  ASSUME NEW c \in Connections
  PROVE  /\ Sends(c) \in Seq(IQs)
         /\ SendsBlock(c) => Sends(c) = <<DataIQ(c.tasks + 1, c.seq, NextBlock(c))>>
         /\ SendsClose(c) => Sends(c) = <<CloseIQ(c.tasks + 1)>>
         /\ ~SendsBlock(c) /\ ~SendsClose(c) => Sends(c) = <<>>
  <1>1. /\ DataIQ(c.tasks + 1, c.seq, NextBlock(c)) \in IQs
        /\ CloseIQ(c.tasks + 1) \in IQs
    BY Messages, NextBlockIs DEF Connections
  <1>2. SendsBlock(c) => ~SendsClose(c)
    BY DEF SendsBlock, SendsClose
  <1> QED
    BY <1>1, <1>2 DEF Sends

(* resetConnection empties a connection but keeps its object, its timers   *)
(* and its count of tasks.                                                 *)
LEMMA ResetIs ==
  ASSUME NEW c \in Connections
  PROVE  /\ Reset(c) \in Connections
         /\ Reset(c).state = "Idle" /\ ~Reset(c).linked /\ Reset(c).seq = 0
         /\ Reset(c).task = NoTask /\ Reset(c).writeBuf = <<>>
         /\ ~Reset(c).closePending /\ ~Reset(c).closing
         /\ Reset(c).alive = c.alive /\ Reset(c).timer = c.timer
         /\ Reset(c).tasks = c.tasks /\ Reset(c).iq_id = c.iq_id
  <1>1. NoTask \in Tasks /\ 0 \in 0..(SeqSpace - 1) /\ <<>> \in Seq(Nat)
    BY SpaceAssumption DEF NoTask, Tasks
  <1> QED
    BY <1>1 DEF Reset, Connections

(* c with a close() asked for, and what the destructor leaves of c.        *)
Pending(c) == [c EXCEPT !.closePending = TRUE]
Emptied(c) == [c EXCEPT !.writeBuf = <<>>]
Dead(c)    == [Closed(c) EXCEPT !.state = "Idle", !.alive = FALSE, !.task = NoTask, !.timer = FALSE]

(* close() first notes that a close is pending.                            *)
LEMMA PendingIs ==
  ASSUME NEW c \in Connections
  PROVE  /\ Pending(c) \in Connections /\ Pending(c).closePending
         /\ SameRole(c, Pending(c)) /\ Pending(c).seq = c.seq
         /\ Pending(c).task = c.task /\ Pending(c).tasks = c.tasks
         /\ Pending(c).writeBuf = c.writeBuf /\ Pending(c).closing = c.closing
  BY DEF Pending, Connections, SameRole

(* The destructor first clears the write buffer.                           *)
LEMMA EmptiedIs ==
  ASSUME NEW c \in Connections
  PROVE  /\ Emptied(c) \in Connections /\ Emptied(c).writeBuf = <<>>
         /\ SameRole(c, Emptied(c)) /\ Emptied(c).seq = c.seq
         /\ Emptied(c).task = c.task /\ Emptied(c).tasks = c.tasks
         /\ Emptied(c).closePending = c.closePending /\ Emptied(c).closing = c.closing
  <1>1. <<>> \in Seq(Nat)
    OBVIOUS
  <1> QED
    BY <1>1 DEF Emptied, Connections, SameRole

(* close(): what is left of the connection in each state.                  *)
LEMMA ClosedIs ==
  ASSUME NEW c \in Connections
  PROVE  /\ Closed(c) \in Connections
         /\ Closed(c).alive = c.alive /\ Closed(c).iq_id = c.iq_id /\ Closed(c).timer = c.timer
         /\ c.state = "Idle" => Closed(c) = c
         /\ c.state = "Active" =>
              IF TrySend(Pending(c)).writeBuf # <<>> \/ TrySend(Pending(c)).closing
              THEN Closed(c) = TrySend(Pending(c)) ELSE Closed(c) = Reset(c)
         /\ c.state \in {"Requesting", "WaitingForAccept"} => Closed(c) = Reset(c)
  <1> DEFINE t == TrySend(Pending(c))
             keeps == t.writeBuf # <<>> \/ t.closing
  <1>1. Closed(c) = CASE c.state = "Idle" -> c
                      [] c.state = "Active" /\ keeps -> t
                      [] OTHER -> Reset(c)
    BY Zenon DEF Closed, Pending
  <1>2. /\ Pending(c) \in Connections /\ SameRole(c, Pending(c))
        /\ t \in Connections /\ SameRole(Pending(c), t)
    BY PendingIs, TrySendIs
  <1>3. /\ t \in Connections /\ t.alive = c.alive /\ t.iq_id = c.iq_id /\ t.timer = c.timer
    BY <1>2 DEF SameRole
  <1>4. /\ Reset(c) \in Connections /\ Reset(c).alive = c.alive
        /\ Reset(c).iq_id = c.iq_id /\ Reset(c).timer = c.timer
    BY ResetIs
  <1>5. c.state \in {"Idle", "Requesting", "WaitingForAccept", "Active"}
    BY ConnectionFields
  <1> HIDE DEF t, keeps
  <1>6. CASE c.state = "Idle"
    <2>1. c.state # "Active" /\ c.state \notin {"Requesting", "WaitingForAccept"}
      BY <1>6
    <2>2. Closed(c) = c
      BY <1>1, <1>6, <2>1, Zenon
    <2> QED
      BY <1>6, <2>1, <2>2 DEF t
  <1>7. CASE c.state = "Active" /\ keeps
    <2>1. c.state # "Idle" /\ c.state \notin {"Requesting", "WaitingForAccept"}
      BY <1>7
    <2>2. Closed(c) = t
      BY <1>1, <1>7, <2>1, Zenon
    <2> QED
      BY <1>3, <1>7, <2>1, <2>2 DEF t, keeps
  <1>8. CASE c.state # "Idle" /\ ~(c.state = "Active" /\ keeps)
    <2>1. Closed(c) = Reset(c)
      BY <1>1, <1>8, Zenon
    <2> QED
      BY <1>4, <1>8, <2>1 DEF t, keeps
  <1> QED
    BY <1>6, <1>7, <1>8

(* What close() puts on the wire.                                          *)
LEMMA CloseSendsIs ==
  ASSUME NEW c \in Connections
  PROVE  /\ CloseSends(c) \in Seq(IQs)
         /\ c.state = "WaitingForAccept" => CloseSends(c) = <<Error(c.iq_id)>>
         /\ c.state = "Active" => CloseSends(c) = Sends(Pending(c))
         /\ c.state \in {"Idle", "Requesting"} => CloseSends(c) = <<>>
  <1>1. Error(c.iq_id) \in IQs /\ Sends(Pending(c)) \in Seq(IQs)
    BY SendsIs, PendingIs, Messages, ConnectionFields, SpaceAssumption
  <1>2. CloseSends(c) = CASE c.state = "WaitingForAccept" -> <<Error(c.iq_id)>>
                          [] c.state = "Active" -> Sends(Pending(c))
                          [] OTHER -> <<>>
    BY Zenon DEF CloseSends, Pending
  <1>3. c.state = "WaitingForAccept" => c.state # "Active"
    OBVIOUS
  <1>4. /\ c.state = "WaitingForAccept" => CloseSends(c) = <<Error(c.iq_id)>>
        /\ c.state = "Active" => CloseSends(c) = Sends(Pending(c))
        /\ c.state # "WaitingForAccept" /\ c.state # "Active" => CloseSends(c) = <<>>
    BY <1>2, <1>3, Zenon
  <1>5. <<Error(c.iq_id)>> \in Seq(IQs) /\ <<>> \in Seq(IQs)
    BY <1>1
  <1>6. CloseSends(c) \in Seq(IQs)
    BY <1>1, <1>4, <1>5, Zenon
  <1>7. c.state \in {"Idle", "Requesting"} => c.state # "WaitingForAccept" /\ c.state # "Active"
    OBVIOUS
  <1> QED
    BY <1>4, <1>6, <1>7, Zenon

(* What a successful task leaves: an open stream, the end of a closed one, *)
(* or a stream that will try to send again.                                *)
LEMMA SucceededIs ==
  ASSUME NEW c \in Connections, c.task.mode = "open" => ~c.closing
  PROVE  /\ Succeeded(c) \in Connections
         /\ Succeeded(c).alive = c.alive /\ Succeeded(c).iq_id = c.iq_id
         /\ Succeeded(c).tasks = c.tasks /\ Succeeded(c).task = NoTask
         /\ c.task.mode = "open" =>
              /\ Succeeded(c).state = "Active" /\ Succeeded(c).linked
              /\ Succeeded(c).seq = c.seq /\ Succeeded(c).writeBuf = c.writeBuf
              /\ Succeeded(c).closePending = c.closePending /\ Succeeded(c).closing = c.closing
              /\ Succeeded(c).timer = c.timer
         /\ c.task.mode # "open" /\ c.closing => Succeeded(c) = Reset(c)
         /\ c.task.mode # "open" /\ ~c.closing =>
              /\ Succeeded(c).state = c.state /\ Succeeded(c).linked = c.linked
              /\ Succeeded(c).seq = c.seq /\ Succeeded(c).writeBuf = c.writeBuf
              /\ Succeeded(c).closePending = c.closePending /\ Succeeded(c).closing = c.closing
              /\ (Succeeded(c).timer <=> (c.timer \/ c.writeBuf # <<>> \/ c.closePending))
  <1>1. NoTask \in Tasks
    BY DEF NoTask, Tasks
  <1> DEFINE mode == c.task.mode
             on   == c.timer \/ c.writeBuf # <<>> \/ c.closePending
             o    == [c EXCEPT !.task = NoTask, !.state = "Active", !.linked = TRUE]
             d    == [c EXCEPT !.task = NoTask, !.timer = on]
  <1>2. Succeeded(c) = CASE mode = "open" -> o [] c.closing -> Reset(c) [] OTHER -> d
    BY Zenon DEF Succeeded
  <1>3. on \in BOOLEAN
    OBVIOUS
  <1>4. o \in Connections /\ d \in Connections
    BY <1>1 DEF Connections
  <1>5. /\ o.alive = c.alive /\ o.iq_id = c.iq_id /\ o.tasks = c.tasks /\ o.task = NoTask
        /\ o.state = "Active" /\ o.linked /\ o.seq = c.seq /\ o.writeBuf = c.writeBuf
        /\ o.closePending = c.closePending /\ o.closing = c.closing /\ o.timer = c.timer
    BY DEF Connections
  <1>6. /\ d.alive = c.alive /\ d.iq_id = c.iq_id /\ d.tasks = c.tasks /\ d.task = NoTask
        /\ d.state = c.state /\ d.linked = c.linked /\ d.seq = c.seq /\ d.writeBuf = c.writeBuf
        /\ d.closePending = c.closePending /\ d.closing = c.closing /\ d.timer = on
    BY DEF Connections
  <1>7. /\ Reset(c) \in Connections /\ Reset(c).alive = c.alive /\ Reset(c).iq_id = c.iq_id
        /\ Reset(c).tasks = c.tasks /\ Reset(c).task = NoTask
    BY ResetIs
  <1> HIDE DEF o, d
  <1>8. CASE mode = "open"
    <2>1. Succeeded(c) = o
      BY <1>2, <1>8, Zenon
    <2> QED
      BY <1>4, <1>5, <1>8, <2>1
  <1>9. CASE mode # "open" /\ c.closing
    <2>1. Succeeded(c) = Reset(c)
      BY <1>2, <1>9, Zenon
    <2> QED
      BY <1>7, <1>9, <2>1
  <1>10. CASE mode # "open" /\ ~c.closing
    <2>1. Succeeded(c) = d
      BY <1>2, <1>10, Zenon
    <2> QED
      BY <1>4, <1>6, <1>10, <2>1
  <1> QED
    BY <1>8, <1>9, <1>10

-----------------------------------------------------------------------------
(* Which values the fields of a connection take together.                  *)
Shape(c) ==
  /\ c.state \in {"Idle", "WaitingForAccept"} => c.task = NoTask
  /\ ~c.alive => c.state = "Idle" /\ ~c.timer
  /\ c.state # "Active" => c.writeBuf = <<>> /\ (c.alive => ~c.closePending /\ ~c.closing)
  /\ (c.task.mode = "open") <=> (c.state = "Requesting")
  /\ (c.task.mode = "none") <=> (c.task = NoTask)
  /\ c.task # NoTask => c.task.id = c.tasks /\ c.tasks >= 1
  /\ (c.task.mode = "data") <=> (c.task.bytes >= 1)
  /\ c.state = "Active" => (c.closing <=> (c.task.mode = "close"))
  /\ c.closing => c.writeBuf = <<>>
  /\ c.linked /\ c.alive => c.state = "Active"
  /\ c.state \in {"Requesting", "WaitingForAccept"} => c.seq = 0 /\ ~c.linked

Shapes == \A e \in End : Shape(conn[e])

(* A new connection has the shape.                                         *)
LEMMA ShapeFresh == Fresh \in Connections /\ Shape(Fresh)
  <1>1. <<>> \in Seq(Nat) /\ 0 \in 0..(SeqSpace - 1)
    BY SpaceAssumption
  <1> QED
    BY <1>1 DEF Fresh, Connections, Tasks, NoTask, Shape

(* A connection that is reset has the shape.                               *)
LEMMA ShapeReset ==
  ASSUME NEW c \in Connections, Shape(c)
  PROVE  Shape(Reset(c))
  BY ResetIs DEF Shape, NoTask

(* So has one that waits to be closed,                                     *)
LEMMA ShapePending ==
  ASSUME NEW c \in Connections, Shape(c), c.state = "Active"
  PROVE  Shape(Pending(c))
  BY PendingIs DEF Shape, SameRole

(* Only an Active connection sends a block or a close, and a request at a  *)
(* time.                                                                   *)
LEMMA Sending ==
  ASSUME NEW c \in Connections, Shape(c), c.alive, SendsBlock(c) \/ SendsClose(c)
  PROVE  c.state = "Active" /\ c.task = NoTask /\ ~c.closing
  BY DEF Shape, SendsBlock, SendsClose, NoTask

(* one that trySend has served,                                            *)
LEMMA ShapeTrySend ==
  ASSUME NEW c \in Connections, Shape(c), c.alive
  PROVE  Shape(TrySend(c))
  <1> DEFINE t == TrySend(c)
  <1>1. t \in Connections /\ SameRole(c, t) /\ c.tasks \in Nat
    BY TrySendIs, ConnectionFields
  <1>2. CASE SendsBlock(c)
    <2> DEFINE n == Len(NextBlock(c))
    <2>1. /\ t.task = [mode |-> "data", id |-> c.tasks + 1, bytes |-> n]
          /\ t.tasks = c.tasks + 1 /\ t.closing = c.closing
      BY <1>2, TrySendIs
    <2>2. n \in Nat /\ n >= 1
      BY <1>2, NextBlockIs, SpaceAssumption DEF SendsBlock
    <2>3. c.state = "Active" /\ ~c.closing
      BY <1>2, Sending
    <2> HIDE DEF t, n
    <2>4. /\ t.task.mode = "data" /\ t.task.id = t.tasks /\ t.task.bytes = n
          /\ t.task # NoTask /\ t.tasks >= 1
      BY <1>1, <2>1 DEF NoTask
    <2>5. t.state = "Active" /\ t.alive /\ ~t.closing
      BY <1>1, <2>1, <2>3 DEF SameRole
    <2>6. Shape(t)
      BY <2>2, <2>4, <2>5 DEF Shape
    <2> QED
      BY <2>6 DEF t
  <1>3. CASE SendsClose(c)
    <2>1. /\ t.task = [mode |-> "close", id |-> c.tasks + 1, bytes |-> 0]
          /\ t.tasks = c.tasks + 1 /\ t.closing /\ t.writeBuf = <<>>
      BY <1>3, TrySendIs
    <2>2. c.state = "Active"
      BY <1>3, Sending
    <2> HIDE DEF t
    <2>3. /\ t.task.mode = "close" /\ t.task.id = t.tasks /\ t.task.bytes = 0
          /\ t.task # NoTask /\ t.tasks >= 1
      BY <1>1, <2>1 DEF NoTask
    <2>4. t.state = "Active" /\ t.alive
      BY <1>1, <2>2 DEF SameRole
    <2>5. Shape(t)
      BY <2>1, <2>3, <2>4 DEF Shape
    <2> QED
      BY <2>5 DEF t
  <1>4. CASE ~SendsBlock(c) /\ ~SendsClose(c)
    BY <1>4, TrySendIs
  <1> QED
    BY <1>2, <1>3, <1>4

(* one whose close() has returned,                                         *)
LEMMA ShapeClosed ==
  ASSUME NEW c \in Connections, Shape(c)
  PROVE  Shape(Closed(c))
  <1>1. c.state = "Idle" \/ c.state = "Active" \/ c.state \in {"Requesting", "WaitingForAccept"}
    BY ConnectionFields
  <1>2. c.state = "Active" => Shape(TrySend(Pending(c)))
    BY PendingIs, ShapePending, ShapeTrySend DEF Shape, SameRole
  <1> QED
    BY <1>1, <1>2, ClosedIs, ShapeReset

(* and one whose task has succeeded; that task belongs to an object that   *)
(* lives and, if it opened the stream, to one that is not closing.         *)
LEMMA ShapeSucceeded ==
  ASSUME NEW c \in Connections, Shape(c), c.task # NoTask
  PROVE  Shape(Succeeded(c)) /\ (c.task.mode = "open" => ~c.closing) /\ c.alive
  <1>1. c.task.mode = "open" => ~c.closing
    BY DEF Shape
  <1>2. c.alive /\ (c.task.mode # "open" => c.state = "Active")
    BY ConnectionFields DEF Shape, NoTask
  <1> DEFINE d == Succeeded(c)
  <1>3. d.alive = c.alive /\ d.tasks = c.tasks /\ d.task = NoTask
    BY <1>1, SucceededIs
  <1>4. CASE c.task.mode = "open"
    <2>1. /\ d.state = "Active" /\ d.linked
          /\ d.writeBuf = c.writeBuf /\ d.closing = c.closing
      BY <1>1, <1>4, SucceededIs
    <2> HIDE DEF d
    <2>2. Shape(d)
      BY <1>1, <1>2, <1>3, <1>4, <2>1 DEF Shape, NoTask
    <2> QED
      BY <1>1, <1>2, <2>2 DEF d
  <1>5. CASE c.task.mode # "open" /\ c.closing
    BY <1>1, <1>2, <1>5, SucceededIs, ShapeReset
  <1>6. CASE c.task.mode # "open" /\ ~c.closing
    <2>1. /\ d.state = c.state /\ d.linked = c.linked
          /\ d.writeBuf = c.writeBuf /\ d.closing = c.closing
      BY <1>1, <1>6, SucceededIs
    <2> HIDE DEF d
    <2>2. Shape(d)
      BY <1>1, <1>2, <1>3, <1>6, <2>1 DEF Shape, NoTask
    <2> QED
      BY <1>1, <1>2, <2>2 DEF d
  <1> QED
    BY <1>4, <1>5, <1>6

(* A deleted connection is Idle and has nothing to do; one that was Idle   *)
(* already keeps its place in the manager's list.                          *)
LEMMA DeadIs ==
  ASSUME NEW c \in Connections, Shape(c)
  PROVE  /\ Dead(Emptied(c)) \in Connections /\ Shape(Dead(Emptied(c)))
         /\ Dead(Emptied(c)).state = "Idle" /\ ~Dead(Emptied(c)).alive
         /\ Dead(Emptied(c)).task = NoTask /\ Dead(Emptied(c)).writeBuf = <<>>
         /\ c.state = "Idle" => /\ Dead(Emptied(c)).closePending = c.closePending
                               /\ Dead(Emptied(c)).linked = c.linked
         /\ Dead(Emptied(c)).tasks = Closed(Emptied(c)).tasks
         /\ Dead(Emptied(c)).iq_id = Closed(Emptied(c)).iq_id
  <1> DEFINE b == Emptied(c)
             d == Closed(b)
  <1>1. /\ b \in Connections /\ b.writeBuf = <<>> /\ SameRole(c, b)
        /\ b.closePending = c.closePending
    BY EmptiedIs
  <1> HIDE DEF b
  <1>2. d \in Connections /\ d.writeBuf = <<>> /\ (c.state = "Idle" => d.closePending = c.closePending /\ d.linked = c.linked)
    <2>1. Pending(b) \in Connections /\ Pending(b).writeBuf = <<>>
      BY <1>1, PendingIs
    <2>2. TrySend(Pending(b)).writeBuf = <<>>
      BY <2>1, TrySendIs DEF SendsBlock
    <2>3. b.state = "Idle" \/ b.state = "Active" \/ b.state \in {"Requesting", "WaitingForAccept"}
      BY <1>1, ConnectionFields
    <2>4. Reset(b).writeBuf = <<>>
      BY <1>1, ResetIs
    <2>5. b.state = "Active" => d.writeBuf = <<>>
      BY <1>1, <2>2, <2>4, ClosedIs
    <2>6. b.state = "Idle" => d = b
      BY <1>1, ClosedIs
    <2>7. b.state \in {"Requesting", "WaitingForAccept"} => d.writeBuf = <<>>
      BY <1>1, <2>4, ClosedIs
    <2>8. d \in Connections
      BY <1>1, ClosedIs
    <2>9. b.state = c.state /\ b.linked = c.linked
      BY <1>1 DEF SameRole
    <2> QED
      BY <1>1, <2>3, <2>5, <2>6, <2>7, <2>8, <2>9
  <1> HIDE DEF d
  <1>3. Dead(b) = [d EXCEPT !.state = "Idle", !.alive = FALSE, !.task = NoTask, !.timer = FALSE]
    BY DEF Dead, d
  <1>4. NoTask \in Tasks
    BY DEF NoTask, Tasks
  <1>5. /\ Dead(b) \in Connections /\ Dead(b).state = "Idle" /\ ~Dead(b).alive
        /\ Dead(b).task = NoTask /\ ~Dead(b).timer
        /\ Dead(b).writeBuf = d.writeBuf /\ Dead(b).closePending = d.closePending
        /\ Dead(b).tasks = d.tasks /\ Dead(b).iq_id = d.iq_id /\ Dead(b).linked = d.linked
    BY <1>2, <1>3, <1>4 DEF Connections
  <1>6. Shape(Dead(b))
    BY <1>2, <1>5 DEF Shape, NoTask
  <1> QED
    BY <1>2, <1>5, <1>6 DEF b, d

(* The connection that an incoming request creates.                        *)
LEMMA WaitingIs ==
  ASSUME NEW c \in Connections, NEW id \in Nat, c = Fresh
  PROVE  Waiting(c, id) \in Connections /\ Shape(Waiting(c, id))
  BY ShapeFresh DEF Waiting, Connections, Shape, Fresh, NoTask

-----------------------------------------------------------------------------
(* The two ends, and what a step does to them.                             *)
LEMMA Ends2 ==
  ASSUME NEW e \in End
  PROVE  /\ Peer(e) \in End /\ Peer(e) # e /\ Peer(Peer(e)) = e
         /\ \A p \in End : p = e \/ p = Peer(e)
  BY DEF End, Peer

(* End e has gone on with d and sent iqs.                                  *)
Goes(e, d, iqs) ==
  /\ conn' \in [End -> Connections] /\ net' \in [End -> Seq(IQs)]
  /\ conn'[e] = d /\ conn'[Peer(e)] = conn[Peer(e)]
  /\ net'[e] = net[e] \o iqs

(* A step that takes no IQ; it sends none if the stream is not active.     *)
LEMMA BecomesIs ==
  ASSUME TypeOK, NEW e \in End, NEW d \in Connections, NEW iqs \in Seq(IQs), Becomes(e, d, iqs)
  PROVE  /\ Goes(e, d, iqs) \/ Goes(e, d, <<>>)
         /\ net'[Peer(e)] = net[Peer(e)] /\ refused' \in [End -> Nat]
         /\ refused' = [refused EXCEPT ![e] = IF Refused(e, d) THEN d.tasks ELSE @]
  <1>1. conn \in [End -> Connections] /\ net \in [End -> Seq(IQs)] /\ refused \in [End -> Nat]
    BY DEF TypeOK
  <1>2. Sent(e, iqs) = iqs \/ Sent(e, iqs) = <<>>
    BY DEF Sent
  <1>3. net[e] \o Sent(e, iqs) \in Seq(IQs)
    <2>1. net[e] \in Seq(IQs) /\ <<>> \in Seq(IQs)
      BY <1>1
    <2>2. Sent(e, iqs) \in Seq(IQs)
      BY <1>2, <2>1, Zenon
    <2> QED
      BY <2>1, <2>2
  <1>4. Goes(e, d, Sent(e, iqs)) /\ net'[Peer(e)] = net[Peer(e)]
    BY <1>1, <1>3, Ends2 DEF Becomes, Goes
  <1>5. refused' = [refused EXCEPT ![e] = IF Refused(e, d) THEN d.tasks ELSE @]
    BY Zenon DEF Becomes
  <1>6. d.tasks \in Nat
    BY ConnectionFields
  <1>7. refused' \in [End -> Nat]
    BY <1>1, <1>5, <1>6
  <1> QED
    BY <1>2, <1>4, <1>5, <1>7

(* A step that takes an IQ and sends its answers.                          *)
LEMMA TakesIs ==
  ASSUME TypeOK, NEW e \in End, NEW d \in Connections, NEW iqs \in Seq(IQs), Takes(e, d, iqs),
         net[Peer(e)] # <<>>
  PROVE  Goes(e, d, iqs) /\ net'[Peer(e)] = Tail(net[Peer(e)]) /\ UNCHANGED refused
  <1>1. conn \in [End -> Connections] /\ net \in [End -> Seq(IQs)]
    BY DEF TypeOK
  <1>2. net[e] \o iqs \in Seq(IQs)
    BY <1>1
  <1>3. net[Peer(e)] \in Seq(IQs) /\ Peer(e) \in End /\ Peer(e) # e
    BY <1>1, Ends2
  <1>4. Tail(net[Peer(e)]) \in Seq(IQs)
    BY <1>3
  <1> DEFINE out == net[e] \o iqs
             in == Tail(net[Peer(e)])
  <1>5. net' = [net EXCEPT ![Peer(e)] = in, ![e] = out]
    BY <1>3, Zenon DEF Takes
  <1> HIDE DEF out, in
  <1>6. net' \in [End -> Seq(IQs)] /\ net'[e] = out /\ net'[Peer(e)] = in
    BY <1>1, <1>2, <1>3, <1>4, <1>5 DEF out, in
  <1>7. conn' \in [End -> Connections] /\ conn'[e] = d /\ conn'[Peer(e)] = conn[Peer(e)]
    BY <1>1, <1>3 DEF Takes
  <1>8. UNCHANGED refused
    BY DEF Takes
  <1> QED
    BY <1>6, <1>7, <1>8 DEF Goes, out, in

(* Only the connection of the end that moves needs a look.                 *)
LEMMA GoesShapes ==
  ASSUME Shapes, NEW e \in End, NEW d \in Connections, NEW iqs, Goes(e, d, iqs), Shape(d)
  PROVE  Shapes'
  <1>1. Shape(conn'[e]) /\ Shape(conn'[Peer(e)])
    BY Ends2 DEF Shapes, Goes
  <1> QED
    BY <1>1, Ends2 DEF Shapes

(* What Incoming finds at the head of the peer's queue.                    *)
LEMMA IncomingIs ==
  ASSUME TypeOK, NEW e \in End, NEW type, Incoming(e, type)
  PROVE  /\ net[Peer(e)] # <<>> /\ net[Peer(e)] \in Seq(IQs)
         /\ Head(net[Peer(e)]) \in IQs /\ Head(net[Peer(e)]).type = type
         /\ Head(net[Peer(e)]).id \in Nat /\ Head(net[Peer(e)]).data \in Seq(Nat)
  <1>1. net[Peer(e)] # <<>> /\ net[Peer(e)] \in Seq(IQs) /\ Head(net[Peer(e)]).type = type
    BY Ends2 DEF TypeOK, Incoming
  <1>2. Head(net[Peer(e)]) \in IQs
    BY <1>1
  <1> QED
    BY <1>1, <1>2 DEF IQs

Endings == {"no", "closed", "cancelled", "remote", "failed", "destroyed", "crashed"}

(* A stream's end is noted once: the first stays.                          *)
LEMMA EndsIs ==
  ASSUME TypeOK, NEW e \in End, NEW how \in Endings, Ends(e, how)
  PROVE  /\ ended' \in [End -> Endings]
         /\ ended'[e] = (IF ended[e] = "no" THEN how ELSE ended[e])
         /\ ended'[Peer(e)] = ended[Peer(e)]
  BY Ends2 DEF TypeOK, Ends, Endings

-----------------------------------------------------------------------------
(* The IQs under way in a direction, whatever their order.                 *)
LEMMA RangeOfConcat ==
  ASSUME NEW s \in Seq(IQs), NEW t \in Seq(IQs)
  PROVE  Range(s \o t) = Range(s) \union Range(t)
  <1>1. \A x \in Range(s \o t) : x \in Range(s) \union Range(t)
    <2>1. \A i \in DOMAIN (s \o t) : \/ i \in DOMAIN s /\ (s \o t)[i] = s[i]
                                     \/ i - Len(s) \in DOMAIN t /\ (s \o t)[i] = t[i - Len(s)]
      OBVIOUS
    <2> QED
      BY <2>1 DEF Range
  <1>2. \A x \in Range(s) : x \in Range(s \o t)
    <2>1. \A i \in DOMAIN s : i \in DOMAIN (s \o t) /\ (s \o t)[i] = s[i]
      OBVIOUS
    <2> QED
      BY <2>1 DEF Range
  <1>3. \A x \in Range(t) : x \in Range(s \o t)
    <2>1. \A i \in DOMAIN t : Len(s) + i \in DOMAIN (s \o t) /\ (s \o t)[Len(s) + i] = t[i]
      OBVIOUS
    <2> QED
      BY <2>1 DEF Range
  <1> QED
    BY <1>1, <1>2, <1>3

(* What is left of a queue that has been cut was in it.                    *)
LEMMA RangeOfPrefix ==
  ASSUME NEW s \in Seq(IQs), NEW n \in 0..Len(s)
  PROVE  SubSeq(s, 1, n) \in Seq(IQs) /\ Range(SubSeq(s, 1, n)) \subseteq Range(s)
  <1>1. /\ SubSeq(s, 1, n) \in Seq(IQs)
        /\ \A i \in DOMAIN SubSeq(s, 1, n) : i \in DOMAIN s /\ SubSeq(s, 1, n)[i] = s[i]
    OBVIOUS
  <1> QED
    BY <1>1 DEF Range

(* The head of a queue and what follows it were in it.                     *)
LEMMA RangeOfTail ==
  ASSUME NEW s \in Seq(IQs), s # <<>>
  PROVE  /\ Tail(s) \in Seq(IQs) /\ Range(Tail(s)) \subseteq Range(s)
         /\ Head(s) \in Range(s)
  <1>1. /\ Tail(s) \in Seq(IQs)
        /\ \A i \in DOMAIN Tail(s) : i + 1 \in DOMAIN s /\ Tail(s)[i] = s[i + 1]
    OBVIOUS
  <1>2. 1 \in DOMAIN s /\ Head(s) = s[1]
    OBVIOUS
  <1> QED
    BY <1>1, <1>2 DEF Range

(* The queues of no, one and two IQs.                                      *)
LEMMA RangeOfNone == Range(<<>>) = {}
  BY DEF Range

LEMMA RangeOfOne ==
  ASSUME NEW x
  PROVE  Range(<<x>>) = {x}
  BY DEF Range

LEMMA RangeOfTwo ==
  ASSUME NEW x, NEW y
  PROVE  Range(<<x, y>>) = {x, y}
  BY DEF Range

-----------------------------------------------------------------------------
(* What an owner or the event loop does to a connection, the opening of    *)
(* the stream aside: end e goes on with d and sends iqs; it has taken the  *)
(* next IQ of its peer, or left its queue alone, and then without an       *)
(* active stream nothing is sent.                                          *)
Ordinary(e, d, iqs, takes) ==
  /\ Goes(e, d, iqs) \/ (~takes /\ Goes(e, d, <<>>))
  /\ d \in Connections /\ Shape(d) /\ iqs \in Seq(IQs)
  /\ IF takes
     THEN /\ net[Peer(e)] # <<>> /\ Head(net[Peer(e)]).type # "open"
          /\ net'[Peer(e)] = Tail(net[Peer(e)])
     ELSE conn[e] # Fresh /\ net'[Peer(e)] = net[Peer(e)]
  /\ d.state \in {conn[e].state, "Idle", "Active"} /\ d.tasks >= conn[e].tasks
  /\ \A m \in Range(iqs) : m.type # "open"
  /\ ended'[Peer(e)] = ended[Peer(e)]
  /\ ~takes /\ conn[e].state # "Active" =>
       /\ d.state # "Active" /\ d.tasks = conn[e].tasks
       /\ conn[e].state # "WaitingForAccept" \/ d.state = "WaitingForAccept" => iqs = <<>>
       /\ d.iq_id = conn[e].iq_id
       /\ UNCHANGED <<written, confirmed, received>>

Filled(c, w, n) == [c EXCEPT !.writeBuf = @ \o [i \in 1..n |-> w + i]]
Fired(c)        == [c EXCEPT !.timer = FALSE]
Counted(c)      == [c EXCEPT !.seq = (@ + 1) % SeqSpace]

(* Bytes appended to bytes.                                                *)
LEMMA BytesConcat ==
  ASSUME NEW s \in Seq(Nat), NEW t \in Seq(Nat)
  PROVE  /\ s \o t \in Seq(Nat) /\ Len(s \o t) = Len(s) + Len(t)
         /\ \A j \in 1..Len(s) : (s \o t)[j] = s[j]
         /\ \A j \in 1..Len(t) : (s \o t)[Len(s) + j] = t[j]
  OBVIOUS

(* The buffer after a write of n bytes: the old bytes, then the new ones   *)
(* with the numbers after w.                                               *)
LEMMA FilledBuffer ==
  ASSUME NEW c \in Connections, NEW w \in Nat, NEW n \in Nat
  PROVE  /\ Filled(c, w, n) \in Connections
         /\ Len(Filled(c, w, n).writeBuf) = Len(c.writeBuf) + n
         /\ \A j \in 1..Len(c.writeBuf) : Filled(c, w, n).writeBuf[j] = c.writeBuf[j]
         /\ \A j \in 1..n : Filled(c, w, n).writeBuf[Len(c.writeBuf) + j] = w + j
  <1> DEFINE more == [i \in 1..n |-> w + i]
             buf  == c.writeBuf \o more
  <1>1. more \in Seq(Nat) /\ Len(more) = n /\ \A j \in 1..n : more[j] = w + j
    OBVIOUS
  <1>2. c.writeBuf \in Seq(Nat)
    BY ConnectionFields
  <1> HIDE DEF more
  <1>3. /\ buf \in Seq(Nat) /\ Len(buf) = Len(c.writeBuf) + n
        /\ \A j \in 1..Len(c.writeBuf) : buf[j] = c.writeBuf[j]
        /\ \A j \in 1..n : buf[Len(c.writeBuf) + j] = w + j
    BY <1>1, <1>2, BytesConcat
  <1> HIDE DEF buf
  <1>4. Filled(c, w, n) = [c EXCEPT !.writeBuf = buf]
    BY DEF Filled, buf, more
  <1>5. Filled(c, w, n) \in Connections /\ Filled(c, w, n).writeBuf = buf
    BY <1>3, <1>4 DEF Connections
  <1> QED
    BY <1>3, <1>5

(* Nothing but the buffer has changed then.                                *)
LEMMA FilledIs ==
  ASSUME NEW c \in Connections, NEW w \in Nat, NEW n \in Nat
  PROVE  /\ Filled(c, w, n) \in Connections /\ SameRole(c, Filled(c, w, n))
         /\ Filled(c, w, n).seq = c.seq /\ Filled(c, w, n).task = c.task
         /\ Filled(c, w, n).tasks = c.tasks
         /\ Filled(c, w, n).closePending = c.closePending
         /\ Filled(c, w, n).closing = c.closing
  <1> DEFINE buf == c.writeBuf \o [i \in 1..n |-> w + i]
  <1>1. Filled(c, w, n) = [c EXCEPT !.writeBuf = buf]
    BY DEF Filled
  <1> HIDE DEF buf
  <1>2. SameRole(c, Filled(c, w, n))
    BY <1>1 DEF Connections, SameRole
  <1>3. /\ Filled(c, w, n).seq = c.seq /\ Filled(c, w, n).task = c.task
        /\ Filled(c, w, n).tasks = c.tasks
        /\ Filled(c, w, n).closePending = c.closePending
        /\ Filled(c, w, n).closing = c.closing
    BY <1>1 DEF Connections
  <1> QED
    BY <1>2, <1>3, FilledBuffer

(* A connection whose timer has fired, otherwise as it was.                *)
LEMMA FiredIs ==
  ASSUME NEW c \in Connections
  PROVE  /\ Fired(c) \in Connections /\ ~Fired(c).timer
         /\ Fired(c).state = c.state /\ Fired(c).linked = c.linked /\ Fired(c).alive = c.alive
         /\ Fired(c).iq_id = c.iq_id /\ Fired(c).seq = c.seq
         /\ Fired(c).task = c.task /\ Fired(c).tasks = c.tasks
         /\ Fired(c).writeBuf = c.writeBuf
         /\ Fired(c).closePending = c.closePending /\ Fired(c).closing = c.closing
         /\ Shape(c) => Shape(Fired(c))
  <1>1. /\ Fired(c) \in Connections /\ ~Fired(c).timer
        /\ Fired(c).state = c.state /\ Fired(c).linked = c.linked /\ Fired(c).alive = c.alive
        /\ Fired(c).iq_id = c.iq_id /\ Fired(c).seq = c.seq
        /\ Fired(c).task = c.task /\ Fired(c).tasks = c.tasks
        /\ Fired(c).writeBuf = c.writeBuf
        /\ Fired(c).closePending = c.closePending /\ Fired(c).closing = c.closing
    BY DEF Fired, Connections
  <1> QED
    BY <1>1 DEF Shape

(* A connection that has counted one more block received.                  *)
LEMMA CountedIs ==
  ASSUME NEW c \in Connections
  PROVE  /\ Counted(c) \in Connections /\ SameRole(c, Counted(c))
         /\ Counted(c).seq = (c.seq + 1) % SeqSpace
         /\ Counted(c).task = c.task /\ Counted(c).tasks = c.tasks
         /\ Counted(c).writeBuf = c.writeBuf
         /\ Counted(c).closePending = c.closePending /\ Counted(c).closing = c.closing
         /\ Shape(c) /\ c.linked /\ c.alive => Shape(Counted(c))
  <1>1. (c.seq + 1) % SeqSpace \in 0..(SeqSpace - 1)
    BY SpaceAssumption, ConnectionFields
  <1>2. /\ Counted(c) \in Connections /\ SameRole(c, Counted(c))
        /\ Counted(c).seq = (c.seq + 1) % SeqSpace
        /\ Counted(c).task = c.task /\ Counted(c).tasks = c.tasks
        /\ Counted(c).writeBuf = c.writeBuf
        /\ Counted(c).closePending = c.closePending /\ Counted(c).closing = c.closing
    BY <1>1 DEF Counted, Connections, SameRole
  <1> QED
    BY <1>2 DEF Shape, SameRole

(* trySend leaves a connection that is not Active alone.                   *)
LEMMA TrySendOrdinary ==
  ASSUME NEW c \in Connections, Shape(c), c.alive
  PROVE  /\ TrySend(c).tasks >= c.tasks /\ TrySend(c).state = c.state
         /\ TrySend(c).iq_id = c.iq_id
         /\ c.state # "Active" => TrySend(c) = c /\ Sends(c) = <<>>
         /\ \A m \in Range(Sends(c)) : m.type \in {"data", "close"}
  <1>1. c.tasks \in Nat
    BY ConnectionFields
  <1>2. CASE SendsBlock(c)
    <2>1. Range(Sends(c)) = {DataIQ(c.tasks + 1, c.seq, NextBlock(c))}
      BY <1>2, SendsIs, RangeOfOne
    <2>2. \A m \in Range(Sends(c)) : m.type = "data"
      BY <2>1 DEF DataIQ
    <2>3. /\ TrySend(c).tasks = c.tasks + 1 /\ TrySend(c).state = c.state
          /\ TrySend(c).iq_id = c.iq_id
      BY <1>2, TrySendIs DEF SameRole
    <2> QED
      BY <1>1, <1>2, <2>2, <2>3, Sending
  <1>3. CASE SendsClose(c)
    <2>1. Range(Sends(c)) = {CloseIQ(c.tasks + 1)}
      BY <1>3, SendsIs, RangeOfOne
    <2>2. \A m \in Range(Sends(c)) : m.type = "close"
      BY <2>1 DEF CloseIQ
    <2>3. /\ TrySend(c).tasks = c.tasks + 1 /\ TrySend(c).state = c.state
          /\ TrySend(c).iq_id = c.iq_id
      BY <1>3, TrySendIs DEF SameRole
    <2> QED
      BY <1>1, <1>3, <2>2, <2>3, Sending
  <1>4. CASE ~SendsBlock(c) /\ ~SendsClose(c)
    <2>1. TrySend(c) = c /\ Sends(c) = <<>>
      BY <1>4, TrySendIs, SendsIs
    <2>2. Range(Sends(c)) = {}
      BY <2>1, RangeOfNone
    <2> QED
      BY <1>1, <2>1, <2>2
  <1> QED
    BY <1>2, <1>3, <1>4

(* close() is ordinary: it opens no stream, reuses no task id, and ends    *)
(* the connection in every state but Active.                               *)
LEMMA CloseOrdinary ==
  ASSUME NEW c \in Connections, Shape(c), c.alive
  PROVE  /\ Closed(c).tasks >= c.tasks /\ Closed(c).state \in {c.state, "Idle"}
         /\ Closed(c).iq_id = c.iq_id
         /\ c.state # "Active" => Closed(c).tasks = c.tasks /\ Closed(c).state = "Idle"
         /\ c.state \in {"Idle", "Requesting"} => CloseSends(c) = <<>>
         /\ \A m \in Range(CloseSends(c)) : m.type # "open"
  <1>1. c.tasks \in Nat /\ c.state \in {"Idle", "Requesting", "WaitingForAccept", "Active"}
    BY ConnectionFields
  <1>2. CASE c.state = "Active"
    <2>1. /\ Pending(c) \in Connections /\ Shape(Pending(c)) /\ Pending(c).alive
          /\ Pending(c).tasks = c.tasks /\ Pending(c).state = c.state
      BY <1>2, PendingIs, ShapePending DEF SameRole
    <2>2. /\ TrySend(Pending(c)).tasks >= c.tasks /\ TrySend(Pending(c)).state = c.state
          /\ \A m \in Range(Sends(Pending(c))) : m.type # "open"
      BY <2>1, TrySendOrdinary
    <2>3. Closed(c) = TrySend(Pending(c)) \/ Closed(c) = Reset(c)
      BY <1>2, ClosedIs
    <2>4. CloseSends(c) = Sends(Pending(c))
      BY <1>2, CloseSendsIs
    <2> QED
      BY <1>1, <1>2, <2>2, <2>3, <2>4, ResetIs, ClosedIs
  <1>3. CASE c.state = "Idle"
    <2>1. Closed(c) = c /\ CloseSends(c) = <<>>
      BY <1>3, ClosedIs, CloseSendsIs
    <2>2. Range(CloseSends(c)) = {}
      BY <2>1, RangeOfNone
    <2> QED
      BY <1>1, <1>3, <2>1, <2>2
  <1>4. CASE c.state = "Requesting"
    <2>1. Closed(c) = Reset(c) /\ CloseSends(c) = <<>>
      BY <1>4, ClosedIs, CloseSendsIs
    <2>2. Range(CloseSends(c)) = {}
      BY <2>1, RangeOfNone
    <2> QED
      BY <1>1, <1>4, <2>1, <2>2, ResetIs
  <1>5. CASE c.state = "WaitingForAccept"
    <2>1. Range(CloseSends(c)) = {Error(c.iq_id)}
      BY <1>5, CloseSendsIs, RangeOfOne
    <2> QED
      BY <1>1, <1>5, <2>1, ClosedIs, ResetIs DEF Error
  <1> QED
    BY <1>1, <1>2, <1>3, <1>4, <1>5

(* What TypeOK and Shapes say of one end.                                  *)
LEMMA StateIs ==
  ASSUME TypeOK, Shapes, NEW e \in End
  PROVE  /\ conn[e] \in Connections /\ Shape(conn[e]) /\ net[e] \in Seq(IQs)
         /\ written[e] \in Nat /\ confirmed[e] \in Nat /\ received[e] \in Seq(Nat)
         /\ ended[e] \in Endings
  BY DEF TypeOK, Shapes, Endings

(* writeData is trySend on the filled buffer.                              *)
LEMMA WriteDataIs ==
  ASSUME TypeOK, Shapes, NEW e \in End, NEW n \in 1..(MaxBytes - written[e]),
         conn[e].alive, conn[e].state = "Active", ~conn[e].closePending, ~conn[e].closing,
         written' = [written EXCEPT ![e] = @ + n],
         Becomes(e, TrySend(Filled(conn[e], written[e], n)), Sends(Filled(conn[e], written[e], n))),
         UNCHANGED <<stream, confirmed, received, ended, failures>>
  PROVE  /\ Ordinary(e, TrySend(Filled(conn[e], written[e], n)),
                     Sends(Filled(conn[e], written[e], n)), FALSE)
         /\ TypeOK' /\ Shape(Filled(conn[e], written[e], n)) /\ Filled(conn[e], written[e], n).alive
         /\ written'[e] = written[e] + n /\ written'[Peer(e)] = written[Peer(e)]
  <1> DEFINE c == conn[e]
             b == Filled(c, written[e], n)
  <1>1. c \in Connections /\ Shape(c) /\ written[e] \in Nat /\ n \in Nat
    BY StateIs, LimitAssumption
  <1>2. /\ b \in Connections /\ SameRole(c, b) /\ b.task = c.task /\ b.tasks = c.tasks
        /\ b.closing = c.closing
    BY <1>1, FilledIs
  <1>3. Becomes(e, TrySend(b), Sends(b))
    OBVIOUS
  <1> HIDE DEF b
  <1>4. Shape(b) /\ b.alive /\ b.state = "Active" /\ b.tasks = conn[e].tasks
    BY <1>1, <1>2 DEF Shape, SameRole
  <1>5. /\ TrySend(b).tasks >= b.tasks /\ TrySend(b).state = b.state
        /\ \A m \in Range(Sends(b)) : m.type # "open"
    BY <1>2, <1>4, TrySendOrdinary
  <1>6. TrySend(b) \in Connections /\ Sends(b) \in Seq(IQs) /\ Shape(TrySend(b))
    BY <1>2, <1>4, TrySendIs, SendsIs, ShapeTrySend
  <1>7. /\ Goes(e, TrySend(b), Sends(b)) \/ Goes(e, TrySend(b), <<>>)
        /\ net'[Peer(e)] = net[Peer(e)] /\ refused' \in [End -> Nat]
    BY <1>3, <1>6, BecomesIs
  <1>8. /\ written' \in [End -> Nat] /\ written'[e] = written[e] + n
        /\ written'[Peer(e)] = written[Peer(e)]
    BY <1>1, Ends2 DEF TypeOK
  <1>9. TypeOK'
    BY <1>7, <1>8 DEF TypeOK, Goes
  <1>10. conn[e] # Fresh
    BY DEF Fresh
  <1>11. Ordinary(e, TrySend(b), Sends(b), FALSE)
    BY <1>4, <1>5, <1>6, <1>7, <1>10 DEF Ordinary
  <1> QED
    BY <1>4, <1>8, <1>9, <1>11 DEF b

(* The owner's close() is ordinary.                                        *)
LEMMA CloseConnectionIs ==
  ASSUME TypeOK, Shapes, NEW e \in End, CloseConnection(e)
  PROVE  Ordinary(e, Closed(conn[e]), CloseSends(conn[e]), FALSE) /\ TypeOK'
  <1> DEFINE c == conn[e]
  <1>1. /\ c \in Connections /\ Shape(c) /\ c.alive /\ c.state # "Idle"
        /\ Becomes(e, Closed(c), CloseSends(c))
        /\ UNCHANGED <<stream, written, confirmed, received, failures>>
    BY StateIs DEF CloseConnection
  <1>2. /\ Closed(c) \in Connections /\ CloseSends(c) \in Seq(IQs) /\ Shape(Closed(c))
    BY <1>1, ClosedIs, CloseSendsIs, ShapeClosed
  <1>3. /\ Goes(e, Closed(c), CloseSends(c)) \/ Goes(e, Closed(c), <<>>)
        /\ net'[Peer(e)] = net[Peer(e)] /\ refused' \in [End -> Nat]
    BY <1>1, <1>2, BecomesIs
  <1>4. ended' \in [End -> Endings] /\ ended'[Peer(e)] = ended[Peer(e)]
    <2>1. \/ Ends(e, "closed") \/ Ends(e, "cancelled") \/ UNCHANGED ended
      BY DEF CloseConnection
    <2>2. {"closed", "cancelled"} \subseteq Endings
      BY DEF Endings
    <2> QED
      BY <2>1, <2>2, EndsIs DEF TypeOK, Endings
  <1>5. TypeOK'
    BY <1>1, <1>3, <1>4 DEF TypeOK, Goes, Endings
  <1>6. conn[e] # Fresh
    BY <1>1 DEF Fresh
  <1>7. /\ Closed(c).tasks >= c.tasks /\ Closed(c).state \in {c.state, "Idle"}
        /\ Closed(c).iq_id = c.iq_id
        /\ c.state # "Active" => Closed(c).tasks = c.tasks /\ Closed(c).state = "Idle"
        /\ c.state \in {"Idle", "Requesting"} => CloseSends(c) = <<>>
        /\ \A m \in Range(CloseSends(c)) : m.type # "open"
    BY <1>1, CloseOrdinary
  <1>8. c.state \in {"Idle", "Requesting", "WaitingForAccept", "Active"}
    BY <1>1, ConnectionFields
  <1>9. Ordinary(e, Closed(c), CloseSends(c), FALSE)
    BY <1>1, <1>2, <1>3, <1>4, <1>6, <1>7, <1>8 DEF Ordinary
  <1> QED
    BY <1>5, <1>9

(* Clearing the buffer keeps the shape.                                    *)
LEMMA EmptiedShape ==
  /\ Emptied(Fresh) = Fresh
  /\ \A c \in Connections : Shape(c) => Shape(Emptied(c)) /\ Emptied(c).alive = c.alive
  <1>1. Emptied(Fresh) = Fresh
    <2>1. \A c \in Connections : c.writeBuf = <<>> => Emptied(c) = c
      BY DEF Emptied, Connections
    <2>2. Fresh.writeBuf = <<>>
      BY DEF Fresh
    <2> QED
      BY <2>1, <2>2, ShapeFresh
  <1>2. ASSUME NEW c \in Connections, Shape(c)
        PROVE  Shape(Emptied(c)) /\ Emptied(c).alive = c.alive
    <2> DEFINE b == Emptied(c)
    <2>1. /\ b.state = c.state /\ b.linked = c.linked /\ b.alive = c.alive /\ b.timer = c.timer
          /\ b.seq = c.seq /\ b.task = c.task /\ b.tasks = c.tasks /\ b.writeBuf = <<>>
          /\ b.closePending = c.closePending /\ b.closing = c.closing
      BY <1>2, EmptiedIs DEF SameRole
    <2> HIDE DEF b
    <2>2. Shape(b)
      BY <1>2, <2>1 DEF Shape
    <2> QED
      BY <2>1, <2>2 DEF b
  <1> QED
    BY <1>1, <1>2

(* The destructor is close() on a cleared buffer, and the object is gone.  *)
LEMMA DestroyIs ==
  ASSUME TypeOK, Shapes, NEW e \in End, Destroy(e)
  PROVE  /\ Ordinary(e, Dead(Emptied(conn[e])), CloseSends(Emptied(conn[e])), FALSE) /\ TypeOK'
         /\ Shape(Emptied(conn[e])) /\ conn[e].alive
  <1> DEFINE c == conn[e]
             b == Emptied(c)
             d == Dead(b)
  <1>1. /\ c \in Connections /\ Shape(c) /\ c.alive
        /\ UNCHANGED <<stream, written, confirmed, received, failures>>
    BY StateIs DEF Destroy
  <1>2. /\ b \in Connections /\ b.writeBuf = <<>> /\ SameRole(c, b) /\ b.task = c.task
        /\ b.tasks = c.tasks /\ b.closePending = c.closePending /\ b.closing = c.closing
    BY <1>1, EmptiedIs
  <1>3. Becomes(e, d, CloseSends(b)) /\ Ends(e, "destroyed")
    BY DEF Destroy, Dead, Emptied
  <1>4. conn[e] # Fresh
    <2>1. b # Fresh
      BY DEF Destroy, Emptied
    <2>2. c = Fresh => b = Fresh
      BY EmptiedShape
    <2> QED
      BY <2>1, <2>2
  <1> HIDE DEF b
  <1>5. Shape(b) /\ b.alive
    BY <1>1, EmptiedShape DEF b
  <1>6. /\ d \in Connections /\ Shape(d) /\ d.state = "Idle"
        /\ d.tasks = Closed(b).tasks /\ d.iq_id = Closed(b).iq_id
    BY <1>1, DeadIs DEF b
  <1> HIDE DEF d
  <1>7. CloseSends(b) \in Seq(IQs)
    BY <1>2, CloseSendsIs
  <1>8. /\ Goes(e, d, CloseSends(b)) \/ Goes(e, d, <<>>)
        /\ net'[Peer(e)] = net[Peer(e)] /\ refused' \in [End -> Nat]
    BY <1>3, <1>6, <1>7, BecomesIs
  <1>9. ended' \in [End -> Endings] /\ ended'[Peer(e)] = ended[Peer(e)]
    BY <1>3, EndsIs DEF Endings
  <1>10. TypeOK'
    BY <1>1, <1>8, <1>9 DEF TypeOK, Goes, Endings
  <1>11. /\ Closed(b).tasks >= c.tasks /\ Closed(b).iq_id = c.iq_id
         /\ c.state # "Active" => Closed(b).tasks = c.tasks
         /\ c.state \in {"Idle", "Requesting"} => CloseSends(b) = <<>>
         /\ \A m \in Range(CloseSends(b)) : m.type # "open"
    BY <1>2, <1>5, CloseOrdinary DEF SameRole
  <1>12. c.state \in {"Idle", "Requesting", "WaitingForAccept", "Active"}
    BY <1>1, ConnectionFields
  <1>13. Ordinary(e, d, CloseSends(b), FALSE)
    BY <1>1, <1>4, <1>6, <1>7, <1>8, <1>9, <1>11, <1>12 DEF Ordinary
  <1> QED
    BY <1>1, <1>5, <1>10, <1>13 DEF b, d

(* An end that takes the next IQ of its peer: what has to be shown.        *)
LEMMA TakesOrdinary ==
  ASSUME TypeOK, Shapes, NEW e \in End, NEW d \in Connections, NEW iqs \in Seq(IQs),
         Shape(d), Takes(e, d, iqs),
         net[Peer(e)] # <<>>, Head(net[Peer(e)]).type # "open",
         d.state \in {conn[e].state, "Idle", "Active"}, d.tasks >= conn[e].tasks,
         \A m \in Range(iqs) : m.type # "open",
         ended' \in [End -> Endings], ended'[Peer(e)] = ended[Peer(e)],
         written' \in [End -> Nat], confirmed' \in [End -> Nat],
         received' \in [End -> Seq(Nat)], UNCHANGED <<stream, failures>>
  PROVE  Ordinary(e, d, iqs, TRUE) /\ TypeOK'
  <1>1. Goes(e, d, iqs) /\ net'[Peer(e)] = Tail(net[Peer(e)]) /\ UNCHANGED refused
    BY TakesIs
  <1>2. TypeOK'
    BY <1>1 DEF TypeOK, Goes, Endings
  <1> QED
    BY <1>1, <1>2 DEF Ordinary

(* takeIncomingData: a block without a connection is refused, a wrong one  *)
(* is answered with two IQs, and the expected one is read and counted.     *)
LEMMA TakeIncomingDataIs ==
  ASSUME TypeOK, Shapes, NEW e \in End, TakeIncomingData(e)
  PROVE  LET c == conn[e]
             m == Head(net[Peer(e)])
         IN /\ TypeOK' /\ m.type = "data" /\ net[Peer(e)] # <<>>
            /\ UNCHANGED <<written, confirmed, ended>>
            /\ \/ ~c.linked /\ Ordinary(e, c, <<Error(m.id)>>, TRUE) /\ UNCHANGED received
               \/ /\ c.linked /\ ~Expected(c, m) /\ UNCHANGED received
                  /\ Ordinary(e, c, <<Result(m.id), Error(c.iq_id)>>, TRUE)
               \/ /\ c.linked /\ c.state = "Active" /\ Expected(c, m)
                  /\ received' = [received EXCEPT ![e] = @ \o m.data]
                  /\ Ordinary(e, Counted(c), <<Result(m.id)>>, TRUE)
  <1> DEFINE c == conn[e]
             m == Head(net[Peer(e)])
  <1>1. /\ c \in Connections /\ Shape(c) /\ Incoming(e, "data")
        /\ UNCHANGED <<stream, written, confirmed, ended, failures>>
    BY StateIs DEF TakeIncomingData
  <1>2. m \in IQs /\ m.id \in Nat /\ m.type = "data" /\ net[Peer(e)] # <<>> /\ m.data \in Seq(Nat)
    BY <1>1, IncomingIs
  <1>3. /\ ended' \in [End -> Endings] /\ ended'[Peer(e)] = ended[Peer(e)]
        /\ written' \in [End -> Nat] /\ confirmed' \in [End -> Nat] /\ UNCHANGED <<stream, failures>>
        /\ c.tasks \in Nat /\ c.iq_id \in Nat /\ received[e] \in Seq(Nat)
    BY <1>1, ConnectionFields DEF TypeOK, Endings
  <1>4. Result(m.id) \in IQs /\ Error(m.id) \in IQs /\ Error(c.iq_id) \in IQs
    BY <1>2, <1>3, Answers
  <1>5. Result(m.id).type = "result" /\ Error(m.id).type = "error" /\ Error(c.iq_id).type = "error"
    BY DEF Result, Error
  <1>6. Head(net[Peer(e)]).type # "open" /\ c.state \in {conn[e].state, "Idle", "Active"}
         /\ c.tasks >= conn[e].tasks
    BY <1>2, <1>3
  <1> HIDE DEF m
  <1>7. CASE ~c.linked /\ Takes(e, c, <<Error(m.id)>>) /\ UNCHANGED received
    <2>1. <<Error(m.id)>> \in Seq(IQs) /\ \A a \in Range(<<Error(m.id)>>) : a.type # "open"
      BY <1>4, <1>5, RangeOfOne
    <2>2. received' \in [End -> Seq(Nat)]
      BY <1>7 DEF TypeOK
    <2>3. Ordinary(e, c, <<Error(m.id)>>, TRUE) /\ TypeOK'
      BY <1>1, <1>2, <1>3, <1>7, <1>6, <2>1, <2>2, TakesOrdinary
    <2> QED
      BY <1>1, <1>2, <1>7, <2>3 DEF m
  <1>8. CASE /\ c.linked /\ ~Expected(c, m) /\ UNCHANGED received
             /\ Takes(e, c, <<Result(m.id), Error(c.iq_id)>>)
    <2>1. /\ <<Result(m.id), Error(c.iq_id)>> \in Seq(IQs)
          /\ \A a \in Range(<<Result(m.id), Error(c.iq_id)>>) : a.type # "open"
      BY <1>4, <1>5, RangeOfTwo
    <2>2. received' \in [End -> Seq(Nat)]
      BY <1>8 DEF TypeOK
    <2>3. Ordinary(e, c, <<Result(m.id), Error(c.iq_id)>>, TRUE) /\ TypeOK'
      BY <1>1, <1>2, <1>3, <1>8, <1>6, <2>1, <2>2, TakesOrdinary
    <2> QED
      BY <1>1, <1>2, <1>8, <2>3 DEF m
  <1>9. CASE /\ c.linked /\ Expected(c, m) /\ Takes(e, Counted(c), <<Result(m.id)>>)
             /\ received' = [received EXCEPT ![e] = @ \o m.data]
    <2>1. <<Result(m.id)>> \in Seq(IQs) /\ \A a \in Range(<<Result(m.id)>>) : a.type # "open"
      BY <1>4, <1>5, RangeOfOne
    <2>2. received[e] \o m.data \in Seq(Nat)
      BY <1>2, <1>3
    <2>3. received' \in [End -> Seq(Nat)]
      BY <1>9, <2>2 DEF TypeOK
    <2>4. c.alive
      BY <1>1, <1>9 DEF Incoming
    <2>5. /\ Counted(c) \in Connections /\ Shape(Counted(c))
          /\ Counted(c).state = c.state /\ Counted(c).tasks = c.tasks
      BY <1>1, <1>9, <2>4, CountedIs DEF SameRole
    <2>6. Ordinary(e, Counted(c), <<Result(m.id)>>, TRUE) /\ TypeOK'
      BY <1>1, <1>2, <1>3, <1>9, <1>6, <2>1, <2>3, <2>5, TakesOrdinary
    <2>7. c.state = "Active"
      BY <1>1, <1>9, <2>4 DEF Shape
    <2> QED
      BY <1>1, <1>2, <1>9, <2>6, <2>7 DEF m
  <1>10. \/ ~c.linked /\ Takes(e, c, <<Error(m.id)>>) /\ UNCHANGED received
        \/ /\ c.linked /\ ~Expected(c, m) /\ UNCHANGED received
           /\ Takes(e, c, <<Result(m.id), Error(c.iq_id)>>)
        \/ /\ c.linked /\ Expected(c, m) /\ Takes(e, Counted(c), <<Result(m.id)>>)
           /\ received' = [received EXCEPT ![e] = @ \o m.data]
    BY Zenon DEF TakeIncomingData, Counted, m
  <1> QED
    BY <1>7, <1>8, <1>9, <1>10

(* A <close/> without a connection is refused; otherwise it resets the     *)
(* connection and tells its owner.                                         *)
LEMMA CloseRequestIs ==
  ASSUME TypeOK, Shapes, NEW e \in End, CloseRequest(e)
  PROVE  LET c == conn[e]
             m == Head(net[Peer(e)])
         IN /\ TypeOK' /\ m.type = "close" /\ net[Peer(e)] # <<>>
            /\ UNCHANGED <<written, confirmed, received>>
            /\ \/ ~c.linked /\ Ordinary(e, c, <<Error(m.id)>>, TRUE) /\ UNCHANGED ended
               \/ /\ c.linked /\ c.state = "Active" /\ Ends(e, "remote")
                  /\ Ordinary(e, Reset(c), <<Result(m.id)>>, TRUE)
  <1> DEFINE c == conn[e]
             m == Head(net[Peer(e)])
  <1>1. /\ c \in Connections /\ Shape(c) /\ Incoming(e, "close")
        /\ UNCHANGED <<stream, written, confirmed, received, failures>>
    BY StateIs DEF CloseRequest
  <1>2. m.id \in Nat /\ m.type = "close" /\ net[Peer(e)] # <<>>
    BY <1>1, IncomingIs
  <1>3. /\ written' \in [End -> Nat] /\ confirmed' \in [End -> Nat]
        /\ received' \in [End -> Seq(Nat)] /\ UNCHANGED <<stream, failures>> /\ c.tasks \in Nat
    BY <1>1, ConnectionFields DEF TypeOK
  <1>4. Result(m.id) \in IQs /\ Error(m.id) \in IQs
    BY <1>2, Answers
  <1>5. Result(m.id).type = "result" /\ Error(m.id).type = "error"
    BY DEF Result, Error
  <1>6. \/ ~c.linked /\ Takes(e, c, <<Error(m.id)>>) /\ UNCHANGED ended
        \/ c.linked /\ Takes(e, Reset(c), <<Result(m.id)>>) /\ Ends(e, "remote")
    BY Zenon DEF CloseRequest
  <1>7. Head(net[Peer(e)]).type # "open" /\ c.state \in {conn[e].state, "Idle", "Active"}
         /\ c.tasks >= conn[e].tasks
    BY <1>2, <1>3
  <1> HIDE DEF m
  <1>8. CASE ~c.linked /\ Takes(e, c, <<Error(m.id)>>) /\ UNCHANGED ended
    <2>1. <<Error(m.id)>> \in Seq(IQs) /\ \A a \in Range(<<Error(m.id)>>) : a.type # "open"
      BY <1>4, <1>5, RangeOfOne
    <2>2. ended' \in [End -> Endings] /\ ended'[Peer(e)] = ended[Peer(e)]
      BY <1>8 DEF TypeOK, Endings
    <2>3. Ordinary(e, c, <<Error(m.id)>>, TRUE) /\ TypeOK'
      BY <1>1, <1>2, <1>3, <1>8, <1>7, <2>1, <2>2, TakesOrdinary
    <2> QED
      BY <1>1, <1>2, <1>8, <2>3 DEF m
  <1>9. CASE c.linked /\ Takes(e, Reset(c), <<Result(m.id)>>) /\ Ends(e, "remote")
    <2>1. <<Result(m.id)>> \in Seq(IQs) /\ \A a \in Range(<<Result(m.id)>>) : a.type # "open"
      BY <1>4, <1>5, RangeOfOne
    <2>2. ended' \in [End -> Endings] /\ ended'[Peer(e)] = ended[Peer(e)]
      BY <1>9, EndsIs DEF Endings
    <2>3. /\ Reset(c) \in Connections /\ Shape(Reset(c)) /\ Reset(c).state = "Idle"
          /\ Reset(c).tasks = c.tasks
      BY <1>1, ResetIs, ShapeReset
    <2>4. Ordinary(e, Reset(c), <<Result(m.id)>>, TRUE) /\ TypeOK'
      BY <1>1, <1>2, <1>3, <1>9, <1>7, <2>1, <2>2, <2>3, TakesOrdinary
    <2>5. c.state = "Active"
      BY <1>1, <1>9 DEF Shape, Incoming
    <2> QED
      BY <1>1, <1>2, <1>9, <2>4, <2>5 DEF m
  <1> QED
    BY <1>6, <1>8, <1>9

(* An answer that no task waits for changes nothing but the queue.         *)
LEMMA UnexpectedIs ==
  ASSUME TypeOK, Shapes, NEW e \in End, Unexpected(e)
  PROVE  /\ Ordinary(e, conn[e], <<>>, TRUE) /\ TypeOK'
         /\ UNCHANGED <<written, confirmed, received, ended>>
  <1>1. /\ conn[e] \in Connections /\ Shape(conn[e]) /\ Takes(e, conn[e], <<>>)
        /\ Incoming(e, "result") \/ Incoming(e, "error")
        /\ UNCHANGED <<stream, written, confirmed, received, ended, failures>>
    BY StateIs DEF Unexpected
  <1>2. net[Peer(e)] # <<>> /\ Head(net[Peer(e)]).type # "open"
    BY <1>1, IncomingIs
  <1>3. <<>> \in Seq(IQs) /\ \A m \in Range(<<>>) : m.type # "open"
    BY RangeOfNone
  <1>4. conn[e].tasks >= conn[e].tasks
    BY <1>1, ConnectionFields
  <1>5. /\ ended' \in [End -> Endings] /\ ended'[Peer(e)] = ended[Peer(e)]
        /\ written' \in [End -> Nat] /\ confirmed' \in [End -> Nat]
        /\ received' \in [End -> Seq(Nat)] /\ UNCHANGED <<stream, failures>>
    BY <1>1 DEF TypeOK, Endings
  <1> QED
    BY <1>1, <1>2, <1>3, <1>4, <1>5, TakesOrdinary

(* A task's result confirms its bytes and, for a close, ends the stream.   *)
LEMMA TaskSucceedsIs ==
  ASSUME TypeOK, Shapes, NEW e \in End, TaskSucceeds(e)
  PROVE  LET c == conn[e]
             m == Head(net[Peer(e)])
         IN /\ Ordinary(e, Succeeded(c), <<>>, TRUE) /\ TypeOK'
            /\ c.alive /\ c.task # NoTask /\ (c.task.mode = "open" => ~c.closing)
            /\ net[Peer(e)] # <<>> /\ m.type = "result" /\ m.id = c.tasks
            /\ UNCHANGED <<written, received>>
            /\ confirmed' = [confirmed EXCEPT ![e] = @ + c.task.bytes]
            /\ (IF c.closing THEN Ends(e, "closed") ELSE UNCHANGED ended)
  <1> DEFINE c == conn[e]
             m == Head(net[Peer(e)])
             d == Succeeded(c)
  <1>1. /\ c \in Connections /\ Shape(c) /\ Takes(e, d, <<>>)
        /\ Incoming(e, "result") /\ Awaited(e)
        /\ confirmed' = [confirmed EXCEPT ![e] = @ + c.task.bytes]
        /\ (IF c.closing THEN Ends(e, "closed") ELSE UNCHANGED ended)
        /\ UNCHANGED <<stream, written, received, failures>>
    BY StateIs DEF TaskSucceeds
  <1>2. c.task # NoTask /\ c.task.id = m.id
    BY <1>1 DEF Awaited, Live
  <1>3. c.task.id = c.tasks /\ c.tasks \in Nat /\ c.task.bytes \in Nat
    BY <1>1, <1>2, ConnectionFields DEF Shape, Tasks
  <1>4. net[Peer(e)] # <<>> /\ m.type = "result"
    BY <1>1, IncomingIs
  <1>5. Shape(d) /\ (c.task.mode = "open" => ~c.closing) /\ c.alive
    BY <1>1, <1>2, ShapeSucceeded
  <1>6. /\ d \in Connections /\ d.tasks = c.tasks
        /\ c.task.mode = "open" => d.state = "Active"
        /\ c.task.mode # "open" /\ c.closing => d = Reset(c)
        /\ c.task.mode # "open" /\ ~c.closing => d.state = c.state
    BY <1>1, <1>5, SucceededIs
  <1>7. d.state \in {c.state, "Idle", "Active"} /\ d.tasks >= c.tasks
    BY <1>1, <1>3, <1>6, ResetIs
  <1>8. <<>> \in Seq(IQs) /\ \A a \in Range(<<>>) : a.type # "open"
    BY RangeOfNone
  <1>9. ended' \in [End -> Endings] /\ ended'[Peer(e)] = ended[Peer(e)]
    BY <1>1, EndsIs DEF TypeOK, Endings
  <1>10. /\ written' \in [End -> Nat] /\ confirmed' \in [End -> Nat]
         /\ received' \in [End -> Seq(Nat)] /\ UNCHANGED <<stream, failures>>
    BY <1>1, <1>3 DEF TypeOK
  <1>11. Head(net[Peer(e)]).type # "open"
    BY <1>4
  <1> HIDE DEF d
  <1>12. Ordinary(e, d, <<>>, TRUE) /\ TypeOK'
    BY <1>1, <1>4, <1>5, <1>6, <1>7, <1>8, <1>9, <1>10, <1>11, TakesOrdinary
  <1> QED
    BY <1>1, <1>2, <1>3, <1>4, <1>5, <1>12 DEF d

(* A task that fails resets the connection.                                *)
LEMMA TaskRefusedIs ==
  ASSUME TypeOK, Shapes, NEW e \in End, TaskRefused(e)
  PROVE  /\ Ordinary(e, Reset(conn[e]), <<>>, TRUE) /\ TypeOK'
         /\ Ends(e, "failed") /\ conn[e].task # NoTask
         /\ UNCHANGED <<written, confirmed, received>>
  <1> DEFINE c == conn[e]
  <1>1. /\ c \in Connections /\ Shape(c) /\ Takes(e, Reset(c), <<>>) /\ Incoming(e, "error")
        /\ Awaited(e) /\ Ends(e, "failed")
        /\ UNCHANGED <<stream, written, confirmed, received, failures>>
    BY StateIs DEF TaskRefused
  <1>2. net[Peer(e)] # <<>> /\ Head(net[Peer(e)]).type # "open" /\ c.task # NoTask
    BY <1>1, IncomingIs DEF Awaited, Live
  <1>3. <<>> \in Seq(IQs) /\ \A m \in Range(<<>>) : m.type # "open"
    BY RangeOfNone
  <1>4. /\ Reset(c) \in Connections /\ Shape(Reset(c)) /\ Reset(c).state \in {c.state, "Idle", "Active"}
        /\ Reset(c).tasks >= c.tasks
    BY <1>1, ResetIs, ShapeReset, ConnectionFields
  <1>5. /\ ended' \in [End -> Endings] /\ ended'[Peer(e)] = ended[Peer(e)]
        /\ written' \in [End -> Nat] /\ confirmed' \in [End -> Nat]
        /\ received' \in [End -> Seq(Nat)] /\ UNCHANGED <<stream, failures>>
    BY <1>1, EndsIs DEF TypeOK, Endings
  <1> QED
    BY <1>1, <1>2, <1>3, <1>4, <1>5, TakesOrdinary

(* An end that leaves its peer's queue alone: what has to be shown.        *)
LEMMA BecomesOrdinary ==
  ASSUME TypeOK, Shapes, NEW e \in End, NEW d \in Connections, NEW iqs \in Seq(IQs),
         Shape(d), Becomes(e, d, iqs), conn[e] # Fresh,
         d.state \in {conn[e].state, "Idle"}, d.tasks >= conn[e].tasks,
         \A m \in Range(iqs) : m.type # "open",
         conn[e].state # "Active" => d.tasks = conn[e].tasks /\ iqs = <<>>,
         d.iq_id = conn[e].iq_id,
         ended' \in [End -> Endings], ended'[Peer(e)] = ended[Peer(e)],
         UNCHANGED <<stream, written, confirmed, received>>, failures' \in Nat
  PROVE  Ordinary(e, d, iqs, FALSE) /\ TypeOK'
  <1>1. /\ Goes(e, d, iqs) \/ Goes(e, d, <<>>)
        /\ net'[Peer(e)] = net[Peer(e)] /\ refused' \in [End -> Nat]
    BY BecomesIs
  <1>2. TypeOK'
    BY <1>1 DEF TypeOK, Goes, Endings
  <1>3. conn[e].state # "Active" => d.state # "Active"
    OBVIOUS
  <1> QED
    BY <1>1, <1>2, <1>3 DEF Ordinary

(* A task that times out resets the connection.                            *)
LEMMA TaskTimesOutIs ==
  ASSUME TypeOK, Shapes, NEW e \in End, TaskTimesOut(e)
  PROVE  /\ Ordinary(e, Reset(conn[e]), <<>>, FALSE) /\ TypeOK'
         /\ Ends(e, "failed") /\ conn[e].task # NoTask
         /\ UNCHANGED <<written, confirmed, received>>
  <1> DEFINE c == conn[e]
  <1>1. /\ c \in Connections /\ Shape(c) /\ Becomes(e, Reset(c), <<>>)
        /\ Ends(e, "failed") /\ c.task # NoTask
        /\ UNCHANGED <<stream, written, confirmed, received>>
    BY StateIs DEF TaskTimesOut, Live
  <1>2. failures' \in Nat
    BY DEF TypeOK, TaskTimesOut
  <1>3. conn[e] # Fresh
    BY <1>1 DEF Fresh
  <1>4. <<>> \in Seq(IQs) /\ \A m \in Range(<<>>) : m.type # "open"
    BY RangeOfNone
  <1>5. /\ Reset(c) \in Connections /\ Shape(Reset(c)) /\ Reset(c).state = "Idle"
        /\ Reset(c).tasks >= c.tasks /\ Reset(c).tasks = c.tasks /\ Reset(c).iq_id = c.iq_id
    BY <1>1, ResetIs, ShapeReset, ConnectionFields
  <1>6. ended' \in [End -> Endings] /\ ended'[Peer(e)] = ended[Peer(e)]
    BY <1>1, EndsIs DEF Endings
  <1>7. Reset(c).state \in {conn[e].state, "Idle"}
    BY <1>5
  <1> QED
    BY <1>1, <1>2, <1>3, <1>4, <1>5, <1>6, <1>7, BecomesOrdinary

(* The single shot of trySend.                                             *)
LEMMA TimerFiresIs ==
  ASSUME TypeOK, Shapes, NEW e \in End, TimerFires(e)
  PROVE  /\ Ordinary(e, TrySend(Fired(conn[e])), Sends(Fired(conn[e])), FALSE) /\ TypeOK'
         /\ Shape(Fired(conn[e])) /\ conn[e].alive
         /\ UNCHANGED <<written, confirmed, received, ended>>
  <1> DEFINE c == conn[e]
             b == Fired(c)
  <1>1. /\ c \in Connections /\ Shape(c) /\ Becomes(e, TrySend(b), Sends(b)) /\ c.timer
        /\ UNCHANGED <<stream, written, confirmed, received, ended, failures>>
    BY StateIs DEF TimerFires, Fired
  <1>2. conn[e] # Fresh /\ c.alive
    BY <1>1 DEF Fresh, Shape
  <1>3. /\ b \in Connections /\ Shape(b) /\ b.alive /\ b.state = c.state /\ b.tasks = c.tasks
        /\ b.iq_id = c.iq_id
    BY <1>1, <1>2, FiredIs
  <1> HIDE DEF b
  <1>4. TrySend(b) \in Connections /\ Sends(b) \in Seq(IQs) /\ Shape(TrySend(b))
    BY <1>3, TrySendIs, SendsIs, ShapeTrySend
  <1>5. /\ TrySend(b).tasks >= c.tasks /\ TrySend(b).state = c.state /\ TrySend(b).iq_id = c.iq_id
        /\ c.state # "Active" => TrySend(b).tasks = c.tasks /\ Sends(b) = <<>>
        /\ \A m \in Range(Sends(b)) : m.type # "open"
    BY <1>3, TrySendOrdinary
  <1>6. /\ ended' \in [End -> Endings] /\ ended'[Peer(e)] = ended[Peer(e)] /\ failures' \in Nat
    BY <1>1 DEF TypeOK, Endings
  <1>7. TrySend(b).state \in {conn[e].state, "Idle"}
    BY <1>5
  <1> DEFINE t == TrySend(b)
             iqs == Sends(b)
  <1> HIDE DEF t, iqs
  <1>8. Ordinary(e, t, iqs, FALSE) /\ TypeOK'
    BY <1>1, <1>2, <1>4, <1>5, <1>6, <1>7, BecomesOrdinary DEF t, iqs
  <1> QED
    BY <1>1, <1>2, <1>3, <1>8 DEF b, t, iqs

-----------------------------------------------------------------------------
(* How the stream is opened: nothing has been asked for; the open request  *)
(* is on its way or lost; it is held by the responder, whose owner has not *)
(* yet accepted; or none of this, for good.                                *)
NothingSent == \A e \in End : written[e] = 0 /\ confirmed[e] = 0 /\ received[e] = <<>>

Unopened ==
  /\ \A e \in End : conn[e] = Fresh /\ net[e] = <<>> /\ ended[e] = "no"
  /\ NothingSent

(* What the initiator has done is to send its first request.               *)
HasAsked == conn["initiator"].tasks = 1 /\ conn["initiator"].state \in {"Idle", "Requesting"}

OpenUnderWay ==
  /\ HasAsked /\ NothingSent
  /\ conn["responder"] = Fresh /\ ended["responder"] = "no"
  /\ net["initiator"] \in {<<>>, <<OpenIQ(1)>>} /\ net["responder"] = <<>>

OpenHeld ==
  /\ HasAsked /\ NothingSent
  /\ conn["responder"].state = "WaitingForAccept" /\ conn["responder"].tasks = 0
  /\ conn["responder"].iq_id = 1
  /\ net["initiator"] = <<>> /\ net["responder"] = <<>>

Opened ==
  /\ conn["initiator"].tasks >= 1 /\ conn["initiator"].state # "WaitingForAccept"
  /\ conn["responder"].state \in {"Idle", "Active"}
  /\ \A e \in End : \A m \in Range(net[e]) : m.type # "open"

Opening == Unopened \/ OpenUnderWay \/ OpenHeld \/ Opened

(* There are two ends, each the other's peer.                              *)
LEMMA TwoEnds ==
  /\ "initiator" \in End /\ "responder" \in End
  /\ Peer("initiator") = "responder" /\ Peer("responder") = "initiator"
  /\ \A e \in End : e = "initiator" \/ e = "responder"
  BY DEF End, Peer

(* Sending nothing leaves a queue as it is.                                *)
LEMMA NoFurtherIQ ==
  ASSUME NEW s \in Seq(IQs)
  PROVE  s \o <<>> = s
  OBVIOUS

(* No byte moves where no count of bytes changes.                          *)
LEMMA NothingSentStays ==
  ASSUME NothingSent, UNCHANGED <<written, confirmed, received>>
  PROVE  NothingSent'
  BY DEF NothingSent

(* No ordinary step brings a stream back to an earlier stage of its        *)
(* opening.                                                                *)
LEMMA OrdinaryOpening ==
  ASSUME TypeOK, Shapes, Opening, NEW e \in End, NEW d, NEW iqs, NEW takes \in BOOLEAN,
         Ordinary(e, d, iqs, takes)
  PROVE  Opening'
  <1> DEFINE c == conn[e]
             p == Peer(e)
  <1>1. /\ c \in Connections /\ Shape(c) /\ net[e] \in Seq(IQs) /\ net[p] \in Seq(IQs)
        /\ p \in End
    BY StateIs, Ends2
  <1>2. /\ Goes(e, d, iqs) \/ (~takes /\ Goes(e, d, <<>>))
        /\ d \in Connections /\ Shape(d) /\ iqs \in Seq(IQs)
        /\ IF takes
           THEN /\ net[p] # <<>> /\ Head(net[p]).type # "open"
                /\ net'[p] = Tail(net[p])
           ELSE c # Fresh /\ net'[p] = net[p]
        /\ d.state \in {c.state, "Idle", "Active"} /\ d.tasks >= c.tasks
        /\ \A m \in Range(iqs) : m.type # "open"
        /\ ended'[p] = ended[p]
        /\ ~takes /\ c.state # "Active" =>
             /\ d.state # "Active" /\ d.tasks = c.tasks
             /\ c.state # "WaitingForAccept" \/ d.state = "WaitingForAccept" => iqs = <<>>
             /\ d.iq_id = c.iq_id
             /\ UNCHANGED <<written, confirmed, received>>
    BY DEF Ordinary
  <1>3. /\ conn'[e] = d /\ conn'[p] = conn[p]
        /\ net'[e] = net[e] \o iqs \/ net'[e] = net[e]
    <2>1. net[e] \o <<>> = net[e]
      BY <1>1, NoFurtherIQ
    <2> QED
      BY <1>2, <2>1 DEF Goes
  <1>4. iqs = <<>> => net'[e] = net[e]
    BY <1>1, <1>3, NoFurtherIQ
  <1>5. CASE Unopened
    BY <1>1, <1>2, <1>5 DEF Unopened
  <1>6. CASE HasAsked /\ NothingSent /\ net["responder"] = <<>> /\ e = "initiator"
    <2>1. p = "responder" /\ ~takes /\ c.state \notin {"Active", "WaitingForAccept"}
      BY <1>2, <1>6, TwoEnds DEF HasAsked
    <2>2. /\ d.state \in {"Idle", "Requesting"} /\ d.tasks = 1 /\ iqs = <<>>
          /\ UNCHANGED <<written, confirmed, received>>
      BY <1>2, <1>6, <2>1 DEF HasAsked
    <2>3. /\ net'["initiator"] = net["initiator"] /\ net'["responder"] = net["responder"]
          /\ conn'["initiator"] = d /\ conn'["responder"] = conn["responder"]
          /\ ended'["responder"] = ended["responder"]
      BY <1>2, <1>3, <1>4, <1>6, <2>1, <2>2
    <2>4. HasAsked' /\ NothingSent'
      BY <1>6, <2>2, <2>3, NothingSentStays DEF HasAsked
    <2>5. CASE OpenUnderWay
      BY <2>3, <2>4, <2>5 DEF OpenUnderWay, Opening
    <2>6. CASE OpenHeld
      BY <2>3, <2>4, <2>6 DEF OpenHeld, Opening
    <2>7. CASE Opened
      <3>1. \A q \in End : \A m \in Range(net'[q]) : m.type # "open"
        BY <2>3, <2>7, TwoEnds DEF Opened
      <3> QED
        BY <2>2, <2>3, <2>7, <3>1 DEF Opened, Opening
    <2>8. CASE Unopened
      BY <1>5, <2>8
    <2> QED
      BY <2>5, <2>6, <2>7, <2>8 DEF Opening
  <1>7. CASE OpenUnderWay /\ e = "responder"
    <2>1. p = "initiator" /\ c = Fresh /\ net[p] \in {<<>>, <<OpenIQ(1)>>}
      BY <1>7, TwoEnds DEF OpenUnderWay
    <2>2. net[p] # <<>> => Head(net[p]).type = "open"
      BY <2>1 DEF OpenIQ
    <2> QED
      BY <1>2, <2>1, <2>2
  <1>8. CASE OpenHeld /\ e = "responder"
    <2>1. p = "initiator" /\ ~takes /\ c.state = "WaitingForAccept"
      BY <1>2, <1>8, TwoEnds DEF OpenHeld
    <2>2. /\ d.state \in {"Idle", "WaitingForAccept"} /\ d.tasks = 0 /\ d.iq_id = 1
          /\ d.state = "WaitingForAccept" => iqs = <<>>
          /\ UNCHANGED <<written, confirmed, received>>
      BY <1>2, <1>8, <2>1 DEF OpenHeld
    <2>3. /\ net'["initiator"] = <<>>
          /\ net'["responder"] = <<>> \o iqs \/ net'["responder"] = <<>>
          /\ conn'["initiator"] = conn["initiator"] /\ conn'["responder"] = d
      BY <1>2, <1>3, <1>8, <2>1 DEF OpenHeld
    <2>4. HasAsked' /\ NothingSent'
      BY <1>8, <2>2, <2>3, NothingSentStays DEF HasAsked, OpenHeld
    <2>5. CASE d.state = "WaitingForAccept"
      <3>1. net'["responder"] = <<>>
        BY <1>4, <1>8, <2>2, <2>3, <2>5 DEF OpenHeld
      <3> QED
        BY <2>2, <2>3, <2>4, <2>5, <3>1 DEF OpenHeld, Opening
    <2>6. CASE d.state = "Idle"
      <3>1. Range(net'["responder"]) \subseteq Range(iqs)
        BY <1>1, <1>2, <2>3, RangeOfConcat, RangeOfNone
      <3>2. \A q \in End : \A m \in Range(net'[q]) : m.type # "open"
        BY <1>2, <2>3, <3>1, TwoEnds, RangeOfNone
      <3> QED
        BY <2>2, <2>3, <2>4, <2>6, <3>2 DEF HasAsked, Opened, Opening
    <2> QED
      BY <2>2, <2>5, <2>6
  <1>9. CASE Opened
    <2>1. Range(net'[e]) \subseteq Range(net[e]) \union Range(iqs)
      BY <1>1, <1>2, <1>3, RangeOfConcat
    <2>2. Range(net'[p]) \subseteq Range(net[p])
      BY <1>1, <1>2, RangeOfTail
    <2>3. \A q \in End : \A m \in Range(net'[q]) : m.type # "open"
      BY <1>1, <1>2, <1>9, <2>1, <2>2, Ends2 DEF Opened
    <2>4. conn["initiator"].tasks \in Nat /\ d.tasks \in Nat
      BY <1>2, StateIs, TwoEnds, ConnectionFields
    <2>5. CASE e = "initiator"
      BY <1>2, <1>3, <1>9, <2>3, <2>4, <2>5, TwoEnds DEF Opened, Opening
    <2>6. CASE e = "responder"
      BY <1>2, <1>3, <1>9, <2>3, <2>4, <2>6, TwoEnds DEF Opened, Opening
    <2> QED
      BY <2>5, <2>6, TwoEnds
  <1>10. OpenUnderWay \/ OpenHeld => HasAsked /\ NothingSent /\ net["responder"] = <<>>
    BY DEF OpenUnderWay, OpenHeld
  <1> QED
    BY <1>5, <1>6, <1>7, <1>8, <1>9, <1>10, TwoEnds DEF Opening

(* The initiator's connection once it has asked, and the responder's once  *)
(* it is accepted.                                                         *)
Asking      == [WithTask(Fresh, "open", 0) EXCEPT !.state = "Requesting"]
Accepted(c) == [c EXCEPT !.state = "Active", !.linked = TRUE]

(* The initiator that has asked for the stream.                            *)
LEMMA AskingIs ==
  /\ Asking \in Connections /\ Shape(Asking) /\ Asking.tasks = 1 /\ Asking.state = "Requesting"
  /\ Asking.task.mode = "open" /\ Asking.writeBuf = <<>> /\ Asking.seq = 0
  <1> DEFINE b == WithTask(Fresh, "open", 0)
  <1>1. /\ b \in Connections /\ SameRole(Fresh, b)
        /\ b.task = [mode |-> "open", id |-> Fresh.tasks + 1, bytes |-> 0]
        /\ b.tasks = Fresh.tasks + 1 /\ b.seq = Fresh.seq /\ b.writeBuf = Fresh.writeBuf
        /\ b.closePending = Fresh.closePending /\ b.closing = Fresh.closing
    BY ShapeFresh, WithTaskIs
  <1> HIDE DEF b
  <1>2. /\ Fresh.tasks = 0 /\ Fresh.seq = 0 /\ Fresh.writeBuf = <<>> /\ ~Fresh.closePending
        /\ ~Fresh.closing /\ Fresh.alive /\ ~Fresh.linked
    BY DEF Fresh
  <1>3. Fresh.tasks + 1 = 1
    BY <1>2
  <1>4. /\ b.task = [mode |-> "open", id |-> 1, bytes |-> 0] /\ b.tasks = 1 /\ b.seq = 0
        /\ b.writeBuf = <<>> /\ ~b.closePending /\ ~b.closing
        /\ b.alive /\ ~b.linked
    BY <1>1, <1>2, <1>3 DEF SameRole
  <1> DEFINE a == [b EXCEPT !.state = "Requesting"]
  <1>5. /\ a \in Connections /\ a.state = "Requesting" /\ a.task = b.task /\ a.tasks = b.tasks
        /\ a.seq = b.seq /\ a.writeBuf = b.writeBuf /\ a.closePending = b.closePending
        /\ a.closing = b.closing /\ a.alive = b.alive /\ a.linked = b.linked
    BY <1>1 DEF Connections
  <1> HIDE DEF a
  <1>6. a.task.mode = "open" /\ a.task.id = 1 /\ a.task.bytes = 0 /\ a.task # NoTask
    BY <1>4, <1>5 DEF NoTask
  <1>7. Shape(a)
    BY <1>4, <1>5, <1>6 DEF Shape
  <1> QED
    BY <1>4, <1>5, <1>6, <1>7 DEF Asking, a, b

(* The responder that has accepted it.                                     *)
LEMMA AcceptedIs ==
  ASSUME NEW c \in Connections
  PROVE  /\ Accepted(c) \in Connections /\ Accepted(c).state = "Active" /\ Accepted(c).linked
         /\ Accepted(c).alive = c.alive /\ Accepted(c).seq = c.seq
         /\ Accepted(c).task = c.task /\ Accepted(c).tasks = c.tasks
         /\ Accepted(c).writeBuf = c.writeBuf
         /\ Accepted(c).closePending = c.closePending /\ Accepted(c).closing = c.closing
         /\ Shape(c) /\ c.alive /\ c.state = "WaitingForAccept" => Shape(Accepted(c))
  <1>1. /\ Accepted(c) \in Connections /\ Accepted(c).state = "Active" /\ Accepted(c).linked
        /\ Accepted(c).alive = c.alive /\ Accepted(c).seq = c.seq
        /\ Accepted(c).task = c.task /\ Accepted(c).tasks = c.tasks
        /\ Accepted(c).writeBuf = c.writeBuf
        /\ Accepted(c).closePending = c.closePending /\ Accepted(c).closing = c.closing
    BY DEF Accepted, Connections
  <1> QED
    BY <1>1 DEF Shape, NoTask

(* connectToJid is the first thing that happens.                           *)
LEMMA ConnectToJidIs ==
  ASSUME TypeOK, Shapes, Opening, ConnectToJid
  PROVE  /\ TypeOK' /\ Shapes' /\ Unopened /\ OpenUnderWay'
         /\ conn'["initiator"] = Asking
         /\ UNCHANGED <<written, confirmed, received, ended>>
  <1>1. /\ conn["initiator"] = Fresh /\ Becomes("initiator", Asking, <<OpenIQ(1)>>)
        /\ UNCHANGED <<stream, written, confirmed, received, ended, failures>>
    BY DEF ConnectToJid, Asking
  <1>2. Unopened
    <2>1. Fresh.tasks = 0
      BY DEF Fresh
    <2> QED
      BY <1>1, <2>1 DEF Opening, OpenUnderWay, OpenHeld, Opened, HasAsked
  <1>3. <<OpenIQ(1)>> \in Seq(IQs)
    BY Answers
  <1>4. /\ \/ Goes("initiator", Asking, <<OpenIQ(1)>>)
           \/ Goes("initiator", Asking, <<>>)
        /\ net'["responder"] = net["responder"] /\ refused' \in [End -> Nat]
    BY <1>1, <1>3, AskingIs, BecomesIs, TwoEnds
  <1>5. TypeOK' /\ Shapes'
    BY <1>1, <1>4, AskingIs, GoesShapes, TwoEnds DEF TypeOK, Goes
  <1>6. /\ conn'["initiator"] = Asking /\ conn'["responder"] = Fresh
        /\ \/ net'["initiator"] = <<>> \o <<OpenIQ(1)>>
           \/ net'["initiator"] = <<>> \o <<>>
        /\ net'["responder"] = <<>>
    BY <1>2, <1>4, TwoEnds DEF Goes, Unopened
  <1>7. <<>> \o <<OpenIQ(1)>> = <<OpenIQ(1)>> /\ <<>> \o <<>> = <<>>
    BY <1>3
  <1>8. NothingSent' /\ ended'["responder"] = "no"
    BY <1>1, <1>2, NothingSentStays, TwoEnds DEF Unopened
  <1>9. OpenUnderWay'
    BY <1>6, <1>7, <1>8, AskingIs DEF OpenUnderWay, HasAsked
  <1> QED
    BY <1>1, <1>2, <1>5, <1>6, <1>9

(* The manager takes the open request when nothing but it has been sent.   *)
LEMMA IncomingRequestIs ==
  ASSUME TypeOK, Shapes, Opening, IncomingRequest
  PROVE  /\ TypeOK' /\ Shapes' /\ OpenUnderWay /\ OpenHeld'
         /\ conn'["initiator"] = conn["initiator"] /\ conn'["responder"] = Waiting(Fresh, 1)
         /\ UNCHANGED <<written, confirmed, received, ended>>
  <1> DEFINE m == Head(net["initiator"])
             d == Waiting(conn["responder"], m.id)
  <1>1. /\ Incoming("responder", "open") /\ Takes("responder", d, <<>>)
        /\ UNCHANGED <<stream, written, confirmed, received, ended, failures>>
    BY TwoEnds DEF IncomingRequest
  <1>2. net["initiator"] # <<>> /\ m.type = "open" /\ net["initiator"] \in Seq(IQs)
    BY <1>1, IncomingIs, TwoEnds
  <1>3. OpenUnderWay
    BY <1>2, RangeOfTail, TwoEnds DEF Opening, Unopened, OpenHeld, Opened
  <1>4. m.id = 1 /\ conn["responder"] = Fresh /\ Tail(net["initiator"]) = <<>>
    <2>1. net["initiator"] = <<OpenIQ(1)>>
      BY <1>2, <1>3 DEF OpenUnderWay
    <2>2. Head(<<OpenIQ(1)>>) = OpenIQ(1) /\ Tail(<<OpenIQ(1)>>) = <<>>
      OBVIOUS
    <2> QED
      BY <1>3, <2>1, <2>2 DEF OpenUnderWay, OpenIQ
  <1> DEFINE w == Waiting(Fresh, 1)
  <1>5. /\ w \in Connections /\ Shape(w) /\ w.state = "WaitingForAccept" /\ w.iq_id = 1
        /\ w.tasks = 0
    BY WaitingIs, ShapeFresh DEF Waiting, Fresh
  <1>6. d = w /\ <<>> \in Seq(IQs)
    BY <1>4
  <1> HIDE DEF m, d, w
  <1>7. Goes("responder", w, <<>>) /\ net'["initiator"] = <<>> /\ UNCHANGED refused
    BY <1>1, <1>2, <1>4, <1>5, <1>6, TakesIs, TwoEnds
  <1>8. TypeOK' /\ Shapes'
    BY <1>1, <1>5, <1>7, GoesShapes, TwoEnds DEF TypeOK, Goes
  <1>9. /\ conn'["initiator"] = conn["initiator"] /\ conn'["responder"] = w
        /\ net'["responder"] = <<>> \o <<>>
    BY <1>3, <1>7, TwoEnds DEF Goes, OpenUnderWay
  <1>10. HasAsked' /\ NothingSent'
    BY <1>1, <1>3, <1>9, NothingSentStays DEF OpenUnderWay, HasAsked
  <1>11. <<>> \o <<>> = <<>>
    OBVIOUS
  <1>12. OpenHeld'
    BY <1>5, <1>7, <1>9, <1>10, <1>11 DEF OpenHeld
  <1> QED
    BY <1>1, <1>3, <1>8, <1>9, <1>12 DEF w

(* accept() answers the request that is held; no stage follows this one.   *)
LEMMA AcceptIs ==
  ASSUME TypeOK, Shapes, Opening, Accept
  PROVE  /\ TypeOK' /\ Shapes' /\ OpenHeld /\ Opened'
         /\ conn'["initiator"] = conn["initiator"]
         /\ conn'["responder"] = Accepted(conn["responder"])
         /\ net'["initiator"] = <<>> /\ net'["responder"] \in {<<>>, <<Result(1)>>}
         /\ UNCHANGED <<written, confirmed, received, ended>>
  <1> DEFINE c == conn["responder"]
  <1>1. /\ c.alive /\ c.state = "WaitingForAccept"
        /\ Becomes("responder", Accepted(c), <<Result(c.iq_id)>>)
        /\ UNCHANGED <<stream, written, confirmed, received, ended, failures>>
    BY DEF Accept, Accepted
  <1>2. OpenHeld
    <2>1. Fresh.state = "Idle"
      BY DEF Fresh
    <2> QED
      BY <1>1, <2>1, TwoEnds DEF Opening, OpenUnderWay, Unopened, Opened
  <1>3. c.iq_id = 1 /\ net["responder"] = <<>> /\ net["initiator"] = <<>>
    BY <1>2 DEF OpenHeld
  <1>4. c \in Connections /\ Shape(c)
    BY StateIs, TwoEnds
  <1>5. Accepted(c) \in Connections /\ Shape(Accepted(c)) /\ Accepted(c).state = "Active"
    BY <1>1, <1>4, AcceptedIs
  <1>6. <<Result(1)>> \in Seq(IQs)
    BY Answers
  <1>7. /\ \/ Goes("responder", Accepted(c), <<Result(1)>>)
           \/ Goes("responder", Accepted(c), <<>>)
        /\ net'["initiator"] = <<>> /\ refused' \in [End -> Nat]
    BY <1>1, <1>3, <1>5, <1>6, BecomesIs, TwoEnds
  <1>8. TypeOK' /\ Shapes'
    BY <1>1, <1>5, <1>7, GoesShapes, TwoEnds DEF TypeOK, Goes
  <1>9. <<>> \o <<Result(1)>> = <<Result(1)>> /\ <<>> \o <<>> = <<>>
    BY <1>6
  <1>10. /\ conn'["initiator"] = conn["initiator"] /\ conn'["responder"] = Accepted(c)
         /\ net'["responder"] \in {<<>>, <<Result(1)>>}
    BY <1>3, <1>7, <1>9, TwoEnds DEF Goes
  <1>11. Range(net'["responder"]) \subseteq {Result(1)} /\ Range(net'["initiator"]) = {}
    BY <1>7, <1>10, RangeOfOne, RangeOfNone
  <1>12. Opened'
    BY <1>2, <1>5, <1>10, <1>11, TwoEnds, Answers DEF OpenHeld, HasAsked, Opened
  <1> QED
    BY <1>1, <1>2, <1>7, <1>8, <1>10, <1>12

(* What is left of the connection of a process that has ended.             *)
Crashed(c) == [Fresh EXCEPT !.alive = FALSE, !.tasks = c.tasks]

(* It is Idle for good.                                                    *)
LEMMA CrashedIs ==
  ASSUME NEW c \in Connections
  PROVE  /\ Crashed(c) \in Connections /\ Shape(Crashed(c)) /\ Crashed(c).state = "Idle"
         /\ Crashed(c).tasks = c.tasks /\ Crashed(c).writeBuf = <<>> /\ ~Crashed(c).alive
         /\ ~Crashed(c).linked /\ ~Crashed(c).closePending /\ Crashed(c).task = NoTask
  <1>1. c.tasks \in Nat
    BY ConnectionFields
  <1>2. /\ Crashed(c) \in Connections /\ Crashed(c).state = "Idle"
        /\ Crashed(c).tasks = c.tasks /\ Crashed(c).writeBuf = <<>> /\ ~Crashed(c).alive
        /\ ~Crashed(c).linked /\ ~Crashed(c).closePending /\ ~Crashed(c).closing
        /\ Crashed(c).task = NoTask /\ ~Crashed(c).timer
    <2>1. /\ Fresh.state = "Idle" /\ Fresh.writeBuf = <<>> /\ ~Fresh.linked
          /\ ~Fresh.closePending /\ ~Fresh.closing /\ Fresh.task = NoTask /\ ~Fresh.timer
      BY DEF Fresh
    <2> QED
      BY <1>1, <2>1, ShapeFresh DEF Crashed, Connections
  <1> QED
    BY <1>2 DEF Shape, NoTask

(* The loss of IQs cuts off what is on its way.                            *)
LEMMA IQsLostIs ==
  ASSUME TypeOK, IQsLost
  PROVE  /\ net' \in [End -> Seq(IQs)]
         /\ \A p \in End : /\ \E n \in 0..Len(net[p]) : net'[p] = SubSeq(net[p], 1, n)
                           /\ Range(net'[p]) \subseteq Range(net[p])
  <1>2. PICK i \in 0..Len(net["initiator"]), j \in 0..Len(net["responder"]) :
          net' = [net EXCEPT !["initiator"] = SubSeq(@, 1, i), !["responder"] = SubSeq(@, 1, j)]
    BY Zenon DEF IQsLost
  <1>3. net \in [End -> Seq(IQs)] /\ net["initiator"] \in Seq(IQs) /\ net["responder"] \in Seq(IQs)
    BY TwoEnds DEF TypeOK
  <1> DEFINE a == SubSeq(net["initiator"], 1, i)
             b == SubSeq(net["responder"], 1, j)
  <1>4. /\ a \in Seq(IQs) /\ Range(a) \subseteq Range(net["initiator"])
        /\ b \in Seq(IQs) /\ Range(b) \subseteq Range(net["responder"])
    BY <1>3, RangeOfPrefix
  <1>5. net' = [net EXCEPT !["initiator"] = a, !["responder"] = b]
    BY <1>2, <1>3, TwoEnds
  <1> HIDE DEF a, b
  <1>6. net' \in [End -> Seq(IQs)] /\ net'["initiator"] = a /\ net'["responder"] = b
    BY <1>3, <1>4, <1>5, TwoEnds
  <1> QED
    BY <1>4, <1>6, TwoEnds DEF a, b

(* An end is refused a task, or has one it does not end, only if it has or *)
(* had a task.                                                             *)
LEMMA CrashesIs ==
  ASSUME TypeOK, Shapes, NEW e \in End, Crashes(e)
  PROVE  /\ conn[e].task # NoTask \/ conn[e].state = "WaitingForAccept"
         /\ Dangling(e) \/ stream[e] = "none"
         /\ conn' = [conn EXCEPT ![e] = Crashed(conn[e])] /\ Ends(e, "crashed") /\ IQsLost
         /\ stream' = [stream EXCEPT ![e] = "none"]
         /\ UNCHANGED <<refused, written, confirmed, received, failures>>
  <1>1. Dangling(e) \/ RejectsOffline(e)
    BY DEF Crashes, CloseFaults, DestroyFaults, CloseRequestFaults, CloseFrees
  <1>2. Dangling(e) => conn[e].task # NoTask
    BY DEF Dangling
  <1>3. RejectsOffline(e) => conn[e].state = "WaitingForAccept" /\ stream[e] = "none"
    BY DEF RejectsOffline
  <1>4. /\ conn' = [conn EXCEPT ![e] = Crashed(conn[e])] /\ Ends(e, "crashed") /\ IQsLost
        /\ stream' = [stream EXCEPT ![e] = "none"]
        /\ UNCHANGED <<refused, written, confirmed, received, failures>>
    BY Zenon DEF Crashes, Crashed
  <1> QED
    BY <1>1, <1>2, <1>3, <1>4

(* What the network does to the connections: it cuts off what is on its    *)
(* way, and may end the connection of e.                                   *)
Cuts(e) ==
  /\ UNCHANGED <<written, confirmed, received>>
  /\ \A p \in End : /\ \E n \in 0..Len(net[p]) : net'[p] = SubSeq(net[p], 1, n)
                    /\ Range(net'[p]) \subseteq Range(net[p])
  /\ conn'[Peer(e)] = conn[Peer(e)] /\ ended'[Peer(e)] = ended[Peer(e)]
  /\ \/ UNCHANGED <<conn, ended>>
     \/ /\ conn[e].task # NoTask \/ conn[e].state = "WaitingForAccept"
        /\ conn'[e] = Reset(conn[e]) \/ conn'[e] = Crashed(conn[e])
        /\ Ends(e, "failed") \/ Ends(e, "crashed")

(* The end of a connection, by a reset or with its process.                *)
LEMMA CutsEnd ==
  ASSUME TypeOK, Shapes, NEW e \in End, NEW d, d = Reset(conn[e]) \/ d = Crashed(conn[e]),
         conn' = [conn EXCEPT ![e] = d], Ends(e, "failed") \/ Ends(e, "crashed")
  PROVE  /\ conn' \in [End -> Connections] /\ Shapes' /\ ended' \in [End -> Endings]
         /\ conn'[e] = d /\ conn'[Peer(e)] = conn[Peer(e)] /\ ended'[Peer(e)] = ended[Peer(e)]
  <1>1. conn[e] \in Connections /\ Shape(conn[e]) /\ conn \in [End -> Connections]
    BY StateIs DEF TypeOK
  <1>2. d \in Connections /\ Shape(d)
    BY <1>1, ResetIs, ShapeReset, CrashedIs
  <1>3. ended' \in [End -> Endings] /\ ended'[Peer(e)] = ended[Peer(e)]
    BY EndsIs DEF Endings
  <1>4. conn' \in [End -> Connections] /\ conn'[e] = d /\ conn'[Peer(e)] = conn[Peer(e)]
    BY <1>1, <1>2, Ends2
  <1>5. Shapes'
    BY <1>2, <1>4, Ends2 DEF Shapes
  <1> QED
    BY <1>3, <1>4, <1>5

(* A task that is told of the end of the stream ends its connection.       *)
LEMMA DisconnectedIs ==
  ASSUME TypeOK, Shapes, NEW e \in End, Disconnected(e) \/ UNCHANGED <<conn, ended>>
  PROVE  /\ conn' \in [End -> Connections] /\ Shapes' /\ ended' \in [End -> Endings]
         /\ conn'[Peer(e)] = conn[Peer(e)] /\ ended'[Peer(e)] = ended[Peer(e)]
         /\ \/ UNCHANGED <<conn, ended>>
            \/ conn[e].task # NoTask /\ conn'[e] = Reset(conn[e]) /\ Ends(e, "failed")
  <1>1. CASE UNCHANGED <<conn, ended>>
    BY <1>1 DEF TypeOK, Shapes, Endings
  <1>2. CASE Live(e) /\ conn' = [conn EXCEPT ![e] = Reset(@)] /\ Ends(e, "failed")
    <2>1. conn' = [conn EXCEPT ![e] = Reset(conn[e])] /\ Ends(e, "failed") /\ conn[e].task # NoTask
      BY <1>2 DEF Live
    <2> QED
      BY <2>1, CutsEnd
  <1> QED
    BY <1>1, <1>2 DEF Disconnected

(* Every step of the network cuts and keeps the types.                     *)
LEMMA NetworkIs ==
  ASSUME TypeOK, Shapes, NEW e \in End, Network(e)
  PROVE  TypeOK' /\ Shapes' /\ Cuts(e)
  <1>1. /\ stream \in [End -> Streams] /\ failures \in Nat /\ refused \in [End -> Nat]
        /\ net \in [End -> Seq(IQs)]
    BY DEF TypeOK
  <1>2. \A s \in Streams : [stream EXCEPT ![e] = s] \in [End -> Streams]
    BY <1>1
  <1>3. {"active", "inactive", "none"} \subseteq Streams
    BY DEF Streams
  <1>4. CASE StreamLost(e) \/ ClientClose(e)
    <2>1. /\ IQsLost /\ (Disconnected(e) \/ UNCHANGED <<conn, ended>>)
          /\ UNCHANGED <<refused, written, confirmed, received>>
      BY <1>4 DEF StreamLost, ClientClose
    <2>2. stream' \in [End -> Streams] /\ failures' \in Nat
      <3>1. \/ stream' = [stream EXCEPT ![e] = "inactive"]
            \/ stream' = [stream EXCEPT ![e] = "none"]
        BY <1>4, Zenon DEF StreamLost, ClientClose
      <3>2. failures' = failures \/ failures' = failures + 1
        BY <1>4 DEF StreamLost, ClientClose
      <3>3. stream' \in [End -> Streams]
        BY <1>2, <1>3, <3>1
      <3> QED
        BY <1>1, <3>2, <3>3
    <2>3. /\ net' \in [End -> Seq(IQs)]
          /\ \A p \in End : /\ \E n \in 0..Len(net[p]) : net'[p] = SubSeq(net[p], 1, n)
                            /\ Range(net'[p]) \subseteq Range(net[p])
      BY <2>1, IQsLostIs
    <2>4. /\ conn' \in [End -> Connections] /\ Shapes' /\ ended' \in [End -> Endings]
          /\ conn'[Peer(e)] = conn[Peer(e)] /\ ended'[Peer(e)] = ended[Peer(e)]
          /\ \/ UNCHANGED <<conn, ended>>
             \/ conn[e].task # NoTask /\ conn'[e] = Reset(conn[e]) /\ Ends(e, "failed")
      BY <2>1, DisconnectedIs
    <2>5. TypeOK'
      BY <2>1, <2>2, <2>3, <2>4 DEF TypeOK, Endings
    <2>6. Cuts(e)
      BY <2>1, <2>3, <2>4 DEF Cuts
    <2> QED
      BY <2>4, <2>5, <2>6
  <1>5. CASE ConnectToServer(e) \/ Authenticated(e)
    <2>1. /\ UNCHANGED net \/ IQsLost
          /\ UNCHANGED <<conn, refused, written, confirmed, received, ended, failures>>
      BY <1>5 DEF ConnectToServer, Authenticated
    <2>2. stream' \in [End -> Streams]
      BY <1>2, <1>3, <1>5 DEF ConnectToServer, Authenticated
    <2>3. /\ net' \in [End -> Seq(IQs)]
          /\ \A p \in End : /\ \E n \in 0..Len(net[p]) : net'[p] = SubSeq(net[p], 1, n)
                            /\ Range(net'[p]) \subseteq Range(net[p])
      <3>1. CASE UNCHANGED net
        <4>1. \A s \in Seq(IQs) : Len(s) \in 0..Len(s) /\ SubSeq(s, 1, Len(s)) = s
          OBVIOUS
        <4> QED
          BY <1>1, <3>1, <4>1
      <3>2. CASE IQsLost
        BY <3>2, IQsLostIs
      <3> QED
        BY <2>1, <3>1, <3>2
    <2>4. TypeOK' /\ Shapes'
      BY <2>1, <2>2, <2>3 DEF TypeOK, Shapes
    <2>5. Cuts(e)
      BY <2>1, <2>3 DEF Cuts
    <2> QED
      BY <2>4, <2>5
  <1>6. CASE Crashes(e)
    <2>1. /\ conn[e].task # NoTask \/ conn[e].state = "WaitingForAccept"
          /\ conn' = [conn EXCEPT ![e] = Crashed(conn[e])] /\ Ends(e, "crashed") /\ IQsLost
          /\ stream' = [stream EXCEPT ![e] = "none"]
          /\ UNCHANGED <<refused, written, confirmed, received, failures>>
      BY <1>6, CrashesIs
    <2>2. stream' \in [End -> Streams]
      BY <1>2, <1>3, <2>1
    <2>3. /\ net' \in [End -> Seq(IQs)]
          /\ \A p \in End : /\ \E n \in 0..Len(net[p]) : net'[p] = SubSeq(net[p], 1, n)
                            /\ Range(net'[p]) \subseteq Range(net[p])
      BY <2>1, IQsLostIs
    <2>4. /\ conn' \in [End -> Connections] /\ Shapes' /\ ended' \in [End -> Endings]
          /\ conn'[e] = Crashed(conn[e])
          /\ conn'[Peer(e)] = conn[Peer(e)] /\ ended'[Peer(e)] = ended[Peer(e)]
      BY <2>1, CutsEnd
    <2>5. TypeOK'
      BY <2>1, <2>2, <2>3, <2>4 DEF TypeOK, Endings
    <2>6. Cuts(e)
      BY <2>1, <2>3, <2>4 DEF Cuts
    <2> QED
      BY <2>4, <2>5, <2>6
  <1> QED
    BY <1>4, <1>5, <1>6 DEF Network

(* An opening that is cut short counts as over.                            *)
LEMMA NetworkOpening ==
  ASSUME TypeOK, Shapes, Opening, NEW e \in End, Cuts(e)
  PROVE  Opening'
  <1>1. /\ UNCHANGED <<written, confirmed, received>>
        /\ \A p \in End : /\ \E n \in 0..Len(net[p]) : net'[p] = SubSeq(net[p], 1, n)
                          /\ Range(net'[p]) \subseteq Range(net[p])
        /\ conn'[Peer(e)] = conn[Peer(e)] /\ ended'[Peer(e)] = ended[Peer(e)]
        /\ \/ UNCHANGED <<conn, ended>>
           \/ /\ conn[e].task # NoTask \/ conn[e].state = "WaitingForAccept"
              /\ conn'[e] = Reset(conn[e]) \/ conn'[e] = Crashed(conn[e])
    BY DEF Cuts
  <1>2. \A p \in End : net[p] = <<>> => net'[p] = <<>>
    <2>1. \A s \in Seq(IQs) : \A n \in 0..Len(s) : s = <<>> => SubSeq(s, 1, n) = <<>>
      OBVIOUS
    <2> QED
      BY <1>1, <2>1, StateIs
  <1>3. conn[e] \in Connections /\ Shape(conn[e])
    BY StateIs
  <1>4. Fresh.task = NoTask /\ Fresh.state = "Idle"
    BY DEF Fresh
  <1>5. \/ UNCHANGED <<conn, ended>>
        \/ /\ conn[e].task # NoTask \/ conn[e].state = "WaitingForAccept"
           /\ conn'[e].state = "Idle" /\ conn'[e].tasks = conn[e].tasks
    BY <1>1, <1>3, ResetIs, CrashedIs
  <1>6. CASE Unopened
    <2>1. UNCHANGED <<conn, ended>> /\ NothingSent'
      BY <1>1, <1>4, <1>5, <1>6, NothingSentStays DEF Unopened
    <2> QED
      BY <1>2, <1>6, <2>1 DEF Unopened, Opening
  <1>7. HasAsked => HasAsked'
    BY <1>1, <1>5, Ends2, TwoEnds DEF HasAsked
  <1>8. CASE OpenUnderWay
    <2>1. HasAsked' /\ NothingSent' /\ net'["responder"] = <<>>
      BY <1>1, <1>2, <1>7, <1>8, NothingSentStays, TwoEnds DEF OpenUnderWay
    <2>2. conn'["responder"] = Fresh /\ ended'["responder"] = "no"
      BY <1>1, <1>4, <1>5, <1>8, TwoEnds DEF OpenUnderWay
    <2>3. net'["initiator"] = <<OpenIQ(1)>> \/ net'["initiator"] = <<>>
      <3>1. PICK n \in 0..Len(net["initiator"]) : net'["initiator"] = SubSeq(net["initiator"], 1, n)
        BY <1>1, TwoEnds
      <3>2. ASSUME net["initiator"] = <<OpenIQ(1)>>
            PROVE  net'["initiator"] = <<OpenIQ(1)>> \/ net'["initiator"] = <<>>
        <4>1. ASSUME NEW s \in Seq(IQs), NEW k \in 0..Len(s)
              PROVE  /\ k = Len(s) => SubSeq(s, 1, k) = s
                     /\ k = 0 => SubSeq(s, 1, k) = <<>>
          OBVIOUS
        <4>2. net["initiator"] \in Seq(IQs) /\ Len(net["initiator"]) = 1
          BY <3>2, StateIs, TwoEnds
        <4>3. n = 0 \/ n = Len(net["initiator"])
          BY <3>1, <4>2
        <4>4. /\ n = Len(net["initiator"]) => SubSeq(net["initiator"], 1, n) = net["initiator"]
              /\ n = 0 => SubSeq(net["initiator"], 1, n) = <<>>
          BY <3>1, <4>1, <4>2
        <4> QED
          BY <3>1, <3>2, <4>3, <4>4
      <3> QED
        BY <1>2, <1>8, <3>2, TwoEnds DEF OpenUnderWay
    <2> QED
      BY <2>1, <2>2, <2>3 DEF OpenUnderWay, Opening
  <1>9. CASE OpenHeld
    <2>1. /\ HasAsked' /\ NothingSent'
          /\ net'["responder"] = <<>> /\ net'["initiator"] = <<>>
      BY <1>1, <1>2, <1>7, <1>9, NothingSentStays, TwoEnds DEF OpenHeld
    <2>2. CASE conn'["responder"] = conn["responder"]
      BY <1>9, <2>1, <2>2 DEF OpenHeld, Opening
    <2>3. CASE conn'["responder"].state = "Idle"
      <3>1. \A q \in End : \A m \in Range(net'[q]) : m.type # "open"
        BY <2>1, RangeOfNone, TwoEnds
      <3> QED
        BY <2>1, <2>3, <3>1 DEF HasAsked, Opened, Opening
    <2> QED
      BY <1>1, <1>5, <2>2, <2>3, TwoEnds
  <1>10. CASE Opened
    <2>1. \A q \in End : \A m \in Range(net'[q]) : m.type # "open"
      BY <1>1, <1>10 DEF Opened
    <2>2. CASE e = "initiator"
      BY <1>1, <1>5, <1>10, <2>1, <2>2, TwoEnds DEF Opened, Opening
    <2>3. CASE e = "responder"
      BY <1>1, <1>5, <1>10, <2>1, <2>3, TwoEnds DEF Opened, Opening
    <2> QED
      BY <2>2, <2>3, TwoEnds
  <1> QED
    BY <1>6, <1>8, <1>9, <1>10 DEF Opening

-----------------------------------------------------------------------------
(* Requests and answers.  At most one request of an end is on its way; it  *)
(* is that of its task, if it still has one, and what answers it can have  *)
(* is then not yet under way.                                              *)
Request(m)    == m.type \in {"open", "data", "close"}
OneRequest(s) == \A i, j \in DOMAIN s : Request(s[i]) /\ Request(s[j]) => i = j
Requests(s)   == {m \in Range(s) : Request(m)}
Results(s)    == {m \in Range(s) : m.type = "result"}

Wire(c, out, in) ==
  /\ OneRequest(out)
  /\ c.state # "Idle" =>
       /\ \A m \in Requests(out) : m.id = c.tasks /\ m.type = c.task.mode
       /\ \A a \in Results(in) : a.id <= c.tasks /\ (Requests(out) # {} => a.id < c.tasks)

Wires == \A e \in End : Wire(conn[e], net[e], net[Peer(e)])

(* What is left of a queue with one request has one at most, and none once *)
(* it has been taken.                                                      *)
LEMMA OneRequestOfPart ==
  ASSUME NEW s \in Seq(IQs), OneRequest(s)
  PROVE  /\ \A n \in 0..Len(s) : OneRequest(SubSeq(s, 1, n))
         /\ s # <<>> => OneRequest(Tail(s))
         /\ s # <<>> /\ Request(Head(s)) => Requests(Tail(s)) = {}
  <1>1. ASSUME NEW n \in 0..Len(s)
        PROVE  OneRequest(SubSeq(s, 1, n))
    <2>1. \A i \in DOMAIN SubSeq(s, 1, n) : i \in DOMAIN s /\ SubSeq(s, 1, n)[i] = s[i]
      OBVIOUS
    <2> QED
      BY <2>1 DEF OneRequest
  <1>2. ASSUME s # <<>>
        PROVE  /\ \A i \in DOMAIN Tail(s) : i + 1 \in DOMAIN s /\ Tail(s)[i] = s[i + 1] /\ i \in Nat \ {0}
               /\ 1 \in DOMAIN s /\ Head(s) = s[1]
    BY <1>2
  <1>3. s # <<>> => OneRequest(Tail(s))
    BY <1>2 DEF OneRequest
  <1>4. s # <<>> /\ Request(Head(s)) => Requests(Tail(s)) = {}
    <2>1. ASSUME s # <<>>, Request(Head(s)), NEW i \in DOMAIN Tail(s), Request(Tail(s)[i])
          PROVE  FALSE
      <3>1. i + 1 \in DOMAIN s /\ 1 \in DOMAIN s /\ Request(s[i + 1]) /\ Request(s[1]) /\ i \in Nat \ {0}
        BY <1>2, <2>1
      <3>2. i + 1 = 1
        BY <3>1 DEF OneRequest
      <3> QED
        BY <3>1, <3>2
    <2> QED
      BY <2>1 DEF Requests, Range
  <1> QED
    BY <1>1, <1>3, <1>4

(* Sending to a queue without a request, or sending none, leaves one at    *)
(* most.                                                                   *)
LEMMA OneRequestOfConcat ==
  ASSUME NEW s \in Seq(IQs), NEW t \in Seq(IQs), OneRequest(s), OneRequest(t),
         Requests(s) = {} \/ Requests(t) = {}
  PROVE  OneRequest(s \o t)
  <1>1. \A i \in DOMAIN (s \o t) : \/ i \in DOMAIN s /\ (s \o t)[i] = s[i]
                                   \/ i - Len(s) \in DOMAIN t /\ (s \o t)[i] = t[i - Len(s)]
    OBVIOUS
  <1>2. /\ Requests(s) = {} => \A i \in DOMAIN s : ~Request(s[i])
        /\ Requests(t) = {} => \A i \in DOMAIN t : ~Request(t[i])
    BY DEF Requests, Range
  <1>3. DOMAIN (s \o t) \subseteq Int /\ Len(s) \in Int
    OBVIOUS
  <1>4. ASSUME NEW i \in DOMAIN (s \o t), NEW j \in DOMAIN (s \o t),
               Request((s \o t)[i]), Request((s \o t)[j])
        PROVE  i = j
    <2>1. CASE Requests(s) = {}
      <3>1. /\ i - Len(s) \in DOMAIN t /\ Request(t[i - Len(s)])
            /\ j - Len(s) \in DOMAIN t /\ Request(t[j - Len(s)])
        BY <1>1, <1>2, <1>4, <2>1
      <3>2. i - Len(s) = j - Len(s)
        BY <3>1 DEF OneRequest
      <3> QED
        BY <1>3, <3>2
    <2>2. CASE Requests(t) = {}
      <3>1. /\ i \in DOMAIN s /\ Request(s[i]) /\ j \in DOMAIN s /\ Request(s[j])
        BY <1>1, <1>2, <1>4, <2>2
      <3> QED
        BY <3>1 DEF OneRequest
    <2> QED
      BY <2>1, <2>2
  <1> QED
    BY <1>4 DEF OneRequest

(* A queue of at most one IQ holds at most one request.                    *)
LEMMA OneRequestOfFew ==
  /\ OneRequest(<<>>) /\ \A m : OneRequest(<<m>>)
  BY DEF OneRequest

(* The requests and the results among what is sent after a queue.          *)
LEMMA ConcatParts ==
  ASSUME NEW s \in Seq(IQs), NEW t \in Seq(IQs)
  PROVE  /\ Requests(s \o t) = Requests(s) \union Requests(t)
         /\ Results(s \o t) = Results(s) \union Results(t)
  BY RangeOfConcat DEF Requests, Results

(* A wire stays in order when IQs are taken from it and the sender goes on *)
(* with its task.                                                          *)
LEMMA WireShrinks ==
  ASSUME NEW c \in Connections, NEW d, NEW out, NEW in, NEW out2, NEW in2,
         Wire(c, out, in), OneRequest(out2),
         Requests(out2) \subseteq Requests(out), Results(in2) \subseteq Results(in),
         d.state # "Idle" => c.state # "Idle" /\ d.tasks = c.tasks /\ d.task = c.task
  PROVE  Wire(d, out2, in2)
  BY DEF Wire

(* An Idle sender promises nothing of its wire but one request.            *)
LEMMA WireIdle ==
  ASSUME NEW d, NEW out, NEW in, d.state = "Idle", OneRequest(out)
  PROVE  Wire(d, out, in)
  BY DEF Wire

(* The peer of an end that has taken an answer, or has sent no result.     *)
LEMMA WireQuiet ==
  ASSUME NEW c \in Connections, NEW out \in Seq(IQs), NEW in \in Seq(IQs), NEW iqs \in Seq(IQs),
         Wire(c, out, in), Results(iqs) = {}
  PROVE  Wire(c, out, in \o iqs) /\ (out # <<>> => Wire(c, Tail(out), in \o iqs))
  <1>1. Results(in \o iqs) = Results(in)
    <2>1. Results(in \o iqs) = Results(in) \union Results(iqs)
      BY ConcatParts
    <2> QED
      BY <2>1
  <1>2. OneRequest(out) /\ (out # <<>> => OneRequest(Tail(out)))
    BY OneRequestOfPart DEF Wire
  <1>3. out # <<>> => Requests(Tail(out)) \subseteq Requests(out)
    BY RangeOfTail DEF Requests
  <1> QED
    BY <1>1, <1>2, <1>3, WireShrinks

(* The peer of an end that has answered its request.                       *)
LEMMA WireAnswered ==
  ASSUME NEW c \in Connections, NEW out \in Seq(IQs), NEW in \in Seq(IQs), NEW iqs \in Seq(IQs),
         Wire(c, out, in), out # <<>>, Request(Head(out)),
         \A a \in Results(iqs) : a.id = Head(out).id
  PROVE  Wire(c, Tail(out), in \o iqs)
  <1>1. OneRequest(Tail(out)) /\ Requests(Tail(out)) = {}
    BY OneRequestOfPart DEF Wire
  <1>2. Head(out) \in Requests(out)
    BY RangeOfTail DEF Requests
  <1>3. Results(in \o iqs) = Results(in) \union Results(iqs)
    BY ConcatParts
  <1>4. c.tasks \in Nat
    BY ConnectionFields
  <1>5. ASSUME c.state # "Idle", NEW a \in Results(in \o iqs)
        PROVE  a.id <= c.tasks
    BY <1>2, <1>3, <1>4, <1>5 DEF Wire
  <1> QED
    BY <1>1, <1>5 DEF Wire

(* An end that sends what trySend sends.                                   *)
LEMMA WireTrySend ==
  ASSUME NEW c \in Connections, NEW out \in Seq(IQs), NEW in \in Seq(IQs),
         Wire(c, out, in), Shape(c), c.alive
  PROVE  Wire(TrySend(c), out \o Sends(c), in) /\ Results(Sends(c)) = {}
  <1>1. Sends(c) \in Seq(IQs) /\ c.tasks \in Nat
    BY SendsIs, ConnectionFields
  <1>2. ASSUME NEW m \in IQs, NEW d, Sends(c) = <<m>>, Request(m), m.id = c.tasks + 1,
               d.tasks = c.tasks + 1, d.task.mode = m.type, c.task = NoTask, c.state = "Active"
        PROVE  Wire(d, out \o Sends(c), in) /\ Results(Sends(c)) = {}
    <2>1. Requests(out) = {}
      <3>1. c.task.mode = "none"
        BY <1>2 DEF NoTask
      <3> QED
        BY <1>2, <3>1 DEF Wire, Requests, Request
    <2>2. OneRequest(out) /\ OneRequest(Sends(c))
      BY <1>2, OneRequestOfFew DEF Wire
    <2>3. OneRequest(out \o Sends(c))
      BY <1>1, <2>1, <2>2, OneRequestOfConcat
    <2>4. Range(Sends(c)) = {m}
      BY <1>2, RangeOfOne
    <2>5. Requests(out \o Sends(c)) \subseteq {m}
      BY <1>1, <2>1, <2>4, ConcatParts DEF Requests
    <2>6. Results(Sends(c)) = {}
      BY <1>2, <2>4 DEF Results, Request
    <2>7. \A a \in Results(in) : a.id \in Nat /\ a.id <= c.tasks
      <3>1. \A a \in Results(in) : a \in IQs
        BY DEF Results, Range
      <3>2. \A a \in IQs : a.id \in Nat
        BY DEF IQs
      <3> QED
        BY <1>2, <3>1, <3>2 DEF Wire
    <2>8. \A a \in Results(in) : a.id <= c.tasks + 1 /\ a.id < c.tasks + 1
      BY <1>1, <2>7
    <2> QED
      BY <1>2, <2>3, <2>5, <2>6, <2>8 DEF Wire
  <1>3. CASE SendsBlock(c)
    <2> DEFINE m == DataIQ(c.tasks + 1, c.seq, NextBlock(c))
    <2>1. /\ Sends(c) = <<m>> /\ TrySend(c).tasks = c.tasks + 1
          /\ TrySend(c).task = [mode |-> "data", id |-> c.tasks + 1, bytes |-> Len(NextBlock(c))]
      BY <1>3, SendsIs, TrySendIs
    <2>2. m \in IQs /\ m.id = c.tasks + 1 /\ m.type = "data"
      <3>1. c.tasks + 1 \in Nat /\ c.seq \in 0..(SeqSpace - 1) /\ NextBlock(c) \in Seq(Nat)
        BY NextBlockIs, ConnectionFields
      <3> QED
        BY <3>1, Messages DEF DataIQ
    <2>3. c.task = NoTask /\ c.state = "Active"
      BY <1>3, Sending
    <2>4. Request(m) /\ TrySend(c).task.mode = m.type
      BY <2>1, <2>2 DEF Request
    <2> HIDE DEF m
    <2> QED
      BY <1>2, <2>1, <2>2, <2>3, <2>4
  <1>4. CASE SendsClose(c)
    <2> DEFINE m == CloseIQ(c.tasks + 1)
    <2>1. /\ Sends(c) = <<m>> /\ TrySend(c).tasks = c.tasks + 1
          /\ TrySend(c).task = [mode |-> "close", id |-> c.tasks + 1, bytes |-> 0]
      BY <1>4, SendsIs, TrySendIs
    <2>2. m \in IQs /\ m.id = c.tasks + 1 /\ m.type = "close"
      BY <1>1, Answers DEF CloseIQ
    <2>3. c.task = NoTask /\ c.state = "Active"
      BY <1>4, Sending
    <2>4. Request(m) /\ TrySend(c).task.mode = m.type
      BY <2>1, <2>2 DEF Request
    <2> HIDE DEF m
    <2> QED
      BY <1>2, <2>1, <2>2, <2>3, <2>4
  <1>5. CASE ~SendsBlock(c) /\ ~SendsClose(c)
    <2>1. TrySend(c) = c /\ Sends(c) = <<>>
      BY <1>5, TrySendIs, SendsIs
    <2>2. out \o Sends(c) = out /\ Results(<<>>) = {}
      BY <2>1, NoFurtherIQ, RangeOfNone DEF Results
    <2> QED
      BY <2>1, <2>2
  <1> QED
    BY <1>3, <1>4, <1>5

(* close() sends a request only when none is on its way.                   *)
LEMMA WireClosed ==
  ASSUME NEW c \in Connections, NEW out \in Seq(IQs), NEW in \in Seq(IQs),
         Wire(c, out, in), Shape(c), c.alive
  PROVE  Wire(Closed(c), out \o CloseSends(c), in) /\ Results(CloseSends(c)) = {}
  <1>1. c.state \in {"Idle", "Requesting", "WaitingForAccept", "Active"} /\ c.iq_id \in Nat
    BY ConnectionFields
  <1>2. CASE c.state = "Active"
    <2> DEFINE b == Pending(c)
    <2>1. /\ b \in Connections /\ Shape(b) /\ b.alive
          /\ b.tasks = c.tasks /\ b.state = c.state /\ b.task = c.task
      BY <1>2, PendingIs, ShapePending DEF SameRole
    <2>2. CloseSends(c) = Sends(b) /\ (Closed(c) = TrySend(b) \/ Closed(c) = Reset(c))
      BY <1>2, ClosedIs, CloseSendsIs
    <2> HIDE DEF b
    <2>3. Wire(b, out, in)
      BY <2>1, WireShrinks DEF Wire
    <2>4. Wire(TrySend(b), out \o Sends(b), in) /\ Results(Sends(b)) = {}
      BY <2>1, <2>3, WireTrySend
    <2>5. Wire(Reset(c), out \o Sends(b), in)
      BY <2>4, WireIdle, ResetIs DEF Wire
    <2> QED
      BY <2>2, <2>4, <2>5
  <1>3. CASE c.state \in {"Idle", "Requesting"}
    <2>1. CloseSends(c) = <<>> /\ (Closed(c) = c \/ Closed(c) = Reset(c))
      BY <1>3, ClosedIs, CloseSendsIs
    <2>2. out \o <<>> = out /\ Results(<<>>) = {}
      BY NoFurtherIQ, RangeOfNone DEF Results
    <2>3. Wire(Reset(c), out, in)
      BY WireIdle, ResetIs DEF Wire
    <2> QED
      BY <2>1, <2>2, <2>3
  <1>4. CASE c.state = "WaitingForAccept"
    <2>1. CloseSends(c) = <<Error(c.iq_id)>> /\ Closed(c) = Reset(c)
      BY <1>4, ClosedIs, CloseSendsIs
    <2>2. <<Error(c.iq_id)>> \in Seq(IQs) /\ Range(<<Error(c.iq_id)>>) = {Error(c.iq_id)}
      BY <1>1, Answers, RangeOfOne
    <2>3. Requests(<<Error(c.iq_id)>>) = {} /\ Results(<<Error(c.iq_id)>>) = {}
      BY <2>2 DEF Requests, Results, Request, Error
    <2>4. OneRequest(out \o <<Error(c.iq_id)>>)
      BY <2>2, <2>3, OneRequestOfConcat, OneRequestOfFew DEF Wire
    <2> QED
      BY <2>1, <2>3, <2>4, WireIdle, ResetIs
  <1> QED
    BY <1>1, <1>2, <1>3, <1>4

(* No request of an end is on its way when its task has been answered.     *)
LEMMA WireSucceeded ==
  ASSUME NEW c \in Connections, NEW out \in Seq(IQs), NEW in \in Seq(IQs), NEW d,
         Wire(c, out, in), c.state # "Idle", d.tasks = c.tasks,
         in # <<>>, Head(in).type = "result", Head(in).id = c.tasks
  PROVE  Requests(out) = {} /\ Wire(d, out, Tail(in))
  <1>1. Head(in) \in Results(in) /\ Results(Tail(in)) \subseteq Results(in) /\ c.tasks \in Nat
    BY RangeOfTail, ConnectionFields DEF Results
  <1>2. Requests(out) = {}
    BY <1>1 DEF Wire
  <1> QED
    BY <1>1, <1>2 DEF Wire

(* End e moves on to d and sends iqs: d's wire is what is to be shown,     *)
(* provided that e's answers are to the request that it takes.             *)
LEMMA OrdinaryWires ==
  ASSUME TypeOK, Shapes, Wires, NEW e \in End, NEW d, NEW iqs, NEW takes \in BOOLEAN,
         Ordinary(e, d, iqs, takes),
         Wire(d, net[e] \o iqs, IF takes THEN Tail(net[Peer(e)]) ELSE net[Peer(e)]),
         \/ Results(iqs) = {}
         \/ takes /\ Request(Head(net[Peer(e)]))
            /\ \A a \in Results(iqs) : a.id = Head(net[Peer(e)]).id
  PROVE  Wires'
  <1> DEFINE p == Peer(e)
  <1>1. /\ p \in End /\ Peer(p) = e /\ net[e] \in Seq(IQs) /\ net[p] \in Seq(IQs)
        /\ conn[p] \in Connections /\ Wire(conn[p], net[p], net[e]) /\ OneRequest(net[e])
    BY StateIs, Ends2 DEF Wires, Wire
  <1>2. /\ conn'[e] = d /\ conn'[p] = conn[p] /\ iqs \in Seq(IQs) /\ d \in Connections
        /\ net'[e] = net[e] \o iqs \/ (~takes /\ net'[e] = net[e] \o <<>>)
        /\ takes => net[p] # <<>> /\ net'[p] = Tail(net[p])
        /\ ~takes => net'[p] = net[p]
    BY DEF Ordinary, Goes
  <1>3. Wire(conn'[e], net'[e], net'[p])
    <2>1. CASE net'[e] = net[e] \o iqs
      BY <1>2, <2>1
    <2>2. CASE ~takes /\ net'[e] = net[e] \o <<>>
      <3>1. net'[e] = net[e] /\ net'[p] = net[p]
        BY <1>1, <1>2, <2>2, NoFurtherIQ
      <3>2. Requests(net[e]) \subseteq Requests(net[e] \o iqs)
        BY <1>1, <1>2, ConcatParts
      <3>3. Wire(d, net[e] \o iqs, net[p])
        BY <2>2
      <3>4. Wire(d, net[e], net[p])
        BY <1>1, <1>2, <3>2, <3>3, WireShrinks
      <3> QED
        BY <1>2, <3>1, <3>4
    <2> QED
      BY <1>2, <2>1, <2>2
  <1>4. Wire(conn'[p], net'[p], net'[e])
    <2>1. CASE net'[e] = net[e] \o iqs /\ Results(iqs) = {}
      BY <1>1, <1>2, <2>1, WireQuiet
    <2>2. CASE /\ net'[e] = net[e] \o iqs /\ takes /\ Request(Head(net[p]))
               /\ \A a \in Results(iqs) : a.id = Head(net[p]).id
      BY <1>1, <1>2, <2>2, WireAnswered
    <2>3. CASE ~takes /\ net'[e] = net[e] \o <<>>
      BY <1>1, <1>2, <2>3, NoFurtherIQ
    <2> QED
      BY <1>2, <2>1, <2>2, <2>3
  <1> QED
    BY <1>1, <1>3, <1>4, Ends2 DEF Wires

-----------------------------------------------------------------------------
(* What holds however the stream is used.                                  *)
Base == TypeOK /\ Shapes /\ Opening /\ Wires

(* The same for all of Base.                                               *)
LEMMA BaseOrdinary ==
  ASSUME Base, TypeOK', NEW e \in End, NEW d, NEW iqs, NEW takes \in BOOLEAN,
         Ordinary(e, d, iqs, takes),
         Wire(d, net[e] \o iqs, IF takes THEN Tail(net[Peer(e)]) ELSE net[Peer(e)]),
         \/ Results(iqs) = {}
         \/ takes /\ Request(Head(net[Peer(e)]))
            /\ \A a \in Results(iqs) : a.id = Head(net[Peer(e)]).id
  PROVE  Base'
  <1>1. Opening'
    BY OrdinaryOpening DEF Base
  <1>2. Wires'
    BY OrdinaryWires DEF Base
  <1>3. Shapes'
    <2>1. Shapes /\ Shape(d) /\ (Goes(e, d, iqs) \/ Goes(e, d, <<>>)) /\ d \in Connections
      BY DEF Base, Ordinary
    <2> QED
      BY <2>1, GoesShapes
  <1> QED
    BY <1>1, <1>2, <1>3 DEF Base

(* What Base says of one end.                                              *)
LEMMA BaseState ==
  ASSUME Base, NEW e \in End
  PROVE  /\ TypeOK /\ Shapes /\ Opening
         /\ conn[e] \in Connections /\ Shape(conn[e])
         /\ net[e] \in Seq(IQs) /\ net[Peer(e)] \in Seq(IQs)
         /\ Wire(conn[e], net[e], net[Peer(e)])
  BY StateIs, Ends2 DEF Base, Wires

(* Taking an IQ leaves fewer results.                                      *)
LEMMA WireTakes ==
  ASSUME NEW c \in Connections, NEW d, NEW out \in Seq(IQs), NEW in \in Seq(IQs),
         NEW iqs \in Seq(IQs),
         Wire(c, out, in), in # <<>>, Requests(iqs) = {}, OneRequest(iqs),
         d.state # "Idle" => c.state # "Idle" /\ d.tasks = c.tasks /\ d.task = c.task
  PROVE  Wire(d, out \o iqs, Tail(in))
  <1>1. OneRequest(out \o iqs)
    BY OneRequestOfConcat DEF Wire
  <1>2. Requests(out \o iqs) = Requests(out) \union Requests(iqs)
    BY ConcatParts
  <1>3. Results(Tail(in)) \subseteq Results(in)
    BY RangeOfTail DEF Results
  <1> QED
    BY <1>1, <1>2, <1>3, WireShrinks

(* A block or a close is answered by one result at most, of its id.        *)
LEMMA AnswerParts ==
  ASSUME NEW id \in Nat, NEW i \in Nat
  PROVE  /\ <<Error(id)>> \in Seq(IQs) /\ Requests(<<Error(id)>>) = {} /\ Results(<<Error(id)>>) = {}
         /\ <<Result(id)>> \in Seq(IQs) /\ Requests(<<Result(id)>>) = {}
         /\ \A a \in Results(<<Result(id)>>) : a.id = id
         /\ <<Result(id), Error(i)>> \in Seq(IQs) /\ Requests(<<Result(id), Error(i)>>) = {}
         /\ \A a \in Results(<<Result(id), Error(i)>>) : a.id = id
         /\ OneRequest(<<Error(id)>>) /\ OneRequest(<<Result(id)>>)
         /\ OneRequest(<<Result(id), Error(i)>>)
  <1>1. /\ Result(id) \in IQs /\ Error(id) \in IQs /\ Error(i) \in IQs
        /\ Result(id).type = "result" /\ Error(id).type = "error" /\ Error(i).type = "error"
        /\ Result(id).id = id
    BY Answers
  <1>2. /\ <<Error(id)>> \in Seq(IQs) /\ <<Result(id)>> \in Seq(IQs)
        /\ <<Result(id), Error(i)>> \in Seq(IQs)
    BY <1>1
  <1>3. /\ Range(<<Error(id)>>) = {Error(id)} /\ Range(<<Result(id)>>) = {Result(id)}
        /\ Range(<<Result(id), Error(i)>>) = {Result(id), Error(i)}
    BY RangeOfOne, RangeOfTwo
  <1>4. /\ Requests(<<Error(id)>>) = {} /\ Results(<<Error(id)>>) = {}
    BY <1>1, <1>3 DEF Requests, Results, Request
  <1>5. /\ Requests(<<Result(id)>>) = {}
        /\ \A a \in Results(<<Result(id)>>) : a.id = id
    BY <1>1, <1>3 DEF Requests, Results, Request
  <1>6. Requests(<<Result(id), Error(i)>>) = {}
    BY <1>1, <1>3 DEF Requests, Request
  <1>7. \A a \in Results(<<Result(id), Error(i)>>) : a.id = id
    BY <1>1, <1>3 DEF Results
  <1>8. OneRequest(<<Result(id), Error(i)>>)
    BY <1>6 DEF OneRequest, Requests, Range
  <1> QED
    BY <1>2, <1>4, <1>5, <1>6, <1>7, <1>8, OneRequestOfFew

(* Base holds at first,                                                    *)
LEMMA BaseInit ==
  ASSUME Init
  PROVE  Base
  <1>1. conn = [e \in End |-> Fresh] /\ net = [e \in End |-> <<>>] /\ \A e \in End : conn[e] = Fresh /\ net[e] = <<>>
    BY DEF Init
  <1>2. Unopened
    BY <1>1 DEF Init, Unopened, NothingSent
  <1>3. <<>> \in Seq(IQs) /\ <<>> \in Seq(Nat)
    OBVIOUS
  <1>4. TypeOK
    <2>1. /\ stream \in [End -> Streams] /\ refused \in [End -> Nat]
          /\ written \in [End -> Nat] /\ confirmed \in [End -> Nat]
      BY DEF Init, Streams
    <2>2. conn \in [End -> Connections] /\ net \in [End -> Seq(IQs)]
      BY <1>1, <1>3, ShapeFresh
    <2>3. received \in [End -> Seq(Nat)] /\ failures \in Nat
      BY <1>3 DEF Init
    <2>4. ended \in [End -> Endings]
      BY DEF Init, Endings
    <2> QED
      BY <2>1, <2>2, <2>3, <2>4 DEF TypeOK, Endings
  <1>5. Shapes
    BY <1>1, ShapeFresh DEF Shapes
  <1>6. Fresh.state = "Idle"
    BY DEF Fresh
  <1>7. Wires
    BY <1>1, <1>6, WireIdle, OneRequestOfFew, Ends2 DEF Wires
  <1> QED
    BY <1>2, <1>4, <1>5, <1>7 DEF Base, Opening

(* an owner's call keeps it,                                               *)
LEMMA OwnerBase ==
  ASSUME Base, NEW e \in End, Owner(e)
  PROVE  Base'
  <1> DEFINE c == conn[e]
  <1>1. /\ TypeOK /\ Shapes /\ c \in Connections /\ Shape(c)
        /\ net[e] \in Seq(IQs) /\ net[Peer(e)] \in Seq(IQs)
        /\ Wire(c, net[e], net[Peer(e)]) /\ written[e] \in Nat
    BY BaseState, StateIs
  <1>2. CASE WriteData(e)
    <2>1. PICK n \in 1..(MaxBytes - written[e]) :
            /\ written' = [written EXCEPT ![e] = @ + n]
            /\ Becomes(e, TrySend(Filled(c, written[e], n)), Sends(Filled(c, written[e], n)))
      BY <1>2, Zenon DEF WriteData, Filled
    <2>2. /\ c.alive /\ c.state = "Active" /\ ~c.closePending /\ ~c.closing
          /\ UNCHANGED <<stream, confirmed, received, ended, failures>>
      BY <1>2 DEF WriteData
    <2> DEFINE b == Filled(c, written[e], n)
    <2>3. /\ Ordinary(e, TrySend(b), Sends(b), FALSE) /\ TypeOK' /\ Shape(b) /\ b.alive
      BY <1>1, <2>1, <2>2, WriteDataIs
    <2>4. b \in Connections /\ b.state = c.state /\ b.tasks = c.tasks /\ b.task = c.task
      <3>1. n \in Nat
        OBVIOUS
      <3> QED
        BY <1>1, <3>1, FilledIs DEF SameRole
    <2> HIDE DEF b
    <2>5. Wire(b, net[e], net[Peer(e)])
      BY <1>1, <2>4, WireShrinks DEF Wire
    <2>6. Wire(TrySend(b), net[e] \o Sends(b), net[Peer(e)]) /\ Results(Sends(b)) = {}
      BY <1>1, <2>3, <2>4, <2>5, WireTrySend
    <2> QED
      BY <2>3, <2>6, BaseOrdinary
  <1>3. CASE CloseConnection(e)
    <2>1. Ordinary(e, Closed(c), CloseSends(c), FALSE) /\ TypeOK' /\ c.alive
      BY <1>1, <1>3, CloseConnectionIs DEF CloseConnection
    <2>2. Wire(Closed(c), net[e] \o CloseSends(c), net[Peer(e)]) /\ Results(CloseSends(c)) = {}
      BY <1>1, <2>1, WireClosed
    <2> QED
      BY <2>1, <2>2, BaseOrdinary
  <1>4. CASE Destroy(e)
    <2> DEFINE b == Emptied(c)
    <2>1. /\ Ordinary(e, Dead(b), CloseSends(b), FALSE) /\ TypeOK' /\ Shape(b) /\ c.alive
      BY <1>1, <1>4, DestroyIs
    <2>2. /\ b \in Connections /\ b.state = c.state /\ b.tasks = c.tasks /\ b.task = c.task
          /\ b.alive = c.alive /\ Dead(b).state = "Idle"
      BY <1>1, EmptiedIs, DeadIs DEF SameRole
    <2> HIDE DEF b
    <2>3. Wire(b, net[e], net[Peer(e)])
      BY <1>1, <2>2, WireShrinks DEF Wire
    <2>4. Wire(Closed(b), net[e] \o CloseSends(b), net[Peer(e)]) /\ Results(CloseSends(b)) = {}
      BY <1>1, <2>1, <2>2, <2>3, WireClosed
    <2>5. Wire(Dead(b), net[e] \o CloseSends(b), net[Peer(e)])
      BY <2>2, <2>4, WireIdle DEF Wire
    <2> QED
      BY <2>1, <2>4, <2>5, BaseOrdinary
  <1> QED
    BY <1>2, <1>3, <1>4 DEF Owner

(* so does what an event loop handles,                                     *)
LEMMA EventLoopBase ==
  ASSUME Base, NEW e \in End, EventLoop(e)
  PROVE  Base'
  <1> DEFINE c == conn[e]
             p == Peer(e)
             m == Head(net[p])
             out == net[e]
             in == net[p]
  <1>1. /\ TypeOK /\ Shapes /\ c \in Connections /\ Shape(c)
        /\ out \in Seq(IQs) /\ in \in Seq(IQs) /\ Wire(c, out, in)
        /\ c.tasks \in Nat /\ c.iq_id \in Nat
    BY BaseState, ConnectionFields
  <1>2. in # <<>> => m.id \in Nat
    <2>1. in # <<>> => m \in IQs
      BY <1>1
    <2> QED
      BY <2>1 DEF IQs
  <1>3. out \o <<>> = out /\ Results(<<>>) = {} /\ Requests(<<>>) = {} /\ OneRequest(<<>>) /\ <<>> \in Seq(IQs)
    BY <1>1, NoFurtherIQ, RangeOfNone, OneRequestOfFew DEF Results, Requests
  <1>4. CASE TakeIncomingData(e)
    <2>1. /\ TypeOK' /\ m.type = "data" /\ in # <<>>
          /\ \/ Ordinary(e, c, <<Error(m.id)>>, TRUE)
             \/ Ordinary(e, c, <<Result(m.id), Error(c.iq_id)>>, TRUE)
             \/ Ordinary(e, Counted(c), <<Result(m.id)>>, TRUE)
      BY <1>1, <1>4, TakeIncomingDataIs
    <2>2. Request(m) /\ m.id \in Nat
      BY <1>2, <2>1 DEF Request
    <2>3. /\ Counted(c).state = c.state /\ Counted(c).tasks = c.tasks /\ Counted(c).task = c.task
      BY <1>1, CountedIs DEF SameRole
    <2>4. /\ Wire(c, out \o <<Error(m.id)>>, Tail(in))
          /\ Wire(c, out \o <<Result(m.id), Error(c.iq_id)>>, Tail(in))
          /\ Wire(Counted(c), out \o <<Result(m.id)>>, Tail(in))
      BY <1>1, <2>1, <2>2, <2>3, AnswerParts, WireTakes
    <2>5. /\ Results(<<Error(m.id)>>) = {} /\ \A a \in Results(<<Result(m.id)>>) : a.id = m.id
          /\ \A a \in Results(<<Result(m.id), Error(c.iq_id)>>) : a.id = m.id
      BY <1>1, <2>2, AnswerParts
    <2> QED
      BY <2>1, <2>2, <2>4, <2>5, BaseOrdinary
  <1>5. CASE CloseRequest(e)
    <2>1. /\ TypeOK' /\ m.type = "close" /\ in # <<>>
          /\ \/ Ordinary(e, c, <<Error(m.id)>>, TRUE)
             \/ Ordinary(e, Reset(c), <<Result(m.id)>>, TRUE)
      BY <1>1, <1>5, CloseRequestIs
    <2>2. Request(m) /\ m.id \in Nat
      BY <1>2, <2>1 DEF Request
    <2>3. Reset(c).state = "Idle"
      BY <1>1, ResetIs
    <2>4. /\ Wire(c, out \o <<Error(m.id)>>, Tail(in))
          /\ Wire(Reset(c), out \o <<Result(m.id)>>, Tail(in))
      BY <1>1, <2>1, <2>2, <2>3, AnswerParts, WireTakes
    <2>5. /\ Results(<<Error(m.id)>>) = {} /\ \A a \in Results(<<Result(m.id)>>) : a.id = m.id
      BY <1>1, <2>2, AnswerParts
    <2> QED
      BY <2>1, <2>2, <2>4, <2>5, BaseOrdinary
  <1>6. CASE Unexpected(e)
    <2>1. /\ TypeOK' /\ Ordinary(e, c, <<>>, TRUE)
      BY <1>1, <1>6, UnexpectedIs
    <2>2. in # <<>>
      BY <2>1 DEF Ordinary
    <2>3. Wire(c, out \o <<>>, Tail(in))
      BY <1>1, <1>3, <2>2, WireTakes
    <2> QED
      BY <1>3, <2>1, <2>3, BaseOrdinary
  <1>7. CASE TaskSucceeds(e)
    <2>1. /\ TypeOK' /\ Ordinary(e, Succeeded(c), <<>>, TRUE) /\ c.task # NoTask
          /\ (c.task.mode = "open" => ~c.closing)
          /\ in # <<>> /\ m.type = "result" /\ m.id = c.tasks
      BY <1>1, <1>7, TaskSucceedsIs
    <2>2. Succeeded(c).tasks = c.tasks /\ c.state # "Idle"
      BY <1>1, <2>1, SucceededIs DEF Shape
    <2>3. Wire(Succeeded(c), out \o <<>>, Tail(in))
      BY <1>1, <1>3, <2>1, <2>2, WireSucceeded
    <2> QED
      BY <1>3, <2>1, <2>3, BaseOrdinary
  <1>8. CASE TaskRefused(e)
    <2>1. TypeOK' /\ Ordinary(e, Reset(c), <<>>, TRUE)
      BY <1>1, <1>8, TaskRefusedIs
    <2>2. in # <<>> /\ Reset(c).state = "Idle"
      BY <1>1, <2>1, ResetIs DEF Ordinary
    <2>3. Wire(Reset(c), out \o <<>>, Tail(in))
      BY <1>1, <1>3, <2>2, WireTakes
    <2> QED
      BY <1>3, <2>1, <2>3, BaseOrdinary
  <1>9. CASE TaskTimesOut(e)
    <2>1. TypeOK' /\ Ordinary(e, Reset(c), <<>>, FALSE)
      BY <1>1, <1>9, TaskTimesOutIs
    <2>2. Wire(Reset(c), out \o <<>>, in)
      BY <1>1, <1>3, WireIdle, ResetIs DEF Wire
    <2> QED
      BY <1>3, <2>1, <2>2, BaseOrdinary
  <1>10. CASE TimerFires(e)
    <2> DEFINE b == Fired(c)
    <2>1. Ordinary(e, TrySend(b), Sends(b), FALSE) /\ TypeOK' /\ Shape(b) /\ c.alive
      BY <1>1, <1>10, TimerFiresIs
    <2>2. /\ b \in Connections /\ b.alive = c.alive /\ b.state = c.state /\ b.tasks = c.tasks
          /\ b.task = c.task
      BY <1>1, FiredIs
    <2> HIDE DEF b
    <2>3. Wire(b, out, in)
      BY <1>1, <2>2, WireShrinks DEF Wire
    <2>4. Wire(TrySend(b), out \o Sends(b), in) /\ Results(Sends(b)) = {}
      BY <1>1, <2>1, <2>2, <2>3, WireTrySend
    <2> QED
      BY <2>1, <2>4, BaseOrdinary
  <1> QED
    BY <1>4, <1>5, <1>6, <1>7, <1>8, <1>9, <1>10 DEF EventLoop

(* what the network does,                                                  *)
LEMMA NetworkBase ==
  ASSUME Base, NEW e \in End, Network(e)
  PROVE  Base' /\ Cuts(e)
  <1>1. TypeOK' /\ Shapes' /\ Opening' /\ Cuts(e)
    BY NetworkIs, NetworkOpening DEF Base
  <1>2. ASSUME NEW q \in End
        PROVE  Wire(conn'[q], net'[q], net'[Peer(q)])
    <2>1. /\ conn[q] \in Connections /\ net[q] \in Seq(IQs) /\ Wire(conn[q], net[q], net[Peer(q)])
          /\ Peer(q) \in End
      BY BaseState, Ends2
    <2>2. /\ \E n \in 0..Len(net[q]) : net'[q] = SubSeq(net[q], 1, n)
          /\ Range(net'[q]) \subseteq Range(net[q])
          /\ Range(net'[Peer(q)]) \subseteq Range(net[Peer(q)])
      BY <1>1, <2>1 DEF Cuts
    <2>3. OneRequest(net'[q])
      BY <2>1, <2>2, OneRequestOfPart DEF Wire
    <2>4. /\ Requests(net'[q]) \subseteq Requests(net[q])
          /\ Results(net'[Peer(q)]) \subseteq Results(net[Peer(q)])
      BY <2>2 DEF Requests, Results
    <2>5. conn'[q] = conn[q] \/ conn'[q] = Reset(conn[q]) \/ conn'[q] = Crashed(conn[q])
      BY <1>1, Ends2 DEF Cuts
    <2>6. Reset(conn[q]).state = "Idle" /\ Crashed(conn[q]).state = "Idle"
      BY <2>1, ResetIs, CrashedIs
    <2> QED
      BY <2>1, <2>3, <2>4, <2>5, <2>6, WireShrinks
  <1> QED
    BY <1>1, <1>2 DEF Base, Wires

(* and the opening of one.                                                 *)
LEMMA OpeningBase ==
  ASSUME Base, ConnectToJid \/ IncomingRequest \/ Accept
  PROVE  Base'
  <1>1. TypeOK /\ Shapes /\ Opening
    BY DEF Base
  <1>2. CASE ConnectToJid
    <2>1. /\ TypeOK' /\ Shapes' /\ OpenUnderWay' /\ conn'["initiator"] = Asking
      BY <1>1, <1>2, ConnectToJidIs
    <2>2. /\ net'["initiator"] \in {<<>>, <<OpenIQ(1)>>} /\ net'["responder"] = <<>>
          /\ conn'["responder"] = Fresh
      BY <2>1 DEF OpenUnderWay
    <2>3. Fresh.state = "Idle"
      BY DEF Fresh
    <2>4. Wire(Fresh, <<>>, <<OpenIQ(1)>>) /\ Wire(Fresh, <<>>, <<>>)
      BY <2>3, WireIdle, OneRequestOfFew
    <2>5. Wire(Asking, <<OpenIQ(1)>>, <<>>) /\ Wire(Asking, <<>>, <<>>)
      <3>1. /\ Requests(<<OpenIQ(1)>>) \subseteq {OpenIQ(1)}
            /\ Requests(<<>>) = {} /\ Results(<<>>) = {}
        BY RangeOfOne, RangeOfNone DEF Requests, Results
      <3>2. OpenIQ(1).id = 1 /\ OpenIQ(1).type = "open"
        BY DEF OpenIQ
      <3> QED
        BY <3>1, <3>2, AskingIs, OneRequestOfFew DEF Wire
    <2>6. Wires'
      BY <2>1, <2>2, <2>4, <2>5, TwoEnds DEF Wires
    <2> QED
      BY <2>1, <2>6 DEF Base, Opening
  <1>3. CASE IncomingRequest
    <2>1. /\ TypeOK' /\ Shapes' /\ OpenHeld'
      BY <1>1, <1>3, IncomingRequestIs
    <2>2. /\ net'["initiator"] = <<>> /\ net'["responder"] = <<>>
      BY <2>1 DEF OpenHeld
    <2>3. \A q \in End : Wire(conn'[q], <<>>, <<>>)
      BY OneRequestOfFew, RangeOfNone DEF Wire, Requests, Results
    <2>4. Wires'
      BY <2>2, <2>3, TwoEnds DEF Wires
    <2> QED
      BY <2>1, <2>4 DEF Base, Opening
  <1>4. CASE Accept
    <2>1. /\ TypeOK' /\ Shapes' /\ OpenHeld /\ Opened'
          /\ conn'["initiator"] = conn["initiator"]
          /\ net'["initiator"] = <<>> /\ net'["responder"] \in {<<>>, <<Result(1)>>}
      BY <1>1, <1>4, AcceptIs
    <2>2. conn'["initiator"].tasks = 1
      BY <2>1 DEF OpenHeld, HasAsked
    <2>3. Requests(<<>>) = {} /\ Results(<<>>) = {}
      BY RangeOfNone DEF Requests, Results
    <2>4. Wire(conn'["initiator"], <<>>, <<Result(1)>>) /\ Wire(conn'["initiator"], <<>>, <<>>)
      <3>1. \A a \in Results(<<Result(1)>>) : a.id = 1
        BY AnswerParts
      <3> QED
        BY <2>2, <2>3, <3>1, OneRequestOfFew DEF Wire
    <2>5. Wire(conn'["responder"], <<Result(1)>>, <<>>) /\ Wire(conn'["responder"], <<>>, <<>>)
      <3>1. Requests(<<Result(1)>>) = {} /\ OneRequest(<<Result(1)>>)
        BY AnswerParts
      <3> QED
        BY <2>3, <3>1, OneRequestOfFew DEF Wire
    <2>6. Wires'
      BY <2>1, <2>4, <2>5, TwoEnds DEF Wires
    <2> QED
      BY <2>1, <2>6 DEF Base, Opening
  <1> QED
    BY <1>2, <1>3, <1>4

(* Base is an invariant.                                                   *)
LEMMA BaseNext ==
  ASSUME Base, [Next]_vars
  PROVE  Base'
  <1>1. CASE ConnectToJid \/ IncomingRequest \/ Accept
    BY <1>1, OpeningBase
  <1>2. CASE \E e \in End : Owner(e)
    BY <1>2, OwnerBase
  <1>3. CASE \E e \in End : EventLoop(e)
    BY <1>3, EventLoopBase
  <1>4. CASE \E e \in End : Network(e)
    BY <1>4, NetworkBase
  <1>5. CASE UNCHANGED vars
    <2>1. UNCHANGED <<conn, net, stream, refused, written, confirmed, received, ended, failures>>
      BY <1>5 DEF vars
    <2>2. TypeOK' /\ Shapes'
      BY <2>1 DEF Base, TypeOK, Shapes
    <2>3. Opening' /\ Wires'
      BY <2>1 DEF Base, Opening, Unopened, OpenUnderWay, OpenHeld, Opened, HasAsked, NothingSent, Wires
    <2> QED
      BY <2>2, <2>3 DEF Base
  <1> QED
    BY <1>1, <1>2, <1>3, <1>4, <1>5, Zenon DEF Next

(* TypeOK: sequence numbers fit a quint16 and every buffer holds bytes, in  *)
(* whatever order the two owners, the two event loops and failures act.     *)
THEOREM TypeCorrect == Spec => []TypeOK
  <1>1. Init => Base
    BY BaseInit
  <1>2. Base /\ [Next]_vars => Base'
    BY BaseNext
  <1>3. Base => TypeOK
    BY DEF Base
  <1> QED
    BY <1>1, <1>2, <1>3, PTL DEF Spec

-----------------------------------------------------------------------------
(* Nothing waits in vain, whoever writes and whenever a stream is closed,  *)
(* but behind a task that has not been started.                            *)
Busy(c) == c.writeBuf # <<>> \/ c.closePending => c.task # NoTask \/ c.timer

(* A stream that has ended for its owner is Idle, and so, under a careful   *)
(* owner, is a connection that is deleted.                                  *)
Lively(c, how) ==
  /\ how # "no" => c.state = "Idle"
  /\ ~c.alive => ~c.closePending /\ ~c.linked
  /\ Busy(c)

Livelies == \A e \in End : Lively(conn[e], ended[e])

(* After trySend, what is still to be sent waits for an answer.            *)
LEMMA BusyTrySend ==
  ASSUME NEW c \in Connections
  PROVE  Busy(TrySend(c))
  <1>1. SendsBlock(c) \/ SendsClose(c) => TrySend(c).task # NoTask
    <2>1. SendsBlock(c) => TrySend(c).task.mode = "data"
      <3>1. SendsBlock(c) =>
              TrySend(c).task = [mode |-> "data", id |-> c.tasks + 1, bytes |-> Len(NextBlock(c))]
        BY TrySendIs
      <3> QED
        BY <3>1
    <2>2. SendsClose(c) => TrySend(c).task.mode = "close"
      <3>1. SendsClose(c) => TrySend(c).task = [mode |-> "close", id |-> c.tasks + 1, bytes |-> 0]
        BY TrySendIs
      <3> QED
        BY <3>1
    <2>3. NoTask.mode = "none"
      BY DEF NoTask
    <2> QED
      BY <2>1, <2>2, <2>3
  <1>2. ~SendsBlock(c) /\ ~SendsClose(c) => TrySend(c) = c /\ Busy(c)
    BY TrySendIs DEF SendsBlock, SendsClose, Busy
  <1> QED
    BY <1>1, <1>2 DEF Busy

(* A connection that is reset has nothing to wait for.                     *)
LEMMA LivelyReset ==
  ASSUME NEW c \in Connections, NEW how
  PROVE  Lively(Reset(c), how)
  BY ResetIs DEF Lively, Busy

(* trySend leaves a connection lively, whatever it was before.             *)
LEMMA LivelyTrySend ==
  ASSUME NEW c \in Connections, NEW how, c.alive, how # "no" => c.state = "Idle"
  PROVE  Lively(TrySend(c), how)
  BY BusyTrySend, TrySendIs DEF Lively, SameRole

(* Only the end that moves needs a look.                                   *)
LEMMA LivelyOrdinary ==
  ASSUME Base, Livelies, NEW e \in End, NEW d, NEW iqs, NEW takes \in BOOLEAN,
         Ordinary(e, d, iqs, takes), Lively(d, ended'[e])
  PROVE  Livelies'
  <1>1. conn'[e] = d /\ conn'[Peer(e)] = conn[Peer(e)] /\ ended'[Peer(e)] = ended[Peer(e)]
    BY DEF Ordinary, Goes
  <1> QED
    BY <1>1, Ends2 DEF Livelies

(* A careful owner's calls leave both ends lively.                         *)
LEMMA OwnerLively ==
  ASSUME ~DestroysOpen, Base, Livelies, NEW e \in End, Owner(e)
  PROVE  Livelies'
  <1> DEFINE c == conn[e]
  <1>1. /\ TypeOK /\ Shapes /\ c \in Connections /\ Shape(c) /\ Lively(c, ended[e])
        /\ written[e] \in Nat /\ ended[e] \in Endings
    BY BaseState, StateIs DEF Livelies
  <1>2. CASE WriteData(e)
    <2>1. PICK n \in 1..(MaxBytes - written[e]) :
            /\ written' = [written EXCEPT ![e] = @ + n]
            /\ Becomes(e, TrySend(Filled(c, written[e], n)), Sends(Filled(c, written[e], n)))
      BY <1>2, Zenon DEF WriteData, Filled
    <2>2. /\ c.alive /\ c.state = "Active" /\ ~c.closePending /\ ~c.closing
          /\ UNCHANGED <<stream, confirmed, received, ended, failures>>
      BY <1>2 DEF WriteData
    <2> DEFINE b == Filled(c, written[e], n)
    <2>3. /\ Ordinary(e, TrySend(b), Sends(b), FALSE) /\ b.alive
      BY <1>1, <2>1, <2>2, WriteDataIs
    <2>4. b \in Connections
      <3>1. n \in Nat
        OBVIOUS
      <3> QED
        BY <1>1, <3>1, FilledIs
    <2>5. ended'[e] = "no"
      BY <1>1, <2>2 DEF Lively
    <2> HIDE DEF b
    <2>6. Lively(TrySend(b), ended'[e])
      BY <2>3, <2>4, <2>5, LivelyTrySend
    <2> QED
      BY <2>3, <2>6, LivelyOrdinary
  <1>3. CASE CloseConnection(e)
    <2>1. /\ Ordinary(e, Closed(c), CloseSends(c), FALSE) /\ c.alive /\ c.state # "Idle"
          /\ Closed(c).state # "Idle" => UNCHANGED ended
      BY <1>1, <1>3, CloseConnectionIs DEF CloseConnection
    <2>2. ended[e] = "no"
      BY <1>1, <2>1 DEF Lively
    <2>3. Closed(c) \in Connections /\ Closed(c).alive
      BY <1>1, <2>1, ClosedIs
    <2>4. Busy(Closed(c))
      <3>1. c.state \in {"Idle", "Requesting", "WaitingForAccept", "Active"} /\ Pending(c) \in Connections
        BY <1>1, ConnectionFields, PendingIs
      <3>2. Busy(TrySend(Pending(c))) /\ Busy(Reset(c))
        BY <1>1, <3>1, BusyTrySend, ResetIs DEF Busy
      <3>3. Closed(c) = TrySend(Pending(c)) \/ Closed(c) = Reset(c)
        BY <1>1, <2>1, <3>1, ClosedIs
      <3> QED
        BY <3>2, <3>3
    <2>5. Lively(Closed(c), ended'[e])
      BY <2>1, <2>2, <2>3, <2>4 DEF Lively
    <2> QED
      BY <2>1, <2>5, LivelyOrdinary
  <1>4. CASE Destroy(e)
    <2> DEFINE d == Dead(Emptied(c))
    <2>1. Ordinary(e, d, CloseSends(Emptied(c)), FALSE) /\ c.alive
      BY <1>1, <1>4, DestroyIs
    <2>2. c.state = "Idle"
      BY <1>1, <1>4 DEF Destroy, Lively
    <2>3. ~c.closePending /\ ~c.linked
      BY <1>1, <2>1, <2>2 DEF Shape
    <2>4. /\ d.state = "Idle" /\ d.writeBuf = <<>> /\ d.closePending = c.closePending
          /\ d.linked = c.linked
      BY <1>1, <2>2, DeadIs
    <2> HIDE DEF d
    <2>5. Lively(d, ended'[e])
      BY <2>3, <2>4 DEF Lively, Busy
    <2> QED
      BY <2>1, <2>5, LivelyOrdinary
  <1> QED
    BY <1>2, <1>3, <1>4 DEF Owner

(* What an event loop handles leaves both ends lively.                     *)
LEMMA EventLoopLively ==
  ASSUME Base, Livelies, NEW e \in End, EventLoop(e)
  PROVE  Livelies'
  <1> DEFINE c == conn[e]
             m == Head(net[Peer(e)])
  <1>1. /\ TypeOK /\ Shapes /\ c \in Connections /\ Shape(c) /\ Lively(c, ended[e])
        /\ Lively(Reset(c), ended'[e])
    BY BaseState, LivelyReset DEF Livelies
  <1>2. CASE TakeIncomingData(e)
    <2>1. /\ UNCHANGED ended
          /\ \/ Ordinary(e, c, <<Error(m.id)>>, TRUE)
             \/ Ordinary(e, c, <<Result(m.id), Error(c.iq_id)>>, TRUE)
             \/ Ordinary(e, Counted(c), <<Result(m.id)>>, TRUE)
      BY <1>1, <1>2, TakeIncomingDataIs
    <2>2. Lively(Counted(c), ended'[e]) /\ Lively(c, ended'[e])
      BY <1>1, <2>1, CountedIs DEF Lively, Busy, SameRole
    <2> QED
      BY <2>1, <2>2, LivelyOrdinary
  <1>3. CASE CloseRequest(e)
    <2>1. \/ Ordinary(e, c, <<Error(m.id)>>, TRUE) /\ UNCHANGED ended
          \/ Ordinary(e, Reset(c), <<Result(m.id)>>, TRUE)
      BY <1>1, <1>3, CloseRequestIs
    <2> QED
      BY <1>1, <2>1, LivelyOrdinary
  <1>4. CASE Unexpected(e)
    <2>1. Ordinary(e, c, <<>>, TRUE) /\ UNCHANGED ended
      BY <1>1, <1>4, UnexpectedIs
    <2> QED
      BY <1>1, <2>1, LivelyOrdinary
  <1>5. CASE TaskSucceeds(e)
    <2>1. /\ Ordinary(e, Succeeded(c), <<>>, TRUE) /\ c.task # NoTask /\ c.alive
          /\ (c.task.mode = "open" => ~c.closing)
          /\ (IF c.closing THEN Ends(e, "closed") ELSE UNCHANGED ended)
      BY <1>1, <1>5, TaskSucceedsIs
    <2>2. ended[e] = "no"
      BY <1>1, <2>1 DEF Lively, Shape
    <2>3. Succeeded(c).alive
      BY <1>1, <2>1, SucceededIs
    <2>4. CASE c.closing
      <3>1. Succeeded(c) = Reset(c)
        BY <1>1, <2>1, <2>4, SucceededIs
      <3> QED
        BY <1>1, <2>1, <3>1, LivelyOrdinary
    <2>5. CASE ~c.closing /\ c.task.mode = "open"
      <3>1. /\ Succeeded(c).writeBuf = c.writeBuf
            /\ Succeeded(c).closePending = c.closePending
        BY <1>1, <2>1, <2>5, SucceededIs
      <3>2. c.writeBuf = <<>> /\ ~c.closePending
        BY <1>1, <2>1, <2>5 DEF Shape
      <3>3. Lively(Succeeded(c), ended'[e])
        BY <2>1, <2>2, <2>3, <2>5, <3>1, <3>2 DEF Lively, Busy
      <3> QED
        BY <2>1, <3>3, LivelyOrdinary
    <2>6. CASE ~c.closing /\ c.task.mode # "open"
      <3>1. /\ Succeeded(c).writeBuf = c.writeBuf
            /\ Succeeded(c).closePending = c.closePending
            /\ (Succeeded(c).timer <=> (c.timer \/ c.writeBuf # <<>> \/ c.closePending))
        BY <1>1, <2>1, <2>6, SucceededIs
      <3>2. Lively(Succeeded(c), ended'[e])
        BY <2>1, <2>2, <2>3, <2>6, <3>1 DEF Lively, Busy
      <3> QED
        BY <2>1, <3>2, LivelyOrdinary
    <2> QED
      BY <2>4, <2>5, <2>6
  <1>6. CASE TaskRefused(e)
    <2>1. Ordinary(e, Reset(c), <<>>, TRUE)
      BY <1>1, <1>6, TaskRefusedIs
    <2> QED
      BY <1>1, <2>1, LivelyOrdinary
  <1>7. CASE TaskTimesOut(e)
    <2>1. Ordinary(e, Reset(c), <<>>, FALSE)
      BY <1>1, <1>7, TaskTimesOutIs
    <2> QED
      BY <1>1, <2>1, LivelyOrdinary
  <1>8. CASE TimerFires(e)
    <2> DEFINE b == Fired(c)
    <2>1. Ordinary(e, TrySend(b), Sends(b), FALSE) /\ c.alive /\ UNCHANGED ended
      BY <1>1, <1>8, TimerFiresIs
    <2>2. b \in Connections /\ b.alive = c.alive /\ b.state = c.state
      BY <1>1, FiredIs
    <2> HIDE DEF b
    <2>3. Lively(TrySend(b), ended'[e])
      BY <1>1, <2>1, <2>2, LivelyTrySend DEF Lively
    <2> QED
      BY <2>1, <2>3, LivelyOrdinary
  <1> QED
    BY <1>2, <1>3, <1>4, <1>5, <1>6, <1>7, <1>8 DEF EventLoop

(* Livelies is an invariant,                                               *)
LEMMA LivelyNext ==
  ASSUME ~DestroysOpen, Base, Livelies, [Next]_vars
  PROVE  Livelies'
  <1>1. CASE ConnectToJid
    <2>1. /\ Unopened /\ OpenUnderWay' /\ conn'["initiator"] = Asking /\ UNCHANGED ended
      BY <1>1, ConnectToJidIs DEF Base
    <2>2. ended'["initiator"] = "no" /\ ended'["responder"] = "no" /\ conn'["responder"] = Fresh
      BY <2>1, TwoEnds DEF Unopened, OpenUnderWay
    <2>3. Lively(Asking, "no") /\ Lively(Fresh, "no")
      <3>1. ~Asking.closePending /\ Asking.alive
        BY AskingIs DEF Shape
      <3> QED
        BY <3>1, AskingIs DEF Lively, Busy, Fresh
    <2> QED
      BY <2>1, <2>2, <2>3, TwoEnds DEF Livelies
  <1>2. CASE IncomingRequest
    <2>1. /\ OpenUnderWay /\ conn'["initiator"] = conn["initiator"]
          /\ conn'["responder"] = Waiting(Fresh, 1) /\ UNCHANGED ended
      BY <1>2, IncomingRequestIs DEF Base
    <2>2. ended'["responder"] = "no" /\ ended'["initiator"] = ended["initiator"]
      BY <2>1 DEF OpenUnderWay
    <2>3. Lively(Waiting(Fresh, 1), "no")
      BY DEF Waiting, Fresh, Lively, Busy
    <2> QED
      BY <2>1, <2>2, <2>3, TwoEnds DEF Livelies
  <1>3. CASE Accept
    <2> DEFINE c == conn["responder"]
    <2>1. /\ OpenHeld /\ conn'["initiator"] = conn["initiator"]
          /\ conn'["responder"] = Accepted(c) /\ UNCHANGED ended
      BY <1>3, AcceptIs DEF Base
    <2>2. c \in Connections /\ Shape(c) /\ c.state = "WaitingForAccept" /\ Lively(c, ended["responder"])
      BY <2>1, BaseState, TwoEnds DEF OpenHeld, Livelies
    <2>3. ended["responder"] = "no" /\ c.alive /\ c.writeBuf = <<>> /\ ~c.closePending
      BY <2>2 DEF Lively, Shape
    <2>4. Lively(Accepted(c), ended["responder"])
      BY <2>2, <2>3, AcceptedIs DEF Lively, Busy
    <2> QED
      BY <2>1, <2>4, TwoEnds DEF Livelies
  <1>4. CASE \E e \in End : Owner(e)
    BY <1>4, OwnerLively
  <1>5. CASE \E e \in End : EventLoop(e)
    BY <1>5, EventLoopLively
  <1>6. ASSUME NEW e \in End, Network(e)
        PROVE  Livelies'
    <2>1. /\ conn'[Peer(e)] = conn[Peer(e)] /\ ended'[Peer(e)] = ended[Peer(e)]
          /\ \/ conn'[e] = Reset(conn[e]) \/ conn'[e] = Crashed(conn[e])
             \/ UNCHANGED <<conn, ended>>
      BY <1>6, NetworkBase DEF Cuts
    <2>2. conn[e] \in Connections
      BY BaseState
    <2>3. Lively(Crashed(conn[e]), ended'[e])
      BY <2>2, CrashedIs DEF Lively, Busy
    <2>4. Lively(conn'[e], ended'[e])
      BY <2>1, <2>2, <2>3, LivelyReset DEF Livelies
    <2> QED
      BY <2>1, <2>4, Ends2 DEF Livelies
  <1>7. CASE UNCHANGED vars
    BY <1>7 DEF vars, Livelies
  <1> QED
    BY <1>1, <1>2, <1>3, <1>4, <1>5, <1>6, <1>7, Zenon DEF Next

(* and holds at first.                                                     *)
LEMMA LivelyInit ==
  ASSUME Init
  PROVE  Livelies
  <1>1. Lively(Fresh, "no")
    BY DEF Lively, Busy, Fresh
  <1> QED
    BY <1>1 DEF Init, Livelies

(* Without a lost stream every task is started.                            *)
Faulty(e) == stream[e] # "active" \/ refused[e] # 0

Faults == \A e \in End : Faulty(e) => failures > 0

(* A step after which nothing is more at fault than before.                *)
LEMMA NoFurtherFault ==
  ASSUME Faults, UNCHANGED <<stream, refused>>, failures' = failures
  PROVE  Faults'
  BY DEF Faults, Faulty

(* A task that has not been started is one of those that were refused.     *)
LEMMA DanglingIs ==
  ASSUME Base, Faults, NEW e \in End, Dangling(e)
  PROVE  failures > 0
  <1>1. Shape(conn[e]) /\ conn[e].tasks \in Nat
    BY BaseState, ConnectionFields
  <1>2. conn[e].task # NoTask /\ conn[e].task.id = refused[e]
    BY DEF Dangling
  <1>3. conn[e].task.id = conn[e].tasks /\ conn[e].tasks >= 1
    BY <1>1, <1>2 DEF Shape
  <1>4. refused[e] # 0
    BY <1>1, <1>2, <1>3
  <1> QED
    BY <1>4 DEF Faults, Faulty

(* go() refuses a task only where there is no stream,                      *)
LEMMA BecomesFaults ==
  ASSUME TypeOK, Faults, NEW e \in End, NEW d, NEW iqs, Becomes(e, d, iqs), UNCHANGED stream,
         failures' = failures \/ failures' = failures + 1
  PROVE  Faults'
  <1>1. refused \in [End -> Nat] /\ failures \in Nat
    BY DEF TypeOK
  <1>2. refused' = [refused EXCEPT ![e] = IF Refused(e, d) THEN d.tasks ELSE @]
    BY Zenon DEF Becomes
  <1>3. \A p \in End : refused'[p] = refused[p] \/ stream[p] = "none"
    BY <1>1, <1>2 DEF Refused
  <1>4. \A p \in End : Faulty(p)' => Faulty(p)
    BY <1>3 DEF Faulty
  <1>5. failures > 0 => failures' > 0
    BY <1>1
  <1> QED
    BY <1>4, <1>5 DEF Faults

(* an owner and an event loop lose no stream,                              *)
LEMMA ActsFaults ==
  ASSUME Base, Faults, NEW e \in End, Owner(e) \/ EventLoop(e)
  PROVE  Faults'
  <1>1. TypeOK
    BY DEF Base
  <1>2. CASE WriteData(e)
    <2>1. PICK n \in 1..(MaxBytes - written[e]) :
            Becomes(e, TrySend(Filled(conn[e], written[e], n)), Sends(Filled(conn[e], written[e], n)))
      BY <1>2, Zenon DEF WriteData, Filled
    <2>2. UNCHANGED <<stream, failures>>
      BY <1>2 DEF WriteData
    <2> QED
      BY <1>1, <2>1, <2>2, BecomesFaults, Zenon
  <1>3. CASE CloseConnection(e) \/ Destroy(e) \/ TimerFires(e)
    <2>1. UNCHANGED <<stream, failures>> /\ \E d, iqs : Becomes(e, d, iqs)
      BY <1>3, Zenon DEF CloseConnection, Destroy, TimerFires
    <2> QED
      BY <1>1, <2>1, BecomesFaults, Zenon
  <1>4. CASE TaskTimesOut(e)
    <2>1. UNCHANGED stream /\ Becomes(e, Reset(conn[e]), <<>>)
      BY <1>4, Zenon DEF TaskTimesOut
    <2>2. failures' = failures \/ failures' = failures + 1
      BY <1>4 DEF TaskTimesOut
    <2> QED
      BY <1>1, <2>1, <2>2, BecomesFaults, Zenon
  <1>5. CASE \/ TakeIncomingData(e) \/ CloseRequest(e) \/ Unexpected(e)
             \/ TaskSucceeds(e) \/ TaskRefused(e)
    <2>1. UNCHANGED <<stream, failures>>
      BY <1>5 DEF TakeIncomingData, CloseRequest, Unexpected, TaskSucceeds, TaskRefused
    <2>2. UNCHANGED refused
      BY <1>5, Zenon DEF TakeIncomingData, CloseRequest, Unexpected, TaskSucceeds, TaskRefused,
                         Takes
    <2> QED
      BY <2>1, <2>2, NoFurtherFault
  <1> QED
    BY <1>2, <1>3, <1>4, <1>5 DEF Owner, EventLoop

(* what does lose one is counted,                                          *)
LEMMA NetworkFaults ==
  ASSUME Base, Faults, NEW e \in End, Network(e)
  PROVE  Faults'
  <1>1. /\ TypeOK /\ Shapes /\ Shape(conn[e]) /\ conn[e] \in Connections
        /\ stream \in [End -> Streams] /\ failures \in Nat
    BY BaseState DEF TypeOK
  <1>2. UNCHANGED refused /\ (failures' = failures \/ failures' = failures + 1)
    BY CrashesIs, <1>1 DEF Network, StreamLost, ClientClose, ConnectToServer, Authenticated
  <1>3. \E s \in Streams : stream' = [stream EXCEPT ![e] = s] /\ (s = "active" \/ failures' > 0)
    <2>0. {"active", "inactive", "none"} \subseteq Streams
      BY DEF Streams
    <2>1. CASE StreamLost(e)
      <3>1. stream' = [stream EXCEPT ![e] = "inactive"] /\ failures' = failures + 1
        BY <2>1 DEF StreamLost
      <3>2. failures' > 0
        BY <1>1, <3>1
      <3> QED
        BY <2>0, <3>1, <3>2
    <2>2. CASE ClientClose(e)
      <3>1. /\ stream' = [stream EXCEPT ![e] = "none"]
            /\ stream[e] = "active" => failures' = failures + 1
            /\ stream[e] # "active" => failures' = failures
        BY <2>2 DEF ClientClose
      <3>2. stream[e] # "active" => failures > 0
        BY DEF Faults, Faulty
      <3>3. failures' > 0
        BY <1>1, <3>1, <3>2
      <3> QED
        BY <2>0, <3>1, <3>3
    <2>3. CASE ConnectToServer(e)
      <3>1. /\ stream[e] = "none" /\ failures' = failures
            /\ stream' = [stream EXCEPT ![e] = "inactive"]
        BY <2>3 DEF ConnectToServer
      <3>2. Faulty(e)
        BY <3>1 DEF Faulty
      <3>3. failures' > 0
        BY <3>1, <3>2 DEF Faults
      <3> QED
        BY <2>0, <3>1, <3>3
    <2>4. CASE Authenticated(e)
      <3>1. stream' = [stream EXCEPT ![e] = "active"]
        BY <2>4 DEF Authenticated
      <3> QED
        BY <2>0, <3>1
    <2>5. CASE Crashes(e)
      <3>1. /\ Dangling(e) \/ stream[e] = "none"
            /\ stream' = [stream EXCEPT ![e] = "none"] /\ failures' = failures
        BY <1>1, <2>5, CrashesIs
      <3>2. Dangling(e) => failures > 0
        BY DanglingIs
      <3>3. stream[e] = "none" => failures > 0
        BY DEF Faults, Faulty
      <3>4. failures' > 0
        BY <3>1, <3>2, <3>3
      <3> QED
        BY <2>0, <3>1, <3>4
    <2> QED
      BY <2>1, <2>2, <2>3, <2>4, <2>5 DEF Network
  <1>4. PICK s \in Streams : stream' = [stream EXCEPT ![e] = s] /\ (s = "active" \/ failures' > 0)
    BY <1>3
  <1>5. CASE s = "active"
    <2>1. \A p \in End : stream'[p] = stream[p] \/ stream'[p] = "active"
      BY <1>1, <1>4, <1>5
    <2>2. \A p \in End : Faulty(p)' => Faulty(p)
      BY <1>2, <2>1 DEF Faulty
    <2>3. failures > 0 => failures' > 0
      BY <1>1, <1>2
    <2> QED
      BY <2>2, <2>3 DEF Faults
  <1>6. CASE failures' > 0
    BY <1>6 DEF Faults
  <1> QED
    BY <1>4, <1>5, <1>6

(* so Faults is an invariant.                                              *)
LEMMA FaultsNext ==
  ASSUME Base, Faults, [Next]_vars
  PROVE  Faults'
  <1>1. TypeOK
    BY DEF Base
  <1>2. CASE ConnectToJid \/ Accept
    <2>1. UNCHANGED <<stream, failures>> /\ \E e \in End : \E d, iqs : Becomes(e, d, iqs)
      BY <1>2, TwoEnds, Zenon DEF ConnectToJid, Accept
    <2> QED
      BY <1>1, <2>1, BecomesFaults, Zenon
  <1>3. CASE IncomingRequest
    <2>1. UNCHANGED <<stream, failures, refused>>
      BY <1>3, Zenon DEF IncomingRequest, Takes
    <2> QED
      BY <2>1, NoFurtherFault
  <1>4. CASE \E e \in End : Owner(e) \/ EventLoop(e)
    BY <1>4, ActsFaults
  <1>5. CASE \E e \in End : Network(e)
    BY <1>5, NetworkFaults
  <1>6. CASE UNCHANGED vars
    BY <1>6, NoFurtherFault DEF vars
  <1> QED
    BY <1>2, <1>3, <1>4, <1>5, <1>6, Zenon DEF Next

(* NeverStalled: an owner who deletes no stream that is in use waits for   *)
(* nothing only behind a task that go() has deleted unstarted, and that    *)
(* takes a lost stream; whether or not both ends write, whenever close()   *)
(* comes and however often streams are lost and opened again.              *)
THEOREM NothingStalls ==
  ASSUME ~DestroysOpen
  PROVE  Spec => []NeverStalled
  <1>1. Init => Base /\ Livelies /\ Faults
    <2>1. Init => Faults
      BY DEF Init, Faults, Faulty
    <2> QED
      BY <2>1, BaseInit, LivelyInit
  <1>2. Base /\ Livelies /\ Faults /\ [Next]_vars => (Base /\ Livelies /\ Faults)'
    BY BaseNext, LivelyNext, FaultsNext
  <1>3. Base /\ Livelies /\ Faults => NeverStalled
    <2>1. ASSUME Base, Livelies, Faults, NEW e \in End,
                 conn[e].writeBuf # <<>> \/ conn[e].closePending
          PROVE  Live(e) \/ conn[e].timer \/ (Dangling(e) /\ failures > 0)
      <3>1. conn[e].task # NoTask \/ conn[e].timer
        BY <2>1 DEF Livelies, Lively, Busy
      <3>2. Dangling(e) => failures > 0
        BY <2>1, DanglingIs
      <3> QED
        BY <3>1, <3>2 DEF Live, Dangling
    <2> QED
      BY <2>1 DEF NeverStalled
  <1> QED
    BY <1>1, <1>2, <1>3, PTL DEF Spec

(* LinkedIsAlive: the manager's list holds no deleted connection when the  *)
(* owner deletes only streams that have ended; IBBDestroy shows that it    *)
(* may when the owner deletes one that is in use.                          *)
THEOREM DeletedIsUnlinked ==
  ASSUME ~DestroysOpen
  PROVE  Spec => []LinkedIsAlive
  <1>1. Init => Base /\ Livelies
    BY BaseInit, LivelyInit
  <1>2. Base /\ Livelies /\ [Next]_vars => (Base /\ Livelies)'
    BY BaseNext, LivelyNext
  <1>3. Livelies => LinkedIsAlive
    BY DEF Livelies, Lively, LinkedIsAlive
  <1> QED
    BY <1>1, <1>2, <1>3, PTL DEF Spec
===============================================================================
