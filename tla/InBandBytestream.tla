-------------------------- MODULE InBandBytestream --------------------------
(***************************************************************************)
(* In-band bytestreams (XEP-0047) as IBBConnection, IBBManager and JT_IBB  *)
(* implement them (xmpp-im/xmpp_ibb.cpp): one stream between two clients   *)
(* that both run this code, from connectToJid to the last close().         *)
(*                                                                         *)
(* Every request is an IQ with an id of its own, sent by a JT_IBB task and *)
(* answered by the peer's IBBManager.  An end has at most one task, d->j;  *)
(* an answer no task waits for is dropped.  The event loop runs one        *)
(* handler at a time, so a handler is one action, trySend() and            *)
(* resetConnection() included.  Bytes are numbered in the order they are   *)
(* written.  The connections outlive the XMPP streams of their Clients;    *)
(* without a stream Task::go deletes a task instead of sending it, and     *)
(* d->j dangles.                                                           *)
(***************************************************************************)
EXTENDS Integers, Sequences

CONSTANTS
  SeqSpace,      \* sequence numbers are taken modulo SeqSpace (2^16, quint16)
  BlockSize,     \* d->blockSize, agreed by the open request
  Duplex,        \* may both ends write?
  EarlyClose,    \* may the owner close() while its last bytes are in flight?
  DestroysOpen,  \* may the owner delete a connection that is not Idle?
  MaxBytes,      \* bound: bytes an end writes
  MaxFailures    \* bound: lost streams and unfounded time-outs

ASSUME SpaceAssumption  == SeqSpace \in Nat \ {0, 1} /\ BlockSize \in Nat \ {0}
ASSUME UsageAssumption  == {Duplex, EarlyClose, DestroysOpen} \subseteq BOOLEAN
ASSUME LimitAssumption  == MaxBytes \in Nat /\ MaxFailures \in Nat

VARIABLES
  conn,       \* conn[e]: the IBBConnection of end e, see Connections
  net,        \* net[e]: IQs from e on their way to the other end, in order
  stream,     \* stream[e]: the ClientStream of e's Client, see Streams
  refused,    \* refused[e]: the last task that go() has not started, 0 if none
  written,    \* written[e]: bytes writeData has accepted
  confirmed,  \* confirmed[e]: sum of the counts emitted by bytesWritten
  received,   \* received[e]: bytes given to appendRead, in order
  ended,      \* ended[e]: how the stream ended for e's owner, or "no"
  failures    \* lost streams and unfounded time-outs so far

vars == <<conn, net, stream, refused, written, confirmed, received, ended, failures>>

End     == {"initiator", "responder"}
Peer(e) == IF e = "initiator" THEN "responder" ELSE "initiator"

(***************************************************************************)
(* IQs.  An error for an id that is no task's, like one for the empty      *)
(* d->iq_id of an initiator (0 here), is an answer nobody waits for.       *)
(***************************************************************************)
OpenIQ(id)           == [type |-> "open", id |-> id, seq |-> 0, data |-> <<>>]
DataIQ(id, n, bytes) == [type |-> "data", id |-> id, seq |-> n, data |-> bytes]
CloseIQ(id)          == [type |-> "close", id |-> id, seq |-> 0, data |-> <<>>]
Result(id)           == [type |-> "result", id |-> id, seq |-> 0, data |-> <<>>]
Error(id)            == [type |-> "error", id |-> id, seq |-> 0, data |-> <<>>]

NoTask == [mode |-> "none", id |-> 0, bytes |-> 0]

(***************************************************************************)
(* IBBConnection.  resetConnection leaves the pending trySend timer alone, *)
(* and ids are never used twice.                                           *)
(***************************************************************************)
Fresh == [state |-> "Idle", linked |-> FALSE, alive |-> TRUE, seq |-> 0,
          task |-> NoTask, tasks |-> 0, iq_id |-> 0, writeBuf |-> <<>>,
          closePending |-> FALSE, closing |-> FALSE, timer |-> FALSE]

\* IBBConnection::resetConnection
Reset(c) == [c EXCEPT !.state = "Idle", !.linked = FALSE, !.seq = 0, !.task = NoTask,
                      !.writeBuf = <<>>, !.closePending = FALSE, !.closing = FALSE]

\* new JT_IBB in c, for a request in that mode that carries n bytes.
WithTask(c, mode, n) ==
  [c EXCEPT !.tasks = @ + 1, !.task = [mode |-> mode, id |-> c.tasks + 1, bytes |-> n]]

NextBlock(c) == SubSeq(c.writeBuf, 1, IF Len(c.writeBuf) < BlockSize THEN Len(c.writeBuf)
                                                                     ELSE BlockSize)

\* The three outcomes of IBBConnection::trySend.
SendsBlock(c) == c.task = NoTask /\ c.writeBuf # <<>>
SendsClose(c) == c.task = NoTask /\ c.writeBuf = <<>> /\ c.closePending

\* Mutant: the sequence number is not taken modulo its width.
TrySendWide(c) ==
  CASE SendsBlock(c) ->
         [WithTask(c, "data", Len(NextBlock(c)))
            EXCEPT !.seq = @ + 1,
                   !.writeBuf = SubSeq(@, Len(NextBlock(c)) + 1, Len(@))]
    [] SendsClose(c) ->
         [WithTask(c, "close", 0) EXCEPT !.closePending = FALSE, !.closing = TRUE]
    [] OTHER -> c

\* Mutant: d->seq instead of d->seq++.
TrySendKeepsSeq(c) ==
  CASE SendsBlock(c) ->
         [WithTask(c, "data", Len(NextBlock(c)))
            EXCEPT !.writeBuf = SubSeq(@, Len(NextBlock(c)) + 1, Len(@))]
    [] SendsClose(c) ->
         [WithTask(c, "close", 0) EXCEPT !.closePending = FALSE, !.closing = TRUE]
    [] OTHER -> c

\* Mutant: takeWrite with del = false, the block stays in the buffer.
TrySendKeepsBlock(c) ==
  CASE SendsBlock(c) ->
         [WithTask(c, "data", Len(NextBlock(c))) EXCEPT !.seq = (@ + 1) % SeqSpace]
    [] SendsClose(c) ->
         [WithTask(c, "close", 0) EXCEPT !.closePending = FALSE, !.closing = TRUE]
    [] OTHER -> c

TrySend(c) ==
  CASE SendsBlock(c) ->
         [WithTask(c, "data", Len(NextBlock(c)))
            EXCEPT !.seq = (@ + 1) % SeqSpace,
                   !.writeBuf = SubSeq(@, Len(NextBlock(c)) + 1, Len(@))]
    [] SendsClose(c) ->
         [WithTask(c, "close", 0) EXCEPT !.closePending = FALSE, !.closing = TRUE]
    [] OTHER -> c

\* What trySend puts on the wire.
Sends(c) ==
  CASE SendsBlock(c) -> <<DataIQ(c.tasks + 1, c.seq, NextBlock(c))>>
    [] SendsClose(c) -> <<CloseIQ(c.tasks + 1)>>
    [] OTHER         -> <<>>

\* IBBConnection::close: an Active stream first sends what it holds.
Closed(c) ==
  LET t == TrySend([c EXCEPT !.closePending = TRUE])
  IN CASE c.state = "Idle" -> c
       [] c.state = "Active" /\ (t.writeBuf # <<>> \/ t.closing) -> t
       [] OTHER -> Reset(c)

CloseSends(c) ==
  CASE c.state = "WaitingForAccept" -> <<Error(c.iq_id)>>
    [] c.state = "Active"           -> Sends([c EXCEPT !.closePending = TRUE])
    [] OTHER                        -> <<>>

\* Mutant: a close that was asked for is not tried again.
SucceededForgetsClose(c) ==
  CASE c.task.mode = "open" -> [c EXCEPT !.task = NoTask, !.state = "Active", !.linked = TRUE]
    [] c.closing            -> Reset(c)
    [] OTHER -> [c EXCEPT !.task = NoTask, !.timer = @ \/ c.writeBuf # <<>>]

\* Mutant: what the buffer holds is not sent after an answer.
SucceededForgetsData(c) ==
  CASE c.task.mode = "open" -> [c EXCEPT !.task = NoTask, !.state = "Active", !.linked = TRUE]
    [] c.closing            -> Reset(c)
    [] OTHER -> [c EXCEPT !.task = NoTask, !.timer = @ \/ c.closePending]

\* ibb_finished after a success.
Succeeded(c) ==
  CASE c.task.mode = "open" -> [c EXCEPT !.task = NoTask, !.state = "Active", !.linked = TRUE]
    [] c.closing            -> Reset(c)
    [] OTHER -> [c EXCEPT !.task = NoTask, !.timer = @ \/ c.writeBuf # <<>> \/ c.closePending]

-----------------------------------------------------------------------------
Init ==
  /\ conn = [e \in End |-> Fresh]
  /\ net = [e \in End |-> <<>>]
  /\ stream = [e \in End |-> "active"] /\ refused = [e \in End |-> 0]
  /\ written = [e \in End |-> 0] /\ confirmed = [e \in End |-> 0]
  /\ received = [e \in End |-> <<>>]
  /\ ended = [e \in End |-> "no"] /\ failures = 0

\* Task::go deletes a task instead of starting it if there is no stream
\* (Client::hasStream): d->j dangles.
Refused(e, c) == stream[e] = "none" /\ c.tasks > conn[e].tasks

\* Client::send and ClientStream::write: only an Active stream sends.
Sent(e, iqs) == IF stream[e] = "active" THEN iqs ELSE <<>>

\* End e goes on with connection c, whose new task, if any, sends iqs.
Becomes(e, c, iqs) ==
  /\ conn' = [conn EXCEPT ![e] = c]
  /\ refused' = [refused EXCEPT ![e] = IF Refused(e, c) THEN c.tasks ELSE @]
  /\ net' = [net EXCEPT ![e] = @ \o Sent(e, iqs)]

\* End e takes the next IQ of its peer, goes on with c and answers iqs.
Takes(e, c, iqs) ==
  /\ conn' = [conn EXCEPT ![e] = c]
  /\ net' = [net EXCEPT ![Peer(e)] = Tail(@), ![e] = @ \o iqs]
  /\ UNCHANGED refused

\* d->j is a task that will emit finished(), or it dangles.
Live(e)     == conn[e].task # NoTask /\ conn[e].task.id # refused[e]
Dangling(e) == conn[e].task # NoTask /\ conn[e].task.id = refused[e]

Ends(e, how) == ended' = [ended EXCEPT ![e] = IF @ = "no" THEN how ELSE @]

-----------------------------------------------------------------------------
(***************************************************************************)
(* The owner's calls.                                                      *)
(***************************************************************************)

\* IBBConnection::connectToJid
ConnectToJid ==
  LET e == "initiator"
  IN /\ conn[e] = Fresh
     /\ Becomes(e, [WithTask(conn[e], "open", 0) EXCEPT !.state = "Requesting"], <<OpenIQ(1)>>)
     /\ UNCHANGED <<stream, written, confirmed, received, ended, failures>>

\* IBBConnection::accept
Accept ==
  LET e == "responder"
  IN /\ conn[e].alive /\ conn[e].state = "WaitingForAccept"
     /\ Becomes(e, [conn[e] EXCEPT !.state = "Active", !.linked = TRUE], <<Result(conn[e].iq_id)>>)
     /\ UNCHANGED <<stream, written, confirmed, received, ended, failures>>

\* IBBConnection::writeData, n bytes at a time
WriteData(e) ==
  /\ conn[e].alive /\ conn[e].state = "Active"
  /\ ~conn[e].closePending /\ ~conn[e].closing
  /\ Duplex \/ written[Peer(e)] = 0
  /\ \E n \in 1..(MaxBytes - written[e]) :
       LET c == [conn[e] EXCEPT !.writeBuf = @ \o [i \in 1..n |-> written[e] + i]]
       IN /\ written' = [written EXCEPT ![e] = @ + n]
          /\ Becomes(e, TrySend(c), Sends(c))
  /\ UNCHANGED <<stream, confirmed, received, ended, failures>>

\* A close() that finds all data either acknowledged or still in the buffer.
NothingInFlight(c) ==
  \/ c.state # "Active" \/ c.closing
  \/ c.task = NoTask /\ c.writeBuf = <<>>
  \/ Len(c.writeBuf) > BlockSize

\* doReject() asks the stream for its namespace: it faults if there is none.
RejectsOffline(e) == conn[e].state = "WaitingForAccept" /\ stream[e] = "none"

\* Mutant: the closing request is sent, but the reset does not wait for it.
CloseConnectionAtOnce(e) ==
  /\ conn[e].alive /\ conn[e].state # "Idle" /\ ~RejectsOffline(e)
  /\ EarlyClose \/ NothingInFlight(conn[e])
  /\ Becomes(e, IF Closed(conn[e]).closing THEN Reset(Closed(conn[e])) ELSE Closed(conn[e]),
             CloseSends(conn[e]))
  /\ IF conn'[e].state = "Idle"
     THEN Ends(e, IF conn[e].state = "Active" THEN "closed" ELSE "cancelled")
     ELSE UNCHANGED ended
  /\ UNCHANGED <<stream, written, confirmed, received, failures>>

\* IBBConnection::close
CloseConnection(e) ==
  /\ conn[e].alive /\ conn[e].state # "Idle" /\ ~RejectsOffline(e)
  /\ EarlyClose \/ NothingInFlight(conn[e])
  /\ Becomes(e, Closed(conn[e]), CloseSends(conn[e]))
  /\ IF Closed(conn[e]).state = "Idle"
     THEN Ends(e, IF conn[e].state = "Active" THEN "closed" ELSE "cancelled")
     ELSE UNCHANGED ended
  /\ UNCHANGED <<stream, written, confirmed, received, failures>>

\* IBBConnection::~IBBConnection.  A task that is still waiting loses its
\* receiver, a timer its object; the manager's list keeps what close() left.
Destroy(e) ==
  LET c == [conn[e] EXCEPT !.writeBuf = <<>>]
  IN /\ c.alive /\ c # Fresh /\ ~RejectsOffline(e)
     /\ DestroysOpen \/ ended[e] # "no"
     /\ Becomes(e, [Closed(c) EXCEPT !.state = "Idle", !.alive = FALSE,
                                     !.task = NoTask, !.timer = FALSE],
                CloseSends(c))
     /\ Ends(e, "destroyed")
     /\ UNCHANGED <<stream, written, confirmed, received, failures>>

-----------------------------------------------------------------------------
(***************************************************************************)
(* The event loop.  What a manager does that finds a deleted connection in *)
(* its list is undefined: no step is modelled for it.                      *)
(***************************************************************************)
Incoming(e, type) ==
  /\ stream[e] = "active"
  /\ net[Peer(e)] # <<>> /\ Head(net[Peer(e)]).type = type
  /\ conn[e].linked => conn[e].alive

\* JT_IBB::take: the answer is for the task of e.
Awaited(e) == Live(e) /\ conn[e].task.id = Head(net[Peer(e)]).id

\* IBBConnection::waitForAccept, on a new connection
Waiting(c, id) == [c EXCEPT !.state = "WaitingForAccept", !.iq_id = id]

\* IBBManager::ibb_incomingRequest
IncomingRequest ==
  LET e == "responder"
      m == Head(net[Peer(e)])
  IN /\ Incoming(e, "open")
     /\ Takes(e, Waiting(conn[e], m.id), <<>>)
     /\ UNCHANGED <<stream, written, confirmed, received, ended, failures>>

\* IBBConnection::takeIncomingData appends the block: it is the next one,
\* and no longer than was agreed.
Expected(c, m) == m.seq = c.seq /\ Len(m.data) <= BlockSize

\* IBBManager::takeIncomingData acknowledges the block before
\* IBBConnection::takeIncomingData looks at its sequence number.
TakeIncomingData(e) ==
  LET m == Head(net[Peer(e)])
      c == conn[e]
  IN /\ Incoming(e, "data")
     /\ \/ /\ ~c.linked
           /\ Takes(e, c, <<Error(m.id)>>)
           /\ UNCHANGED received
        \/ /\ c.linked /\ ~Expected(c, m)
           /\ Takes(e, c, <<Result(m.id), Error(c.iq_id)>>)
           /\ UNCHANGED received
        \/ /\ c.linked /\ Expected(c, m)
           /\ Takes(e, [c EXCEPT !.seq = (@ + 1) % SeqSpace], <<Result(m.id)>>)
           /\ received' = [received EXCEPT ![e] = @ \o m.data]
     /\ UNCHANGED <<stream, written, confirmed, ended, failures>>

\* IBBManager::ibb_closeRequest and setRemoteClosed
CloseRequest(e) ==
  LET m == Head(net[Peer(e)])
  IN /\ Incoming(e, "close")
     /\ \/ /\ ~conn[e].linked
           /\ Takes(e, conn[e], <<Error(m.id)>>)
           /\ UNCHANGED ended
        \/ /\ conn[e].linked
           /\ Takes(e, Reset(conn[e]), <<Result(m.id)>>)
           /\ Ends(e, "remote")
     /\ UNCHANGED <<stream, written, confirmed, received, failures>>

\* Nobody waits for the answer.
Unexpected(e) ==
  /\ Incoming(e, "result") \/ Incoming(e, "error")
  /\ ~Awaited(e)
  /\ Takes(e, conn[e], <<>>)
  /\ UNCHANGED <<stream, written, confirmed, received, ended, failures>>

\* JT_IBB succeeds: ibb_finished.
TaskSucceeds(e) ==
  LET c == conn[e]
  IN /\ Incoming(e, "result") /\ Awaited(e)
     /\ Takes(e, Succeeded(c), <<>>)
     /\ confirmed' = [confirmed EXCEPT ![e] = @ + c.task.bytes]
     /\ IF c.closing THEN Ends(e, "closed") ELSE UNCHANGED ended
     /\ UNCHANGED <<stream, written, received, failures>>

\* JT_IBB is refused: ibb_finished resets the connection.
TaskRefused(e) ==
  /\ Incoming(e, "error") /\ Awaited(e)
  /\ Takes(e, Reset(conn[e]), <<>>)
  /\ Ends(e, "failed")
  /\ UNCHANGED <<stream, written, confirmed, received, failures>>

\* The answer to e's task can still come.
Answerable(e) ==
  /\ \A p \in End : stream[p] = "active"
  /\ \/ \E i \in 1..Len(net[e]) : net[e][i].id = conn[e].task.id
                                    /\ net[e][i].type \in {"open", "data", "close"}
     \/ \E i \in 1..Len(net[Peer(e)]) : net[Peer(e)][i].id = conn[e].task.id
                                          /\ net[Peer(e)][i].type \in {"result", "error"}
     \/ conn[e].task.mode = "open" /\ conn[Peer(e)].state = "WaitingForAccept"

\* Task::onTimeout, after 120 s: too early only MaxFailures times.
TaskTimesOut(e) ==
  /\ Live(e)
  /\ Answerable(e) => failures < MaxFailures
  /\ failures' = IF Answerable(e) THEN failures + 1 ELSE failures
  /\ Becomes(e, Reset(conn[e]), <<>>)
  /\ Ends(e, "failed")
  /\ UNCHANGED <<stream, written, confirmed, received>>

\* QTimer::singleShot(IBB_PACKET_DELAY, trySend)
TimerFires(e) ==
  LET c == [conn[e] EXCEPT !.timer = FALSE]
  IN /\ conn[e].timer
     /\ Becomes(e, TrySend(c), Sends(c))
     /\ UNCHANGED <<stream, written, confirmed, received, ended, failures>>

-----------------------------------------------------------------------------
(***************************************************************************)
(* The Client of e loses its stream and gets another, or the same one      *)
(* resumed.                                                                *)
(***************************************************************************)

\* Of the IQs under way in each direction a prefix arrives.
IQsLost ==
  \E i \in 0..Len(net["initiator"]), j \in 0..Len(net["responder"]) :
    net' = [net EXCEPT !["initiator"] = SubSeq(@, 1, i), !["responder"] = SubSeq(@, 1, j)]

\* Task::onDisconnect fails the task.
Disconnected(e) ==
  IF Live(e)
  THEN /\ conn' = [conn EXCEPT ![e] = Reset(@)]
       /\ Ends(e, "failed")
  ELSE UNCHANGED <<conn, ended>>

\* e's stream breaks.  Client::streamError emits disconnected(); after
\* connectionClosed(), or before an attempt to resume, nothing does.
StreamLost(e) ==
  /\ stream[e] = "active" /\ stream' = [stream EXCEPT ![e] = "inactive"]
  /\ failures < MaxFailures /\ failures' = failures + 1
  /\ IQsLost
  /\ Disconnected(e) \/ UNCHANGED <<conn, ended>>
  /\ UNCHANGED <<refused, written, confirmed, received>>

\* Client::close
ClientClose(e) ==
  /\ stream[e] # "none" /\ stream' = [stream EXCEPT ![e] = "none"]
  /\ stream[e] = "active" => failures < MaxFailures
  /\ failures' = IF stream[e] = "active" THEN failures + 1 ELSE failures
  /\ IQsLost
  /\ Disconnected(e)
  /\ UNCHANGED <<refused, written, confirmed, received>>

\* Client::connectToServer
ConnectToServer(e) ==
  /\ stream[e] = "none" /\ stream' = [stream EXCEPT ![e] = "inactive"]
  /\ UNCHANGED <<conn, net, refused, written, confirmed, received, ended, failures>>

\* The ClientStream of e is Active (again).
Authenticated(e) ==
  /\ stream[e] = "inactive" /\ stream' = [stream EXCEPT ![e] = "active"]
  /\ IQsLost
  /\ UNCHANGED <<conn, refused, written, confirmed, received, ended, failures>>

\* resetConnection deletes d->j, once more if it dangles.
CloseFrees(e, c)      == Dangling(e) /\ c.state # "Idle" /\ Closed(c).state = "Idle"
CloseFaults(e)        == /\ EarlyClose \/ NothingInFlight(conn[e])
                         /\ CloseFrees(e, conn[e]) \/ RejectsOffline(e)
DestroyFaults(e)      == /\ DestroysOpen \/ ended[e] # "no"
                         /\ CloseFrees(e, [conn[e] EXCEPT !.writeBuf = <<>>]) \/ RejectsOffline(e)
CloseRequestFaults(e) == conn[e].linked /\ Dangling(e) /\ Incoming(e, "close")

\* Deleting d->j twice is undefined: the handler goes on as if nothing had
\* happened, or e's process ends.
Crashes(e) ==
  /\ conn[e].alive
  /\ CloseFaults(e) \/ DestroyFaults(e) \/ CloseRequestFaults(e)
  /\ conn' = [conn EXCEPT ![e] = [Fresh EXCEPT !.alive = FALSE, !.tasks = conn[e].tasks]]
  /\ stream' = [stream EXCEPT ![e] = "none"]
  /\ IQsLost
  /\ Ends(e, "crashed")
  /\ UNCHANGED <<refused, written, confirmed, received, failures>>

-----------------------------------------------------------------------------
Owner(e) == WriteData(e) \/ CloseConnection(e) \/ Destroy(e)

EventLoop(e) == \/ TakeIncomingData(e) \/ CloseRequest(e)
                \/ Unexpected(e) \/ TaskSucceeds(e) \/ TaskRefused(e)
                \/ TimerFires(e) \/ TaskTimesOut(e)

Network(e) == \/ StreamLost(e) \/ ClientClose(e) \/ ConnectToServer(e)
              \/ Authenticated(e) \/ Crashes(e)

Next == \/ ConnectToJid \/ IncomingRequest \/ Accept
        \/ \E e \in End : Owner(e) \/ EventLoop(e) \/ Network(e)

Spec == Init /\ [][Next]_vars

(* The event loop of each end delivers IQs and fires timers; nobody need    *)
(* write, close, accept, lose a stream or connect again.                    *)
FairSpec == /\ Spec
            /\ WF_vars(IncomingRequest)
            /\ \A e \in End : WF_vars(EventLoop(e))

-----------------------------------------------------------------------------
Tasks == [mode : {"none", "open", "data", "close"}, id : Nat, bytes : Nat]

Connections ==
  [state : {"Idle", "Requesting", "WaitingForAccept", "Active"},
   linked : BOOLEAN, alive : BOOLEAN, seq : 0..(SeqSpace - 1), task : Tasks,
   tasks : Nat, iq_id : Nat, writeBuf : Seq(Nat),
   closePending : BOOLEAN, closing : BOOLEAN, timer : BOOLEAN]

\* "none": hasStream() is false; "inactive": connecting, logging in or broken
Streams == {"active", "inactive", "none"}

IQs == [type : {"open", "data", "close", "result", "error"}, id : Nat,
        seq : 0..(SeqSpace - 1), data : Seq(Nat)]

(* Every variable has its type; sequence numbers fit a quint16.            *)
TypeOK ==
  /\ conn \in [End -> Connections]
  /\ net \in [End -> Seq(IQs)]
  /\ stream \in [End -> Streams] /\ refused \in [End -> Nat]
  /\ written \in [End -> Nat] /\ confirmed \in [End -> Nat]
  /\ received \in [End -> Seq(Nat)]
  /\ ended \in [End -> {"no", "closed", "cancelled", "remote", "failed", "destroyed",
                    "crashed"}]
  /\ failures \in Nat

(* bytesWritten announces only bytes the peer's application can read.      *)
ConfirmedReceived == \A e \in End : confirmed[e] <= Len(received[Peer(e)])

(* A stream its owner has closed, and that says so, has delivered every    *)
(* byte written to it and is closed at the other end too.                  *)
OrderlyClose ==
  \A e \in End : ended[e] = "closed" =>
    /\ Len(received[Peer(e)]) = written[e]
    /\ conn[Peer(e)].state = "Idle"

(* Data to send and a close to perform never wait for nothing: a task or a *)
(* timer is under way that will call trySend.  They do wait for nothing    *)
(* behind a d->j that go() has deleted (trySend returns for ever), which   *)
(* takes a lost stream.                                                    *)
NeverStalled ==
  \A e \in End : conn[e].writeBuf # <<>> \/ conn[e].closePending
                   => \/ Live(e) \/ conn[e].timer
                      \/ Dangling(e) /\ failures > 0

(* IBBManager looks streams up in activeConns: what it finds there exists. *)
LinkedIsAlive == \A e \in End : conn[e].linked => conn[e].alive

(* Each direction of the stream is an ordered delivery.                    *)
Direction(e) == INSTANCE OrderedDelivery
                  WITH sent <- written[e], delivered <- received[Peer(e)],
                       confirmed <- confirmed[e]
DeliveryInOrder ==
  /\ \A e \in End : Direction(e)!Init
  /\ [][\A e \in End : Direction(e)!Next \/ UNCHANGED Direction(e)!deliveryVars]_vars

(* Every byte written arrives, unless the stream ends first or a task of   *)
(* the writer was refused by go(), which ends nothing and tells nobody.    *)
EveryByteArrives ==
  \A e \in End : \A n \in 1..MaxBytes :
    written[e] >= n ~> \/ Len(received[Peer(e)]) >= n
                       \/ ended[e] # "no" \/ ended[Peer(e)] # "no"
                       \/ Dangling(e)

(* A pended close() is completed: the stream ends for its owner, unless    *)
(* go() has refused a task of it.                                          *)
CloseCompletes == \A e \in End : conn[e].closePending ~> ended[e] # "no" \/ Dangling(e)
=============================================================================
