-------------------------- MODULE StreamManagement --------------------------
(***************************************************************************)
(* XEP-0198 stream management as the iris library implements it: the       *)
(* StreamManagement object (xmpp-core/sm.cpp), the part of CoreProtocol    *)
(* that drives it (protocol.cpp), and the ClientStream event loop          *)
(* (stream.cpp) that turns its events into writes, reconnections and       *)
(* signals.  One ClientStream talks to one server over a connection that   *)
(* may die at any moment; PsiAccount makes a new ClientStream whenever the *)
(* old one reports an error, so every session starts from Init.            *)
(*                                                                         *)
(* One action is one run of ClientStream::processNext, from the call that  *)
(* triggers it until CoreProtocol asks for more input.  The program is     *)
(* single threaded, so such a run is atomic, and each run ends in the      *)
(* timer check at the end of CoreProtocol::normalStep, which is part of    *)
(* the action (SettleTimer below).                                         *)
(*                                                                         *)
(* Stanzas are numbered in the order they are written.  The server is      *)
(* external: it is modelled by the answers the client's code expects.      *)
(***************************************************************************)
EXTENDS Integers, Sequences

CONSTANTS
  W,            \* counters are taken modulo W (2^32 for the code's quint32)
  ReqAbove,     \* <r/> is sent when the queue is longer than this (5) ...
  ReqEvery,     \* ... and its length is a multiple of this (4)
  KeepAlive,    \* UserAccount::opt_keepAlive: is the no-op timer running?
  Coalesced,    \* may one socket read hold <enabled/> and what follows it?
  MaxQueue,     \* bound: unacknowledged stanzas either side may hold
  MaxWritten,   \* bound: stanzas the application writes in one session
  MaxSent,      \* bound: stanzas the server sends in one session
  MaxLosses     \* bound: dead links and unfounded timeouts in one session

ASSUME CounterAssumption == W \in Nat /\ MaxQueue \in 1..(W - 1)
ASSUME RequestAssumption == ReqAbove \in Nat /\ ReqEvery \in Nat \ {0}
ASSUME SwitchAssumption  == KeepAlive \in BOOLEAN /\ Coalesced \in BOOLEAN
ASSUME BoundAssumption   == /\ MaxWritten \in Nat \ {0}
                            /\ MaxSent \in Nat
                            /\ MaxLosses \in Nat

VARIABLES
  (* ClientStream::Private and CoreProtocol *)
  state,               \* Idle, Connecting or Active
  step,                \* Login, GetSMResponse or Done
  quiet_reconnection,  \* reconnecting behind the application's back
  outData,             \* stanzas in outDataNormal that no ESend has flushed
  pendingWrite,        \* stanzasPending # 0: the socket owes a bytesWritten
  (* StreamManagement and SMState *)
  sm,                  \* "off", "started" (sm_started), "resumed" (sm_resumed)
  waiting_answer,      \* an <r/> is unanswered
  due,                 \* lastAckElapsed() >= SM_TIMER_INTERVAL_SECS
  sm_stanzas_notify,   \* dequeued stanzas not yet announced as acked
  resumable,           \* resumption_id is not empty
  received_count,      \* stanzas handled by the client, modulo W
  server_last_handled, \* the server's last h, modulo W
  send_queue,          \* unacknowledged stanzas, oldest first
  (* the connection and the server *)
  request,             \* <enable/> or <resume h/> the server has not answered
  c2s, s2c,            \* elements in flight on the session's connection
  attached,            \* the server's answers reach the current connection
  handled,             \* the stanzas the server has handled, in order
  srvSent, srvAcked,   \* stanzas the server sent; of these, acknowledged
  (* history *)
  written,             \* stanzas ClientStream::write has accepted
  reported,            \* sum of the counts emitted by stanzasAcked
  received,            \* stanzas appended to ClientStream::in, in order
  losses               \* dead links and unfounded timeouts so far

streamVars  == <<state, step, quiet_reconnection>>
outVars     == <<outData, pendingWrite>>
timerVars   == <<waiting_answer, due>>
queueVars   == <<server_last_handled, send_queue, sm_stanzas_notify>>
smVars      == <<sm, resumable>>
inVars      == <<received_count, received>>
serverVars  == <<handled, srvSent, srvAcked>>
linkVars    == <<request, attached, losses>>
appVars     == <<written, reported>>
vars == <<streamVars, outVars, timerVars, queueVars, smVars, inVars,
          serverVars, linkVars, c2s, s2c, appVars>>

(***************************************************************************)
(* Elements.  A client element records in n how many stanzas of the        *)
(* session precede it on the wire, itself included; the server never reads *)
(* n of <r/> and <a/>.  An h field carries the full count; whoever reads   *)
(* it takes it modulo W, as toUInt() into a quint32 does.                  *)
(***************************************************************************)
StanzaOut(n) == [type |-> "stanza", n |-> n, h |-> 0]
ReqOut(n)    == [type |-> "r", n |-> n, h |-> 0]
AnsOut(n, h) == [type |-> "a", n |-> n, h |-> h]
Wire(q)      == [i \in 1..Len(q) |-> StanzaOut(q[i])]

StanzaIn(n)  == [type |-> "stanza", n |-> n]
ReqIn        == [type |-> "r", n |-> 0]
AnsIn(h)     == [type |-> "a", n |-> h]
Enabled(id)  == [type |-> "enabled", n |-> IF id THEN 1 ELSE 0]
Resumed(h)   == [type |-> "resumed", n |-> h]
Failed       == [type |-> "failed", n |-> 0]

NoRequest    == [type |-> "none", h |-> 0]

Prefixes(s)  == {SubSeq(s, 1, k) : k \in 0..Len(s)}

(* Stanzas already on the wire of this connection. *)
Wired == written - Len(outData)

\* StreamManagement::isActive
isActive == sm # "off"

-----------------------------------------------------------------------------
(***************************************************************************)
(* Init: a ClientStream fresh from PsiAccount::login, before its           *)
(* connectToServer.                                                        *)
(***************************************************************************)
Init ==
  /\ state = "Idle"
  /\ step = "Login" /\ quiet_reconnection = FALSE
  /\ outData = <<>> /\ pendingWrite = FALSE
  /\ sm = "off" /\ waiting_answer = FALSE /\ due = FALSE
  /\ sm_stanzas_notify = 0 /\ resumable = FALSE
  /\ received_count = 0 /\ server_last_handled = 0 /\ send_queue = <<>>
  /\ request = NoRequest /\ c2s = <<>> /\ s2c = <<>> /\ attached = FALSE
  /\ handled = <<>> /\ srvSent = 0 /\ srvAcked = 0
  /\ written = 0 /\ reported = 0 /\ received = <<>> /\ losses = 0

(***************************************************************************)
(* Helpers of the client's steps.                                          *)
(***************************************************************************)

\* StreamManagement::processAcknowledgement dequeues until the queue is
\* empty or the counter meets h: with a counter modulo W that is the
\* distance from last to h, or the whole queue.
Distance(last, h)      == (h - last) % W
Dequeued(last, h, len) == IF Distance(last, h) <= len THEN Distance(last, h) ELSE len

\* Mutant: the loop forgets ++server_last_handled.
ProcessAcknowledgementStuck(h) ==
  LET k == Dequeued(server_last_handled, h, Len(send_queue))
  IN /\ send_queue' = SubSeq(send_queue, k + 1, Len(send_queue))
     /\ UNCHANGED server_last_handled

\* Mutant: a counter wider than the h of the wire.
ProcessAcknowledgementWide(h) ==
  LET k == Dequeued(server_last_handled, h, Len(send_queue))
  IN /\ send_queue' = SubSeq(send_queue, k + 1, Len(send_queue))
     /\ server_last_handled' = server_last_handled + k

ProcessAcknowledgement(h) ==
  LET k == Dequeued(server_last_handled, h, Len(send_queue))
  IN /\ send_queue' = SubSeq(send_queue, k + 1, Len(send_queue))
     /\ server_last_handled' = (server_last_handled + k) % W

\* What ESend hands to the socket; on a dead link it goes nowhere.
Put(items) == IF attached THEN c2s \o items ELSE c2s

\* CoreProtocol::sendStanza asks for an acknowledgement at some lengths.
AsksAtLength(len) == len > ReqAbove /\ len % ReqEvery = 0

\* ClientStream::reset(false): sm and the outgoing data are cleared, the
\* SMState, and with it the queue and the counters, survives.
ResetStream ==
  /\ step' = "Login"
  /\ outData' = <<>> /\ pendingWrite' = FALSE
  /\ sm' = "off" /\ waiting_answer' = FALSE /\ due' = FALSE
  /\ sm_stanzas_notify' = 0
  /\ request' = NoRequest /\ attached' = FALSE /\ s2c' = <<>>

\* Event ESMConnTimeout: reconnect quietly if the session can be resumed.
\* What the socket still held may or may not reach the server.
ConnTimeout(items) ==
  /\ ResetStream
  /\ c2s' \in Prefixes(Put(items))
  /\ state' = IF resumable THEN "Connecting" ELSE "Idle"
  /\ quiet_reconnection' = resumable

\* The end of CoreProtocol::normalStep, reached by every run of processNext:
\* with the timer expired either ask for an acknowledgement, or, having
\* asked, give the connection up.  items is what the run has put on the
\* wire, stale what stays in outDataNormal because no ESend came, w and d
\* are the timer's state, p whether the socket owes a bytesWritten, and
\* rest what the run leaves unread.
SettleTimer(items, stale, w, d, p, rest) ==
  \/ /\ ~d
     /\ waiting_answer' = w /\ due' = FALSE
     /\ c2s' = Put(items) /\ s2c' = rest
     /\ outData' = stale /\ pendingWrite' = p
     /\ UNCHANGED <<streamVars, sm, sm_stanzas_notify, request, attached>>
  \/ /\ d /\ ~w
     /\ waiting_answer' = TRUE /\ due' = FALSE
     /\ c2s' = Put(items \o Wire(stale) \o <<ReqOut(written')>>) /\ s2c' = rest
     /\ outData' = <<>> /\ pendingWrite' = p
     /\ UNCHANGED <<streamVars, sm, sm_stanzas_notify, request, attached>>
  \/ /\ d /\ w
     /\ ConnTimeout(items)

-----------------------------------------------------------------------------
(***************************************************************************)
(* Opening the stream.                                                     *)
(***************************************************************************)

\* PsiAccount::login: a new ClientStream, connectToServer.
Login ==
  /\ state = "Idle" /\ state' = "Connecting"
  /\ step' = "Login" /\ quiet_reconnection' = FALSE
  /\ outData' = <<>> /\ pendingWrite' = FALSE
  /\ sm' = "off" /\ waiting_answer' = FALSE /\ due' = FALSE
  /\ sm_stanzas_notify' = 0 /\ resumable' = FALSE
  /\ received_count' = 0 /\ server_last_handled' = 0 /\ send_queue' = <<>>
  /\ request' = NoRequest /\ c2s' = <<>> /\ s2c' = <<>> /\ attached' = FALSE
  /\ handled' = <<>> /\ srvSent' = 0 /\ srvAcked' = 0
  /\ written' = 0 /\ reported' = 0 /\ received' = <<>> /\ losses' = 0

\* CoreProtocol::loginComplete on a server that offers sm: resume the
\* session there is an id for, or enable a new one.
LoginComplete ==
  /\ state = "Connecting" /\ step = "Login"
  /\ step' = "GetSMResponse"
  /\ request' = IF resumable THEN [type |-> "resume", h |-> received_count]
                             ELSE [type |-> "enable", h |-> 0]
  /\ UNCHANGED <<state, quiet_reconnection, outVars, timerVars, queueVars,
                 smVars, inVars, serverVars, attached, losses, c2s, s2c, appVars>>

\* GetSMResponse, <enabled/>: StreamManagement::start, then EReady and the
\* signal authenticated, in whose handler PsiAccount requests the roster.
\* That write runs processNext inside processNext: if the same read brought
\* another element, the inner run takes it from the parser and BasicProtocol
\* ::doStep returns to send the request without having looked at it.
RecvEnabled ==
  /\ state = "Connecting" /\ step = "GetSMResponse"
  /\ s2c # <<>> /\ Head(s2c).type = "enabled"
  /\ \E swallowed \in BOOLEAN :
       /\ swallowed => Coalesced /\ Len(s2c) > 1
       /\ s2c' = SubSeq(s2c, IF swallowed THEN 3 ELSE 2, Len(s2c))
  /\ sm' = "started" /\ resumable' = (Head(s2c).n = 1)
  /\ received_count' = 0 /\ server_last_handled' = 0
  /\ sm_stanzas_notify' = 0
  /\ state' = "Active" /\ step' = "Done"
  /\ written' = 1 /\ send_queue' = <<1>>
  /\ waiting_answer' = AsksAtLength(1) /\ due' = FALSE
  /\ c2s' = Put((IF AsksAtLength(1) THEN <<ReqOut(0)>> ELSE <<>>) \o <<StanzaOut(1)>>)
  /\ outData' = <<>> /\ pendingWrite' = TRUE
  /\ UNCHANGED <<quiet_reconnection, received, serverVars, linkVars, reported>>

\* Mutant: resume without processAcknowledgement, the whole queue is resent.
RecvResumedResendsAll ==
  /\ state = "Connecting" /\ step = "GetSMResponse"
  /\ s2c # <<>> /\ Head(s2c).type = "resumed"
  /\ s2c' = Tail(s2c)
  /\ sm' = "resumed"
  /\ waiting_answer' = FALSE /\ due' = FALSE
  /\ outData' = send_queue
  /\ state' = "Active" /\ step' = "Done"
  /\ UNCHANGED <<quiet_reconnection, pendingWrite, queueVars, resumable, inVars,
                 serverVars, linkVars, c2s, appVars>>

\* Mutant: the queue is not resent at all.
RecvResumedResendsNone ==
  /\ state = "Connecting" /\ step = "GetSMResponse"
  /\ s2c # <<>> /\ Head(s2c).type = "resumed"
  /\ s2c' = Tail(s2c)
  /\ ProcessAcknowledgement(Head(s2c).n)
  /\ sm' = "resumed"
  /\ waiting_answer' = FALSE /\ due' = FALSE
  /\ sm_stanzas_notify' = sm_stanzas_notify + Len(send_queue) - Len(send_queue')
  /\ outData' = <<>>
  /\ state' = "Active" /\ step' = "Done"
  /\ UNCHANGED <<quiet_reconnection, pendingWrite, resumable, inVars, serverVars,
                 linkVars, c2s, appVars>>

\* GetSMResponse, <resumed/>: StreamManagement::resume, then every stanza
\* still in the queue is sent again.  The event is EReady, not ESend: the
\* stanzas stay in outDataNormal until some later step raises ESend.
RecvResumed ==
  /\ state = "Connecting" /\ step = "GetSMResponse"
  /\ s2c # <<>> /\ Head(s2c).type = "resumed"
  /\ s2c' = Tail(s2c)
  /\ ProcessAcknowledgement(Head(s2c).n)
  /\ sm' = "resumed"
  /\ waiting_answer' = FALSE /\ due' = FALSE
  /\ sm_stanzas_notify' = sm_stanzas_notify + Len(send_queue) - Len(send_queue')
  /\ outData' = send_queue'
  /\ state' = "Active" /\ step' = "Done"
  /\ UNCHANGED <<quiet_reconnection, pendingWrite, resumable, inVars, serverVars,
                 linkVars, c2s, appVars>>

\* GetSMResponse, <failed/> to <resume/>: the id is forgotten and
\* ESMResumeFailed ends the stream with ErrSmResume.
RecvResumeFailed ==
  /\ state = "Connecting" /\ step = "GetSMResponse"
  /\ s2c # <<>> /\ Head(s2c).type = "failed"
  /\ resumable
  /\ resumable' = FALSE
  /\ state' = "Idle" /\ quiet_reconnection' = FALSE
  /\ ResetStream /\ c2s' \in Prefixes(c2s)
  /\ UNCHANGED <<server_last_handled, send_queue, inVars, serverVars, losses, appVars>>

\* GetSMResponse, <failed/> to <enable/>: no branch of normalStep is for it.
\* The element is dropped and the stream goes on waiting for an answer.
RecvEnableFailed ==
  /\ state = "Connecting" /\ step = "GetSMResponse"
  /\ s2c # <<>> /\ Head(s2c).type = "failed"
  /\ ~resumable
  /\ s2c' = Tail(s2c)
  /\ UNCHANGED <<streamVars, outVars, timerVars, queueVars, smVars, inVars,
                 serverVars, linkVars, c2s, appVars>>

-----------------------------------------------------------------------------
(***************************************************************************)
(* The open stream.                                                        *)
(***************************************************************************)

\* Mutant: generateRequestStanza does not restart the timer.
WriteKeepsTimer ==
  LET asks == AsksAtLength(Len(send_queue) + 1) /\ ~waiting_answer
  IN /\ state = "Active"
     /\ written < MaxWritten /\ Len(send_queue) < MaxQueue
     /\ written' = written + 1
     /\ send_queue' = Append(send_queue, written')
     /\ SettleTimer(Wire(outData) \o (IF asks THEN <<ReqOut(written)>> ELSE <<>>)
                                  \o <<StanzaOut(written')>>,
                    <<>>, waiting_answer \/ asks, due, TRUE, s2c)
     /\ UNCHANGED <<server_last_handled, resumable, inVars, serverVars, losses, reported>>

\* ClientStream::write: enqueue, perhaps ask for an acknowledgement, and
\* send.  The <r/> goes out before the stanza, which waits in sendList.
\* Outside Active the code drops the stanza: there is no such step.
Write ==
  LET asks == AsksAtLength(Len(send_queue) + 1) /\ ~waiting_answer
  IN /\ state = "Active"
     /\ written < MaxWritten /\ Len(send_queue) < MaxQueue
     /\ written' = written + 1
     /\ send_queue' = Append(send_queue, written')
     /\ SettleTimer(Wire(outData) \o (IF asks THEN <<ReqOut(written)>> ELSE <<>>)
                                  \o <<StanzaOut(written')>>,
                    <<>>, waiting_answer \/ asks, due /\ ~asks, TRUE, s2c)
     /\ UNCHANGED <<server_last_handled, resumable, inVars, serverVars, losses, reported>>

\* ss_bytesWritten: the socket took a stanza; processNext runs for it.
BytesWritten ==
  /\ state = "Active" /\ pendingWrite
  /\ UNCHANGED <<server_last_handled, send_queue, resumable, inVars, serverVars,
                 losses, appVars>>
  /\ SettleTimer(<<>>, outData, waiting_answer, due, FALSE, s2c)

\* Mutant: the keep-alive writes its whitespace without a processNext.
NoopSkipsTimer ==
  /\ KeepAlive /\ state = "Active" /\ outData # <<>>
  /\ c2s' = Put(Wire(outData)) /\ outData' = <<>>
  /\ UNCHANGED <<streamVars, pendingWrite, timerVars, queueVars, smVars, inVars,
                 serverVars, linkVars, s2c, appVars>>

\* doNoop: the keep-alive timer sends a whitespace, an ESend like any other.
Noop ==
  /\ KeepAlive /\ state = "Active"
  /\ UNCHANGED <<server_last_handled, send_queue, resumable, inVars, serverVars,
                 losses, appVars>>
  /\ SettleTimer(Wire(outData), <<>>, waiting_answer, due, pendingWrite, s2c)

\* Mutant: EStanzaReady without markStanzaHandled.
RecvStanzaUncounted ==
  /\ state = "Active" /\ s2c # <<>> /\ Head(s2c).type = "stanza"
  /\ received' = Append(received, Head(s2c).n)
  /\ UNCHANGED <<received_count, server_last_handled, send_queue, resumable,
                 serverVars, losses, appVars>>
  /\ SettleTimer(<<>>, outData, waiting_answer, due /\ ~waiting_answer,
                 pendingWrite, Tail(s2c))

\* ss_readyRead and normalStep on a stanza: countInputRawData restarts the
\* timer of an outstanding request, EStanzaReady marks the stanza handled.
RecvStanza ==
  /\ state = "Active" /\ s2c # <<>> /\ Head(s2c).type = "stanza"
  /\ received_count' = (received_count + 1) % W
  /\ received' = Append(received, Head(s2c).n)
  /\ UNCHANGED <<server_last_handled, send_queue, resumable, serverVars, losses, appVars>>
  /\ SettleTimer(<<>>, outData, waiting_answer, due /\ ~waiting_answer,
                 pendingWrite, Tail(s2c))

\* streamManagementHandleStanza, <r/>: the answer is urgent, so it overtakes
\* what outDataNormal still holds; both leave with the ESend it raises.
RecvRequest ==
  /\ state = "Active" /\ s2c # <<>> /\ Head(s2c).type = "r"
  /\ UNCHANGED <<server_last_handled, send_queue, resumable, inVars, serverVars,
                 losses, appVars>>
  /\ SettleTimer(<<AnsOut(Wired, received_count)>> \o Wire(outData), <<>>,
                 waiting_answer, due /\ ~waiting_answer, pendingWrite, Tail(s2c))

\* Mutant: takeAckedCount does not clear sm_stanzas_notify.
RecvAckKeepsCount ==
  /\ state = "Active" /\ s2c # <<>> /\ Head(s2c).type = "a"
  /\ s2c' = Tail(s2c)
  /\ ProcessAcknowledgement(Head(s2c).n)
  /\ waiting_answer' = FALSE /\ due' = FALSE
  /\ sm_stanzas_notify' = sm_stanzas_notify + Len(send_queue) - Len(send_queue')
  /\ reported' = reported + sm_stanzas_notify'
  /\ UNCHANGED <<streamVars, outVars, smVars, inVars, serverVars, linkVars, c2s, written>>

\* streamManagementHandleStanza, <a/>: processAcknowledgement, then EAck
\* announces what was dequeued since the last EAck.
RecvAck ==
  /\ state = "Active" /\ s2c # <<>> /\ Head(s2c).type = "a"
  /\ s2c' = Tail(s2c)
  /\ ProcessAcknowledgement(Head(s2c).n)
  /\ waiting_answer' = FALSE /\ due' = FALSE
  /\ reported' = reported + sm_stanzas_notify + Len(send_queue) - Len(send_queue')
  /\ sm_stanzas_notify' = 0
  /\ UNCHANGED <<streamVars, outVars, smVars, inVars, serverVars, linkVars, c2s, written>>

\* bs_connectionClosed, EPeerClosed, cr_error and close(): the stream is
\* reset and PsiAccount::cs_error destroys it, session and all.
ConnectionClosed ==
  /\ state \in {"Connecting", "Active"}
  /\ state' = "Idle"
  /\ ResetStream /\ c2s' \in Prefixes(c2s)
  /\ UNCHANGED <<quiet_reconnection, server_last_handled, send_queue, resumable,
                 inVars, serverVars, losses, appVars>>

\* Forty seconds pass since the timer was last started.  While the link
\* works the server answers in time, but for MaxLosses times.
Tick ==
  /\ isActive /\ ~due /\ due' = TRUE
  /\ waiting_answer /\ attached => losses < MaxLosses
  /\ losses' = IF waiting_answer /\ attached THEN losses + 1 ELSE losses
  /\ UNCHANGED <<streamVars, outVars, waiting_answer, queueVars, smVars, inVars,
                 serverVars, request, attached, c2s, s2c, appVars>>

-----------------------------------------------------------------------------
(***************************************************************************)
(* The connection and the server (external).                               *)
(***************************************************************************)

\* The link dies without either side being told: of what is in flight in
\* each direction a prefix still arrives, nothing sent later does.
LinkDies ==
  /\ attached /\ losses < MaxLosses
  /\ attached' = FALSE /\ losses' = losses + 1
  /\ c2s' \in Prefixes(c2s) /\ s2c' \in Prefixes(s2c)
  /\ UNCHANGED <<streamVars, outVars, timerVars, queueVars, smVars, inVars,
                 serverVars, request, appVars>>

\* The server opens a session, resumable or not, or refuses to.
ServerEnable ==
  /\ request.type = "enable"
  /\ request' = NoRequest /\ attached' = TRUE /\ c2s' = <<>>
  /\ \E answer \in {Enabled(TRUE), Enabled(FALSE), Failed} : s2c' = <<answer>>
  /\ UNCHANGED <<streamVars, outVars, timerVars, queueVars, smVars, inVars,
                 serverVars, losses, appVars>>

\* The server resumes the session: it stops reading the old connection,
\* says how much it has handled and repeats what the client has not.
ServerResume ==
  LET acked == srvAcked + Dequeued(srvAcked, request.h, srvSent - srvAcked)
  IN /\ request.type = "resume"
     /\ request' = NoRequest /\ attached' = TRUE /\ c2s' = <<>>
     /\ srvAcked' = acked
     /\ s2c' = <<Resumed(Len(handled))>>
                 \o [i \in 1..(srvSent - acked) |-> StanzaIn(acked + i)]
     /\ UNCHANGED <<streamVars, outVars, timerVars, queueVars, smVars, inVars,
                    handled, srvSent, losses, appVars>>

\* The session has expired.
ServerRefuse ==
  /\ request.type = "resume"
  /\ request' = NoRequest /\ attached' = TRUE /\ c2s' = <<>> /\ s2c' = <<Failed>>
  /\ UNCHANGED <<streamVars, outVars, timerVars, queueVars, smVars, inVars,
                 serverVars, losses, appVars>>

\* The server handles the next element the connection delivers.
ServerRecv ==
  LET e == Head(c2s)
  IN /\ c2s # <<>> /\ c2s' = Tail(c2s)
     /\ handled' = IF e.type = "stanza" THEN Append(handled, e.n) ELSE handled
     /\ s2c' = IF e.type = "r" /\ attached THEN Append(s2c, AnsIn(Len(handled))) ELSE s2c
     /\ srvAcked' = IF e.type = "a"
                    THEN srvAcked + Dequeued(srvAcked, e.h, srvSent - srvAcked)
                    ELSE srvAcked
     /\ UNCHANGED <<streamVars, outVars, timerVars, queueVars, smVars, inVars,
                    srvSent, linkVars, appVars>>

\* The session is open on the current connection, at the server's end.
InSession == attached /\ (isActive \/ \E i \in 1..Len(s2c) : s2c[i].type \in {"enabled", "resumed"})

\* The server has a stanza for the client; without a connection it keeps it.
ServerSend ==
  /\ srvSent < MaxSent /\ srvSent - srvAcked < MaxQueue
  /\ InSession \/ resumable
  /\ srvSent' = srvSent + 1
  /\ s2c' = IF InSession THEN Append(s2c, StanzaIn(srvSent')) ELSE s2c
  /\ UNCHANGED <<streamVars, outVars, timerVars, queueVars, smVars, inVars,
                 handled, srvAcked, linkVars, c2s, appVars>>

\* The server asks which of its stanzas the client has handled.
ServerRequest ==
  /\ InSession /\ srvAcked < srvSent
  /\ \A i \in 1..Len(s2c) : s2c[i].type # "r"
  /\ \A i \in 1..Len(c2s) : c2s[i].type # "a"
  /\ s2c' = Append(s2c, ReqIn)
  /\ UNCHANGED <<streamVars, outVars, timerVars, queueVars, smVars, inVars,
                 serverVars, linkVars, c2s, appVars>>

-----------------------------------------------------------------------------
ClientNext == \/ Login \/ LoginComplete
              \/ RecvEnabled \/ RecvResumed
              \/ RecvResumeFailed \/ RecvEnableFailed
              \/ Write \/ BytesWritten \/ Noop
              \/ RecvStanza \/ RecvRequest \/ RecvAck
              \/ ConnectionClosed \/ Tick

ServerNext == \/ ServerEnable \/ ServerResume \/ ServerRefuse
              \/ ServerRecv \/ ServerSend \/ ServerRequest

Next == ClientNext \/ ServerNext \/ LinkDies

Spec == Init /\ [][Next]_vars

(* The event loop delivers what is readable and what is written, the server *)
(* serves what it reads, time passes and the keep-alive timer, if it runs,  *)
(* fires.  The application need not write, nor the link die.                *)
Fairness ==
  /\ WF_vars(LoginComplete)
  /\ WF_vars(RecvEnabled) /\ WF_vars(RecvResumed) /\ WF_vars(RecvResumeFailed)
  /\ WF_vars(RecvEnableFailed)
  /\ WF_vars(RecvStanza) /\ WF_vars(RecvRequest) /\ WF_vars(RecvAck)
  /\ WF_vars(BytesWritten) /\ WF_vars(Noop) /\ WF_vars(Tick)
  /\ WF_vars(ServerEnable) /\ WF_vars(ServerResume) /\ WF_vars(ServerRecv)

FairSpec == Spec /\ Fairness

-----------------------------------------------------------------------------
ElementsOut == [type : {"stanza", "r", "a"}, n : Nat, h : Nat]
ElementsIn  == [type : {"stanza", "r", "a", "enabled", "resumed", "failed"}, n : Nat]

(* Every variable has its type; the counters on the wire fit their width. *)
TypeOK ==
  /\ state \in {"Idle", "Connecting", "Active"}
  /\ step \in {"Login", "GetSMResponse", "Done"}
  /\ quiet_reconnection \in BOOLEAN /\ pendingWrite \in BOOLEAN
  /\ outData \in Seq(Nat) /\ send_queue \in Seq(Nat)
  /\ sm \in {"off", "started", "resumed"} /\ resumable \in BOOLEAN
  /\ waiting_answer \in BOOLEAN /\ due \in BOOLEAN
  /\ sm_stanzas_notify \in Nat /\ reported \in Nat /\ written \in Nat
  /\ received_count \in 0..(W - 1) /\ server_last_handled \in 0..(W - 1)
  /\ request \in [type : {"none", "enable", "resume"}, h : 0..(W - 1)]
  /\ c2s \in Seq(ElementsOut) /\ s2c \in Seq(ElementsIn)
  /\ attached \in BOOLEAN
  /\ handled \in Seq(Nat) /\ received \in Seq(Nat)
  /\ srvSent \in Nat /\ srvAcked \in Nat /\ losses \in Nat

(* The server handles the stanzas of a session in the order they were      *)
(* written, each of them once, however often the stream is resumed: the    *)
(* queue resent by GetSMResponse neither skips nor repeats one.            *)
HandledExactlyOnce == \A i \in 1..Len(handled) : handled[i] = i

(* The queue holds, in order, every stanza the server is not known to have *)
(* handled, and the server has handled every stanza that has left it: an   *)
(* acknowledgement, wrapped or late, never dequeues one too many.          *)
QueueCoversUnhandled ==
  LET acked == written - Len(send_queue)
  IN /\ acked <= Len(handled) /\ Len(handled) <= written
     /\ \A i \in 1..Len(send_queue) : send_queue[i] = acked + i

(* The stream is an ordered delivery of the application's stanzas, across  *)
(* every reconnection of a session: what has left the queue is confirmed.  *)
Delivery == INSTANCE OrderedDelivery
              WITH sent <- written, delivered <- handled,
                   confirmed <- written - Len(send_queue)
DeliveryInOrder == Delivery!Spec

(* stanzasAcked never announces more stanzas than the server has handled.  *)
AckedOnlyIfHandled == reported <= Len(handled)

(* The client sees the server's stanzas in order, each once, resumed or    *)
(* not: the h it sends in <resume/> and <a/> is what it has really stored. *)
ReceivedExactlyOnce == \A i \in 1..Len(received) : received[i] = i

(* A connection that works is given up for a quiet reconnection only after *)
(* a whole interval without an answer to an <r/>, never in the run of      *)
(* processNext that asked.                                                 *)
GivesUpOnlyUnanswered ==
  [][state = "Active" /\ state' = "Connecting" => waiting_answer /\ due]_vars

(* A resumption whose own link dies before the answer arrives: nothing in  *)
(* ClientStream times a login out, only the socket can end it.             *)
LoginStalled == /\ state = "Connecting" /\ step = "GetSMResponse"
                /\ request = NoRequest /\ s2c = <<>> /\ ~attached

(* A stanza the stream has accepted is eventually handled by the server,   *)
(* unless the session ends or its resumption is stalled.                   *)
EventuallyHandled ==
  \A n \in 1..MaxWritten :
    written >= n ~> (Len(handled) >= n \/ state = "Idle" \/ LoginStalled)

(* xmlprotocol.h calls ESMConnTimeout "absence of responses to <r/> query":*)
(* when the link is dead and an <r/> unanswered, the client notices.       *)
DeadLinkNoticed == (isActive /\ waiting_answer /\ ~attached) ~> ~isActive
=============================================================================
