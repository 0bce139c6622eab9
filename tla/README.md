# Verification of psi-plus: streams, bytestreams, STUN transactions, accounts, Jingle sessions

TLA+ models of the protocol core of Psi+ (the `iris` library and the code in
`src/src` that drives it), checked with TLC on small instances and proved with
TLAPS for all of them. The program is single threaded: Qt's event loop runs one
handler at a time. What makes it hard is therefore not data races but the order
in which handlers run, signals that call back into the object that emits them,
connections that die without a word, answers that come late, and timers.

## 1. Inventory

All paths are below `src/`; `xmpp-core`, `xmpp-im` and `noncore` stand for
`iris/src/xmpp/xmpp-core`, `iris/src/xmpp/xmpp-im` and `iris/src/irisnet/noncore`.

| Component | State it keeps | Operations | Talks to | What makes it correct |
|---|---|---|---|---|
| `StreamManagement` (`xmpp-core/sm.cpp`) | queue of unacknowledged stanzas, two 32-bit counters, id for resumption, request timer | start, resume, reset, add, acknowledge, mark handled, request, respond | called by `CoreProtocol` and `ClientStream` | no stanza lost or repeated over resumptions; counters agree with the server's |
| `CoreProtocol` / `XmlProtocol` (`xmpp-core/protocol.cpp`, `xmlprotocol.cpp`) | login step, send list, two output buffers, pending counts | `processStep`, which takes one element and returns one event | pulled by `ClientStream::processNext` | every element looked at once; data is sent when the event says so |
| `ClientStream` (`xmpp-core/stream.cpp`) | state, received stanzas, keep-alive and time-out timers | connect, write, close, socket and timer slots | `Connector`, `SecureStream`, signals to `Client` and `PsiAccount` | stanzas announced in order; dead links noticed; quiet reconnection is invisible |
| `SecureStream` (`xmpp-core/securestream.cpp`) | stack of TLS, SASL and compression layers | startTLS, setLayerSASL, write | between socket and `ClientStream` | `bytesWritten` counts plain bytes |
| `Connector` (`xmpp-core/connector.cpp`) | candidate hosts and ports | connectToServer, done | DNS, sockets | tries every candidate, reports once |
| `Task` (`xmpp-im/xmpp_task.cpp`) | a request and its id | go, take, time-out, disconnect | `Client` | finishes exactly once |
| `IBBConnection`, `IBBManager`, `JT_IBB` (`xmpp-im/xmpp_ibb.cpp`) | state, sequence number, one task, write buffer, close flags; list of active connections | connect, accept, write, close, destroy; data, close and answers from the peer | `Task`, the application | bytes in order; confirmations true; close orderly |
| SI file transfer (`xmpp-im/filetransfer.cpp`) | state, bytes sent and received | send, accept, stream events | a bytestream | all bytes or an error |
| SOCKS5 bytestreams (`xmpp-im/s5b.cpp`) | candidates, incoming and outgoing connections | connect, activate, notify | sockets, proxies, `Task` | both ends choose one connection |
| Jingle session (`xmpp-im/jingle-session.cpp`, `jingle-application.cpp`, `jingle-ft.cpp`) | session and content states, one outstanding request, a step timer | initiate, accept, remove, report, terminate; the peer's requests and answers | `Task`, transports, the dialog of `src/multifiletransferdlg.cpp` | what waits is sent in the end; both ends end; a complete transfer closes the session |
| Jingle transports (`xmpp-im/jingle-ibb.cpp`, `jingle-s5b.cpp`, `jingle-ice.cpp`) | candidates, connections | prepare, start, replace, fail | in-band, SOCKS5 and ICE connections | both ends use one transport; crossing replacements resolved by the tie-break |
| STUN, TURN, ICE (`noncore/stuntransaction.cpp`, `stunallocate.cpp`, `turnclient.cpp`, `ice176.cpp`) | retransmission timers, permissions, channels, check lists | transmit, answer, refresh, check, nominate | UDP sockets, `ObjectSession` | transactions finish; both agents nominate one pair |
| `ObjectSession` (`iris/src/irisnet/corelib/objectsession.cpp`) | list of deferred calls | defer, reset, pause, resume | STUN, ICE | no call after a reset |
| Resolvers (`iris/src/irisnet/corelib/netnames.cpp`, `addressresolver.cpp`) | queries | start, stop, results | DNS | one result per query |
| `StunTransactionPool`, `StunTransactionPrivate` (`noncore/stuntransaction.cpp`) | per transaction: id, active, count of sends, timer, tries of authentication; per pool: transactions, credentials, realm, nonce | start, cancel, retransmit, take an answer, retry with credentials | datagrams, `StunBinding`, `StunAllocate`, `IceLocalTransport`, `TurnClient` | a transaction finishes once; a late answer is harmless; a success is signed |
| `PsiAccount` (`src/psiaccount.cpp`) | stream, reconnection back-off, status | login, logout, stream signals | everything above | an account comes back, and only when it should |
| Caps, event queue, file cache, SXE, history (`xmpp-im/xmpp_caps.cpp`, `src/psievent.cpp`, `src/filecache.cpp`, `src/sxe`, `src/edbflatfile.cpp`) | sequential data structures | insert, remove, merge, sync | the user interface | their own invariants |
| User interface, plugins, `3rdparty`, icon sets | - | - | - | not in scope |

How they interact: the socket and the timers call slots of `ClientStream`. Each
feeds the protocol and runs `processNext`, a loop that asks `processStep` for
one event at a time until it needs input. Events become writes to the socket,
signals to `Client` and `PsiAccount`, or a reset. Signal handlers may call
`write`, which runs `processNext` again inside the outer run. Above the stream a
request is a `Task`; `JT_IBB` is the one the in-band bytestream uses.

`PROJECT.json` lists the hazards this gives rise to, each at its line.

## 2. Modules

| Module | What it is |
|---|---|
| `OrderedDelivery` | abstract specification: items are delivered in the order sent, once, and confirmed only afterwards |
| `StreamManagement` | XEP-0198 as `sm.cpp`, `protocol.cpp`, `xmlprotocol.cpp` and `stream.cpp` implement it, with its server and its link; implements `OrderedDelivery` |
| `StreamManagement_proofs` | theorems about it: types, the client's stanzas, the refinement |
| `StreamManagementReceived_proofs` | theorems about the server's stanzas |
| `InBandBytestream` | XEP-0047 as `xmpp_ibb.cpp` implements it, both ends; each direction implements `OrderedDelivery` |
| `InBandBytestream_proofs` | theorems about it: types, and that it never stalls |
| `InBandBytestreamData_proofs` | theorems about the bytes of one direction, the refinement among them |
| `StunTransaction` | STUN requests of one pool as `stuntransaction.cpp` implements them, over a network that loses, delays, reorders and repeats datagrams |
| `StunTransaction_proofs` | theorems about it |
| `AccountSession` | how `psiaccount.cpp` keeps an account logged in: the stream, its late signals, the reconnection timers, the logout |
| `AccountSession_proofs` | theorems about it |
| `JingleSession` | a Jingle session that offers files, both ends, with users, transports and streams that may fail; `jingle-session.cpp` and the contents it drives |
| `JingleSession_proofs` | theorems about it |
| `MC...` | extended by TLC's runs; the `.cfg` files give the constants |

### StreamManagement

One action is one run of `processNext`, from the slot or call that triggers it
until it needs input. Such a run is atomic because nothing else runs meanwhile,
with the one exception that is modelled: the handler of `authenticated()`
writes, inside the loop (`RecvEnabled`).

| Action | Code |
|---|---|
| `Login` | `PsiAccount::login` makes a `ClientStream`, `connectToServer` |
| `LoginComplete` | `CoreProtocol::loginComplete`: `<resume/>` if there is an id, else `<enable/>` |
| `RecvEnabled`, `RecvResumed`, `RecvResumeFailed`, `RecvEnableFailed` | `normalStep`, step `GetSMResponse`, with `StreamManagement::start`, `resume` and what `processNext` does on `EReady` and `ESMResumeFailed` |
| `Write` | `ClientStream::write`, `CoreProtocol::sendStanza`, `BasicProtocol::doStep` |
| `BytesWritten`, `Noop` | `ss_bytesWritten`, `doNoop` |
| `RecvStanza`, `RecvRequest`, `RecvAck` | `ss_readyRead`, `streamManagementHandleStanza`, events `EStanzaReady` and `EAck` |
| `ConnectionClosed` | `bs_connectionClosed`, `cr_error`, `EPeerClosed`, `close()` |
| `Tick` | `lastAckElapsed()` reaches `SM_TIMER_INTERVAL_SECS` |
| `SettleTimer` (in the actions) | the end of `normalStep`: ask with `<r/>`, or, having asked, `ESMConnTimeout` |
| `LinkDies`, `Server...` | external: what the client's code expects of TCP and of a server |

`state`, `step`, `quiet_reconnection`, `sm` (the two flags of
`StreamManagement`), `waiting_answer`, `sm_stanzas_notify`, `received_count`,
`server_last_handled` and `send_queue` are the variables of the code. `due` is
the elapsed timer, reduced to whether the interval is over. `outData` is
`outDataNormal`, without what an `ESend` has flushed. `resumable` says whether
`resumption_id` is set. A stanza is its number in the session. The negotiation
before `loginComplete` is the single step `Login`-`LoginComplete`, and its
failures are `ConnectionClosed`. A live link delivers in order; a dead one
delivers a prefix of what it held; the server repeats after `<resume/>` what the
client's `h` says it lacks. `written`, `reported`, `received` and `losses` are
history.

### InBandBytestream

One action is one handler. `conn[e]` is the `IBBConnection` of end `e`; a field
has the name of the member of the code, but for `linked` (it is in
`IBBManager::activeConns`), `alive` (not yet deleted), `task` (the `JT_IBB` in
`d->j`), `timer` (a `singleShot` on `trySend` is pending) and `tasks`, which
counts ids. `TrySend`, `Reset`, `Closed` and `Succeeded` are `trySend`,
`resetConnection`, `close` and the success branch of `ibb_finished` as functions
from one connection to the next; actions apply them. IQs of one direction
arrive in order, because XMPP keeps the order between two entities.

`stream[e]` is what the `Client` of `e` has for a stream: an active one, one that
is not (connecting, logging in, broken or waiting to be resumed), or none, when
`hasStream()` is false. In the first case a request is sent; in the second
`Task::go` starts the task, `ClientStream::write` drops the stanza, and the
task's time-out ends the wait; in the third `go` deletes the task unstarted
(`xmpp_task.cpp:106-110`), `finished()` never comes, and `d->j` points to a
deleted task until the connection is reset. `refused[e]` is the id of that task:
`Live(e)` says that `d->j` is a task that will finish, `Dangling(e)` that it is
one that never will. What cuts the connection off and how it comes back:

| Action | Code |
|---|---|
| `StreamLost` | a stream breaks: `Client::streamError` emits `disconnected()`, which fails the task, or nothing does (`connectionClosed()`, a resumption) |
| `ClientClose` | `Client::close`: the stream goes, `disconnected()` fails the task |
| `ConnectToServer`, `Authenticated` | the `Client` gets another stream; it becomes active, or active again |
| `Crashes` | a handler deletes a dangling `d->j` a second time (`xmpp_ibb.cpp:83`), or rejects a request without a stream (`client.cpp:838`) |

The outcomes of the second deletion are that the handler goes on as if nothing
had happened, which is its ordinary action, and that the process ends, which is
`Crashes`; the null stream of a rejection leaves only the latter, so that
`CloseConnection` and `Destroy` are then not enabled (`RejectsOffline`). Each
loss keeps a prefix of the IQs under way in either direction (`IQsLost`).

Three constants say how the owner uses a connection: `Duplex` (both ends write),
`EarlyClose` (`close()` with the last block unanswered), `DestroysOpen` (deletion
before the stream has ended). The code forbids none of them. With all three
`FALSE` the promises below hold; each of them breaks one promise, which is a
finding.

### StunTransaction

One action is one slot, or one branch of `processIncoming`. Three uses of a pool
are modelled, by `auth` and `mode`: `Ice176` (short-term credentials: every
request is signed), `IceLocalTransport` (long-term, over UDP) and `TurnClient`
(long-term, over TCP, where a request is not retransmitted).

| Action | Code |
|---|---|
| `Start`, `Cancel`, `Delete` | `StunTransaction::start`, and the owner's `cancel()` and deletion |
| `Retransmit`, `TimesOut`, `TimesOutCancelled` | the branches of `t_timeout` |
| `RetryWithCredentials`, `NeedAuthParams`, `RetryStale`, `Ignore`, `Finish`, `AnswerCancelled` | the branches of `processIncoming`: 401 and 438, an answer that is passed over, success or error |
| `ContinueAfterParams` | `StunTransactionPool::continueAfterParams`, the deferred call after the parameters are set |
| `NewNonce`, `Given`, `Answers` | external: what a server may have answered to a request since it was sent |

`TryRequest` and `Ends` are the code's `tryRequest` and the removal from the
pool; the actions apply them. A nonce is the number of its issue, 0 for none.
`sent` keeps every request of a transaction with the nonce the server accepted
then (`since`). No datagram is stored: whatever the server can have answered to
a request since it was sent may arrive now, once, twice or never. `ignored` is
history: the answer to the latest request stopped the timer and was then passed
over.

### AccountSession

`account` is one record. A function of the code (`login`, `v_reset`,
`cleanupStream`, `setStatusActual`, ...) is a function from one record to the
next, and an action is a slot with all that it calls, so that the order of the
calls in the source is the order of composition. `ClientStream` emits
`connectionClosed` and `error` through queued connections and `authenticated`
and `warning` directly: the queued ones wait in `signals` and may outlive their
stream, which is what most of the properties are about.

| Action | Code |
|---|---|
| `SetStatus`, `ReconnectOnce`, `SetEnabled`, `DoWakeup`, `SetAutoAway`, `PresenceUpdate` | the slots of the same names; the last stands for every presence that keeps the status |
| `PasswordEntered`, `PasswordRefused` | the end of `passwordPrompt` |
| `Reconnect`, `ReconnectTimesOut`, `LogoutTimesOut` | `reconnect`, `reconnectTimerTimeout`, the slot of `logoutTimer` |
| `Authenticated`, `BadCertificate`, `NoTls` | `cs_authenticated`, `tls_handshaken`, `cs_warning`, called by the stream at once |
| `RosterSucceeds`, `RosterFails` | `client_rosterRequestFinished` |
| `Deliver` | `cs_error` or `cs_connectionClosed` for the first queued signal |
| `ReconnectsQuietly`, `Resumed`, `StreamError`, `StreamClosed`, `TlsReady` | external: a stream and its server |

`lapsed` is history. It becomes `TRUE` where the code leaves its own protocol:
a login while a reconnection waits, a late signal of a stream that is gone, a
reconnection time-out of an account that has ended, the failure of a roster
request made on a stream that is gone. The properties that say `~lapsed` hold
up to there; `DisconnectingEnds`, `OneRecovery` and `LogoutCompletes` hold
always.

### JingleSession

`party[e]` is the `Session::Private` of end `e` with its contents
(`party[e].app[c]`, an `Application` and its transport). A function of the code
(`planStep`, `terminate`, `unlist`, `finish`, ...) is a function from one party
to the next; an action is a slot with all it calls. The heart of the code is
that a party asks one thing at a time: `planStep` does nothing while an answer
is awaited (`asked`), and the answer's slot (`answered`) plans the step.

| Action | Code |
|---|---|
| `Initiate`, `Accept`, `Cancel` | `Session::initiate`, `accept`, `terminate`, from the buttons of `MultiFileTransferDlg` |
| `TransportReady`, `TransportFails` | `Transport::updated` and `failed`, `selectNextTransport` |
| `AcceptStream`, `RecvOpen`, `RecvOpened` | the in-band stream of a content: `IBB::Manager::handleIncoming`, `IBBConnection::accept`, `onConnectionConnected` |
| `Transferred`, `StreamFails` | `tryFinalizeIncoming`, `handleStreamFail` |
| `StepTerminates`, `StepOffers`, `StepGivesUp`, `StepReports`, `StepRemoves`, `StepIdles` | the branches of `doStep`, with `trySendSessionAcceptOrInitiate` and `evaluateOutgoingUpdate` |
| `RecvInitiate`, `RefuseInitiate`, `RecvUnknown`, `RecvAccept`, `RecvRemove`, `RecvInfo`, `RecvTerminate` | `JTPush::take` and the handlers it calls |
| `RecvAgreed`, `RecvRefused`, `RecvDone`, `RecvLate` | the slot of `JT::finished`, with the callback of each request |
| `Disconnect` | `Client::disconnected` at one end, and what its peer then sees: time-outs, and refusals by the server |

The initiator sends, the responder receives. Contents are offered when the
session starts, and their transport is the in-band stream, the last one there is
to try: where it fails the content is removed. Stanzas between two entities
arrive in order, because XMPP keeps that order. Answers that nobody waits for
(to `session-terminate`, refusals of a stream) are left out. A task whose answer
comes neither from the peer nor from the server times out; the model has that
only after a `Disconnect`, because a peer that is there answers.

## 3. Runs

| Run | Instance | Shows |
|---|---|---|
| `sm_main` | counters modulo 3, queue of 2, 4 stanzas out, 3 in, 2 losses; 501,039 states | the type invariant, the five safety properties of the stream, and that it implements `OrderedDelivery` |
| `sm_liveness` | 3 stanzas out, 1 in, 2 losses, fair; 41,610 states | an accepted stanza is handled in the end; a dead link with an unanswered `<r/>` is noticed |
| `sm_no_keepalive` | no keep-alive timer, fair | violation: the dead link is never noticed |
| `sm_coalesced` | `<enabled/>` and a stanza in one read | violation: the stanza is lost |
| `ibb_transfer` | one writer, 4 bytes in blocks of 2 or less, numbers modulo 2, one early time-out or lost stream with the offline period after it, fair; 82,284 states | bytes in order, true confirmations, orderly and completed close; no stall but behind a task that `go` refused |
| `ibb_both_ways` | both write 3 bytes in blocks of 1, so that a close can wait behind a block in the buffer, fair; 21,674 states | the refusal of a block stalls neither the transfer nor a close |
| `ibb_duplex`, `ibb_early_close`, `ibb_destroy` | one usage constant `TRUE` each | violations, see the findings |
| `stun_transaction` | 2 transactions of one pool, 2 sends each, 3 nonces, fair; 859,960 states | late and repeated answers are harmless, a retry makes progress, a success is signed, nobody is forgotten, every transaction ends |
| `account_session` | 2 streams, 2 waiting signals, 2 pending reconnections, 1 password prompt, fair; 199,823 states | one stream and it is the current one, a lost stream is reconnected, an inactive account holds nothing, offline stays offline, a logout completes |
| `jingle_session` | 2 contents, 1 failure of a transport, stream or client, fair; 34,008 states | a session never stalls with something to send, an end reaches the peer, a complete transfer closes the session at both ends |

Bounds and why they are enough. `W = 3` with a queue of 2 is the smallest
modulus that the queue leaves room for (`CounterAssumption`), so that every
count is ambiguous by one turn of the counter; four stanzas wrap it. The code's
thresholds (longer than 5, a multiple of 4) become 1 and 2, so that a queue of
two stanzas asks, and one of one does not. Two losses allow a resumption that
itself has to be resumed, or a false time-out followed by a death. Three stanzas
from the server wrap `received_count`. Four bytes make from two to four blocks,
full and partial, as the owner writes them, and the sequence number wraps. One
failure is enough for a stream to be lost at any point of the transfer, with or
without a task under way, for writes and closes while there is none, and for
what comes after a new login. With two sends a STUN transaction has a retransmission and a last
time-out; with three nonces the one of a retry can itself go stale, and two
transactions can each hold the other's older one. Two streams give one that is
gone and one that replaced it, two signals a late one before a current one, two
pending reconnections one that fires after another has already logged in. Two
contents are the least for one to fail, be removed or be reported while the
other goes on, and for the last one to differ from the first; one failure is
enough to have any one step of the exchange fail while the others succeed (two
failures, 195,179 states, show nothing more).
Deadlock is checked for the stream, where an idle account can always log
in; a finished bytestream, transaction or Jingle session really stops, and so
does an account that the user leaves alone, so their runs say `CHECK_DEADLOCK FALSE`.

Fairness. Weak fairness of the client's handlers says that the event loop
delivers what is readable, written or due. It is given to `Noop` only where the
account has keep-alive on (its guard), to `Tick` because time passes, and to
the server's answers because a working server answers. Nothing makes the
application write or the link die, and nothing makes a server refuse.
`EventuallyHandled` excepts the end of the session and `LoginStalled`: a
resumption whose own link dies has no timer in `ClientStream`. For the
bytestream each end's event loop is fair; writing, accepting, closing, losing a
stream and getting another are not: a task that was started and cannot be sent
times out. `EveryByteArrives` and `CloseCompletes` except the end whose `d->j`
dangles (section 4), and no other; `NeverStalled` excepts it too, if a stream has
been lost. A STUN transaction's timer and its deferred call are fair, because Qt fires
what is due, and no datagram is: `EveryTransactionEnds` holds although nothing
need ever arrive. An account's timers and its queued signals are fair, its user
and its server are not. In a Jingle session the step timer and the reading of
what has arrived are fair at both ends; users, transports, streams and
disconnections are not.

Each property has a mutant of the code that breaks it: for instance a
resumption that does not process `h` first (`HandledExactlyOnce`), a loop that
forgets to count (`QueueCoversUnhandled`), an `<r/>` that does not restart the
timer (`GivesUpOnlyUnanswered`), a sequence number that is not incremented
(`ConfirmedReceived`), a close that is not retried (`CloseCompletes`). They
stand next to the definition they mutate.

## 4. Findings

1. **Overdue acknowledgements are not noticed without keep-alive**
   (`xmpp-core/stream.cpp:1277`). `timeout_timer` is connected to `sm_timeout`
   in the server's constructor only.
2. **A stanza in the same read as `<enabled/>` is lost** (`stream.cpp:1005`).
   The roster request written in the handler of `authenticated()` makes an inner
   `processStep` take the stanza from the parser and return to send.
3. **Both directions of an in-band bytestream share one sequence number**
   (`xmpp-im/xmpp_ibb.cpp:209`). Blocks are acknowledged and then dropped.
4. **A close with the last block unanswered tells the peer nothing**
   (`xmpp_ibb.cpp:163`). The block in the task is not counted as pending.
5. **A connection deleted while open stays in `activeConns`**
   (`xmpp_ibb.cpp:95`). `FileTransfer` deletes it so after every sent file.

Seen while modelling, without a run of their own.

Stream: stanzas resent after
`<resumed/>` are left in the output buffer, because the event is `EReady` and
not `ESend` (`protocol.cpp:1744-1753`); the next write, `<r/>` or keep-alive
flushes them, which is why `EventuallyHandled` needs one of these. And
`<failed/>` in answer to `<enable/>` leaves the login waiting
(`protocol.cpp:1754-1761`).

In-band bytestream: a block, `<close/>` or `<open/>` that is due while the
`Client` has no stream is given to a task that `Task::go` deletes unstarted, with
a warning (`xmpp_task.cpp:106-110`). `d->j` stays set, so `trySend` returns at
`xmpp_ibb.cpp:272` for ever, also after the next login: buffered bytes are never
sent, a close is never completed, and nobody is told. `resetConnection` deletes
`d->j` once more (`xmpp_ibb.cpp:83`) when the owner closes or deletes the
connection or the peer closes it. `close()` of a request that waits to be
accepted rejects it with the namespace of a stream that need not exist
(`xmpp_ibb.cpp:494`, `client.cpp:838`).

STUN (`stuntransaction.cpp`): the timer is stopped before an unsigned answer is
passed over, so the transaction is neither finished nor retransmitted (387);
`EveryTransactionEnds` excepts these (`ignored`). It happens to the second of
two transactions told of the same stale nonce, and to a success without message
integrity once the pool has tried credentials. Two first requests that are both
answered 401 make the second fail. `needLongTermAuth` is never set, so the
assertions of `continueAfterParams` (631, 632) would fail if reached with it.
`cancel()` of an inactive transaction leaves it alive, where `stunbinding.cpp:75`
counts on its deleting itself. The pool's nonce can go back to an older one.

Account (`psiaccount.cpp`): an online status set during a logout is dropped,
although the comment near line 3212 says it is noted for a reconnection. A
login while a reconnection waits orphans a stream, whose later error ends the
current stream's tasks. A queued signal of an old stream ends the new one, and
a queued authentication error finds a null stream in `getErrorInfo` (2219). A
failed roster request leaves the reconnection time-out running, and so does
`cs_warning` (2077), which ends the account without `stopReconnect()`: the
time-out then reactivates it (`reconnectTimerTimeout`). A disabled account can
log in through `reconnectOnce`.

Jingle, what the model has and the properties except (`jingle-session.cpp`
unless named). The initiator opens the streams before it answers
`session-accept`, so the responder may have a connected content when the answer
comes; its callback puts that content from `Active` back to `Connecting`,
against the order of states in `jingle.h:94-107`. Such a content never sends
`<received/>` and the session stays open after the last byte (`TransferEnds`
excepts it). A refused `session-initiate` or `session-accept` only emits
`terminated()` (421-425): the object stays and the Manager no longer finds it
(`EndReachesPeer` excepts it). A content that fails while another is not ready
keeps the offer from ever being sent. A `content-remove` that crosses the
`session-accept` makes the whole acceptance fail. Several `<received/>` may be
sent in one `session-info`, and only the first is read (`jingle-ft.cpp:791`).
A stream that fails tells the peer nothing (`jingle-ft.cpp:207`). A
`content-remove` can go out before the `session-initiate`, without a session id.

Jingle, outside the model. `content-reject` and `transport-reject` are sent and
never handled. The initiator stays in `Connecting` after `session-accept`.
`finalizeTimer` is created and never started (`jingle-ft.cpp:228`), so a checksum
that is expected and does not come is waited for without end. A closed
connection with missing bytes counts as received (`jingle-ft.cpp:447`).

## 5. Proofs

`StreamManagement_proofs` proves for every value of the constants allowed by
the four assumptions of `StreamManagement` (above all `MaxQueue < W`: fewer
unacknowledged stanzas than the counter has values, 2^32 in the code):

| Theorem | States |
|---|---|
| `TypeCorrect` | `Spec => []TypeOK` |
| `Inductive` | `Spec => []IInv`, the inductive invariant |
| `ExactlyOnce` | `Spec => []HandledExactlyOnce` |
| `QueueCovers` | `Spec => []QueueCoversUnhandled` |
| `AckedHandled` | `Spec => []AckedOnlyIfHandled` |
| `DeliversInOrder` | `Spec => DeliveryInOrder`, the refinement of `OrderedDelivery` |
| `GivesUpUnanswered` | `Spec => GivesUpOnlyUnanswered` |

The argument. `HandledExactlyOnce` is not inductive: it says nothing of what is
on the wire. `IInv` adds that the elements in flight to the server form a chain
(`WireInv`): each stanza is the successor of the one before, the first continues
what the server has handled, and on a live link the last is where the client's
own wire position stands, after which `outData` continues (`BufferInv`). In the
other direction every `h` in flight lies between what the client has dequeued
and what the server has handled, and they never decrease (`CountInv`). The
queue's two ends are known exactly (`QueueCoversUnhandled`, `CounterInv`), so an
`h` is less than `W` ahead and a count modulo `W` determines it
(`AcknowledgementExact`, from `DistanceExact`): this is the step that makes
`processAcknowledgement` right. `PhaseInv` and `LoginInv` tie the control
variables together, and `ReportInv` bounds what is announced. `DeliversInOrder`
maps `sent`, `delivered` and `confirmed` to `written`, `handled` and
`written - Len(send_queue)`; `Write` and `RecvEnabled` send, `ServerRecv`
delivers, `RecvAck` and `RecvResumed` confirm, `Login` reopens, and every other
step stutters.

`StreamManagementReceived_proofs` proves the mirror of it, for the stanzas of
the server:

| Theorem | States |
|---|---|
| `ReceivesOnce` | `~Coalesced` gives `Spec => []ReceivedExactlyOnce` |

The hypothesis is needed: `SMCoalesced` shows the stanza that is lost when it is
read together with `<enabled/>`. The argument. The stanzas on their way to the
client continue without a gap those it has received (`Arrives`), and while a
link with a session works they are all that the server has sent (`Complete`).
After a resumption the server starts again from `srvAcked`, so `Complete` rests
on the `h` of `<resume/>` moving `srvAcked` to exactly what the client has
received: every count on its way to the server lies between the two
(`Answers`), and they differ by at most `MaxQueue < W`, so that the count modulo
`W` tells how far. Dead links only remove what is on the wire, and the client
forgets nothing that it has counted.

`StunTransaction_proofs` proves for any set of transactions and any bounds that
`LimitAssumption` allows:

| Theorem | States |
|---|---|
| `TypeCorrect` | `Spec => []TypeOK` |
| `PoolIsExact` | `Spec => []PoolHoldsLatest`: the pool knows a transaction exactly under its latest id |
| `LateAnswersAreHarmless` | `Spec => ToldAboutLatest`: what a transaction tells its owner is about its latest request |
| `LivingIsMoved` | `Spec => []NobodyForgotten`: a living transaction has a timer, a deferred call, or an answer that was passed over |
| `SignedSuccess` | `Spec => SuccessIsSigned` |
| `RetriesAreNew` | `Spec => RetriesMakeProgress`: a retry never repeats a request that was refused |

The argument (`Inductive`): a request is sent only by `TryRequest` and leaves
the pool only by `Ends`; both change the id, the timer and `sent` together.
`RetriesMakeProgress` and `SuccessIsSigned` need two facts that no property
states: the nonce a request carries is never newer than the server's when it
was sent (`Ages`), and `triedLongTermAuth` is set exactly when the pool has a
nonce (`Shape`), a transaction that waits for parameters having sent none.

`JingleSession_proofs` proves for any finite set of contents and any number of
failures:

| Theorem | States |
|---|---|
| `TypeCorrect` | `Spec => []TypeOK`, with `initialIncomingUnacceptedContent` always a part of `contentList` |
| `Inductive` | `Spec => []IInv`, the inductive invariant |
| `NeverStalls` | `Spec => []NeverStalled`: a session is never stuck with something to send |

The argument. `NeverStalled` counts what ends a wait and asks for a planned
step where there is none; neither half is inductive. `OneAnswer` relates what a
party has asked to both wires: at most one request of it or one answer to it is
under way, and one is while it waits. It is claimed only for a session that is
there: what a deleted one had asked is what `RecvLate` takes, and `RecvLate`
takes nothing else. `Planned` is kept by `planStep` in every slot that makes
something to say; where a slot plans nothing (a stream that connects or fails,
`<received/>`) it must make nothing to say, and for the receiver that holds
because no stream is opened before it has accepted (`InOrder`), so that before
the user answers contents fail only by their transports, whose signal plans the
step (`FailedEarly`). There is one lemma per action over a handful of frames:
`Answering`, `Replying`, `Ignoring`, `Asking`, `Saying` and `Alone` say what the
six ways to take or send a stanza do to `OneAnswer`.

`InBandBytestream_proofs` and `InBandBytestreamData_proofs` prove, for any block
size, any sequence space of at least two numbers, any number of bytes and any
number of failures, streams lost, closed and opened again included:

| Theorem | Hypotheses | States |
|---|---|---|
| `TypeCorrect` | | `Spec => []TypeOK` |
| `NothingStalls` | `~DestroysOpen` | `Spec => []NeverStalled`: who has something to send has a started task or a timer, or else a task that `go` refused, after the loss of a stream |
| `DeletedIsUnlinked` | `~DestroysOpen` | `Spec => []LinkedIsAlive` |
| `AnnouncedIsReceived` | `~Duplex` | `Spec => []ConfirmedReceived` |
| `StreamIsOrdered` | `~Duplex` | `Spec => DeliveryInOrder`, the refinement of `OrderedDelivery` |
| `CloseIsOrderly` | `~Duplex`, `~EarlyClose` | `Spec => []OrderlyClose` |

Each hypothesis is a use of the class that the code does not prevent and that
breaks the property: `IBBDestroy` (the owner deletes a connection that is in
use), `IBBDuplex` (both ends write) and `IBBEarlyClose` (the owner closes with a
block in flight) show how. A deleted connection keeps `closePending` and has no
task, which is why `NeverStalled` too asks for `~DestroysOpen`.

The argument. `TypeOK` is not inductive: an answer sets the state of a
connection by the task it answers, so that `Base` adds which fields go together
(`Shapes`), how far the opening is (`Opening`), and that an end has at most one
request under way, its task's, and no answer to it before it has arrived
(`Wires`). The handlers are all of one form (`Ordinary`): an end goes
on with another connection, sends some IQs and takes one or none. What an
ordinary step keeps is proved once. A loss of a stream is not ordinary: `Cuts`
says what it leaves of both connections and directions. `Livelies` adds that
whoever has something to send waits for a task or a timer, and `Faults` that a
`Client` without a stream, and so a task that is not started, takes a failure.

`Flow` accounts for each byte of a direction: it has been read, is in the one
block under way, or is in the buffer, in this order, and the length that the
sender's task remembers is that block's until its answer has come. That an
arriving block is the one that is expected needs the two `d->seq` to agree
(`Synced`), and they agree only while the other direction is silent (`OneWay`,
`Uncounted`): one counter serves both. `StreamIsOrdered` maps `sent`,
`delivered` and `confirmed` to `written`, `received` and `confirmed` of each
direction and reads each step off `Flow`. `Orderlies` adds what an answered
`<close/>` says of the end that answered.

`AccountSession_proofs` proves, for any set of streams and any bounds, without
hypotheses:

| Theorem | States |
|---|---|
| `TypeCorrect` | `Spec => []TypeOK` |
| `ActiveAccountsMoveOn` | `Spec => []ActiveIsAlive`: an active account has a stream, a signal or a timer that moves it on |
| `NoStreamIsLeft` | `Spec => []OneStream`: `login()` overwrites no living stream |
| `ReconnectionIsCalledOff` | `Spec => []ReconnectsWhileDown` |
| `InactiveIsEmpty` | `Spec => []InactiveHoldsNothing` |
| `PresenceWaitsForRoster` | `Spec => []PresenceAfterRoster` |
| `ReconnectsOnlyOnce` | `Spec => []ReconnectOnceIsOnce` |
| `DisconnectingIsWatched` | `Spec => []DisconnectingEnds` |
| `RecoveriesExclude` | `Spec => []OneRecovery` |
| `OfflineIsRespected` | `Spec => OfflineStaysOffline` |

The argument. Without a lapse (section 2) `AccountInv` has three parts:
`Streaming`, that only the account's own stream is at work and that a signal
still to come is that stream's end; `Flags`, which flags and timers exclude each
other; `Active`, that an active account is wanted online and moved on by
something. Each property follows from one of them and none is inductive alone:
that `login()` finds no stream needs that a pending reconnection or dialog
stands for an account that is down (`Flags`), and that needs that only the end
of its own stream reaches `cs_error` (`Streaming`). A slot is a composition of
functions on the account's record, with the invariant broken in between: one
lemma per function says what it may be called with and what it leaves.

Only model-checked. Every invariant and every action property of the passing
runs is a theorem. What stays with TLC is the liveness properties
(`EventuallyHandled`, `DeadLinkNoticed`, `EveryByteArrives`, `CloseCompletes`,
`EveryTransactionEnds`, `EndReachesPeer`, `TransferEnds`, `LogoutCompletes`):
they rest on fairness, which is defined by ENABLED and out of the prover's
reach. That the hypotheses above are needed is shown by the runs that expect a
violation.

## 6. Not modelled

TLS, SASL and compression, and the negotiation steps before `loginComplete`;
the server mode of `ClientStream`; the byte counts of `bytesWritten`; the
delayed announcement of received stanzas; the resumption location; in-band
blocks in message stanzas; of an account, the keychain path of
`cs_needAuthParams`, the certificate dialog nested in `tls_handshaken`, and what
has no part in keeping it connected (contacts, messages, privacy); of Jingle,
`transport-replace` and its tie-break, `content-add` within a session,
checksums, published sessions and the SOCKS5 and ICE transports; and the components that `PROJECT.json` lists as not
modelled, with the reason for each. A deleted `IBBConnection` found in
`activeConns` is undefined behaviour, and the model takes no step there. What a
second deletion of `d->j` does to the memory of its process beyond the two
outcomes of section 2 is not modelled either: it has no part in what the process
at the other end sees. Nothing is claimed about progress of an end whose `d->j`
dangles, because the code makes none.

## 7. Plan

1. `JingleTransport`: `transport-replace` from both ends at once and its
   tie-break (`jingle-session.cpp`, `jingle-application.cpp`), joined to
   `JingleSession`, whose contents then have more than one transport to try.
2. `TurnClient`, above `StunTransaction`: allocation, permissions, channels and
   their refresh, with calls deferred through `ObjectSession`.
3. `ClientLogin`: the steps of `normalStep` and the breakpoints of
   `ClientStream` (version warning, TLS, parameters) with their asynchronous
   answers and `close()` between them; below `AccountSession`, whose stream is
   now a handful of phases.
4. `FileTransfer`, composed with `InBandBytestream` for its `Destroy` and close.
5. `FileCache` as a sequential module: removal during iteration, registry before
   file.
6. Proofs: what `OrderedDelivery` itself promises (items delivered are those
   sent, in order, and confirmed after that), so that the refinements carry it;
   `NeverStalled` of an in-band stream for the connections that are alive,
   without `~DestroysOpen`; the type and safety theorems of the modules above.
