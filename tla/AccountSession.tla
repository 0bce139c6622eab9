--------------------------- MODULE AccountSession ---------------------------
(***************************************************************************)
(* How PsiAccount (src/psiaccount.cpp) keeps an account in the state its   *)
(* user wants: login, logout, automatic reconnection, "reconnect", the     *)
(* password dialog, and the events of the streams it opened.               *)
(*                                                                         *)
(* The account's flags and timers are one record, and a function of the    *)
(* code is a function on it; the event loop runs one slot at a time, so an *)
(* action is a slot with all it calls.  error and connectionClosed reach   *)
(* the account through the event queue, authenticated and warning do not.  *)
(* A stream that login() replaces without deleting it stays connected to   *)
(* the account's slots and goes on.                                        *)
(***************************************************************************)
EXTENDS Integers, Sequences

CONSTANTS
  Streams,      \* ClientStream objects, 1..n
  MaxSignals,   \* bound: queued signals not yet delivered
  MaxReconnects,\* bound: pending single shots of reconnect()
  MaxPrompts    \* bound: password dialogs open at the same time

ASSUME LimitAssumption == /\ Streams \subseteq Nat \ {0} /\ Streams # {}
                          /\ MaxSignals \in Nat \ {0} /\ MaxReconnects \in Nat \ {0}
                          /\ MaxPrompts \in Nat \ {0}

VARIABLES
  account,    \* see Accounts
  opt_reconn, \* the option of the same name
  canEncrypt  \* login() finds the TLS support that the account's options ask for

vars == <<account, opt_reconn, canEncrypt>>

options == <<opt_reconn, canEncrypt>>

-----------------------------------------------------------------------------
(***************************************************************************)
(* loginStatus and manualStatus: is the status an online one?  stream and  *)
(* client are d->stream of the account and of its Client, 0 for null.      *)
(* rosters: roster requests that are not finished; a "lost" one was made   *)
(* on a stream that is no longer the Client's, and can only time out.      *)
(* reconnectConnection: the slot connected by reconnectOnce; forgotten if  *)
(* it is still connected and its handle was overwritten.  A signal is      *)
(* stale when its stream has been deleted or replaced since.               *)
(***************************************************************************)
Phases == {"none", "connecting", "authenticated", "resuming", "ended"}

Signals == [err : {"lost", "fatal", "password", "closed"}, stale : BOOLEAN]

Accounts ==
  [opt_enabled : BOOLEAN, isActive : BOOLEAN, doReconnect : BOOLEAN,
   isDisconnecting : BOOLEAN, presenceSent : BOOLEAN, rosterDone : BOOLEAN, loginStatus : BOOLEAN,
   manualStatus : BOOLEAN, stream : Streams \union {0}, client : Streams \union {0},
   streams : [Streams -> Phases], rosters : SUBSET {"asked", "lost"},
   reconnects : 0..MaxReconnects, reconnectTimeout : BOOLEAN, logoutTimer : BOOLEAN,
   reconnectConnection : BOOLEAN, forgotten : BOOLEAN, prompts : 0..MaxPrompts,
   signals : Seq(Signals), lapsed : BOOLEAN]

Aged(sigs) == [i \in DOMAIN sigs |-> [sigs[i] EXCEPT !.stale = TRUE]]

loggedIn(a)    == a.isActive /\ a.presenceSent
isConnected(a) == a.stream # 0 /\ a.streams[a.stream] = "authenticated"

\* Streams nobody refers to any more, and that are still at work
Orphans(a) == {s \in Streams \ {a.stream} : a.streams[s] # "none"}

Free(a) == {s \in Streams : a.streams[s] = "none"}

newStream(a) ==
  LET s == CHOOSE s \in Free(a) : \A u \in Free(a) : s <= u
  IN [a EXCEPT !.stream = s, !.client = s, !.streams[s] = "connecting",
               !.isActive = TRUE, !.isDisconnecting = FALSE,
               !.signals = Aged(@), !.lapsed = @ \/ a.doReconnect]

\* Mutant: login() keeps what it knows of the last login's roster.
OpenedKeepsRoster(a) == newStream(a)

\* login(), past its early returns
Opened(a) == [newStream(a) EXCEPT !.rosterDone = FALSE, !.presenceSent = FALSE]

login(a) == IF (a.isActive /\ ~a.doReconnect) \/ ~canEncrypt THEN a ELSE Opened(a)

\* cleanupStream deletes the stream; the Client's pointer to it becomes null.
cleanupStream(a) ==
  IF a.stream = 0 THEN a
  ELSE [a EXCEPT !.stream = 0, !.streams[a.stream] = "none",
                 !.client = IF @ = a.stream THEN 0 ELSE @,
                 !.signals = Aged(@),
                 !.rosters = IF a.client = a.stream /\ @ # {} THEN {"lost"} ELSE @]

\* Client::close: its tasks end unanswered, and they do not say so.
clientClose(a) ==
  [a EXCEPT !.client = 0, !.rosters = {},
            !.streams = [s \in Streams |-> IF s = a.client THEN "ended" ELSE @[s]]]

\* Mutant: the single shot is started twice.
startReconnectTwice(a) ==
  [a EXCEPT !.reconnectTimeout = FALSE, !.doReconnect = TRUE, !.reconnects = @ + 2]

\* Mutant: the timeout of the last attempt is left running.
startReconnectKeepsTimeout(a) == [a EXCEPT !.doReconnect = TRUE, !.reconnects = @ + 1]

startReconnect(a) ==
  [a EXCEPT !.reconnectTimeout = FALSE, !.doReconnect = TRUE, !.reconnects = @ + 1]

stopReconnect(a) == [a EXCEPT !.reconnectTimeout = FALSE, !.doReconnect = FALSE]

\* setStatusDirect and setStatusActual with an online status or not
setStatusDirect(a, online) ==
  [a EXCEPT !.reconnectConnection = FALSE, !.presenceSent = TRUE, !.loginStatus = online]

\* Mutant: the old stream is replaced and not deleted.
setStatusActiveKeepsStream(a) ==
  LET b == IF isConnected(a) THEN a ELSE login([a EXCEPT !.isActive = FALSE])
  IN IF b.rosterDone THEN setStatusDirect(b, TRUE) ELSE b

\* setStatus of an online status on an active account
setStatusActive(a) ==
  LET b == IF isConnected(a) THEN a ELSE login([cleanupStream(a) EXCEPT !.isActive = FALSE])
  IN IF b.rosterDone THEN setStatusDirect(b, TRUE) ELSE b

logoutBegins(a) ==
  [stopReconnect(a) EXCEPT !.isDisconnecting = TRUE, !.isActive = FALSE, !.loginStatus = FALSE]

\* The slot of reconnectOnce, on an account whose stream is gone: the status
\* that the user chose last.
reconnectOnceSlot(a) ==
  LET b == [a EXCEPT !.reconnectConnection = FALSE, !.isDisconnecting = FALSE,
                     !.loginStatus = a.manualStatus]
  IN CASE a.manualStatus /\ a.isActive         -> setStatusActive(b)
       [] a.manualStatus /\ ~a.isActive        -> login(b)
       [] ~a.manualStatus /\ loggedIn(a)       -> [logoutBegins(b) EXCEPT !.logoutTimer = TRUE]
       [] ~a.manualStatus /\ ~loggedIn(a) /\ a.isActive ->
            [logoutBegins(clientClose(b)) EXCEPT !.isDisconnecting = FALSE]
       [] OTHER                               -> b

\* Mutant: the slot stays connected.
disconnectedKeepsSlot(a) ==
  IF a.reconnectConnection \/ a.forgotten
  THEN [reconnectOnceSlot(a) EXCEPT !.reconnectConnection = a.reconnectConnection] ELSE a

\* Mutant: the slot logs in, whatever the user chose meanwhile.
disconnectedLogsIn(a) ==
  IF a.reconnectConnection \/ a.forgotten
  THEN login([a EXCEPT !.reconnectConnection = FALSE, !.isDisconnecting = FALSE]) ELSE a

\* emit disconnected()
disconnected(a) == IF a.reconnectConnection \/ a.forgotten THEN reconnectOnceSlot(a) ELSE a

\* Mutant: logoutTimer is not stopped.
finishLogoutKeepsTimer(a) == disconnected([cleanupStream(a) EXCEPT !.isDisconnecting = FALSE])

finishLogout(a) ==
  disconnected([cleanupStream(a) EXCEPT !.logoutTimer = FALSE, !.isDisconnecting = FALSE])

\* Mutant: a reconnection that waits is not called off.
logoutKeepsReconnect(a) ==
  LET b == [a EXCEPT !.isDisconnecting = TRUE, !.isActive = FALSE, !.loginStatus = FALSE]
  IN CASE ~a.isActive                -> a
       [] a.isActive /\ loggedIn(a)  -> [b EXCEPT !.logoutTimer = TRUE]
       [] a.isActive /\ ~loggedIn(a) -> finishLogout(clientClose(b))

logout(a) ==
  CASE ~a.isActive                -> a
    [] a.isActive /\ loggedIn(a)  -> [logoutBegins(a) EXCEPT !.logoutTimer = TRUE]
    [] a.isActive /\ ~loggedIn(a) -> finishLogout(clientClose(logoutBegins(a)))

setStatus(a, online) ==
  LET b == [a EXCEPT !.loginStatus = online, !.manualStatus = online]
  IN CASE ~online                                            -> logout(b)
       [] online /\ b.isDisconnecting                        -> b
       [] online /\ ~b.isDisconnecting /\ ~b.isActive        -> login(b)
       [] online /\ ~b.isDisconnecting /\ b.isActive         -> setStatusActive(b)

\* Mutant: isDisconnecting is not reset.
gaveUpDisconnecting(a) ==
  disconnected([a EXCEPT !.isActive = FALSE, !.loginStatus = FALSE, !.isDisconnecting = TRUE])

\* The end of cs_error
gaveUp(a) ==
  [disconnected([a EXCEPT !.isActive = FALSE, !.loginStatus = FALSE,
                          !.isDisconnecting = TRUE]) EXCEPT !.isDisconnecting = FALSE]

\* cs_error.  getErrorInfo tells which errors are worth another try: "lost";
\* a wrong "password", which is asked for; and "fatal" ones.
cs_error(a, err) ==
  LET b == [cleanupStream(clientClose(a)) EXCEPT !.presenceSent = FALSE]
  IN CASE ~a.isActive -> a
       [] a.isActive /\ err = "lost" /\ opt_reconn ->
            startReconnect([b EXCEPT !.isDisconnecting = FALSE])
       [] a.isActive /\ err = "password" ->
            [b EXCEPT !.isActive = FALSE, !.isDisconnecting = TRUE, !.prompts = @ + 1]
       [] OTHER -> gaveUp(b)

\* Mutant: a closed connection always ends a logout.
cs_connectionClosedEnds(a) == finishLogout(a)

cs_connectionClosed(a) == IF a.isDisconnecting THEN finishLogout(a) ELSE cs_error(a, "lost")

\* client_rosterRequestFinished
rosterFinished(a, success) ==
  LET b == IF success THEN stopReconnect(a) ELSE a
  IN setStatusDirect([b EXCEPT !.rosterDone = TRUE], a.loginStatus)

-----------------------------------------------------------------------------
Init ==
  /\ account =
       [opt_enabled |-> TRUE, isActive |-> FALSE, doReconnect |-> FALSE, isDisconnecting |-> FALSE,
        presenceSent |-> FALSE, rosterDone |-> FALSE, loginStatus |-> FALSE,
        manualStatus |-> FALSE, stream |-> 0, client |-> 0,
        streams |-> [s \in Streams |-> "none"], rosters |-> {},
        reconnects |-> 0, reconnectTimeout |-> FALSE, logoutTimer |-> FALSE,
        reconnectConnection |-> FALSE, forgotten |-> FALSE, prompts |-> 0,
        signals |-> <<>>, lapsed |-> FALSE]
  /\ opt_reconn \in BOOLEAN /\ canEncrypt \in BOOLEAN

\* Every slot that may open a stream or start a timer finds room for them.
Room == Free(account) # {} /\ account.reconnects < MaxReconnects

Slot(a) == account' = a /\ UNCHANGED options

-----------------------------------------------------------------------------
(* The user, who is shut out while the password dialog is open.              *)
SetStatus ==
  /\ account.prompts = 0 /\ account.opt_enabled /\ Room
  /\ \E online \in BOOLEAN : Slot(setStatus(account, online))

ReconnectOnce ==
  /\ account.prompts = 0 /\ account.opt_enabled /\ Room
  /\ account.isActive /\ ~account.reconnectConnection
  /\ Slot(logout([account EXCEPT !.reconnectConnection = TRUE]))

\* setEnabled; the user agrees to log out.
SetEnabled ==
  /\ account.prompts = 0 /\ Room
  /\ Slot([(IF account.opt_enabled THEN logout(account) ELSE account)
             EXCEPT !.opt_enabled = ~account.opt_enabled])

\* passwordPrompt returns.
PasswordEntered ==
  /\ account.prompts > 0 /\ Room
  /\ Slot(login([account EXCEPT !.prompts = @ - 1, !.isDisconnecting = FALSE]))

PasswordRefused ==
  /\ account.prompts > 0 /\ Room
  /\ Slot(gaveUp([account EXCEPT !.prompts = @ - 1]))

\* doWakeup after the computer slept, for the accounts that are enabled
DoWakeup ==
  /\ account.opt_enabled /\ Room
  /\ Slot(setStatus(cleanupStream(account), TRUE))

\* setAutoAway while isAvailable()
SetAutoAway ==
  /\ loggedIn(account) /\ isConnected(account) /\ ~account.isDisconnecting
  /\ \E online \in BOOLEAN : Slot(setStatusDirect(account, online))

\* The presence changed in other ways: vcardPhotoUpdate, updateFeatures
PresenceUpdate ==
  /\ account.presenceSent
  /\ Slot(setStatusDirect(account, account.loginStatus))

-----------------------------------------------------------------------------
(* Timers.                                                                   *)

\* reconnect(), a single shot of startReconnect
Reconnect ==
  LET a == [account EXCEPT !.reconnects = @ - 1]
  IN /\ account.reconnects > 0 /\ Free(account) # {}
     /\ IF a.doReconnect /\ ~isConnected(a)
        THEN Slot(login([a EXCEPT !.isActive = FALSE, !.doReconnect = FALSE,
                                  !.reconnectTimeout = TRUE]))
        ELSE Slot(a)

\* reconnectTimerTimeout
ReconnectTimesOut ==
  /\ account.reconnectTimeout /\ Room
  /\ Slot(cs_error([account EXCEPT !.reconnectTimeout = FALSE, !.isActive = TRUE,
                                   !.lapsed = @ \/ ~account.isActive], "lost"))

\* Mutant: the account waits for the stream to say that it is closed.
LogoutTimesOutWaits ==
  /\ account.logoutTimer /\ Room
  /\ Slot([clientClose(account) EXCEPT !.logoutTimer = FALSE])

\* The slot of logoutTimer
LogoutTimesOut ==
  /\ account.logoutTimer /\ Room
  /\ Slot(finishLogout(clientClose(account)))

-----------------------------------------------------------------------------
(* The streams, and what they tell the account at once.                      *)
Phase(s, p) == [account EXCEPT !.streams[s] = p]

\* authenticated: cs_authenticated, which asks for the roster.  It looks at
\* the account's stream, not at the one the signal is from.
Authenticated(s) ==
  LET a == Phase(s, "authenticated")
  IN /\ account.streams[s] = "connecting" /\ Room
     /\ IF a.stream = 0
        THEN Slot(cs_error(a, "lost"))
        ELSE Slot([a EXCEPT !.forgotten = @ \/ a.reconnectConnection,
                            !.reconnectConnection = FALSE,
                            !.rosters = @ \union {IF s = a.client THEN "asked" ELSE "lost"}])

\* The connection died and stream management resumes the session quietly.
ReconnectsQuietly(s) ==
  /\ account.streams[s] = "authenticated" /\ Slot(Phase(s, "resuming"))

Resumed(s) == account.streams[s] = "resuming" /\ Slot(Phase(s, "authenticated"))

\* tls_handshaken finds a bad certificate.
BadCertificate(s) ==
  /\ account.streams[s] = "connecting" /\ Room
  /\ Slot(logout(account))

\* cs_warning: no TLS, and the account requires it.
NoTls(s) ==
  /\ account.streams[s] = "connecting" /\ Room
  /\ Slot(disconnected([cleanupStream(clientClose(account))
                          EXCEPT !.isActive = FALSE, !.loginStatus = FALSE]))

\* An ended stream that is the account's stays until the account deletes it.
End(s) == Phase(s, IF s = account.stream THEN "ended" ELSE "none")

\* A signal of stream s is put into the event queue.
Queues(a, s, err) ==
  /\ Len(account.signals) < MaxSignals
  /\ Slot([a EXCEPT !.signals = Append(@, [err |-> err, stale |-> s # a.stream])])

\* ClientStream::error, queued for the account; Client::streamError, at once,
\* ends the tasks, whichever stream it is.
StreamError(s) ==
  /\ account.streams[s] \in {"connecting", "authenticated", "resuming"}
  /\ \E err \in {"lost", "fatal"}
                  \union IF account.streams[s] = "connecting" THEN {"password"} ELSE {} :
       Queues([End(s) EXCEPT !.rosters = {}], s, err)

\* ClientStream::connectionClosed, queued
StreamClosed(s) ==
  /\ account.streams[s] \in {"connecting", "authenticated", "resuming"}
  /\ Queues(End(s), s, "closed")

\* The answer to the roster request
RosterSucceeds ==
  /\ "asked" \in account.rosters /\ account.client # 0
  /\ account.streams[account.client] = "authenticated"
  /\ Slot(rosterFinished([account EXCEPT !.rosters = @ \ {"asked"}], TRUE))

\* An error, or no answer in time
RosterFails ==
  \E r \in account.rosters :
    Slot(rosterFinished([account EXCEPT !.rosters = @ \ {r},
           !.lapsed = @ \/ r = "lost"], FALSE))

-----------------------------------------------------------------------------
(* The event queue.                                                          *)
\* getErrorInfo asks the stream about a wrong password: without one it
\* dereferences a null pointer, and no step is modelled for it.
Crashes(err) == account.isActive /\ err = "password" /\ account.stream = 0

Deliver ==
  /\ account.signals # <<>> /\ Room
  /\ LET sig == Head(account.signals)
         a   == [account EXCEPT !.signals = Tail(@),
                                !.lapsed = @ \/ sig.stale]
     IN /\ ~Crashes(sig.err)
        /\ sig.err = "password" => account.prompts < MaxPrompts
        /\ Slot(IF sig.err = "closed" THEN cs_connectionClosed(a) ELSE cs_error(a, sig.err))

\* The key stores are no longer busy.
TlsReady == ~canEncrypt /\ canEncrypt' = TRUE /\ UNCHANGED <<account, opt_reconn>>

User   == SetStatus \/ ReconnectOnce \/ SetEnabled \/ DoWakeup
Prompt == PasswordEntered \/ PasswordRefused

Stream(s) == \/ Authenticated(s) \/ ReconnectsQuietly(s) \/ Resumed(s)
             \/ BadCertificate(s) \/ NoTls(s) \/ StreamError(s) \/ StreamClosed(s)

Next == \/ User \/ Prompt \/ SetAutoAway \/ PresenceUpdate
        \/ Reconnect \/ ReconnectTimesOut \/ LogoutTimesOut
        \/ \E s \in Streams : Stream(s)
        \/ RosterSucceeds \/ RosterFails
        \/ Deliver \/ TlsReady

Spec == Init /\ [][Next]_vars

(* The event loop delivers signals and fires timers.                         *)
FairSpec == /\ Spec
            /\ WF_vars(Reconnect) /\ WF_vars(ReconnectTimesOut) /\ WF_vars(LogoutTimesOut)
            /\ WF_vars(Deliver)

-----------------------------------------------------------------------------
(* Every variable has its type.                                              *)
TypeOK ==
  /\ account \in Accounts
  /\ opt_reconn \in BOOLEAN /\ canEncrypt \in BOOLEAN

(***************************************************************************)
(* The rest holds until a lapse.  lapsed records the four things after     *)
(* which the code keeps no promise: a login while a reconnection waits for *)
(* its turn; a signal of a stream that is gone; the reconnection's timeout *)
(* on an account that has ended; the failure of a roster request made on a *)
(* stream that is gone.                                                    *)
(***************************************************************************)

(* An active account has something that will move it on: a stream at work,   *)
(* a signal to come, a reconnection or its timeout.  It never shows          *)
(* "connecting" for ever with nothing under way.                             *)
ActiveIsAlive ==
  ~account.lapsed /\ account.isActive =>
    \/ account.stream # 0 /\ account.streams[account.stream] # "ended"
    \/ account.signals # <<>>
    \/ account.doReconnect /\ account.reconnects > 0
    \/ account.reconnectTimeout

(* login() replaces d->stream without looking at it: no connection is left   *)
(* behind that nobody will close, and whose signals reach the account.       *)
OneStream == ~account.lapsed => Orphans(account) = {}

(* A reconnection waits only on an active account that has no stream: what   *)
(* the user does in between (logout, disable, status) calls it off.          *)
ReconnectsWhileDown ==
  ~account.lapsed /\ account.doReconnect => account.isActive /\ account.stream = 0

(* An account that is neither active nor logging out holds no stream, and no *)
(* logoutTimer that would close the next login.                              *)
InactiveHoldsNothing ==
  ~account.lapsed /\ ~account.isDisconnecting =>
    ~account.logoutTimer /\ (account.isActive \/ account.stream = 0)

(* Presence is sent only after this login's roster, on a stream that is      *)
(* authenticated: a status change does not go by the last login's roster.    *)
PresenceAfterRoster ==
  ~account.lapsed /\ loggedIn(account) =>
    /\ account.rosterDone /\ account.stream # 0
    /\ account.streams[account.stream] # "connecting"

(* reconnectOnce logs in again once: its slot is disconnected by the time    *)
(* the new stream authenticates and the handle is overwritten.               *)
ReconnectOnceIsOnce == ~account.lapsed => ~account.forgotten

(* The user's "offline" is respected: no stream is opened after it, by a     *)
(* reconnection, a timer, a late signal or reconnectOnce.                    *)
Opens(s) == account.streams[s] = "none" /\ account'.streams[s] = "connecting"

OfflineStaysOffline ==
  [][~account'.lapsed /\ (\E s \in Streams : Opens(s)) => account'.manualStatus]_vars

-----------------------------------------------------------------------------
(* With or without a lapse.                                                  *)

(* While isDisconnecting is set every online status is refused.  Something   *)
(* that will clear it is always under way: logoutTimer or a password dialog. *)
DisconnectingEnds == account.isDisconnecting => account.logoutTimer \/ account.prompts > 0

(* One recovery at a time: the pause before a reconnection and the timeout   *)
(* of the last one do not run together.                                      *)
OneRecovery == ~(account.doReconnect /\ account.reconnectTimeout)

(* A logout ends, though the server never answers and the stream never says  *)
(* that it is closed; it can wait only for the user's password.              *)
LogoutCompletes == account.isDisconnecting ~> (~account.isDisconnecting \/ account.prompts > 0)
=============================================================================
