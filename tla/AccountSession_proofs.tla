------------------------ MODULE AccountSession_proofs ------------------------
(***************************************************************************)
(* Theorems about AccountSession, for any set of streams and any bounds:   *)
(* every invariant of its run, and that no step logs in against the user's *)
(* wish.                                                                   *)
(*                                                                         *)
(* The argument.  AccountInv says of the account's record what every slot  *)
(* may rely on.  Without a lapse (Promise) it has three parts: Streaming,  *)
(* that only the account's own stream is at work and that a signal still   *)
(* to come is that stream's end; Flags, which flags and timers exclude     *)
(* each other; and Active, that an active account is wanted online and is  *)
(* moved on by something.  Each run-time property is a consequence of one  *)
(* of them, but none is inductive alone: that login() finds no stream      *)
(* (OneStream) needs that a password dialog and a pending reconnection     *)
(* stand for an account that is down (Flags); that they do needs that only *)
(* the end of the account's stream reaches cs_error (Streaming); and that  *)
(* a slot of reconnectOnce is disconnected in time needs that presence is  *)
(* sent by this login's roster (Active).                                   *)
(*                                                                         *)
(* A slot is a chain of functions on the record, and in the middle of it   *)
(* the promise is broken.  A lemma for each function says what it needs    *)
(* (Down, Over, Ready, Steady) and that it leaves a Good record; a step is *)
(* then the composition of two or three of them.                           *)
(***************************************************************************)
EXTENDS AccountSession, WellFoundedInduction, TLAPS

-----------------------------------------------------------------------------
(***************************************************************************)
(* The invariant.                                                          *)
(***************************************************************************)

(* A record is well formed: the Client's stream is the account's or none,    *)
(* the account's stream is not a deleted one, and the two timers of a        *)
(* reconnection exclude each other.                                          *)
Sane(a) ==
  /\ a \in Accounts
  /\ a.client \in {0, a.stream}
  /\ a.stream # 0 => a.streams[a.stream] # "none"
  /\ ~(a.doReconnect /\ a.reconnectTimeout)

(* isDisconnecting has somebody who clears it.                               *)
Ending(a) == a.isDisconnecting => a.logoutTimer \/ a.prompts > 0

(* Before TLS is ready no login has got anywhere.                            *)
Untouched(a) ==
  /\ ~a.isActive /\ ~a.doReconnect /\ ~a.isDisconnecting /\ ~a.presenceSent /\ ~a.rosterDone
  /\ a.stream = 0 /\ a.rosters = {} /\ a.signals = <<>> /\ a.reconnects = 0
  /\ ~a.reconnectTimeout /\ ~a.logoutTimer /\ ~a.reconnectConnection /\ a.prompts = 0
  /\ \A s \in Streams : a.streams[s] = "none"

(* What the account and its stream promise until a lapse, whether or not the *)
(* account is active: no stream is left behind, and a signal that is not     *)
(* stale is from a stream that has ended.                                    *)
Streaming(a) ==
  /\ \A s \in Streams : s # a.stream => a.streams[s] = "none"
  /\ "asked" \in a.rosters => a.client # 0 /\ a.streams[a.client] # "connecting"
  /\ \A i \in 1..Len(a.signals) :
       ~a.signals[i].stale => a.stream # 0 /\ a.streams[a.stream] = "ended"

(* The flags exclude each other: a logout is timed until it ends, a password *)
(* dialog stands for an account that is down, reconnectOnce waits for the    *)
(* end of a logout.                                                          *)
Flags(a) ==
  /\ a.doReconnect => a.isActive /\ a.stream = 0
  /\ a.isDisconnecting => ~a.isActive
  /\ ~a.isDisconnecting /\ ~a.isActive => a.stream = 0
  /\ a.logoutTimer => /\ a.isDisconnecting /\ a.prompts = 0
                      /\ a.stream # 0 => a.streams[a.stream] # "connecting"
  /\ a.prompts > 0 => /\ a.isDisconnecting /\ a.stream = 0 /\ a.prompts = 1
                      /\ ~a.presenceSent /\ a.manualStatus
  /\ a.reconnectConnection => a.logoutTimer
  /\ ~a.forgotten

(* Something will move an active account on.                                 *)
Alive(a) == \/ a.stream # 0 /\ a.streams[a.stream] # "ended"
            \/ a.signals # <<>>
            \/ a.doReconnect /\ a.reconnects > 0
            \/ a.reconnectTimeout

(* Presence goes by the roster of this login.                                *)
Present(a) == a.presenceSent => /\ a.rosterDone /\ a.stream # 0
                                /\ a.streams[a.stream] # "connecting"

(* An active account is wanted online, is moved on by something, and sends   *)
(* presence by the roster of this login.                                     *)
Active(a) == a.isActive => a.manualStatus /\ Alive(a) /\ Present(a)

Promise(a) == Streaming(a) /\ Flags(a) /\ Active(a)

Kept(a) == ~a.lapsed => Promise(a)

AccountInv == /\ Sane(account) /\ Ending(account) /\ Kept(account)
              /\ ~canEncrypt => Untouched(account)
              /\ opt_reconn \in BOOLEAN /\ canEncrypt \in BOOLEAN

-----------------------------------------------------------------------------
(***************************************************************************)
(* Lemmas about the functions on the account's record.                     *)
(***************************************************************************)

(* A set of naturals that is not empty has a least element.                  *)
LEMMA LeastNatural ==
  ASSUME NEW S \in SUBSET Nat, S # {}
  PROVE  \E s \in S : \A u \in S : s <= u
<1>1. PICK s \in S : \A u \in S : ~ (<<u, s>> \in OpToRel(<, Nat))
  BY NatLessThanWellFounded, WFMin, Zenon
<1>2. \A u \in S : ~(u < s)
  BY <1>1 DEF OpToRel
<1> QED BY <1>2

(* Aged keeps the queue and makes all of it stale.                           *)
LEMMA AgedIsStale ==
  ASSUME NEW sigs \in Seq(Signals)
  PROVE  /\ Aged(sigs) \in Seq(Signals) /\ Len(Aged(sigs)) = Len(sigs)
         /\ \A i \in 1..Len(Aged(sigs)) : Aged(sigs)[i].stale
<1>1. DOMAIN sigs = 1..Len(sigs) /\ \A i \in 1..Len(sigs) : sigs[i] \in Signals
  OBVIOUS
<1>2. ASSUME NEW g \in Signals
      PROVE  [g EXCEPT !.stale = TRUE] \in Signals /\ [g EXCEPT !.stale = TRUE].stale
  BY DEF Signals
<1>3. Aged(sigs) = [i \in 1..Len(sigs) |-> [sigs[i] EXCEPT !.stale = TRUE]]
  BY <1>1 DEF Aged
<1>4. Aged(sigs) \in [1..Len(sigs) -> Signals]
  BY <1>1, <1>2, <1>3
<1>5. Aged(sigs) \in Seq(Signals) /\ Len(Aged(sigs)) = Len(sigs)
  <2>1. Len(sigs) \in Nat
    OBVIOUS
  <2> QED BY <1>4, <2>1
<1> QED BY <1>1, <1>2, <1>3, <1>5

(* The timers, the dialogs and the user's wish are the same in a and b.      *)
Keeps(a, b) ==
  /\ b.doReconnect = a.doReconnect /\ b.reconnects = a.reconnects
  /\ b.reconnectTimeout = a.reconnectTimeout /\ b.logoutTimer = a.logoutTimer
  /\ b.reconnectConnection = a.reconnectConnection /\ b.forgotten = a.forgotten
  /\ b.prompts = a.prompts /\ b.manualStatus = a.manualStatus
  /\ b.loginStatus = a.loginStatus /\ b.opt_enabled = a.opt_enabled

(* A login that goes past its early returns puts a stream that was free at   *)
(* the account, forgets the last login and makes old signals stale.          *)
LEMMA OpenedFields ==
  ASSUME NEW a, Sane(a), Free(a) # {}
  PROVE  LET b == Opened(a)
         IN /\ Sane(b) /\ Keeps(a, b)
            /\ \E s \in Free(a) : /\ b.stream = s /\ b.client = s
                                  /\ b.streams = [a.streams EXCEPT ![s] = "connecting"]
            /\ b.isActive /\ ~b.isDisconnecting /\ ~b.rosterDone /\ ~b.presenceSent
            /\ b.rosters = a.rosters /\ b.signals = Aged(a.signals)
            /\ b.lapsed = (a.lapsed \/ a.doReconnect)
<1> DEFINE s == CHOOSE x \in Free(a) : \A u \in Free(a) : x <= u
           si == Aged(a.signals)
           la == a.lapsed \/ a.doReconnect
           st == [a.streams EXCEPT ![s] = "connecting"]
<1>1. Free(a) \in SUBSET Nat
  BY LimitAssumption DEF Free
<1>2. \E x \in Free(a) : \A u \in Free(a) : x <= u
  BY <1>1, LeastNatural
<1>3. s \in Free(a)
  BY <1>2
<1>4. a \in Accounts
  BY DEF Sane
<1>5. Opened(a) = [a EXCEPT !.stream = s, !.client = s, !.streams = st, !.isActive = TRUE,
                            !.isDisconnecting = FALSE, !.signals = si, !.lapsed = la,
                            !.rosterDone = FALSE, !.presenceSent = FALSE]
  BY <1>4 DEF Opened, newStream, Accounts
<1>6. s \in Streams /\ s # 0 /\ si \in Seq(Signals) /\ la \in BOOLEAN
  BY <1>3, <1>4, AgedIsStale, LimitAssumption DEF Free, Accounts
<1>7. st \in [Streams -> Phases] /\ st[s] # "none"
  BY <1>4, <1>6 DEF Accounts, Phases
<1> HIDE DEF s, si, la, st
<1>8. Opened(a) \in Accounts
  <2> DEFINE x == [a EXCEPT !.stream = s, !.client = s, !.streams = st, !.isActive = TRUE,
                            !.isDisconnecting = FALSE]
             y == [x EXCEPT !.signals = si, !.lapsed = la]
  <2>1. x \in Accounts
    BY <1>4, <1>6, <1>7 DEF Accounts
  <2>2. Opened(a) = [y EXCEPT !.rosterDone = FALSE, !.presenceSent = FALSE]
    BY <1>4, <1>5 DEF Accounts
  <2> HIDE DEF x
  <2>3. y \in Accounts
    BY <1>6, <2>1 DEF Accounts
  <2> HIDE DEF y
  <2> QED BY <2>2, <2>3 DEF Accounts
<1>9. Keeps(a, Opened(a))
  BY <1>4, <1>5 DEF Accounts, Keeps
<1>10. /\ Opened(a).stream = s /\ Opened(a).client = s /\ Opened(a).streams = st
       /\ Opened(a).isActive /\ ~Opened(a).isDisconnecting
       /\ ~Opened(a).rosterDone /\ ~Opened(a).presenceSent
       /\ Opened(a).rosters = a.rosters /\ Opened(a).signals = si /\ Opened(a).lapsed = la
       /\ Opened(a).doReconnect = a.doReconnect
       /\ Opened(a).reconnectTimeout = a.reconnectTimeout
  BY <1>4, <1>5 DEF Accounts
<1>11. Sane(Opened(a))
  BY <1>7, <1>8, <1>10 DEF Sane
<1>12. \E x \in Free(a) : /\ Opened(a).stream = x /\ Opened(a).client = x
                          /\ Opened(a).streams = [a.streams EXCEPT ![x] = "connecting"]
  BY <1>3, <1>10 DEF st
<1> QED BY <1>9, <1>10, <1>11, <1>12 DEF si, la

(* What cleanupStream leaves of an account: no stream, no request that could *)
(* still be answered, and no signal that is not stale.                       *)
Down(a) ==
  /\ a.stream = 0 /\ a.client = 0
  /\ \A s \in Streams : a.streams[s] = "none"
  /\ "asked" \notin a.rosters
  /\ \A i \in 1..Len(a.signals) : a.signals[i].stale

(* cleanupStream and Client::close change neither timers nor flags, and      *)
(* together they bring an account down.                                      *)
LEMMA CleanupFields ==
  ASSUME NEW a, Sane(a)
  PROVE  LET b == cleanupStream(a)
         IN /\ Sane(b) /\ Keeps(a, b) /\ b.stream = 0 /\ b.client = 0
            /\ b.isActive = a.isActive /\ b.isDisconnecting = a.isDisconnecting
            /\ b.rosterDone = a.rosterDone /\ b.presenceSent = a.presenceSent
            /\ b.lapsed = a.lapsed
            /\ Free(a) # {} => Free(b) # {}
            /\ Streaming(a) => Down(b)
<1>1. a \in Accounts
  BY DEF Sane
<1>2. CASE a.stream = 0
  <2>1. cleanupStream(a) = a
    BY <1>2 DEF cleanupStream
  <2>2. Streaming(a) => Down(a)
    BY <1>2, LimitAssumption DEF Streaming, Down, Sane
  <2> QED BY <1>2, <2>1, <2>2 DEF Sane, Keeps
<1>3. CASE a.stream # 0
  <2> DEFINE st == [a.streams EXCEPT ![a.stream] = "none"]
             ro == IF a.client = a.stream /\ a.rosters # {} THEN {"lost"} ELSE a.rosters
             si == Aged(a.signals)
             b  == cleanupStream(a)
  <2>1. /\ st \in [Streams -> Phases] /\ ro \in SUBSET {"asked", "lost"}
        /\ si \in Seq(Signals) /\ \A i \in 1..Len(si) : si[i].stale
    BY <1>1, <1>3, AgedIsStale DEF Accounts, Phases
  <2>2. b = [a EXCEPT !.stream = 0, !.streams = st, !.client = 0, !.signals = si, !.rosters = ro]
    BY <1>1, <1>3 DEF cleanupStream, Accounts, Sane
  <2>3. Free(a) \subseteq {s \in Streams : st[s] = "none"}
    BY <1>1, <1>3 DEF Free, Accounts
  <2>4. Streaming(a) => (\A s \in Streams : st[s] = "none") /\ "asked" \notin ro
    BY <1>1, <1>3 DEF Accounts, Streaming, Sane
  <2> HIDE DEF st, ro, si
  <2>5. b \in Accounts /\ Keeps(a, b)
    BY <1>1, <2>1, <2>2 DEF Accounts, Keeps
  <2>6. /\ b.stream = 0 /\ b.client = 0 /\ b.streams = st /\ b.rosters = ro /\ b.signals = si
        /\ b.isActive = a.isActive /\ b.isDisconnecting = a.isDisconnecting
        /\ b.rosterDone = a.rosterDone /\ b.presenceSent = a.presenceSent
        /\ b.lapsed = a.lapsed
        /\ b.doReconnect = a.doReconnect /\ b.reconnectTimeout = a.reconnectTimeout
    BY <1>1, <2>2 DEF Accounts
  <2> HIDE DEF b
  <2>7. Sane(b)
    BY <2>5, <2>6 DEF Sane
  <2>8. Streaming(a) => Down(b)
    BY <2>1, <2>4, <2>6 DEF Down
  <2>9. Free(a) # {} => Free(b) # {}
    BY <2>3, <2>6 DEF Free
  <2> QED BY <2>5, <2>6, <2>7, <2>8, <2>9 DEF b
<1> QED BY <1>2, <1>3

(* Client::close alone: nothing that was asked can be answered any more.     *)
LEMMA CloseFields ==
  ASSUME NEW a, Sane(a)
  PROVE  LET b == clientClose(a)
         IN /\ Sane(b) /\ Keeps(a, b) /\ b.stream = a.stream /\ b.client = 0
            /\ b.rosters = {} /\ b.signals = a.signals
            /\ b.isActive = a.isActive /\ b.isDisconnecting = a.isDisconnecting
            /\ b.rosterDone = a.rosterDone /\ b.presenceSent = a.presenceSent
            /\ b.lapsed = a.lapsed
            /\ Free(a) # {} => Free(b) # {}
            /\ Streaming(a) => Streaming(b)
<1> DEFINE st == [s \in Streams |-> IF s = a.client THEN "ended" ELSE a.streams[s]]
           b  == clientClose(a)
<1>1. a \in Accounts
  BY DEF Sane
<1>2. b = [a EXCEPT !.client = 0, !.rosters = {}, !.streams = st]
  BY <1>1 DEF clientClose, Accounts
<1>3. /\ st \in [Streams -> Phases]
      /\ \A s \in Streams : st[s] = "none" <=> a.streams[s] = "none"
      /\ \A s \in Streams : a.streams[s] = "ended" => st[s] = "ended"
  BY <1>1 DEF Accounts, Phases, Sane
<1> HIDE DEF st
<1>4. b \in Accounts
  <2> DEFINE x == [a EXCEPT !.client = 0, !.rosters = {}]
  <2>1. x \in Accounts
    BY <1>1 DEF Accounts
  <2>2. b = [x EXCEPT !.streams = st]
    BY <1>1, <1>2 DEF Accounts
  <2> HIDE DEF x, b
  <2> QED BY <1>3, <2>1, <2>2 DEF Accounts
<1>5. Keeps(a, b)
  BY <1>1, <1>2 DEF Accounts, Keeps
<1>6. /\ b.stream = a.stream /\ b.client = 0 /\ b.streams = st /\ b.rosters = {}
      /\ b.signals = a.signals /\ b.isActive = a.isActive
      /\ b.isDisconnecting = a.isDisconnecting
      /\ b.rosterDone = a.rosterDone /\ b.presenceSent = a.presenceSent
      /\ b.lapsed = a.lapsed
      /\ b.doReconnect = a.doReconnect /\ b.reconnectTimeout = a.reconnectTimeout
  BY <1>1, <1>2 DEF Accounts
<1> HIDE DEF b
<1>7. a.stream \in Streams \union {0}
  BY <1>1 DEF Accounts
<1>8. Sane(b)
  BY <1>3, <1>4, <1>6, <1>7 DEF Sane
<1>9. Streaming(a) => Streaming(b)
  BY <1>3, <1>6, <1>7 DEF Streaming
<1>10. Free(a) # {} => Free(b) # {}
  BY <1>3, <1>6 DEF Free
<1> QED BY <1>6, <1>8, <1>9, <1>10, <1>5 DEF b

(* The stream, what was asked on it, the signals and the lapse are the same. *)
SameStream(a, b) ==
  /\ b.stream = a.stream /\ b.client = a.client /\ b.streams = a.streams
  /\ b.rosters = a.rosters /\ b.signals = a.signals /\ b.lapsed = a.lapsed

(* A change that leaves the stream and the reconnection alone keeps what is  *)
(* said of them.                                                             *)
LEMMA SameStreamFacts ==
  ASSUME NEW a, NEW b, SameStream(a, b)
  PROVE  /\ Streaming(b) <=> Streaming(a)
         /\ Down(b) <=> Down(a)
         /\ Free(b) = Free(a)
         /\ isConnected(b) <=> isConnected(a)
         /\ b.lapsed = a.lapsed
BY DEF SameStream, Streaming, Down, Free, isConnected

(* Sending presence.                                                         *)
LEMMA DirectFields ==
  ASSUME NEW a, Sane(a), NEW online \in BOOLEAN
  PROVE  LET b == setStatusDirect(a, online)
         IN /\ Sane(b) /\ SameStream(a, b)
            /\ ~b.reconnectConnection /\ b.presenceSent
            /\ b.isActive = a.isActive /\ b.isDisconnecting = a.isDisconnecting
            /\ b.rosterDone = a.rosterDone /\ b.doReconnect = a.doReconnect
            /\ b.reconnects = a.reconnects /\ b.reconnectTimeout = a.reconnectTimeout
            /\ b.logoutTimer = a.logoutTimer /\ b.forgotten = a.forgotten
            /\ b.prompts = a.prompts /\ b.manualStatus = a.manualStatus
<1> DEFINE b == setStatusDirect(a, online)
<1>1. a \in Accounts
  BY DEF Sane
<1>2. b \in Accounts
  BY <1>1 DEF Accounts, setStatusDirect
<1>3. /\ SameStream(a, b) /\ ~b.reconnectConnection /\ b.presenceSent
      /\ b.isActive = a.isActive /\ b.isDisconnecting = a.isDisconnecting
      /\ b.rosterDone = a.rosterDone /\ b.doReconnect = a.doReconnect
      /\ b.reconnects = a.reconnects /\ b.reconnectTimeout = a.reconnectTimeout
      /\ b.logoutTimer = a.logoutTimer /\ b.forgotten = a.forgotten
      /\ b.prompts = a.prompts /\ b.manualStatus = a.manualStatus
  BY <1>1 DEF Accounts, setStatusDirect, SameStream
<1> HIDE DEF b
<1>4. Sane(b)
  BY <1>2, <1>3 DEF Sane, SameStream
<1> QED BY <1>3, <1>4 DEF b

(* The start of a logout stops the reconnection.                             *)
LEMMA BeginsFields ==
  ASSUME NEW a, Sane(a)
  PROVE  LET b == logoutBegins(a)
         IN /\ Sane(b) /\ SameStream(a, b)
            /\ ~b.isActive /\ b.isDisconnecting /\ ~b.doReconnect /\ ~b.reconnectTimeout
            /\ b.presenceSent = a.presenceSent /\ b.rosterDone = a.rosterDone
            /\ b.reconnects = a.reconnects /\ b.reconnectConnection = a.reconnectConnection
            /\ b.logoutTimer = a.logoutTimer /\ b.forgotten = a.forgotten
            /\ b.prompts = a.prompts /\ b.manualStatus = a.manualStatus
<1> DEFINE b == logoutBegins(a)
<1>1. a \in Accounts
  BY DEF Sane
<1>2. b \in Accounts
  BY <1>1 DEF Accounts, logoutBegins, stopReconnect
<1>3. /\ SameStream(a, b)
      /\ ~b.isActive /\ b.isDisconnecting /\ ~b.doReconnect /\ ~b.reconnectTimeout
      /\ b.presenceSent = a.presenceSent /\ b.rosterDone = a.rosterDone
      /\ b.reconnects = a.reconnects /\ b.reconnectConnection = a.reconnectConnection
      /\ b.logoutTimer = a.logoutTimer /\ b.forgotten = a.forgotten
      /\ b.prompts = a.prompts /\ b.manualStatus = a.manualStatus
  BY <1>1 DEF Accounts, logoutBegins, stopReconnect, SameStream
<1> HIDE DEF b
<1>4. Sane(b)
  BY <1>2, <1>3 DEF Sane, SameStream
<1> QED BY <1>3, <1>4 DEF b

-----------------------------------------------------------------------------
(***************************************************************************)
(* Lemmas about login and logout: from what each function needs, the       *)
(* record that it leaves is well formed and keeps its promise.             *)
(***************************************************************************)

(* The record that a slot leaves.                                            *)
Good(a) == Sane(a) /\ Ending(a) /\ Kept(a)

(* An account that may log in: it is down, wanted online, and no timer or    *)
(* dialog is left from before.                                               *)
Ready(a) ==
  /\ Down(a) /\ a.manualStatus /\ ~a.logoutTimer /\ a.prompts = 0
  /\ ~a.reconnectConnection /\ ~a.forgotten

(* A login that opens a stream keeps the promise of the new one.             *)
LEMMA OpenedGood ==
  ASSUME NEW a, Sane(a), Free(a) # {},
         ~a.lapsed /\ ~a.doReconnect => Ready(a)
  PROVE  Good(Opened(a)) /\ ~Opened(a).isDisconnecting /\ ~Opened(a).rosterDone
         /\ (a.lapsed => Opened(a).lapsed)
<1> DEFINE b == Opened(a)
<1>1. /\ Sane(b) /\ Keeps(a, b)
      /\ \E s \in Free(a) : /\ b.stream = s /\ b.client = s
                            /\ b.streams = [a.streams EXCEPT ![s] = "connecting"]
      /\ b.isActive /\ ~b.isDisconnecting /\ ~b.rosterDone /\ ~b.presenceSent
      /\ b.rosters = a.rosters /\ b.signals = Aged(a.signals)
      /\ b.lapsed = (a.lapsed \/ a.doReconnect)
  BY OpenedFields
<1> HIDE DEF b
<1>2. a.signals \in Seq(Signals) /\ a.streams \in [Streams -> Phases] /\ a \in Accounts
  BY DEF Sane, Accounts
<1>3. ASSUME ~b.lapsed
      PROVE  Promise(b)
  <2>1. Ready(a) /\ ~a.doReconnect
    BY <1>1, <1>3
  <2>2. PICK s \in Free(a) : /\ b.stream = s /\ b.client = s
                             /\ b.streams = [a.streams EXCEPT ![s] = "connecting"]
    BY <1>1
  <2>3. s \in Streams /\ s # 0
    BY LimitAssumption DEF Free
  <2>4. Streaming(b)
    BY <1>1, <1>2, <2>1, <2>2, <2>3, AgedIsStale DEF Ready, Down, Streaming
  <2>5. Flags(b)
    BY <1>1, <2>1 DEF Flags, Ready, Keeps
  <2>6. Active(b)
    BY <1>1, <1>2, <2>1, <2>2, <2>3 DEF Active, Alive, Present, Ready, Keeps
  <2> QED BY <2>4, <2>5, <2>6 DEF Promise
<1> QED BY <1>1, <1>3 DEF Good, Ending, Kept, b

(* An account that may hear that a connection is over: it is down and        *)
(* inactive, and only reconnectOnce is left to do.                           *)
Over(a) ==
  /\ Down(a) /\ ~a.isActive /\ ~a.doReconnect /\ ~a.logoutTimer /\ a.prompts = 0
  /\ ~a.forgotten

(* setStatus on an active account: it is sent on a live connection, and      *)
(* replaces any other one.                                                   *)
LEMMA ActiveStatusGood ==
  ASSUME NEW a, Sane(a), Ending(a), Free(a) # {},
         ~a.lapsed => /\ canEncrypt /\ Streaming(a) /\ Flags(a) /\ a.isActive
                      /\ a.manualStatus
                      /\ isConnected(a) /\ a.presenceSent => a.rosterDone
  PROVE  Good(setStatusActive(a)) /\ (a.lapsed => setStatusActive(a).lapsed)
<1>1. CASE isConnected(a)
  <2>1. ASSUME ~a.lapsed, ~a.presenceSent \/ a.rosterDone
        PROVE  Promise(a)
    BY <1>1, <2>1 DEF Promise, Active, Alive, Present, isConnected
  <2>2. Good(a)
    BY <1>1, <2>1 DEF Good, Kept
  <2>3. CASE a.rosterDone
    <3> DEFINE b == setStatusDirect(a, TRUE)
    <3>1. /\ Sane(b) /\ SameStream(a, b)
          /\ ~b.reconnectConnection /\ b.presenceSent
          /\ b.isActive = a.isActive /\ b.isDisconnecting = a.isDisconnecting
          /\ b.rosterDone = a.rosterDone /\ b.doReconnect = a.doReconnect
          /\ b.reconnects = a.reconnects /\ b.reconnectTimeout = a.reconnectTimeout
          /\ b.logoutTimer = a.logoutTimer /\ b.forgotten = a.forgotten
          /\ b.prompts = a.prompts /\ b.manualStatus = a.manualStatus
      BY DirectFields
    <3> HIDE DEF b
    <3>2. ASSUME ~b.lapsed
          PROVE  Promise(b)
      <4>1. ~a.lapsed /\ Streaming(b) /\ isConnected(b)
        BY <1>1, <3>1, <3>2, SameStreamFacts
      <4>2. Flags(b)
        BY <1>1, <3>1, <4>1 DEF Flags, SameStream, isConnected
      <4>3. Active(b)
        BY <2>3, <3>1, <4>1 DEF Active, Alive, Present, isConnected
      <4> QED BY <4>1, <4>2, <4>3 DEF Promise
    <3>3. setStatusActive(a) = b
      BY <1>1, <2>3 DEF setStatusActive, b
    <3> QED BY <3>1, <3>2, <3>3 DEF Good, Kept, Ending, SameStream
  <2>4. CASE ~a.rosterDone
    BY <1>1, <2>2, <2>4 DEF setStatusActive
  <2> QED BY <2>3, <2>4
<1>2. CASE ~isConnected(a)
  <2> DEFINE c == cleanupStream(a)
             d == [c EXCEPT !.isActive = FALSE]
  <2>1. /\ Sane(c) /\ Keeps(a, c) /\ c.isDisconnecting = a.isDisconnecting
        /\ c.lapsed = a.lapsed /\ Free(c) # {}
        /\ Streaming(a) => Down(c)
    BY CleanupFields
  <2> HIDE DEF c
  <2>2. d \in Accounts
    BY <2>1 DEF Sane, Accounts
  <2>3. /\ SameStream(c, d) /\ Keeps(c, d) /\ ~d.isActive
         /\ d.isDisconnecting = c.isDisconnecting
    BY <2>1 DEF Sane, Accounts, SameStream, Keeps
  <2> HIDE DEF d
  <2>4. /\ SameStream(c, d) /\ Keeps(a, d) /\ ~d.isActive
        /\ d.isDisconnecting = a.isDisconnecting /\ d.lapsed = a.lapsed
    BY <2>1, <2>3 DEF SameStream, Keeps
  <2>5. Sane(d)
    BY <2>1, <2>2, <2>4 DEF Sane, SameStream, Keeps
  <2>6. Free(d) # {} /\ (Streaming(a) => Down(d))
    BY <2>1, <2>4, SameStreamFacts
  <2>7. ~d.lapsed => Ready(d)
    <3>1. a.prompts \in Nat
      BY LimitAssumption DEF Sane, Accounts
    <3> QED BY <2>4, <2>6, <3>1 DEF Ready, Flags, Keeps
  <2>8. Ending(d)
    BY <2>4 DEF Ending, Keeps
  <2>9. CASE canEncrypt
    <3>1. login(d) = Opened(d)
      BY <2>4, <2>9 DEF login
    <3>2. /\ Good(Opened(d)) /\ ~Opened(d).rosterDone
          /\ d.lapsed => Opened(d).lapsed
      BY <2>5, <2>6, <2>7, OpenedGood
    <3>3. setStatusActive(a) = Opened(d)
      BY <1>2, <3>1, <3>2 DEF setStatusActive, c, d
    <3> QED BY <2>4, <3>2, <3>3
  <2>10. CASE ~canEncrypt
    <3>1. login(d) = d /\ a.lapsed
      BY <2>10 DEF login
    <3>2. setStatusActive(a) = IF d.rosterDone THEN setStatusDirect(d, TRUE) ELSE d
      BY <1>2, <3>1 DEF setStatusActive, c, d
    <3>3. Sane(setStatusDirect(d, TRUE)) /\ setStatusDirect(d, TRUE).lapsed
          /\ Ending(setStatusDirect(d, TRUE))
      BY <2>4, <2>5, <2>8, <3>1, DirectFields DEF SameStream, Ending
    <3> QED BY <2>4, <2>5, <2>8, <3>1, <3>2, <3>3 DEF Good, Kept
  <2> QED BY <2>9, <2>10
<1> QED BY <1>1, <1>2

(* The slot of reconnectOnce, on an account that is over, logs in if the     *)
(* user wants it; in any case it leaves a record that keeps its promise.     *)
LEMMA SlotGood ==
  ASSUME NEW a, Sane(a), Free(a) # {}, ~a.lapsed => Over(a)
  PROVE  LET b == reconnectOnceSlot(a)
         IN /\ Good(b)
            /\ a.lapsed => b.lapsed
            /\ ~b.lapsed => ~b.isDisconnecting
<1> DEFINE b == [a EXCEPT !.reconnectConnection = FALSE, !.isDisconnecting = FALSE,
                          !.loginStatus = a.manualStatus]
<1>1. a \in Accounts
  BY DEF Sane
<1>2. b \in Accounts
  BY <1>1 DEF Accounts
<1>3. /\ SameStream(a, b) /\ ~b.reconnectConnection /\ ~b.isDisconnecting
      /\ b.isActive = a.isActive /\ b.doReconnect = a.doReconnect
      /\ b.reconnectTimeout = a.reconnectTimeout /\ b.logoutTimer = a.logoutTimer
      /\ b.prompts = a.prompts /\ b.manualStatus = a.manualStatus
      /\ b.forgotten = a.forgotten
  BY <1>1 DEF Accounts, SameStream
<1> HIDE DEF b
<1>4. Sane(b) /\ Ending(b) /\ Free(b) # {}
  BY <1>2, <1>3, SameStreamFacts DEF Sane, Ending, SameStream
<1>5. a.lapsed <=> b.lapsed
  BY <1>3 DEF SameStream
<1>6. ~a.lapsed => Over(b)
  BY <1>3, SameStreamFacts DEF Over
<1>7. a.prompts \in Nat
  BY <1>1, LimitAssumption DEF Accounts
<1>8. ASSUME ~a.lapsed
      PROVE  Promise(b)
  <2>1. Streaming(b)
    BY <1>6, <1>8, LimitAssumption DEF Over, Down, Streaming
  <2>2. Flags(b) /\ Active(b)
    BY <1>3, <1>6, <1>8 DEF Over, Down, Flags, Active
  <2> QED BY <2>1, <2>2 DEF Promise
<1>9. Good(b)
  BY <1>4, <1>5, <1>8 DEF Good, Kept
<1>10. CASE a.manualStatus /\ a.isActive
  <2>1. a.lapsed
    BY <1>10 DEF Over
  <2>2. Good(setStatusActive(b)) /\ setStatusActive(b).lapsed
    BY <1>4, <1>5, <2>1, ActiveStatusGood
  <2>3. reconnectOnceSlot(a) = setStatusActive(b)
    BY <1>10 DEF reconnectOnceSlot, b
  <2> QED BY <2>1, <2>2, <2>3
<1>11. CASE a.manualStatus /\ ~a.isActive
  <2>1. ~b.lapsed => Ready(b)
    BY <1>3, <1>5, <1>6, <1>11 DEF Over, Ready
  <2>2. /\ Good(Opened(b)) /\ ~Opened(b).isDisconnecting
        /\ b.lapsed => Opened(b).lapsed
    BY <1>4, <2>1, OpenedGood
  <2>3. reconnectOnceSlot(a) = login(b)
    BY <1>11 DEF reconnectOnceSlot, b
  <2>4. login(b) = b \/ login(b) = Opened(b)
    BY DEF login
  <2> QED BY <1>3, <1>5, <1>9, <2>2, <2>3, <2>4
<1>12. CASE ~a.manualStatus /\ loggedIn(a)
  <2> DEFINE c == logoutBegins(b)
             d == [c EXCEPT !.logoutTimer = TRUE]
  <2>1. a.lapsed
    BY <1>12 DEF Over, loggedIn
  <2>2. Sane(c) /\ c.lapsed
    BY <1>4, <1>5, <2>1, BeginsFields DEF SameStream
  <2> HIDE DEF c
  <2>3. d \in Accounts /\ SameStream(c, d) /\ d.logoutTimer /\ d.doReconnect = c.doReconnect
        /\ d.reconnectTimeout = c.reconnectTimeout
    BY <2>2 DEF Sane, Accounts, SameStream
  <2> HIDE DEF d
  <2>4. Good(d) /\ d.lapsed
    BY <2>2, <2>3 DEF Good, Sane, Ending, Kept, SameStream
  <2>5. reconnectOnceSlot(a) = d
    BY <1>12 DEF reconnectOnceSlot, b, c, d
  <2> QED BY <2>1, <2>4, <2>5
<1>13. CASE ~a.manualStatus /\ ~loggedIn(a) /\ a.isActive
  <2> DEFINE c == logoutBegins(clientClose(b))
             d == [c EXCEPT !.isDisconnecting = FALSE]
  <2>1. a.lapsed
    BY <1>13 DEF Over
  <2>2. Sane(clientClose(b)) /\ clientClose(b).lapsed
    BY <1>4, <1>5, <2>1, CloseFields
  <2>3. Sane(c) /\ c.lapsed
    BY <2>2, BeginsFields DEF SameStream
  <2> HIDE DEF c
  <2>4. d \in Accounts /\ SameStream(c, d) /\ ~d.isDisconnecting
        /\ d.doReconnect = c.doReconnect /\ d.reconnectTimeout = c.reconnectTimeout
    BY <2>3 DEF Sane, Accounts, SameStream
  <2> HIDE DEF d
  <2>5. Good(d) /\ d.lapsed
    BY <2>3, <2>4 DEF Good, Sane, Ending, Kept, SameStream
  <2>6. reconnectOnceSlot(a) = d
    BY <1>13 DEF reconnectOnceSlot, b, c, d
  <2> QED BY <2>1, <2>5, <2>6
<1>14. CASE ~a.manualStatus /\ ~loggedIn(a) /\ ~a.isActive
  <2>1. reconnectOnceSlot(a) = b
    BY <1>14 DEF reconnectOnceSlot, b
  <2> QED BY <1>3, <1>5, <1>9, <2>1
<1> QED BY <1>10, <1>11, <1>12, <1>13, <1>14

(* emit disconnected() on an account that is over and no longer says that it *)
(* is disconnecting.                                                         *)
LEMMA DisconnectedGood ==
  ASSUME NEW a, Sane(a), Ending(a), Free(a) # {},
         ~a.lapsed => Over(a) /\ ~a.isDisconnecting
  PROVE  LET b == disconnected(a)
         IN /\ Good(b)
            /\ a.lapsed => b.lapsed
<1>1. CASE a.reconnectConnection \/ a.forgotten
  BY <1>1, SlotGood DEF disconnected
<1>2. CASE ~(a.reconnectConnection \/ a.forgotten)
  <2>1. ASSUME ~a.lapsed
        PROVE  Promise(a)
    <3>1. a.prompts \in Nat
      BY LimitAssumption DEF Sane, Accounts
    <3>2. Streaming(a)
      BY <2>1, LimitAssumption DEF Over, Down, Streaming
    <3>3. Flags(a) /\ Active(a)
      BY <1>2, <2>1, <3>1 DEF Over, Down, Flags, Active
    <3> QED BY <3>2, <3>3 DEF Promise
  <2> QED BY <1>2, <2>1 DEF disconnected, Good, Kept
<1> QED BY <1>1, <1>2

(* A logout's end leaves an account that is over, or one that logs in anew.  *)
LEMMA FinishGood ==
  ASSUME NEW a, Sane(a), Free(a) # {},
         ~a.lapsed => /\ Streaming(a) /\ ~a.isActive /\ ~a.doReconnect
                      /\ a.prompts = 0 /\ ~a.forgotten
  PROVE  Good(finishLogout(a)) /\ (a.lapsed => finishLogout(a).lapsed)
<1> DEFINE c == cleanupStream(a)
           d == [c EXCEPT !.logoutTimer = FALSE, !.isDisconnecting = FALSE]
<1>1. /\ Sane(c) /\ Keeps(a, c) /\ c.isActive = a.isActive
      /\ c.lapsed = a.lapsed /\ Free(c) # {}
      /\ Streaming(a) => Down(c)
  BY CleanupFields
<1>2. finishLogout(a) = disconnected(d)
  BY DEF finishLogout
<1> HIDE DEF c
<1>3. d \in Accounts
  BY <1>1 DEF Sane, Accounts
<1>4. /\ SameStream(c, d) /\ ~d.logoutTimer /\ ~d.isDisconnecting
      /\ d.isActive = c.isActive /\ d.doReconnect = c.doReconnect
      /\ d.reconnectTimeout = c.reconnectTimeout /\ d.prompts = c.prompts
      /\ d.forgotten = c.forgotten
  BY <1>1 DEF Sane, Accounts, SameStream
<1> HIDE DEF d
<1>5. Sane(d)
  BY <1>1, <1>3, <1>4 DEF Sane, SameStream
<1>6. Free(d) # {} /\ d.lapsed = a.lapsed /\ (Down(d) <=> Down(c))
  BY <1>1, <1>4, SameStreamFacts
<1>7. ~d.lapsed => Over(d)
  BY <1>1, <1>4, <1>6 DEF Over, Keeps
<1> QED BY <1>2, <1>4, <1>5, <1>6, <1>7, DisconnectedGood DEF Ending

(* The end of cs_error does the same, though isDisconnecting is set while it *)
(* tells that the connection is over.                                        *)
LEMMA GaveUpGood ==
  ASSUME NEW a, Sane(a), Free(a) # {},
         ~a.lapsed => /\ Down(a) /\ ~a.doReconnect /\ ~a.logoutTimer
                      /\ a.prompts = 0 /\ ~a.forgotten
  PROVE  Good(gaveUp(a)) /\ (a.lapsed => gaveUp(a).lapsed)
<1> DEFINE d == [a EXCEPT !.isActive = FALSE, !.loginStatus = FALSE, !.isDisconnecting = TRUE]
           e == disconnected(d)
           f == [e EXCEPT !.isDisconnecting = FALSE]
<1>1. d \in Accounts
  BY DEF Sane, Accounts
<1>2. /\ SameStream(a, d) /\ ~d.isActive /\ d.doReconnect = a.doReconnect
      /\ d.reconnectTimeout = a.reconnectTimeout /\ d.prompts = a.prompts
      /\ d.forgotten = a.forgotten /\ d.logoutTimer = a.logoutTimer
  BY DEF Sane, Accounts, SameStream
<1>3. gaveUp(a) = f
  BY DEF gaveUp
<1> HIDE DEF d
<1>4. Sane(d) /\ Free(d) # {} /\ d.lapsed = a.lapsed
  BY <1>1, <1>2, SameStreamFacts DEF Sane, SameStream
<1>5. ~d.lapsed => Over(d)
  BY <1>2, <1>4, SameStreamFacts DEF Over
<1>6. CASE d.reconnectConnection \/ d.forgotten
  <2>1. /\ Good(e)
        /\ d.lapsed => e.lapsed
        /\ ~e.lapsed => ~e.isDisconnecting
    BY <1>4, <1>5, <1>6, SlotGood DEF disconnected
  <2> HIDE DEF e
  <2>2. CASE ~e.isDisconnecting
    <3>1. f = e
      BY <2>1, <2>2 DEF Good, Sane, Accounts
    <3> QED BY <1>3, <1>4, <2>1, <3>1
  <2>3. CASE e.isDisconnecting
    <3>1. e.lapsed /\ Sane(e)
      BY <2>1, <2>3 DEF Good
    <3>2. /\ f \in Accounts /\ SameStream(e, f) /\ ~f.isDisconnecting
          /\ f.doReconnect = e.doReconnect /\ f.reconnectTimeout = e.reconnectTimeout
      BY <3>1 DEF Sane, Accounts, SameStream
    <3> HIDE DEF f
    <3>3. Good(f) /\ f.lapsed
      BY <3>1, <3>2 DEF Good, Sane, Ending, Kept, SameStream
    <3> QED BY <1>3, <3>3
  <2> QED BY <2>2, <2>3
<1>7. CASE ~(d.reconnectConnection \/ d.forgotten)
  <2>1. f = [d EXCEPT !.isDisconnecting = FALSE]
    BY <1>7 DEF disconnected
  <2>2. f \in Accounts
    BY <1>1, <2>1 DEF Accounts
  <2>3. /\ SameStream(d, f) /\ ~f.isDisconnecting /\ f.isActive = d.isActive
        /\ f.doReconnect = d.doReconnect /\ f.reconnectTimeout = d.reconnectTimeout
        /\ f.prompts = d.prompts /\ f.forgotten = d.forgotten
        /\ f.logoutTimer = d.logoutTimer /\ f.reconnectConnection = d.reconnectConnection
    BY <1>1, <2>1 DEF Accounts, SameStream
  <2> HIDE DEF f
  <2>4. Sane(f) /\ Free(f) # {} /\ f.lapsed = d.lapsed /\ (Down(f) <=> Down(d))
    BY <1>4, <2>2, <2>3, SameStreamFacts DEF Sane, SameStream
  <2>5. ~f.lapsed => Over(f)
    BY <1>5, <2>3, <2>4 DEF Over
  <2>6. disconnected(f) = f
    BY <1>7, <2>3 DEF disconnected
  <2> QED BY <1>3, <1>4, <2>3, <2>4, <2>5, <2>6, DisconnectedGood DEF Ending
<1> QED BY <1>6, <1>7

(* logout keeps an account that has nothing to end; it begins a timed logout *)
(* of one that has sent presence, and ends any other at once.                *)
LEMMA LogoutGood ==
  ASSUME NEW a, Sane(a), Ending(a), Free(a) # {},
         ~a.lapsed /\ a.isActive => /\ Streaming(a) /\ Present(a)
                                    /\ a.prompts = 0 /\ ~a.forgotten,
         ~a.lapsed /\ ~a.isActive => Promise(a)
  PROVE  Good(logout(a)) /\ (a.lapsed => logout(a).lapsed)
<1> DEFINE c == logoutBegins(a)
<1>1. /\ Sane(c) /\ SameStream(a, c)
      /\ ~c.isActive /\ c.isDisconnecting /\ ~c.doReconnect /\ ~c.reconnectTimeout
      /\ c.presenceSent = a.presenceSent /\ c.prompts = a.prompts
      /\ c.forgotten = a.forgotten
  BY BeginsFields
<1>2. Free(c) # {} /\ c.lapsed = a.lapsed /\ (Streaming(c) <=> Streaming(a))
  BY <1>1, SameStreamFacts
<1> HIDE DEF c
<1>3. CASE ~a.isActive
  <2>1. logout(a) = a
    BY <1>3 DEF logout
  <2> QED BY <1>3, <2>1 DEF Good, Kept
<1>4. CASE a.isActive /\ loggedIn(a)
  <2> DEFINE d == [c EXCEPT !.logoutTimer = TRUE]
  <2>1. logout(a) = d
    BY <1>4 DEF logout, c
  <2>2. d \in Accounts
    BY <1>1 DEF Sane, Accounts
  <2>3. /\ SameStream(c, d) /\ d.logoutTimer /\ ~d.isActive /\ d.isDisconnecting
        /\ ~d.doReconnect /\ ~d.reconnectTimeout /\ d.prompts = a.prompts
        /\ d.forgotten = a.forgotten
    BY <1>1 DEF Sane, Accounts, SameStream
  <2> HIDE DEF d
  <2>4. Sane(d) /\ Ending(d) /\ d.lapsed = a.lapsed /\ (Streaming(d) <=> Streaming(a))
    BY <1>1, <1>2, <2>2, <2>3, SameStreamFacts DEF Sane, Ending, SameStream
  <2>5. ASSUME ~a.lapsed
        PROVE  Promise(d)
    <3>1. Flags(d)
      BY <1>1, <1>4, <2>3, <2>5 DEF Flags, Present, loggedIn, SameStream
    <3>2. Active(d)
      BY <2>3 DEF Active
    <3> QED BY <1>4, <2>4, <2>5, <3>1, <3>2 DEF Promise
  <2> QED BY <2>1, <2>4, <2>5 DEF Good, Kept
<1>5. CASE a.isActive /\ ~loggedIn(a)
  <2> DEFINE d == clientClose(c)
  <2>1. /\ Sane(d) /\ Keeps(c, d) /\ d.isActive = c.isActive /\ d.lapsed = c.lapsed
        /\ Free(d) # {}
        /\ Streaming(c) => Streaming(d)
    BY <1>1, <1>2, CloseFields
  <2> HIDE DEF d
  <2>2. /\ Good(finishLogout(d))
        /\ d.lapsed => finishLogout(d).lapsed
    <3>1. ~d.lapsed => /\ Streaming(d) /\ ~d.isActive /\ ~d.doReconnect
                       /\ d.prompts = 0 /\ ~d.forgotten
      BY <1>1, <1>2, <1>5, <2>1 DEF Keeps
    <3> QED BY <2>1, <3>1, FinishGood
  <2>3. logout(a) = finishLogout(d)
    BY <1>5 DEF logout, c, d
  <2> QED BY <1>2, <2>1, <2>2, <2>3
<1> QED BY <1>3, <1>4, <1>5

(* An inactive account that holds a stream no more is down.                  *)
LEMMA NoStreamIsDown ==
  ASSUME NEW a, Sane(a), Streaming(a), a.stream = 0
  PROVE  Down(a)
BY LimitAssumption DEF Sane, Streaming, Down

(* What a slot may rely on: until a lapse, the account's stream and flags    *)
(* agree.                                                                    *)
Steady(a) == ~a.lapsed => Streaming(a) /\ Flags(a)

(* An online status leaves an account that keeps its promise.                *)
LEMMA OnlineGood ==
  ASSUME NEW a, Sane(a), Ending(a), Free(a) # {}, Steady(a),
         ~a.lapsed /\ a.isActive => canEncrypt,
         ~a.lapsed /\ a.isActive /\ isConnected(a) /\ a.presenceSent => a.rosterDone
  PROVE  Good(setStatus(a, TRUE))
<1> DEFINE b == [a EXCEPT !.loginStatus = TRUE, !.manualStatus = TRUE]
<1>1. b \in Accounts
  BY DEF Sane, Accounts
<1>2. /\ SameStream(a, b) /\ b.manualStatus
      /\ b.isActive = a.isActive /\ b.isDisconnecting = a.isDisconnecting
      /\ b.presenceSent = a.presenceSent /\ b.rosterDone = a.rosterDone
      /\ b.doReconnect = a.doReconnect /\ b.reconnectTimeout = a.reconnectTimeout
      /\ b.logoutTimer = a.logoutTimer /\ b.reconnectConnection = a.reconnectConnection
      /\ b.prompts = a.prompts /\ b.forgotten = a.forgotten
  BY DEF Sane, Accounts, SameStream
<1> HIDE DEF b
<1>3. Sane(b) /\ Ending(b) /\ Free(b) # {} /\ b.lapsed = a.lapsed
  BY <1>1, <1>2, SameStreamFacts DEF Sane, Ending, SameStream
<1>4. ~b.lapsed => Streaming(b) /\ Flags(b)
  <2>1. ASSUME Flags(a)
        PROVE  Flags(b)
    BY <1>2, <2>1 DEF Flags, SameStream
  <2> QED BY <1>2, <1>3, <2>1, SameStreamFacts DEF Steady
<1>5. ~b.isActive => Good(b)
  BY <1>3, <1>4 DEF Good, Kept, Promise, Active
<1>6. CASE b.isDisconnecting
  <2>1. setStatus(a, TRUE) = b
    BY <1>6 DEF setStatus, b
  <2>2. ~b.lapsed => ~b.isActive
    BY <1>4, <1>6 DEF Flags
  <2> QED BY <1>3, <1>5, <2>1, <2>2 DEF Good, Kept
<1>7. CASE ~b.isDisconnecting /\ ~b.isActive
  <2>1. setStatus(a, TRUE) = login(b)
    BY <1>7 DEF setStatus, b
  <2>2. ~b.lapsed => Ready(b)
    <3>1. b.prompts \in Nat
      BY <1>1, LimitAssumption DEF Accounts
    <3>2. ~b.lapsed => b.stream = 0 /\ Down(b)
      BY <1>3, <1>4, <1>7, NoStreamIsDown DEF Flags
    <3> QED BY <1>2, <1>4, <1>7, <3>1, <3>2 DEF Ready, Flags
  <2>3. Good(Opened(b))
    BY <1>3, <2>2, OpenedGood
  <2>4. login(b) = b \/ login(b) = Opened(b)
    BY DEF login
  <2> QED BY <1>5, <1>7, <2>1, <2>3, <2>4
<1>8. CASE ~b.isDisconnecting /\ b.isActive
  <2>1. setStatus(a, TRUE) = setStatusActive(b)
    BY <1>8 DEF setStatus, b
  <2>2. ~b.lapsed => /\ canEncrypt /\ Streaming(b) /\ Flags(b) /\ b.isActive
                     /\ b.manualStatus
                     /\ isConnected(b) /\ b.presenceSent => b.rosterDone
    BY <1>2, <1>3, <1>4, <1>8, SameStreamFacts
  <2> QED BY <1>3, <2>1, <2>2, ActiveStatusGood
<1> QED BY <1>6, <1>7, <1>8

(* An offline status, while no password dialog is open, ends the login.      *)
LEMMA OfflineGood ==
  ASSUME NEW a, Good(a), Free(a) # {}, a.prompts = 0
  PROVE  Good(setStatus(a, FALSE))
<1> DEFINE b == [a EXCEPT !.loginStatus = FALSE, !.manualStatus = FALSE]
<1>1. a \in Accounts
  BY DEF Good, Sane
<1>2. b \in Accounts
  BY <1>1 DEF Accounts
<1>3. /\ SameStream(a, b)
      /\ b.isActive = a.isActive /\ b.isDisconnecting = a.isDisconnecting
      /\ b.presenceSent = a.presenceSent /\ b.rosterDone = a.rosterDone
      /\ b.doReconnect = a.doReconnect /\ b.reconnectTimeout = a.reconnectTimeout
      /\ b.logoutTimer = a.logoutTimer /\ b.reconnectConnection = a.reconnectConnection
      /\ b.prompts = a.prompts /\ b.forgotten = a.forgotten
  BY <1>1 DEF Accounts, SameStream
<1>4. setStatus(a, FALSE) = logout(b)
  BY DEF setStatus
<1> HIDE DEF b
<1>5. Sane(b) /\ Ending(b) /\ Free(b) # {} /\ b.lapsed = a.lapsed
  BY <1>2, <1>3, SameStreamFacts DEF Good, Sane, Ending, SameStream
<1>6. ~b.lapsed => Streaming(b) /\ Flags(b)
  <2>1. ASSUME Flags(a)
        PROVE  Flags(b)
    BY <1>3, <2>1 DEF Flags, SameStream
  <2> QED BY <1>3, <1>5, <2>1, SameStreamFacts DEF Good, Kept, Promise
<1>7. ~b.lapsed /\ b.isActive => Present(b)
  BY <1>3, <1>5 DEF Good, Kept, Promise, Active, Present, SameStream
<1>8. ~b.lapsed /\ ~b.isActive => Promise(b)
  BY <1>6 DEF Promise, Active
<1>9. ~b.lapsed => b.prompts = 0 /\ ~b.forgotten
  BY <1>3, <1>6 DEF Flags
<1> QED BY <1>4, <1>5, <1>6, <1>7, <1>8, <1>9, LogoutGood

(* cs_error, whatever the error: a reconnection, a password dialog, or the   *)
(* end of an account that was active; nothing for one that was not.          *)
LEMMA ErrorGood ==
  ASSUME NEW a, Sane(a), Ending(a), Free(a) # {}, Steady(a),
         ~a.lapsed => ~a.doReconnect,
         ~a.lapsed /\ a.isActive => a.manualStatus,
         a.reconnects < MaxReconnects,
         NEW err, err = "password" => a.prompts < MaxPrompts
  PROVE  Good(cs_error(a, err))
<1> DEFINE c == cleanupStream(clientClose(a))
           b == [c EXCEPT !.presenceSent = FALSE]
<1>1. /\ Sane(c) /\ Keeps(a, c) /\ c.stream = 0 /\ c.client = 0
      /\ c.isActive = a.isActive /\ c.isDisconnecting = a.isDisconnecting
      /\ c.lapsed = a.lapsed /\ Free(c) # {}
      /\ Streaming(a) => Down(c)
  <2> DEFINE d == clientClose(a)
  <2>1. /\ Sane(d) /\ Keeps(a, d)
        /\ d.isActive = a.isActive /\ d.isDisconnecting = a.isDisconnecting
        /\ d.lapsed = a.lapsed /\ Free(d) # {}
        /\ Streaming(a) => Streaming(d)
    BY CloseFields
  <2> HIDE DEF d
  <2>2. /\ Sane(cleanupStream(d)) /\ Keeps(d, cleanupStream(d))
        /\ cleanupStream(d).stream = 0 /\ cleanupStream(d).client = 0
        /\ cleanupStream(d).isActive = d.isActive
        /\ cleanupStream(d).isDisconnecting = d.isDisconnecting
        /\ cleanupStream(d).lapsed = d.lapsed /\ Free(cleanupStream(d)) # {}
        /\ Streaming(d) => Down(cleanupStream(d))
    BY <2>1, CleanupFields
  <2> QED BY <2>1, <2>2 DEF Keeps, d
<1> HIDE DEF c
<1>2. b \in Accounts
  BY <1>1 DEF Sane, Accounts
<1>3. SameStream(c, b) /\ Keeps(c, b) /\ ~b.presenceSent /\ b.isActive = c.isActive
  BY <1>1 DEF Sane, Accounts, SameStream, Keeps
<1>4. Sane(b) /\ Free(b) # {} /\ b.lapsed = a.lapsed /\ (Down(b) <=> Down(c))
  BY <1>1, <1>2, <1>3, SameStreamFacts DEF Sane, SameStream, Keeps
<1>5. Keeps(a, b) /\ b.isActive = a.isActive
  BY <1>1, <1>3 DEF Keeps
<1>6. b.prompts \in 0..MaxPrompts /\ b.reconnects \in 0..MaxReconnects
  BY <1>2 DEF Accounts
<1>7. CASE ~a.isActive
  <2>1. cs_error(a, err) = a
    BY <1>7 DEF cs_error
  <2> QED BY <1>7, <2>1 DEF Good, Kept, Promise, Steady, Active
<1>8. ASSUME a.isActive, ~a.lapsed
      PROVE  /\ Down(b) /\ ~b.doReconnect /\ ~b.logoutTimer /\ b.prompts = 0
             /\ ~b.reconnectConnection /\ ~b.forgotten /\ b.manualStatus
  <2>1. Streaming(a) /\ Flags(a)
    BY <1>8 DEF Steady
  <2>2. a.prompts \in Nat
    BY <1>5, <1>6, LimitAssumption DEF Keeps
  <2> QED BY <1>1, <1>4, <1>5, <1>8, <2>1, <2>2 DEF Flags, Keeps
<1>9. CASE a.isActive /\ err = "lost" /\ opt_reconn
  <2> DEFINE d == startReconnect([b EXCEPT !.isDisconnecting = FALSE])
  <2>1. cs_error(a, err) = d
    BY <1>9 DEF cs_error, b, c
  <2>2. /\ SameStream(b, d) /\ ~d.isDisconnecting /\ d.isActive = b.isActive
        /\ d.doReconnect /\ ~d.reconnectTimeout /\ d.reconnects = b.reconnects + 1
        /\ d.logoutTimer = b.logoutTimer /\ d.prompts = b.prompts
        /\ d.reconnectConnection = b.reconnectConnection /\ d.forgotten = b.forgotten
        /\ d.manualStatus = b.manualStatus /\ d.presenceSent = b.presenceSent
    BY <1>2 DEF Accounts, startReconnect, SameStream
  <2>3. d \in Accounts
    <3>1. b.reconnects + 1 \in 0..MaxReconnects
      BY <1>5, <1>6, LimitAssumption DEF Keeps
    <3> QED BY <1>2, <3>1 DEF Accounts, startReconnect
  <2> HIDE DEF d, b
  <2>4. Sane(d) /\ Ending(d) /\ d.lapsed = a.lapsed /\ (Down(d) <=> Down(b))
    BY <1>4, <2>2, <2>3, SameStreamFacts DEF Sane, Ending, SameStream
  <2>5. ASSUME ~d.lapsed
        PROVE  Promise(d)
    <3>1. /\ Down(d) /\ ~d.logoutTimer /\ d.prompts = 0 /\ d.manualStatus /\ d.isActive
          /\ ~d.reconnectConnection /\ ~d.forgotten /\ ~d.presenceSent /\ d.reconnects > 0
      BY <1>3, <1>5, <1>6, <1>8, <1>9, <2>2, <2>4, <2>5, LimitAssumption
    <3>2. Streaming(d)
      BY <3>1 DEF Down, Streaming
    <3>3. Flags(d) /\ Active(d)
      BY <2>2, <3>1 DEF Down, Flags, Active, Alive, Present
    <3> QED BY <3>2, <3>3 DEF Promise
  <2> QED BY <2>1, <2>4, <2>5 DEF Good, Kept
<1>10. CASE a.isActive /\ err = "password"
  <2> DEFINE d == [b EXCEPT !.isActive = FALSE, !.isDisconnecting = TRUE, !.prompts = @ + 1]
  <2>1. cs_error(a, err) = d
    BY <1>10 DEF cs_error, b, c
  <2>2. /\ SameStream(b, d) /\ d.isDisconnecting /\ ~d.isActive
        /\ d.doReconnect = b.doReconnect /\ d.reconnectTimeout = b.reconnectTimeout
        /\ d.logoutTimer = b.logoutTimer /\ d.prompts = b.prompts + 1
        /\ d.reconnectConnection = b.reconnectConnection /\ d.forgotten = b.forgotten
        /\ d.manualStatus = b.manualStatus /\ d.presenceSent = b.presenceSent
    BY <1>2 DEF Accounts, SameStream
  <2>3. d \in Accounts
    <3>1. b.prompts + 1 \in 0..MaxPrompts
      BY <1>5, <1>6, <1>10, LimitAssumption DEF Keeps
    <3> QED BY <1>2, <3>1 DEF Accounts
  <2> HIDE DEF d, b
  <2>4. Sane(d) /\ Ending(d) /\ d.lapsed = a.lapsed /\ (Down(d) <=> Down(b))
    BY <1>4, <1>6, <2>2, <2>3, SameStreamFacts, LimitAssumption DEF Sane, Ending, SameStream
  <2>5. ASSUME ~d.lapsed
        PROVE  Promise(d)
    <3>1. /\ Down(d) /\ ~d.logoutTimer /\ d.prompts = 1 /\ d.manualStatus /\ ~d.doReconnect
          /\ ~d.reconnectConnection /\ ~d.forgotten /\ ~d.presenceSent
      BY <1>3, <1>8, <1>10, <2>2, <2>4, <2>5
    <3>2. Streaming(d)
      BY <3>1 DEF Down, Streaming
    <3>3. Flags(d) /\ Active(d)
      BY <2>2, <3>1 DEF Down, Flags, Active
    <3> QED BY <3>2, <3>3 DEF Promise
  <2> QED BY <2>1, <2>4, <2>5 DEF Good, Kept
<1>11. CASE a.isActive /\ ~(err = "lost" /\ opt_reconn) /\ err # "password"
  <2>1. cs_error(a, err) = gaveUp(b)
    BY <1>11 DEF cs_error, b, c
  <2> HIDE DEF b
  <2> QED BY <1>4, <1>8, <1>11, <2>1, GaveUpGood
<1> QED BY <1>7, <1>9, <1>10, <1>11

-----------------------------------------------------------------------------
(***************************************************************************)
(* The steps.  Each of them leaves a good record behind.                   *)
(***************************************************************************)

(* What the steps start from, in the terms of the lemmas.                    *)
LEMMA InvFacts ==
  ASSUME AccountInv
  PROVE  /\ account \in Accounts /\ Good(account) /\ Sane(account) /\ Ending(account)
         /\ Steady(account)
         /\ ~account.lapsed => Streaming(account) /\ Flags(account) /\ Active(account)
         /\ account.isActive => canEncrypt
         /\ account.prompts > 0 => canEncrypt
         /\ account.reconnects > 0 => canEncrypt
         /\ account.prompts \in Nat /\ account.reconnects \in Nat
<1>1. account.prompts \in Nat /\ account.reconnects \in Nat
  BY LimitAssumption DEF AccountInv, Sane, Accounts
<1>2. account.isActive \/ account.prompts > 0 \/ account.reconnects > 0 => canEncrypt
  BY <1>1 DEF AccountInv, Untouched
<1> QED BY <1>1, <1>2 DEF AccountInv, Good, Kept, Promise, Steady, Sane

(* setStatus, by the user.                                                   *)
LEMMA SetStatusGood ==
  ASSUME AccountInv, SetStatus
  PROVE  Good(account')
<1>1. PICK online \in BOOLEAN : account' = setStatus(account, online)
  BY DEF SetStatus, Slot
<1>2. account.prompts = 0 /\ Free(account) # {}
  BY DEF SetStatus, Room
<1>3. CASE online
  <2>1. Good(setStatus(account, TRUE))
    BY <1>2, InvFacts, OnlineGood DEF Active, Present
  <2> QED BY <1>1, <1>3, <2>1
<1>4. CASE ~online
  <2>1. Good(setStatus(account, FALSE))
    BY <1>2, InvFacts, OfflineGood
  <2> QED BY <1>1, <1>4, <2>1
<1> QED BY <1>3, <1>4

(* reconnectOnce connects its slot and logs out.                             *)
LEMMA ReconnectOnceGood ==
  ASSUME AccountInv, ReconnectOnce
  PROVE  Good(account')
<1> DEFINE a == [account EXCEPT !.reconnectConnection = TRUE]
<1>1. account' = logout(a) /\ account.isActive /\ account.prompts = 0 /\ Free(account) # {}
  BY DEF ReconnectOnce, Slot, Room
<1>2. a \in Accounts /\ SameStream(account, a) /\ a.isActive /\ a.prompts = 0
      /\ a.isDisconnecting = account.isDisconnecting
      /\ a.logoutTimer = account.logoutTimer /\ a.forgotten = account.forgotten
      /\ a.doReconnect = account.doReconnect /\ a.reconnectTimeout = account.reconnectTimeout
      /\ a.presenceSent = account.presenceSent /\ a.rosterDone = account.rosterDone
  BY <1>1, InvFacts DEF Accounts, SameStream
<1> HIDE DEF a
<1>3. Sane(a) /\ Ending(a) /\ Free(a) # {} /\ a.lapsed = account.lapsed
      /\ (Streaming(a) <=> Streaming(account))
  BY <1>1, <1>2, InvFacts, SameStreamFacts DEF Sane, Ending, SameStream
<1>4. ~a.lapsed => Streaming(a) /\ Present(a) /\ ~a.forgotten
  BY <1>1, <1>2, <1>3, InvFacts DEF Flags, Active, Present, SameStream
<1> QED BY <1>1, <1>2, <1>3, <1>4, LogoutGood

(* A change of opt_enabled, or of loginStatus, alone.                        *)
LEMMA EnabledGood ==
  ASSUME NEW a, Good(a), NEW v \in BOOLEAN
  PROVE  Good([a EXCEPT !.opt_enabled = v])
<1> DEFINE b == [a EXCEPT !.opt_enabled = v]
<1>1. a \in Accounts
  BY DEF Good, Sane
<1>2. b \in Accounts
  BY <1>1 DEF Accounts
<1>3. /\ SameStream(a, b) /\ b.manualStatus = a.manualStatus
      /\ b.isActive = a.isActive /\ b.isDisconnecting = a.isDisconnecting
      /\ b.presenceSent = a.presenceSent /\ b.rosterDone = a.rosterDone
      /\ b.doReconnect = a.doReconnect /\ b.reconnectTimeout = a.reconnectTimeout
      /\ b.logoutTimer = a.logoutTimer /\ b.reconnectConnection = a.reconnectConnection
      /\ b.prompts = a.prompts /\ b.forgotten = a.forgotten /\ b.reconnects = a.reconnects
  BY <1>1 DEF Accounts, SameStream
<1> HIDE DEF b
<1>4. Sane(b) /\ Ending(b)
  BY <1>2, <1>3 DEF Good, Sane, Ending, SameStream
<1>5. ASSUME Promise(a)
      PROVE  Promise(b)
  <2>1. Flags(b) /\ Active(b)
    BY <1>3, <1>5 DEF Promise, Flags, Active, Alive, Present, SameStream
  <2> QED BY <1>3, <1>5, <2>1, SameStreamFacts DEF Promise
<1> QED BY <1>3, <1>4, <1>5 DEF Good, Kept, SameStream, b

(* A plain logout of the account, by setEnabled or for a bad certificate.    *)
LEMMA PlainLogoutGood ==
  ASSUME AccountInv, Free(account) # {}
  PROVE  Good(logout(account))
<1>1. ~account.lapsed /\ account.isActive => account.prompts = 0
  BY InvFacts DEF Flags
<1>2. ~account.lapsed /\ account.isActive => Streaming(account) /\ Present(account) /\ ~account.forgotten
  BY InvFacts DEF Flags, Active
<1>3. ~account.lapsed => Promise(account)
  BY InvFacts DEF Promise
<1> QED BY <1>1, <1>2, <1>3, InvFacts, LogoutGood

(* setEnabled, which logs out an account that it disables.                   *)
LEMMA SetEnabledGood ==
  ASSUME AccountInv, SetEnabled
  PROVE  Good(account')
<1> DEFINE a == IF account.opt_enabled THEN logout(account) ELSE account
<1>1. Free(account) # {} /\ account' = [a EXCEPT !.opt_enabled = ~account.opt_enabled]
  BY DEF SetEnabled, Slot, Room
<1>2. Good(a)
  BY <1>1, InvFacts, PlainLogoutGood
<1> HIDE DEF a
<1>3. (~account.opt_enabled) \in BOOLEAN
  OBVIOUS
<1> QED BY <1>1, <1>2, <1>3, EnabledGood

(* doWakeup deletes the stream before it asks for an online status.          *)
LEMMA DoWakeupGood ==
  ASSUME AccountInv, DoWakeup
  PROVE  Good(account')
<1> DEFINE c == cleanupStream(account)
<1>1. Free(account) # {} /\ account' = setStatus(c, TRUE)
  BY DEF DoWakeup, Slot, Room
<1>2. /\ Sane(c) /\ Keeps(account, c) /\ c.stream = 0
      /\ c.isActive = account.isActive /\ c.isDisconnecting = account.isDisconnecting
      /\ c.rosterDone = account.rosterDone /\ c.presenceSent = account.presenceSent
      /\ c.lapsed = account.lapsed
      /\ Free(c) # {}
      /\ Streaming(account) => Down(c)
  BY <1>1, InvFacts, CleanupFields
<1> HIDE DEF c
<1>3. Ending(c)
  BY <1>2, InvFacts DEF Ending, Keeps
<1>4. ASSUME ~c.lapsed
      PROVE  Streaming(c) /\ Flags(c)
  <2>1. Streaming(account) /\ Flags(account)
    BY <1>2, <1>4, InvFacts
  <2>2. Streaming(c)
    BY <1>2, <2>1 DEF Down, Streaming
  <2>3. Flags(c)
    BY <1>2, <2>1 DEF Flags, Keeps
  <2> QED BY <2>2, <2>3
<1>5. ~isConnected(c)
  BY <1>2 DEF isConnected
<1>6. c.isActive => canEncrypt
  BY <1>2, InvFacts
<1> QED BY <1>1, <1>2, <1>3, <1>4, <1>5, <1>6, OnlineGood DEF Steady

(* The user enters a password: the dialog stands for an account that is      *)
(* down, so that the login finds no stream to replace.                       *)
LEMMA PasswordEnteredGood ==
  ASSUME AccountInv, PasswordEntered
  PROVE  Good(account')
<1> DEFINE a == [account EXCEPT !.prompts = @ - 1, !.isDisconnecting = FALSE]
<1>1. account.prompts > 0 /\ Free(account) # {} /\ account' = login(a)
  BY DEF PasswordEntered, Slot, Room
<1>2. a \in Accounts
  <2>1. account.prompts - 1 \in 0..MaxPrompts
    BY <1>1, InvFacts, LimitAssumption DEF Accounts
  <2> QED BY <2>1, InvFacts DEF Accounts
<1>3. /\ SameStream(account, a) /\ a.prompts = account.prompts - 1 /\ ~a.isDisconnecting
      /\ a.isActive = account.isActive /\ a.manualStatus = account.manualStatus
      /\ a.doReconnect = account.doReconnect /\ a.reconnectTimeout = account.reconnectTimeout
      /\ a.logoutTimer = account.logoutTimer /\ a.forgotten = account.forgotten
      /\ a.reconnectConnection = account.reconnectConnection
  BY <1>1, InvFacts DEF Accounts, SameStream
<1> HIDE DEF a
<1>4. Sane(a) /\ Ending(a) /\ Free(a) # {} /\ a.lapsed = account.lapsed
      /\ (Down(a) <=> Down(account))
  BY <1>1, <1>2, <1>3, InvFacts, SameStreamFacts DEF Sane, Ending, SameStream
<1>5. ASSUME ~a.lapsed
      PROVE  Ready(a) /\ ~a.isActive
  <2>1. Streaming(account) /\ Flags(account)
    BY <1>4, <1>5, InvFacts
  <2>2. /\ account.isDisconnecting /\ account.stream = 0 /\ account.prompts = 1
        /\ account.manualStatus /\ ~account.isActive
        /\ ~account.logoutTimer /\ ~account.reconnectConnection /\ ~account.forgotten
    BY <1>1, <2>1 DEF Flags
  <2>3. Down(account)
    BY <2>1, <2>2, InvFacts, NoStreamIsDown
  <2> QED BY <1>3, <1>4, <2>2, <2>3 DEF Ready
<1>6. Good(Opened(a))
  BY <1>4, <1>5, OpenedGood
<1>7. CASE a.isActive /\ ~a.doReconnect
  <2>1. a.lapsed /\ login(a) = a
    BY <1>5, <1>7 DEF login
  <2> QED BY <1>1, <1>4, <2>1 DEF Good, Kept
<1>8. CASE ~(a.isActive /\ ~a.doReconnect)
  <2>1. login(a) = Opened(a)
    BY <1>1, <1>8, InvFacts DEF login
  <2> QED BY <1>1, <1>6, <2>1
<1> QED BY <1>7, <1>8

(* The user cancels the password dialog.                                     *)
LEMMA PasswordRefusedGood ==
  ASSUME AccountInv, PasswordRefused
  PROVE  Good(account')
<1> DEFINE a == [account EXCEPT !.prompts = @ - 1]
<1>1. account.prompts > 0 /\ Free(account) # {} /\ account' = gaveUp(a)
  BY DEF PasswordRefused, Slot, Room
<1>2. a \in Accounts
  <2>1. account.prompts - 1 \in 0..MaxPrompts
    BY <1>1, InvFacts, LimitAssumption DEF Accounts
  <2> QED BY <2>1, InvFacts DEF Accounts
<1>3. /\ SameStream(account, a) /\ a.prompts = account.prompts - 1
      /\ a.doReconnect = account.doReconnect /\ a.reconnectTimeout = account.reconnectTimeout
      /\ a.logoutTimer = account.logoutTimer /\ a.forgotten = account.forgotten
  BY <1>1, InvFacts DEF Accounts, SameStream
<1> HIDE DEF a
<1>4. Sane(a) /\ Free(a) # {} /\ a.lapsed = account.lapsed
      /\ (Down(a) <=> Down(account))
  BY <1>1, <1>2, <1>3, InvFacts, SameStreamFacts DEF Sane, SameStream
<1>5. ASSUME ~a.lapsed
      PROVE  /\ Down(a) /\ ~a.doReconnect /\ ~a.logoutTimer
             /\ a.prompts = 0 /\ ~a.forgotten
  <2>1. Streaming(account) /\ Flags(account)
    BY <1>4, <1>5, InvFacts
  <2>2. /\ account.isDisconnecting /\ account.stream = 0 /\ account.prompts = 1
        /\ ~account.isActive /\ ~account.doReconnect
        /\ ~account.logoutTimer /\ ~account.forgotten
    BY <1>1, <2>1 DEF Flags
  <2>3. Down(account)
    BY <2>1, <2>2, InvFacts, NoStreamIsDown
  <2> QED BY <1>3, <1>4, <2>2, <2>3
<1> QED BY <1>1, <1>4, <1>5, GaveUpGood

(* Presence that is sent again, by whatever changed it.                      *)
LEMMA DirectGood ==
  ASSUME NEW a, Good(a), NEW online \in BOOLEAN,
         ~a.lapsed => a.presenceSent
  PROVE  Good(setStatusDirect(a, online))
<1> DEFINE b == setStatusDirect(a, online)
<1>1. /\ Sane(b) /\ SameStream(a, b)
      /\ ~b.reconnectConnection /\ b.presenceSent
      /\ b.isActive = a.isActive /\ b.isDisconnecting = a.isDisconnecting
      /\ b.rosterDone = a.rosterDone /\ b.doReconnect = a.doReconnect
      /\ b.reconnects = a.reconnects /\ b.reconnectTimeout = a.reconnectTimeout
      /\ b.logoutTimer = a.logoutTimer /\ b.forgotten = a.forgotten
      /\ b.prompts = a.prompts /\ b.manualStatus = a.manualStatus
  BY DirectFields DEF Good
<1> HIDE DEF b
<1>2. Ending(b) /\ b.lapsed = a.lapsed
  BY <1>1 DEF Good, Ending, SameStream
<1>3. ASSUME ~a.lapsed
      PROVE  Promise(b)
  <2>1. Flags(b) /\ Active(b)
    BY <1>1, <1>3 DEF Good, Kept, Promise, Flags, Active, Alive, Present, SameStream
  <2> QED BY <1>1, <1>3, <2>1, SameStreamFacts DEF Good, Kept, Promise
<1> QED BY <1>1, <1>2, <1>3 DEF Good, Kept, b

(* setAutoAway and the other changes of presence.                            *)
LEMMA PresenceGood ==
  ASSUME AccountInv, SetAutoAway \/ PresenceUpdate
  PROVE  Good(account')
<1>1. account.loginStatus \in BOOLEAN
  BY InvFacts DEF Accounts
<1>2. CASE SetAutoAway
  BY <1>2, InvFacts, DirectGood DEF SetAutoAway, Slot, loggedIn
<1>3. CASE PresenceUpdate
  BY <1>1, <1>3, InvFacts, DirectGood DEF PresenceUpdate, Slot
<1> QED BY <1>2, <1>3

(* A single shot of startReconnect: it logs in where a reconnection is        *)
(* awaited, and is idle where it was called off meanwhile.                   *)
LEMMA ReconnectGood ==
  ASSUME AccountInv, Reconnect
  PROVE  Good(account')
<1> DEFINE a == [account EXCEPT !.reconnects = @ - 1]
           b == [a EXCEPT !.isActive = FALSE, !.doReconnect = FALSE, !.reconnectTimeout = TRUE]
<1>1. /\ account.reconnects > 0 /\ Free(account) # {}
      /\ account' = IF a.doReconnect /\ ~isConnected(a) THEN login(b) ELSE a
  BY DEF Reconnect, Slot
<1>2. a \in Accounts
  <2>1. account.reconnects - 1 \in 0..MaxReconnects
    BY <1>1, InvFacts, LimitAssumption DEF Accounts
  <2> QED BY <2>1, InvFacts DEF Accounts
<1>3. /\ SameStream(account, a) /\ a.isActive = account.isActive
      /\ a.isDisconnecting = account.isDisconnecting /\ a.doReconnect = account.doReconnect
      /\ a.reconnectTimeout = account.reconnectTimeout /\ a.logoutTimer = account.logoutTimer
      /\ a.prompts = account.prompts /\ a.forgotten = account.forgotten
      /\ a.reconnectConnection = account.reconnectConnection
      /\ a.manualStatus = account.manualStatus /\ a.presenceSent = account.presenceSent
      /\ a.rosterDone = account.rosterDone
  BY InvFacts DEF Accounts, SameStream
<1> HIDE DEF a
<1>4. Sane(a) /\ Ending(a) /\ Free(a) # {} /\ a.lapsed = account.lapsed
      /\ (isConnected(a) <=> isConnected(account))
  BY <1>1, <1>2, <1>3, InvFacts, SameStreamFacts DEF Sane, Ending, SameStream
<1>5. ~a.lapsed => Streaming(a) /\ Flags(a)
  <2>1. Flags(account) => Flags(a)
    BY <1>3 DEF Flags, SameStream
  <2> QED BY <1>3, <1>4, <2>1, InvFacts, SameStreamFacts
<1>6. CASE a.doReconnect /\ ~isConnected(a)
  <2>1. b \in Accounts
    BY <1>2 DEF Accounts
  <2>2. /\ SameStream(a, b) /\ ~b.isActive /\ ~b.doReconnect
        /\ b.isDisconnecting = a.isDisconnecting /\ b.logoutTimer = a.logoutTimer
        /\ b.prompts = a.prompts /\ b.forgotten = a.forgotten
        /\ b.reconnectConnection = a.reconnectConnection /\ b.manualStatus = a.manualStatus
    BY <1>2 DEF Accounts, SameStream
  <2> HIDE DEF b
  <2>3. Sane(b) /\ Free(b) # {} /\ b.lapsed = a.lapsed /\ (Down(b) <=> Down(a))
    BY <1>4, <2>1, <2>2, SameStreamFacts DEF Sane, SameStream
  <2>4. ~b.lapsed => Ready(b)
    <3>1. ASSUME ~a.lapsed
          PROVE  /\ Down(a) /\ a.manualStatus /\ ~a.logoutTimer /\ a.prompts = 0
                 /\ ~a.reconnectConnection /\ ~a.forgotten
      <4>1. Streaming(a) /\ Flags(a) /\ a.isActive /\ a.stream = 0
        BY <1>5, <1>6, <3>1 DEF Flags
      <4>2. account.manualStatus
        BY <1>3, <1>4, <3>1, <4>1, InvFacts DEF Active
      <4>3. a.prompts = 0
        BY <1>3, <4>1, InvFacts DEF Flags
      <4> QED BY <1>3, <1>4, <4>1, <4>2, <4>3, NoStreamIsDown DEF Flags
    <3> QED BY <2>2, <2>3, <3>1 DEF Ready
  <2>5. Good(Opened(b))
    BY <2>3, <2>4, OpenedGood
  <2>6. login(b) = Opened(b)
    BY <1>1, <2>2, InvFacts DEF login
  <2> QED BY <1>1, <1>6, <2>5, <2>6
<1>7. CASE ~(a.doReconnect /\ ~isConnected(a))
  <2>1. account' = a
    BY <1>1, <1>7
  <2>2. ASSUME ~a.lapsed
        PROVE  Active(a)
    <3>1. ~a.doReconnect
      BY <1>5, <1>7, <2>2 DEF Flags, isConnected
    <3>2. Active(account)
      BY <1>4, <2>2, InvFacts
    <3> QED BY <1>3, <3>1, <3>2 DEF Active, Alive, Present, SameStream
  <2> QED BY <1>4, <1>5, <2>1, <2>2 DEF Good, Kept, Promise
<1> QED BY <1>6, <1>7

(* reconnectTimerTimeout makes an inactive account active, which is a lapse; *)
(* for an active one it is an error like any other.                          *)
LEMMA ReconnectTimesOutGood ==
  ASSUME AccountInv, ReconnectTimesOut
  PROVE  Good(account')
<1> DEFINE la == account.lapsed \/ ~account.isActive
           a  == [account EXCEPT !.reconnectTimeout = FALSE, !.isActive = TRUE, !.lapsed = la]
<1>1. /\ account.reconnectTimeout /\ Free(account) # {}
      /\ account.reconnects < MaxReconnects /\ account' = cs_error(a, "lost")
  BY DEF ReconnectTimesOut, Slot, Room
<1>2. la \in BOOLEAN /\ (~la => ~account.lapsed /\ account.isActive)
  BY InvFacts DEF Accounts
<1> HIDE DEF la
<1>3. a \in Accounts
  <2> DEFINE x == [account EXCEPT !.reconnectTimeout = FALSE, !.isActive = TRUE]
  <2>1. x \in Accounts
    BY InvFacts DEF Accounts
  <2>2. a = [x EXCEPT !.lapsed = la]
    BY InvFacts DEF Accounts
  <2> HIDE DEF x, a
  <2> QED BY <1>2, <2>1, <2>2 DEF Accounts
<1>4. /\ a.stream = account.stream /\ a.client = account.client /\ a.streams = account.streams
      /\ a.rosters = account.rosters /\ a.signals = account.signals
      /\ a.isActive /\ a.lapsed = la
      /\ a.isDisconnecting = account.isDisconnecting /\ a.doReconnect = account.doReconnect
      /\ ~a.reconnectTimeout /\ a.logoutTimer = account.logoutTimer
      /\ a.prompts = account.prompts /\ a.forgotten = account.forgotten
      /\ a.reconnectConnection = account.reconnectConnection
      /\ a.manualStatus = account.manualStatus /\ a.presenceSent = account.presenceSent
      /\ a.reconnects = account.reconnects
  BY InvFacts DEF Accounts
<1> HIDE DEF a
<1>5. Sane(a) /\ Ending(a)
  BY <1>3, <1>4, InvFacts DEF Sane, Ending
<1>6. Free(a) # {}
  BY <1>1, <1>4 DEF Free
<1>7. ASSUME ~a.lapsed
      PROVE  Streaming(a) /\ Flags(a) /\ ~a.doReconnect /\ a.manualStatus
  <2>1. Streaming(account) /\ Flags(account) /\ Active(account) /\ account.isActive
    BY <1>2, <1>4, <1>7, InvFacts
  <2>2. Streaming(a)
    BY <1>4, <2>1 DEF Streaming
  <2>3. Flags(a)
    BY <1>4, <2>1 DEF Flags
  <2>4. ~a.doReconnect /\ a.manualStatus
    BY <1>1, <1>4, <2>1, InvFacts DEF Sane, Active
  <2> QED BY <2>2, <2>3, <2>4
<1> QED BY <1>1, <1>4, <1>5, <1>6, <1>7, ErrorGood DEF Steady

(* logoutTimer ends the logout without the server's help.                    *)
LEMMA LogoutTimesOutGood ==
  ASSUME AccountInv, LogoutTimesOut
  PROVE  Good(account')
<1> DEFINE c == clientClose(account)
<1>1. account.logoutTimer /\ Free(account) # {} /\ account' = finishLogout(c)
  BY DEF LogoutTimesOut, Slot, Room
<1>2. /\ Sane(c) /\ Keeps(account, c) /\ c.isActive = account.isActive
      /\ c.lapsed = account.lapsed /\ Free(c) # {}
      /\ Streaming(account) => Streaming(c)
  BY <1>1, InvFacts, CloseFields
<1> HIDE DEF c
<1>3. ~c.lapsed => /\ Streaming(c) /\ ~c.isActive /\ ~c.doReconnect
                   /\ c.prompts = 0 /\ ~c.forgotten
  BY <1>1, <1>2, InvFacts DEF Flags, Keeps
<1> QED BY <1>1, <1>2, <1>3, FinishGood

(* A stream that is at work changes its phase: the record stays well formed  *)
(* and only that stream's phase is another.                                  *)
LEMMA PhaseFields ==
  ASSUME Sane(account), NEW s \in Streams, account.streams[s] # "none",
         NEW p \in Phases, p # "none" \/ s # account.stream
  PROVE  LET b == Phase(s, p)
         IN /\ Sane(b) /\ Keeps(account, b)
            /\ b.streams[s] = p /\ \A u \in Streams \ {s} : b.streams[u] = account.streams[u]
            /\ b.stream = account.stream /\ b.client = account.client /\ b.rosters = account.rosters
            /\ b.signals = account.signals /\ b.lapsed = account.lapsed
            /\ b.isActive = account.isActive /\ b.isDisconnecting = account.isDisconnecting
            /\ b.presenceSent = account.presenceSent /\ b.rosterDone = account.rosterDone
            /\ Free(account) # {} => Free(b) # {}
<1> DEFINE st == [account.streams EXCEPT ![s] = p]
           b  == [account EXCEPT !.streams = st]
<1>1. account \in Accounts /\ account.streams \in [Streams -> Phases] /\ account.stream \in Streams \union {0}
  BY DEF Sane, Accounts
<1>2. Phase(s, p) = b
  BY <1>1 DEF Accounts, Phase
<1>3. st \in [Streams -> Phases] /\ st[s] = p /\ \A u \in Streams \ {s} : st[u] = account.streams[u]
  BY <1>1
<1> HIDE DEF st
<1>4. b \in Accounts
  BY <1>1, <1>3 DEF Accounts
<1>5. /\ b.streams = st /\ Keeps(account, b)
      /\ b.stream = account.stream /\ b.client = account.client /\ b.rosters = account.rosters
      /\ b.signals = account.signals /\ b.lapsed = account.lapsed
      /\ b.isActive = account.isActive /\ b.isDisconnecting = account.isDisconnecting
      /\ b.presenceSent = account.presenceSent /\ b.rosterDone = account.rosterDone
  BY <1>1 DEF Accounts, Keeps
<1> HIDE DEF b
<1>6. Sane(b)
  BY <1>1, <1>3, <1>4, <1>5 DEF Sane, Keeps
<1>7. \A u \in Free(account) : u \in Free(b)
  BY <1>3, <1>5 DEF Free
<1> QED BY <1>2, <1>3, <1>5, <1>6, <1>7

(* Until a lapse a stream at work is the account's.                          *)
LEMMA WorkingStream ==
  ASSUME AccountInv, NEW s \in Streams, account.streams[s] # "none", ~account.lapsed
  PROVE  /\ s = account.stream /\ account.stream # 0
         /\ Streaming(account) /\ Flags(account) /\ Active(account)
         /\ account.prompts = 0 /\ ~account.doReconnect
         /\ account.streams[s] = "connecting" =>
              account.isActive /\ ~account.isDisconnecting /\ ~account.logoutTimer
<1>1. Streaming(account) /\ Flags(account) /\ Active(account)
  BY InvFacts
<1>2. s = account.stream /\ s # 0
  BY <1>1, LimitAssumption DEF Streaming
<1>3. account.prompts = 0 /\ ~account.doReconnect
  BY <1>1, <1>2, InvFacts DEF Flags
<1>4. ASSUME account.streams[s] = "connecting"
      PROVE  account.isActive /\ ~account.isDisconnecting /\ ~account.logoutTimer
  BY <1>1, <1>2, <1>3, <1>4, InvFacts DEF Flags, Ending
<1> QED BY <1>1, <1>2, <1>3, <1>4

(* cs_authenticated looks at the account's stream, not at the signal's:      *)
(* until a lapse the two are the same, and reconnectOnce's slot is gone.     *)
LEMMA AuthenticatedGood ==
  ASSUME AccountInv, NEW s \in Streams, Authenticated(s)
  PROVE  Good(account')
<1> DEFINE a == Phase(s, "authenticated")
<1>1. /\ account.streams[s] = "connecting" /\ Free(account) # {}
      /\ account.reconnects < MaxReconnects
      /\ account' = IF a.stream = 0 THEN cs_error(a, "lost")
                    ELSE [a EXCEPT !.forgotten = @ \/ a.reconnectConnection,
                                   !.reconnectConnection = FALSE,
                                   !.rosters = @ \union {IF s = a.client THEN "asked" ELSE "lost"}]
  BY Zenon DEF Authenticated, Slot, Room
<1>2. /\ Sane(a) /\ Keeps(account, a)
      /\ a.streams[s] = "authenticated" /\ \A u \in Streams \ {s} : a.streams[u] = account.streams[u]
      /\ a.stream = account.stream /\ a.client = account.client /\ a.rosters = account.rosters
      /\ a.signals = account.signals /\ a.lapsed = account.lapsed
      /\ a.isActive = account.isActive /\ a.isDisconnecting = account.isDisconnecting
      /\ a.presenceSent = account.presenceSent /\ a.rosterDone = account.rosterDone
      /\ Free(a) # {}
  BY <1>1, InvFacts, PhaseFields DEF Phases
<1> HIDE DEF a
<1>3. Ending(a)
  BY <1>2, InvFacts DEF Ending, Keeps
<1>4. CASE a.stream = 0
  <2>1. a.lapsed
    BY <1>1, <1>2, <1>4, WorkingStream
  <2>2. a.reconnects < MaxReconnects
    BY <1>1, <1>2 DEF Keeps
  <2>3. Good(cs_error(a, "lost"))
    BY <1>2, <1>3, <2>1, <2>2, ErrorGood DEF Steady
  <2> QED BY <1>1, <1>4, <2>3
<1>5. CASE a.stream # 0
  <2> DEFINE fo == a.forgotten \/ a.reconnectConnection
             ro == a.rosters \union {IF s = a.client THEN "asked" ELSE "lost"}
             x  == [a EXCEPT !.reconnectConnection = FALSE, !.rosters = ro]
             b  == [x EXCEPT !.forgotten = fo]
  <2>1. account' = b
    BY <1>1, <1>2, <1>5 DEF Sane, Accounts
  <2>2. fo \in BOOLEAN /\ ro \in SUBSET {"asked", "lost"}
    BY <1>2 DEF Sane, Accounts
  <2>3. "asked" \in ro => "asked" \in a.rosters \/ s = a.client
    OBVIOUS
  <2>4. ~fo => ~a.forgotten /\ ~a.reconnectConnection
    OBVIOUS
  <2>5. ~a.forgotten /\ ~a.reconnectConnection => ~fo
    OBVIOUS
  <2> HIDE DEF fo, ro
  <2>6. x \in Accounts
    BY <1>2, <2>2 DEF Sane, Accounts
  <2>7. /\ x.stream = a.stream /\ x.client = a.client /\ x.streams = a.streams /\ x.rosters = ro
        /\ x.signals = a.signals /\ x.lapsed = a.lapsed /\ ~x.reconnectConnection
        /\ x.isActive = a.isActive /\ x.isDisconnecting = a.isDisconnecting
        /\ x.doReconnect = a.doReconnect /\ x.reconnectTimeout = a.reconnectTimeout
        /\ x.logoutTimer = a.logoutTimer /\ x.prompts = a.prompts
        /\ x.manualStatus = a.manualStatus /\ x.presenceSent = a.presenceSent
        /\ x.rosterDone = a.rosterDone
    BY <1>2 DEF Sane, Accounts
  <2> HIDE DEF x
  <2>8. b \in Accounts
    BY <2>2, <2>6 DEF Accounts
  <2>9. /\ b.stream = a.stream /\ b.client = a.client /\ b.streams = a.streams /\ b.rosters = ro
        /\ b.signals = a.signals /\ b.lapsed = a.lapsed /\ ~b.reconnectConnection
        /\ b.isActive = a.isActive /\ b.isDisconnecting = a.isDisconnecting
        /\ b.doReconnect = a.doReconnect /\ b.reconnectTimeout = a.reconnectTimeout
        /\ b.logoutTimer = a.logoutTimer /\ b.prompts = a.prompts
        /\ b.manualStatus = a.manualStatus /\ b.presenceSent = a.presenceSent
        /\ b.rosterDone = a.rosterDone /\ b.forgotten = fo
    BY <2>6, <2>7 DEF Accounts
  <2> HIDE DEF b
  <2>10. Sane(b) /\ Ending(b)
    BY <1>2, <1>3, <2>8, <2>9 DEF Sane, Ending
  <2>11. ASSUME ~b.lapsed
        PROVE  Promise(b)
    <3>1. /\ s = account.stream /\ account.stream # 0
          /\ Streaming(account) /\ Flags(account) /\ Active(account)
          /\ account.prompts = 0 /\ ~account.doReconnect
          /\ account.isActive /\ ~account.isDisconnecting /\ ~account.logoutTimer
      BY <1>1, <1>2, <2>9, <2>11, WorkingStream
    <3>2. Streaming(b)
      <4>1. \A u \in Streams : u # b.stream => b.streams[u] = "none"
        BY <1>2, <2>9, <3>1 DEF Streaming
      <4>2. "asked" \in b.rosters => b.client # 0 /\ b.streams[b.client] # "connecting"
        BY <1>1, <1>2, <2>3, <2>9, <3>1, InvFacts DEF Streaming, Sane
      <4>3. \A i \in 1..Len(b.signals) : b.signals[i].stale
        BY <1>1, <1>2, <2>9, <3>1 DEF Streaming
      <4> QED BY <4>1, <4>2, <4>3 DEF Streaming
    <3>3. ~fo
      BY <1>2, <2>5, <3>1 DEF Flags, Keeps
    <3>4. Flags(b)
      BY <1>2, <2>9, <3>1, <3>3 DEF Flags, Keeps
    <3>5. Active(b)
      BY <1>2, <2>9, <3>1 DEF Active, Alive, Present, Keeps
    <3> QED BY <3>2, <3>4, <3>5 DEF Promise
  <2> QED BY <2>1, <2>10, <2>11 DEF Good, Kept
<1> QED BY <1>4, <1>5

(* Stream management resumes the session of an authenticated stream.         *)
LEMMA ResumptionGood ==
  ASSUME AccountInv, NEW s \in Streams, ReconnectsQuietly(s) \/ Resumed(s)
  PROVE  Good(account')
<1>1. PICK p \in {"resuming", "authenticated"} :
        account' = Phase(s, p) /\ account.streams[s] \in {"resuming", "authenticated"}
  BY DEF ReconnectsQuietly, Resumed, Slot
<1> DEFINE a == Phase(s, p)
<1>2. /\ Sane(a) /\ Keeps(account, a)
      /\ a.streams[s] = p /\ \A u \in Streams \ {s} : a.streams[u] = account.streams[u]
      /\ a.stream = account.stream /\ a.client = account.client /\ a.rosters = account.rosters
      /\ a.signals = account.signals /\ a.lapsed = account.lapsed
      /\ a.isActive = account.isActive /\ a.isDisconnecting = account.isDisconnecting
      /\ a.presenceSent = account.presenceSent /\ a.rosterDone = account.rosterDone
  BY <1>1, InvFacts, PhaseFields DEF Phases
<1> HIDE DEF a
<1>3. Ending(a)
  BY <1>2, InvFacts DEF Ending, Keeps
<1>4. ASSUME ~a.lapsed
      PROVE  Promise(a)
  <2>1. /\ s = account.stream /\ account.stream # 0
        /\ Streaming(account) /\ Flags(account) /\ Active(account)
    BY <1>1, <1>2, <1>4, WorkingStream
  <2>2. Streaming(a)
    BY <1>1, <1>2, <2>1 DEF Streaming, Sane
  <2>3. Flags(a)
    BY <1>1, <1>2, <2>1 DEF Flags, Keeps
  <2>4. Active(a)
    BY <1>1, <1>2, <2>1 DEF Active, Alive, Present, Keeps
  <2> QED BY <2>2, <2>3, <2>4 DEF Promise
<1> QED BY <1>1, <1>2, <1>3, <1>4 DEF Good, Kept, a

(* cs_warning ends an account that is connecting.                            *)
LEMMA NoTlsGood ==
  ASSUME AccountInv, NEW s \in Streams, NoTls(s)
  PROVE  Good(account')
<1> DEFINE c == clientClose(account)
           d == cleanupStream(c)
           b == [d EXCEPT !.isActive = FALSE, !.loginStatus = FALSE]
<1>1. /\ account.streams[s] = "connecting" /\ Free(account) # {}
      /\ account' = disconnected(b)
  BY DEF NoTls, Slot, Room
<1>2. /\ Sane(c) /\ Keeps(account, c) /\ c.isDisconnecting = account.isDisconnecting
      /\ c.lapsed = account.lapsed /\ Free(c) # {}
      /\ Streaming(account) => Streaming(c)
  BY <1>1, InvFacts, CloseFields
<1> HIDE DEF c
<1>3. /\ Sane(d) /\ Keeps(c, d) /\ d.isDisconnecting = c.isDisconnecting
      /\ d.lapsed = c.lapsed /\ Free(d) # {}
      /\ Streaming(c) => Down(d)
  BY <1>2, CleanupFields
<1> HIDE DEF d
<1>4. b \in Accounts
  BY <1>3 DEF Sane, Accounts
<1>5. SameStream(d, b) /\ Keeps(account, d) /\ ~b.isActive
      /\ b.isDisconnecting = d.isDisconnecting /\ b.doReconnect = d.doReconnect
      /\ b.reconnectTimeout = d.reconnectTimeout
      /\ b.logoutTimer = d.logoutTimer /\ b.prompts = d.prompts /\ b.forgotten = d.forgotten
  <2>1. Keeps(account, d)
    BY <1>2, <1>3 DEF Keeps
  <2> QED BY <1>3, <2>1 DEF Sane, Accounts, SameStream
<1> HIDE DEF b
<1>6. Sane(b) /\ Free(b) # {} /\ b.lapsed = account.lapsed /\ (Down(b) <=> Down(d))
  BY <1>2, <1>3, <1>4, <1>5, SameStreamFacts DEF Sane, SameStream
<1>7. Ending(b)
  BY <1>2, <1>3, <1>5, InvFacts DEF Ending, Keeps
<1>8. ~b.lapsed => Over(b) /\ ~b.isDisconnecting
  BY <1>1, <1>2, <1>3, <1>5, <1>6, WorkingStream DEF Over, Keeps, Flags
<1> QED BY <1>1, <1>6, <1>7, <1>8, DisconnectedGood

(* The event queue as a sequence.                                            *)
LEMMA QueuedSignals ==
  ASSUME NEW sigs \in Seq(Signals), NEW g \in Signals
  PROVE  /\ Append(sigs, g) \in Seq(Signals) /\ Append(sigs, g) # <<>>
         /\ \A i \in 1..Len(Append(sigs, g)) :
              \/ Append(sigs, g)[i] = g
              \/ i \in 1..Len(sigs) /\ Append(sigs, g)[i] = sigs[i]
OBVIOUS

(* The same for the signal that is taken out.                                *)
LEMMA TakenSignals ==
  ASSUME NEW sigs \in Seq(Signals), sigs # <<>>
  PROVE  /\ Tail(sigs) \in Seq(Signals) /\ Head(sigs) \in Signals
         /\ 1 \in 1..Len(sigs) /\ Head(sigs) = sigs[1]
         /\ \A i \in 1..Len(Tail(sigs)) :
              i + 1 \in 1..Len(sigs) /\ Tail(sigs)[i] = sigs[i + 1]
OBVIOUS

(* A stream that ends, with an error that also ends the requests or without, *)
(* has its signal queued.                                                    *)
LEMMA EndsGood ==
  ASSUME AccountInv, NEW s \in Streams,
         account.streams[s] \in {"connecting", "authenticated", "resuming"},
         NEW a, NEW err \in {"lost", "fatal", "password", "closed"}, Queues(a, s, err),
         a = End(s) \/ a = [End(s) EXCEPT !.rosters = {}]
  PROVE  Good(account')
<1> DEFINE p == IF s = account.stream THEN "ended" ELSE "none"
           e == Phase(s, p)
           g == [err |-> err, stale |-> s # a.stream]
           q == Append(a.signals, g)
           b == [a EXCEPT !.signals = q]
<1>1. account' = b
  BY Zenon DEF Queues, Slot
<1>2. p \in Phases /\ (p # "none" \/ s # account.stream)
  BY DEF Phases
<1>3. End(s) = e
  BY DEF End
<1>4. p = IF s = account.stream THEN "ended" ELSE "none"
  OBVIOUS
<1> HIDE DEF p
<1>5. /\ Sane(e) /\ Keeps(account, e)
      /\ e.streams[s] = p /\ \A u \in Streams \ {s} : e.streams[u] = account.streams[u]
      /\ e.stream = account.stream /\ e.client = account.client /\ e.rosters = account.rosters
      /\ e.signals = account.signals /\ e.lapsed = account.lapsed
      /\ e.isActive = account.isActive /\ e.isDisconnecting = account.isDisconnecting
      /\ e.presenceSent = account.presenceSent /\ e.rosterDone = account.rosterDone
  BY <1>2, InvFacts, PhaseFields
<1> HIDE DEF e
<1>6. /\ a \in Accounts /\ a.stream = account.stream /\ a.client = account.client
      /\ a.streams = e.streams /\ a.rosters \subseteq account.rosters
      /\ a.signals = account.signals /\ a.lapsed = account.lapsed
      /\ a.isActive = account.isActive /\ a.isDisconnecting = account.isDisconnecting
      /\ a.presenceSent = account.presenceSent /\ a.rosterDone = account.rosterDone
      /\ Keeps(e, a)
  <2>1. CASE a = e
    BY <1>5, <2>1 DEF Sane, Keeps
  <2>2. CASE a = [e EXCEPT !.rosters = {}]
    BY <1>5, <2>2 DEF Sane, Keeps, Accounts
  <2> QED BY <1>3, <2>1, <2>2
<1>7. a.signals \in Seq(Signals) /\ g \in Signals /\ g.stale = (s # a.stream)
  BY <1>6 DEF Accounts, Signals
<1>8. q \in Seq(Signals) /\ q # <<>>
      /\ \A i \in 1..Len(q) : q[i] = g \/ (i \in 1..Len(a.signals) /\ q[i] = a.signals[i])
  BY <1>7, QueuedSignals
<1> HIDE DEF g, q
<1>9. b \in Accounts
  BY <1>6, <1>8 DEF Accounts
<1>10. /\ b.stream = a.stream /\ b.client = a.client /\ b.streams = a.streams
       /\ b.rosters = a.rosters /\ b.signals = q /\ b.lapsed = a.lapsed
       /\ b.isActive = a.isActive /\ b.isDisconnecting = a.isDisconnecting
       /\ b.presenceSent = a.presenceSent /\ b.rosterDone = a.rosterDone /\ Keeps(a, b)
  BY <1>6 DEF Accounts, Keeps
<1> HIDE DEF b
<1>11. Keeps(account, b)
  BY <1>5, <1>6, <1>10 DEF Keeps
<1>12. Sane(b) /\ Ending(b)
  BY <1>5, <1>6, <1>9, <1>10, <1>11, InvFacts DEF Sane, Ending, Keeps
<1>13. ASSUME ~b.lapsed
       PROVE  Promise(b)
  <2>1. /\ s = account.stream /\ account.stream # 0
        /\ Streaming(account) /\ Flags(account) /\ Active(account)
    BY <1>6, <1>10, <1>13, WorkingStream
  <2>2. b.stream = s /\ b.streams[s] = "ended"
    BY <1>4, <1>5, <1>6, <1>10, <2>1
  <2>3. Streaming(b)
    <3>1. \A u \in Streams : u # b.stream => b.streams[u] = "none"
      BY <1>5, <1>6, <1>10, <2>1 DEF Streaming
    <3>2. "asked" \in b.rosters => b.client # 0 /\ b.streams[b.client] # "connecting"
      BY <1>6, <1>10, <1>12, <2>1, <2>2 DEF Streaming, Sane
    <3> QED BY <2>1, <2>2, <3>1, <3>2 DEF Streaming
  <2>4. Flags(b)
    BY <1>6, <1>10, <1>11, <2>1, <2>2 DEF Flags, Keeps
  <2>5. Active(b)
    BY <1>6, <1>8, <1>10, <1>11, <2>1, <2>2 DEF Active, Alive, Present, Keeps
  <2> QED BY <2>3, <2>4, <2>5 DEF Promise
<1> QED BY <1>1, <1>12, <1>13 DEF Good, Kept

(* Every event of a stream.                                                  *)
LEMMA StreamGood ==
  ASSUME AccountInv, NEW s \in Streams, Stream(s)
  PROVE  Good(account')
<1>1. CASE Authenticated(s)
  BY <1>1, AuthenticatedGood
<1>2. CASE ReconnectsQuietly(s) \/ Resumed(s)
  BY <1>2, ResumptionGood
<1>3. CASE BadCertificate(s)
  BY <1>3, PlainLogoutGood DEF BadCertificate, Slot, Room
<1>4. CASE NoTls(s)
  BY <1>4, NoTlsGood
<1>5. CASE StreamError(s)
  <2>1. account.streams[s] \in {"connecting", "authenticated", "resuming"}
    BY <1>5 DEF StreamError
  <2>2. PICK err \in {"lost", "fatal"}
                  \union IF account.streams[s] = "connecting" THEN {"password"} ELSE {} :
               Queues([End(s) EXCEPT !.rosters = {}], s, err)
    BY <1>5 DEF StreamError
  <2>3. err \in {"lost", "fatal", "password", "closed"}
    OBVIOUS
  <2> QED BY <2>1, <2>2, <2>3, EndsGood
<1>6. CASE StreamClosed(s)
  BY <1>6, EndsGood DEF StreamClosed
<1> QED BY <1>1, <1>2, <1>3, <1>4, <1>5, <1>6 DEF Stream

(* The roster, or its failure, arrives: presence is sent.                    *)
LEMMA RosterFinishedGood ==
  ASSUME NEW a, Good(a), NEW success \in BOOLEAN,
         ~a.lapsed => a.stream # 0 /\ a.streams[a.stream] # "connecting",
         ~a.lapsed /\ success => a.streams[a.stream] # "ended"
  PROVE  Good(rosterFinished(a, success))
<1> DEFINE b == IF success THEN stopReconnect(a) ELSE a
           c == [b EXCEPT !.rosterDone = TRUE]
           d == setStatusDirect(c, a.loginStatus)
<1>1. a \in Accounts /\ a.loginStatus \in BOOLEAN /\ a.prompts \in Nat
  BY LimitAssumption DEF Good, Sane, Accounts
<1>2. rosterFinished(a, success) = d
  BY DEF rosterFinished
<1>3. /\ b \in Accounts /\ SameStream(a, b)
      /\ b.isActive = a.isActive /\ b.isDisconnecting = a.isDisconnecting
      /\ b.presenceSent = a.presenceSent /\ b.logoutTimer = a.logoutTimer
      /\ b.prompts = a.prompts /\ b.forgotten = a.forgotten
      /\ b.manualStatus = a.manualStatus /\ b.reconnects = a.reconnects
      /\ b.doReconnect => a.doReconnect
      /\ b.reconnectTimeout => a.reconnectTimeout
      /\ ~success => b.doReconnect = a.doReconnect /\ b.reconnectTimeout = a.reconnectTimeout
  <2>1. CASE success
    <3> DEFINE x == stopReconnect(a)
    <3>1. x \in Accounts /\ SameStream(a, x)
          /\ x.isActive = a.isActive /\ x.isDisconnecting = a.isDisconnecting
          /\ x.presenceSent = a.presenceSent /\ x.logoutTimer = a.logoutTimer
          /\ x.prompts = a.prompts /\ x.forgotten = a.forgotten
          /\ x.manualStatus = a.manualStatus /\ x.reconnects = a.reconnects
          /\ ~x.doReconnect /\ ~x.reconnectTimeout
      BY <1>1 DEF stopReconnect, Accounts, SameStream
    <3>2. b = x
      BY <2>1
    <3> HIDE DEF x, b
    <3> QED BY <2>1, <3>1, <3>2
  <2>2. CASE ~success
    <3>1. b = a
      BY <2>2
    <3> HIDE DEF b
    <3> QED BY <1>1, <3>1 DEF SameStream
  <2> QED BY <2>1, <2>2
<1> HIDE DEF b
<1>4. c \in Accounts
  BY <1>3 DEF Accounts
<1>5. /\ SameStream(b, c) /\ c.rosterDone
      /\ c.isActive = b.isActive /\ c.isDisconnecting = b.isDisconnecting
      /\ c.logoutTimer = b.logoutTimer
      /\ c.prompts = b.prompts /\ c.forgotten = b.forgotten
      /\ c.manualStatus = b.manualStatus /\ c.reconnects = b.reconnects
      /\ c.doReconnect = b.doReconnect /\ c.reconnectTimeout = b.reconnectTimeout
  BY <1>3 DEF Accounts, SameStream
<1> HIDE DEF c
<1>6. Sane(c)
  BY <1>3, <1>4, <1>5 DEF Good, Sane, SameStream
<1>7. /\ Sane(d) /\ SameStream(c, d)
      /\ ~d.reconnectConnection /\ d.presenceSent
      /\ d.isActive = c.isActive /\ d.isDisconnecting = c.isDisconnecting
      /\ d.rosterDone = c.rosterDone /\ d.doReconnect = c.doReconnect
      /\ d.reconnects = c.reconnects /\ d.reconnectTimeout = c.reconnectTimeout
      /\ d.logoutTimer = c.logoutTimer /\ d.forgotten = c.forgotten
      /\ d.prompts = c.prompts /\ d.manualStatus = c.manualStatus
  BY <1>1, <1>6, DirectFields
<1> HIDE DEF d
<1>8. /\ SameStream(a, d) /\ ~d.reconnectConnection /\ d.presenceSent /\ d.rosterDone
      /\ d.isActive = a.isActive /\ d.isDisconnecting = a.isDisconnecting
      /\ d.logoutTimer = a.logoutTimer /\ d.forgotten = a.forgotten
      /\ d.prompts = a.prompts /\ d.manualStatus = a.manualStatus
      /\ d.reconnects = a.reconnects
      /\ d.doReconnect => a.doReconnect
      /\ ~success => d.doReconnect = a.doReconnect /\ d.reconnectTimeout = a.reconnectTimeout
  BY <1>3, <1>5, <1>7 DEF SameStream
<1>9. Ending(d) /\ d.lapsed = a.lapsed
  BY <1>8 DEF Good, Ending, SameStream
<1>10. ASSUME ~a.lapsed
      PROVE  Promise(d)
  <2>1. Streaming(a) /\ Flags(a) /\ Active(a) /\ a.stream # 0
        /\ a.streams[a.stream] # "connecting"
    BY <1>10 DEF Good, Kept, Promise
  <2>2. Streaming(d)
    BY <1>8, <2>1, SameStreamFacts
  <2>3. Flags(d)
    BY <1>1, <1>8, <2>1 DEF Flags, SameStream
  <2>4. a.isActive => Alive(d)
    <3>1. CASE success
      BY <1>8, <1>10, <2>1, <3>1 DEF Alive, SameStream
    <3>2. CASE ~success
      BY <1>8, <2>1, <3>2 DEF Active, Alive, SameStream
    <3> QED BY <3>1, <3>2
  <2>5. Active(d)
    BY <1>8, <2>1, <2>4 DEF Active, Present, SameStream
  <2> QED BY <2>2, <2>3, <2>5 DEF Promise
<1> QED BY <1>2, <1>7, <1>9, <1>10 DEF Good, Kept

(* A request that is answered, or that fails, is forgotten.                  *)
LEMMA AnsweredGood ==
  ASSUME AccountInv, NEW ro \in SUBSET account.rosters, NEW la \in BOOLEAN,
         account.lapsed => la,
         NEW a, a = [account EXCEPT !.rosters = ro, !.lapsed = la]
  PROVE  /\ Good(a) /\ a.stream = account.stream /\ a.streams = account.streams
         /\ a.lapsed = la
<1>1. account \in Accounts
  BY InvFacts
<1>2. a \in Accounts
  <2> DEFINE x == [account EXCEPT !.rosters = ro]
  <2>1. x \in Accounts
    BY <1>1 DEF Accounts
  <2>2. a = [x EXCEPT !.lapsed = la]
    BY <1>1 DEF Accounts
  <2> HIDE DEF x
  <2> QED BY <2>1, <2>2 DEF Accounts
<1>3. /\ a.stream = account.stream /\ a.client = account.client /\ a.streams = account.streams
      /\ a.rosters = ro /\ a.signals = account.signals /\ a.lapsed = la
      /\ a.isActive = account.isActive /\ a.isDisconnecting = account.isDisconnecting
      /\ a.presenceSent = account.presenceSent /\ a.rosterDone = account.rosterDone
      /\ Keeps(account, a)
  BY <1>1 DEF Accounts, Keeps
<1>4. Sane(a) /\ Ending(a)
  BY <1>2, <1>3, InvFacts DEF Sane, Ending, Keeps
<1>5. ASSUME ~la
      PROVE  Promise(a)
  <2>1. Streaming(account) /\ Flags(account) /\ Active(account)
    BY <1>5, InvFacts
  <2>2. Streaming(a)
    BY <1>3, <2>1 DEF Streaming
  <2>3. Flags(a)
    BY <1>3, <2>1 DEF Flags, Keeps
  <2>4. Active(a)
    BY <1>3, <2>1 DEF Active, Alive, Present, Keeps
  <2> QED BY <2>2, <2>3, <2>4 DEF Promise
<1> QED BY <1>3, <1>4, <1>5 DEF Good, Kept

(* The roster's answer belongs to this login's stream; only the time-out of  *)
(* a lost request, a lapse, does not.                                        *)
LEMMA RosterGood ==
  ASSUME AccountInv, RosterSucceeds \/ RosterFails
  PROVE  Good(account')
<1>1. account \in Accounts /\ account.lapsed \in BOOLEAN
  BY InvFacts DEF Accounts
<1>2. ASSUME "asked" \in account.rosters, ~account.lapsed
      PROVE  account.stream # 0 /\ account.streams[account.stream] # "connecting"
  BY <1>2, InvFacts DEF Streaming, Sane
<1>3. CASE RosterSucceeds
  <2> DEFINE ro == account.rosters \ {"asked"}
             a  == [account EXCEPT !.rosters = ro, !.lapsed = account.lapsed]
  <2>1. /\ "asked" \in account.rosters /\ account.client # 0
        /\ account.streams[account.client] = "authenticated"
        /\ account' = rosterFinished([account EXCEPT !.rosters = ro], TRUE)
    BY <1>3 DEF RosterSucceeds, Slot
  <2>2. [account EXCEPT !.rosters = ro] = a
    BY <1>1 DEF Accounts
  <2>3. ro \in SUBSET account.rosters
    OBVIOUS
  <2> HIDE DEF ro
  <2>4. /\ Good(a) /\ a.stream = account.stream /\ a.streams = account.streams
        /\ a.lapsed = account.lapsed
    BY <1>1, <2>3, AnsweredGood
  <2> HIDE DEF a
  <2>5. account.stream = account.client
    BY <2>1, InvFacts DEF Sane
  <2>6. Good(rosterFinished(a, TRUE))
    BY <1>2, <2>1, <2>4, <2>5, RosterFinishedGood
  <2> QED BY <2>1, <2>2, <2>6
<1>4. CASE RosterFails
  <2>1. PICK r \in account.rosters :
          account' = rosterFinished([account EXCEPT !.rosters = @ \ {r},
                                                    !.lapsed = @ \/ r = "lost"], FALSE)
    BY <1>4 DEF RosterFails, Slot
  <2> DEFINE ro == account.rosters \ {r}
             la == account.lapsed \/ r = "lost"
             a  == [account EXCEPT !.rosters = ro, !.lapsed = la]
  <2>2. account' = rosterFinished(a, FALSE)
    BY <1>1, <2>1 DEF Accounts
  <2>3. ro \in SUBSET account.rosters /\ la \in BOOLEAN /\ (account.lapsed => la)
        /\ (~la => ~account.lapsed /\ r # "lost")
    BY <1>1
  <2>4. r \in {"asked", "lost"}
    BY <1>1 DEF Accounts
  <2> HIDE DEF ro, la
  <2>5. /\ Good(a) /\ a.stream = account.stream /\ a.streams = account.streams
        /\ a.lapsed = la
    BY <2>3, AnsweredGood
  <2> HIDE DEF a
  <2>6. Good(rosterFinished(a, FALSE))
    BY <1>2, <2>3, <2>4, <2>5, RosterFinishedGood
  <2> QED BY <2>2, <2>6
<1> QED BY <1>3, <1>4

(* The event queue delivers a signal.  One that is not stale, until a lapse, *)
(* is the end of the account's stream.                                       *)
LEMMA DeliverGood ==
  ASSUME AccountInv, Deliver
  PROVE  Good(account')
<1> DEFINE sig == Head(account.signals)
           ta  == Tail(account.signals)
           la  == account.lapsed \/ sig.stale
           a   == [account EXCEPT !.signals = ta, !.lapsed = la]
<1>1. account \in Accounts /\ account.lapsed \in BOOLEAN /\ account.signals \in Seq(Signals)
  BY InvFacts DEF Accounts
<1>2. /\ account.signals # <<>> /\ Free(account) # {} /\ account.reconnects < MaxReconnects
      /\ sig.err = "password" => account.prompts < MaxPrompts
      /\ account' = IF sig.err = "closed" THEN cs_connectionClosed(a) ELSE cs_error(a, sig.err)
  BY Zenon DEF Deliver, Slot, Room
<1>3. /\ ta \in Seq(Signals) /\ sig \in Signals
      /\ 1 \in 1..Len(account.signals) /\ sig = account.signals[1]
      /\ \A i \in 1..Len(ta) :
           i + 1 \in 1..Len(account.signals) /\ ta[i] = account.signals[i + 1]
  BY <1>1, <1>2, TakenSignals
<1>4. la \in BOOLEAN /\ (~la => ~account.lapsed /\ ~sig.stale) /\ (account.lapsed => la)
  BY <1>1, <1>3 DEF Signals
<1> HIDE DEF la, ta, sig
<1>5. a \in Accounts
  <2> DEFINE x == [account EXCEPT !.signals = ta]
  <2>1. x \in Accounts
    BY <1>1, <1>3 DEF Accounts
  <2>2. a = [x EXCEPT !.lapsed = la]
    BY <1>1 DEF Accounts
  <2> HIDE DEF x, a
  <2> QED BY <1>4, <2>1, <2>2 DEF Accounts
<1>6. /\ a.stream = account.stream /\ a.client = account.client /\ a.streams = account.streams
      /\ a.rosters = account.rosters /\ a.signals = ta /\ a.lapsed = la
      /\ a.isActive = account.isActive /\ a.isDisconnecting = account.isDisconnecting
      /\ a.presenceSent = account.presenceSent /\ a.rosterDone = account.rosterDone
      /\ Keeps(account, a)
  BY <1>1 DEF Accounts, Keeps
<1> HIDE DEF a
<1>7. Sane(a) /\ Ending(a)
  BY <1>5, <1>6, InvFacts DEF Sane, Ending, Keeps
<1>8. Free(a) # {}
  BY <1>2, <1>6 DEF Free
<1>9. ASSUME ~a.lapsed
      PROVE  /\ Streaming(a) /\ Flags(a) /\ ~a.doReconnect /\ a.prompts = 0
             /\ a.isActive => a.manualStatus
  <2>1. Streaming(account) /\ Flags(account) /\ Active(account)
    BY <1>4, <1>6, <1>9, InvFacts
  <2>2. account.stream # 0 /\ account.streams[account.stream] = "ended"
    BY <1>3, <1>4, <1>6, <1>9, <2>1 DEF Streaming
  <2>3. Streaming(a)
    BY <1>3, <1>6, <2>1 DEF Streaming
  <2>4. Flags(a)
    BY <1>6, <2>1 DEF Flags, Keeps
  <2>5. a.prompts = 0
    BY <1>6, <2>1, <2>2, InvFacts DEF Flags, Keeps
  <2>6. ~a.doReconnect /\ (a.isActive => a.manualStatus)
    BY <1>6, <2>1, <2>2 DEF Flags, Active, Keeps
  <2> QED BY <2>3, <2>4, <2>5, <2>6
<1>10. ASSUME NEW err, err = "password" => a.prompts < MaxPrompts
      PROVE  Good(cs_error(a, err))
  <2>1. a.reconnects < MaxReconnects
    BY <1>2, <1>6 DEF Keeps
  <2> QED BY <1>7, <1>8, <1>9, <1>10, <2>1, ErrorGood DEF Steady
<1>11. CASE sig.err = "closed" /\ a.isDisconnecting
  <2>1. account' = finishLogout(a)
    BY <1>2, <1>11 DEF cs_connectionClosed
  <2>2. ~a.lapsed => /\ Streaming(a) /\ ~a.isActive /\ ~a.doReconnect
                     /\ a.prompts = 0 /\ ~a.forgotten
    BY <1>9, <1>11 DEF Flags
  <2> QED BY <1>7, <1>8, <2>1, <2>2, FinishGood
<1>12. CASE sig.err = "closed" /\ ~a.isDisconnecting
  BY <1>2, <1>10, <1>12 DEF cs_connectionClosed
<1>13. CASE sig.err # "closed"
  <2>1. sig.err = "password" => a.prompts < MaxPrompts
    BY <1>2, <1>6 DEF Keeps
  <2>2. Good(cs_error(a, sig.err))
    BY <1>10, <2>1
  <2> QED BY <1>2, <1>13, <2>2
<1> QED BY <1>11, <1>12, <1>13

(* While TLS is not ready no slot can do more than note a status or an       *)
(* option.                                                                   *)
LEMMA UntouchedSteps ==
  ASSUME AccountInv, ~canEncrypt, ~canEncrypt', Next
  PROVE  Untouched(account')
<1>1. account \in Accounts /\ Untouched(account)
  BY InvFacts DEF AccountInv
<1>2. ASSUME NEW lo \in BOOLEAN, NEW ma \in BOOLEAN, NEW en \in BOOLEAN,
             account' = [account EXCEPT !.loginStatus = lo, !.manualStatus = ma,
                                        !.opt_enabled = en]
      PROVE  Untouched(account')
  BY <1>1, <1>2 DEF Untouched, Accounts
<1>3. ASSUME NEW online \in BOOLEAN, account' = setStatus(account, online)
      PROVE  Untouched(account')
  <2> DEFINE b == [account EXCEPT !.loginStatus = online, !.manualStatus = online]
  <2>1. ~b.isActive /\ ~b.isDisconnecting
    BY <1>1 DEF Untouched, Accounts
  <2>2. setStatus(account, online) = b
    BY <2>1 DEF setStatus, logout, login
  <2>3. b = [account EXCEPT !.loginStatus = online, !.manualStatus = online,
                            !.opt_enabled = account.opt_enabled]
    BY <1>1 DEF Accounts
  <2>4. account.opt_enabled \in BOOLEAN
    BY <1>1 DEF Accounts
  <2> QED BY <1>2, <1>3, <2>2, <2>3, <2>4
<1>4. CASE SetStatus
  BY <1>3, <1>4 DEF SetStatus, Slot
<1>5. CASE SetEnabled
  <2>1. logout(account) = account
    BY <1>1 DEF Untouched, logout
  <2>2. account' = [account EXCEPT !.opt_enabled = ~account.opt_enabled]
    BY <1>5, <2>1 DEF SetEnabled, Slot
  <2>3. account' = [account EXCEPT !.loginStatus = account.loginStatus,
                                   !.manualStatus = account.manualStatus,
                                   !.opt_enabled = ~account.opt_enabled]
    BY <1>1, <2>2 DEF Accounts
  <2>4. account.loginStatus \in BOOLEAN /\ account.manualStatus \in BOOLEAN
        /\ (~account.opt_enabled) \in BOOLEAN
    BY <1>1 DEF Accounts
  <2> QED BY <1>2, <2>3, <2>4
<1>6. CASE DoWakeup
  <2>1. cleanupStream(account) = account
    BY <1>1 DEF Untouched, cleanupStream
  <2> QED BY <1>3, <1>6, <2>1 DEF DoWakeup, Slot
<1>7. CASE ReconnectOnce \/ Prompt \/ SetAutoAway \/ PresenceUpdate
           \/ Reconnect \/ ReconnectTimesOut \/ LogoutTimesOut
  BY <1>1, <1>7 DEF Untouched, ReconnectOnce, Prompt, PasswordEntered, PasswordRefused,
                    SetAutoAway, PresenceUpdate, loggedIn, Reconnect, ReconnectTimesOut,
                    LogoutTimesOut
<1>8. ASSUME NEW s \in Streams, Stream(s)
      PROVE  FALSE
  BY <1>1, <1>8 DEF Untouched, Stream, Authenticated, ReconnectsQuietly, Resumed,
                    BadCertificate, NoTls, StreamError, StreamClosed
<1>9. CASE RosterSucceeds \/ RosterFails \/ Deliver
  BY <1>1, <1>9, Zenon DEF Untouched, RosterSucceeds, RosterFails, Deliver
<1>10. CASE TlsReady
  BY <1>10 DEF TlsReady
<1> QED BY <1>4, <1>5, <1>6, <1>7, <1>8, <1>9, <1>10 DEF Next, User

(* The options stay Boolean; TLS, once ready, stays so.                      *)
LEMMA OptionSteps ==
  ASSUME AccountInv, Next
  PROVE  opt_reconn' \in BOOLEAN /\ canEncrypt' \in BOOLEAN /\ (canEncrypt => canEncrypt')
<1>1. CASE TlsReady
  BY <1>1 DEF TlsReady, AccountInv
<1>2. CASE UNCHANGED options
  BY <1>2 DEF options, AccountInv
<1>3. CASE User \/ Prompt \/ SetAutoAway \/ PresenceUpdate
  BY <1>2, <1>3, Zenon DEF User, Prompt, SetStatus, ReconnectOnce, SetEnabled, DoWakeup,
        PasswordEntered, PasswordRefused, SetAutoAway, PresenceUpdate, Slot
<1>4. CASE Reconnect \/ ReconnectTimesOut \/ LogoutTimesOut
           \/ RosterSucceeds \/ RosterFails \/ Deliver
  BY <1>2, <1>4, Zenon DEF Reconnect, ReconnectTimesOut, LogoutTimesOut, RosterSucceeds,
        RosterFails, Deliver, Slot
<1>5. ASSUME NEW s \in Streams, Stream(s)
      PROVE  UNCHANGED options
  BY <1>5, Zenon DEF Stream, Authenticated, ReconnectsQuietly, Resumed, BadCertificate,
        NoTls, StreamError, StreamClosed, Queues, Slot
<1> QED BY <1>1, <1>2, <1>3, <1>4, <1>5 DEF Next

(* A new account satisfies the invariant.                                    *)
LEMMA InvInit == Init => AccountInv
<1> SUFFICES ASSUME Init
             PROVE  AccountInv
  OBVIOUS
<1>1. account \in Accounts
  BY LimitAssumption DEF Init, Accounts, Phases
<1>2. Sane(account) /\ Ending(account) /\ Untouched(account)
  BY <1>1 DEF Init, Sane, Ending, Untouched
<1>3. Promise(account)
  BY DEF Init, Promise, Streaming, Flags, Active
<1> QED BY <1>2, <1>3 DEF Init, AccountInv, Kept

(* Every step preserves it.                                                  *)
LEMMA InvNext == AccountInv /\ [Next]_vars => AccountInv'
<1> SUFFICES ASSUME AccountInv, [Next]_vars
             PROVE  AccountInv'
  OBVIOUS
<1>1. CASE Next
  <2>1. User => Good(account')
    BY SetStatusGood, ReconnectOnceGood, SetEnabledGood, DoWakeupGood DEF User
  <2>2. Prompt => Good(account')
    BY PasswordEnteredGood, PasswordRefusedGood DEF Prompt
  <2>3. (SetAutoAway \/ PresenceUpdate) => Good(account')
    BY PresenceGood
  <2>4. (Reconnect \/ ReconnectTimesOut \/ LogoutTimesOut) => Good(account')
    BY ReconnectGood, ReconnectTimesOutGood, LogoutTimesOutGood
  <2>5. (\E s \in Streams : Stream(s)) => Good(account')
    BY StreamGood
  <2>6. (RosterSucceeds \/ RosterFails) => Good(account')
    BY RosterGood
  <2>7. Deliver => Good(account')
    BY DeliverGood
  <2>8. TlsReady => Good(account')
    BY InvFacts DEF TlsReady
  <2>9. Good(account')
    BY <1>1, <2>1, <2>2, <2>3, <2>4, <2>5, <2>6, <2>7, <2>8 DEF Next
  <2>10. ~canEncrypt' => Untouched(account')
    BY <1>1, UntouchedSteps, OptionSteps
  <2> QED BY <1>1, <2>9, <2>10, OptionSteps DEF AccountInv, Good
<1>2. CASE UNCHANGED vars
  BY <1>2 DEF vars, AccountInv
<1> QED BY <1>1, <1>2

-----------------------------------------------------------------------------
(***************************************************************************)
(* The theorems.                                                           *)
(***************************************************************************)

(* The invariant holds in every state of the account.                        *)
LEMMA AccountInvariant == Spec => []AccountInv
BY InvInit, InvNext, PTL DEF Spec

(* Every variable keeps its type, whatever the numbers of streams, signals   *)
(* and timers: no slot of psiaccount.cpp needs more of them than it found.   *)
THEOREM TypeCorrect == Spec => []TypeOK
<1>1. AccountInv => TypeOK
  BY DEF AccountInv, Sane, TypeOK
<1> QED BY <1>1, AccountInvariant, PTL

(* An active account is never left with nothing under way (cs_error,         *)
(* reconnect, login): a stream at work, a signal, a reconnection or its      *)
(* timeout will move it on.                                                  *)
THEOREM ActiveAccountsMoveOn == Spec => []ActiveIsAlive
<1>1. AccountInv => ActiveIsAlive
  BY DEF AccountInv, Kept, Promise, Active, Alive, ActiveIsAlive
<1> QED BY <1>1, AccountInvariant, PTL

(* login() assigns d->stream without deleting what it held, and yet no       *)
(* connection is left behind, until a lapse.                                 *)
THEOREM NoStreamIsLeft == Spec => []OneStream
<1>1. AccountInv => OneStream
  BY DEF AccountInv, Kept, Promise, Streaming, OneStream, Orphans
<1> QED BY <1>1, AccountInvariant, PTL

(* A reconnection (startReconnect) waits only while the account is active    *)
(* and has no stream: logout, disabling and every other login call it off.   *)
THEOREM ReconnectionIsCalledOff == Spec => []ReconnectsWhileDown
<1>1. AccountInv => ReconnectsWhileDown
  BY DEF AccountInv, Kept, Promise, Flags, ReconnectsWhileDown
<1> QED BY <1>1, AccountInvariant, PTL

(* An account that has logged out holds neither a stream nor a logoutTimer   *)
(* that would close its next login (finishLogout, cs_error).                 *)
THEOREM InactiveIsEmpty == Spec => []InactiveHoldsNothing
<1>1. AccountInv => InactiveHoldsNothing
  BY DEF AccountInv, Kept, Promise, Flags, InactiveHoldsNothing
<1> QED BY <1>1, AccountInvariant, PTL

(* setStatusDirect sends presence only after this login's roster, on a       *)
(* stream that has authenticated.                                            *)
THEOREM PresenceWaitsForRoster == Spec => []PresenceAfterRoster
<1>1. AccountInv => PresenceAfterRoster
  BY DEF AccountInv, Kept, Promise, Active, Present, PresenceAfterRoster, loggedIn
<1> QED BY <1>1, AccountInvariant, PTL

(* When cs_authenticated overwrites the handle of reconnectOnce's slot, the  *)
(* slot is not connected: it runs once.                                      *)
THEOREM ReconnectsOnlyOnce == Spec => []ReconnectOnceIsOnce
<1>1. AccountInv => ReconnectOnceIsOnce
  BY DEF AccountInv, Kept, Promise, Flags, ReconnectOnceIsOnce
<1> QED BY <1>1, AccountInvariant, PTL

(* With or without a lapse, isDisconnecting, which has every online status   *)
(* refused, is set only while logoutTimer runs or a password dialog is open. *)
THEOREM DisconnectingIsWatched == Spec => []DisconnectingEnds
<1>1. AccountInv => DisconnectingEnds
  BY DEF AccountInv, Ending, DisconnectingEnds
<1> QED BY <1>1, AccountInvariant, PTL

(* With or without a lapse, the pause before a reconnection and the timeout  *)
(* of the last one do not run together (startReconnect, reconnect).          *)
THEOREM RecoveriesExclude == Spec => []OneRecovery
<1>1. AccountInv => OneRecovery
  BY DEF AccountInv, Sane, OneRecovery
<1> QED BY <1>1, AccountInvariant, PTL

(* No step opens a stream for an account whose user has asked for offline:   *)
(* the record that the step leaves has a stream that connects, so it is      *)
(* active, and an active account is wanted online.                           *)
THEOREM OfflineIsRespected == Spec => OfflineStaysOffline
<1>1. ASSUME AccountInv', NEW s \in Streams, ~account'.lapsed, Opens(s)
      PROVE  account'.manualStatus
  <2>1. Streaming(account') /\ Flags(account') /\ Active(account') /\ Ending(account')
    BY <1>1 DEF AccountInv, Kept, Promise
  <2>2. s = account'.stream /\ s # 0
    BY <1>1, <2>1, LimitAssumption DEF Opens, Streaming
  <2>3. account'.prompts \in Nat
    BY <1>1, LimitAssumption DEF AccountInv, Sane, Accounts
  <2>4. account'.isActive
    BY <1>1, <2>1, <2>2, <2>3 DEF Opens, Flags, Ending
  <2> QED BY <2>1, <2>4 DEF Active
<1>2. AccountInv' =>
        [~account'.lapsed /\ (\E s \in Streams : Opens(s)) => account'.manualStatus]_vars
  BY <1>1
<1> QED BY <1>2, AccountInvariant, PTL DEF OfflineStaysOffline
===============================================================================
