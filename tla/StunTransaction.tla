-------------------------- MODULE StunTransaction --------------------------
(***************************************************************************)
(* STUN requests (RFC 5389) as StunTransaction and StunTransactionPool     *)
(* make them (irisnet/noncore/stuntransaction.cpp): retransmission, the    *)
(* long-term credentials all transactions of a pool share, and the answers *)
(* of the server, in the three ways the code uses a pool.  One server is   *)
(* both the STUN and the TURN server.                                      *)
(*                                                                         *)
(* Datagrams are lost, delayed, duplicated and reordered: of every request *)
(* ever sent an answer may arrive at any time, as the server gave it at    *)
(* any time since, or never.  A transaction's k-th request has an id that  *)
(* no other request has (96 random bits), written <<t, k>> here.  Nonces   *)
(* are numbered in the order the server issues them; 0 is the empty one.   *)
(***************************************************************************)
EXTENDS Integers, Sequences

CONSTANTS
  Trans,     \* StunTransaction objects
  Rc,        \* d->rc: how often a request is sent over UDP
  MaxNonce   \* bound: nonces the server issues

ASSUME LimitAssumption == Rc \in Nat \ {0} /\ MaxNonce \in Nat \ {0}

VARIABLES
  mode,      \* of the pool: "Udp" or "Tcp"
  auth,      \* "long": setLongTermAuthEnabled; "short": every transaction has a stuser
  user,      \* has the pool a user name?
  nonce,     \* d->nonce of the pool
  tried,     \* d->triedLongTermAuth contains the server
  ids,       \* d->idToTrans: ids of the requests an answer is taken for
  trans,     \* trans[t]: see Transactions
  server,    \* the nonce the server accepts now
  outcome    \* outcome[t]: what the owner of t was told

vars == <<mode, auth, user, nonce, tried, ids, trans, server, outcome>>

poolVars == <<nonce, tried, user>>

(***************************************************************************)
(* A Binding request the server answers without credentials, others not.   *)
(* sent[k] is the k-th request: the nonce in it, 0 for a request without   *)
(* long-term credentials, and the nonce the server accepted then.  resume: *)
(* a queued call of continueAfterParams.  ignored is a history variable:   *)
(* the answer to the latest request was dropped.                           *)
(***************************************************************************)
Transactions ==
  [state : {"new", "live", "gone"}, method : {"binding", "turn"},
   active : BOOLEAN, timer : BOOLEAN, cancelling : BOOLEAN, tries : 0..Rc, resume : BOOLEAN, ignored : BOOLEAN,
   sent : Seq([nonce : 0..MaxNonce, since : 1..MaxNonce])]

Fresh == [state |-> "new", method |-> "turn", active |-> FALSE, timer |-> FALSE,
          cancelling |-> FALSE, tries |-> 0, resume |-> FALSE, ignored |-> FALSE, sent |-> <<>>]

Requests(t)  == Len(trans[t].sent)
LatestId(t)  == <<t, Requests(t)>>
Live(t)      == trans[t].state = "live"
Untold       == [how |-> "none", request |-> 0, mi |-> FALSE]

\* The answer stopped the timer and made the transaction inactive.
Stopped(tr)  == [tr EXCEPT !.active = FALSE, !.timer = FALSE]

-----------------------------------------------------------------------------
(* IceLocalTransport has a UDP pool, TurnClient a TCP pool of its own, both  *)
(* with long-term credentials; Ice176 has a pool per candidate pair, whose   *)
(* transactions have a name and a password each.                             *)
Init ==
  /\ \/ auth = "long" /\ mode \in {"Udp", "Tcp"} /\ user \in BOOLEAN
     \/ auth = "short" /\ mode = "Udp" /\ user = FALSE
  /\ nonce = 0 /\ tried = FALSE /\ ids = {}
  /\ trans \in [Trans -> {[Fresh EXCEPT !.method = m] : m \in {"binding", "turn"}}]
  /\ server = 1
  /\ outcome = [t \in Trans |-> Untold]

\* Mutant: retry() does not take the old id out of the pool.
TryRequestKeepsId(t, n) ==
  /\ trans' = [trans EXCEPT
       ![t] = [@ EXCEPT !.state = "live", !.active = TRUE, !.timer = TRUE, !.tries = 1,
                        !.resume = FALSE, !.ignored = FALSE,
                        !.sent = Append(trans[t].sent, [nonce |-> n, since |-> server])]]
  /\ ids' = ids \union {<<t, Requests(t) + 1>>}

\* pool->d->remove, and tryRequest with the pool's nonce n: a request with a
\* new id, transmitted at once.
TryRequest(t, n) ==
  /\ trans' = [trans EXCEPT
       ![t] = [@ EXCEPT !.state = "live", !.active = TRUE, !.timer = TRUE, !.tries = 1,
                        !.resume = FALSE, !.ignored = FALSE,
                        !.sent = Append(trans[t].sent, [nonce |-> n, since |-> server])]]
  /\ ids' = (ids \ {LatestId(t)}) \union {<<t, Requests(t) + 1>>}

\* The transaction leaves the pool and is deleted, after its owner was told
\* what o says: the owners delete it in their handlers.
Ends(t, o) ==
  /\ trans' = [trans EXCEPT
       ![t] = [Stopped(@) EXCEPT !.state = "gone", !.resume = FALSE]]
  /\ ids' = ids \ {LatestId(t)}
  /\ outcome' = [outcome EXCEPT ![t] = o]

-----------------------------------------------------------------------------
(* The owner.                                                                *)

\* StunTransaction::start
Start(t) ==
  /\ trans[t].state = "new"
  /\ TryRequest(t, nonce)
  /\ UNCHANGED <<mode, auth, poolVars, server, outcome>>

\* StunBinding::cancel: the owner lets go of the transaction.
Cancel(t) ==
  /\ Live(t) /\ ~trans[t].cancelling
  /\ trans' = [trans EXCEPT ![t].cancelling = TRUE]
  /\ UNCHANGED <<mode, auth, poolVars, ids, server, outcome>>

\* StunTransactionPrivate::~StunTransactionPrivate: the owner deletes it.
Delete(t) ==
  /\ Live(t) /\ ~trans[t].cancelling
  /\ Ends(t, outcome[t])
  /\ UNCHANGED <<mode, auth, poolVars, server>>

-----------------------------------------------------------------------------
(* Timers.                                                                   *)

\* Mutant: the retransmission is not counted.
RetransmitForEver(t) ==
  /\ trans[t].timer /\ ~trans[t].cancelling
  /\ mode = "Udp" /\ trans[t].tries < Rc
  /\ UNCHANGED vars

\* Mutant: one transmission too many.
RetransmitOnceMore(t) ==
  /\ trans[t].timer /\ ~trans[t].cancelling
  /\ mode = "Udp" /\ trans[t].tries <= Rc
  /\ trans' = [trans EXCEPT ![t].tries = @ + 1]
  /\ UNCHANGED <<mode, auth, poolVars, ids, server, outcome>>

\* t_timeout: the same packet again.  Intervals grow and are abstracted.
Retransmit(t) ==
  /\ trans[t].timer /\ ~trans[t].cancelling
  /\ mode = "Udp" /\ trans[t].tries < Rc
  /\ trans' = [trans EXCEPT ![t].tries = @ + 1]
  /\ UNCHANGED <<mode, auth, poolVars, ids, server, outcome>>

\* t_timeout, the last time: ErrorTimeout.
TimesOut(t) ==
  /\ trans[t].timer /\ ~trans[t].cancelling
  /\ mode = "Tcp" \/ trans[t].tries = Rc
  /\ Ends(t, [how |-> "timeout", request |-> Requests(t), mi |-> FALSE])
  /\ UNCHANGED <<mode, auth, poolVars, server>>

\* t_timeout of a cancelled transaction
TimesOutCancelled(t) ==
  /\ trans[t].timer /\ trans[t].cancelling
  /\ Ends(t, outcome[t])
  /\ UNCHANGED <<mode, auth, poolVars, server>>

-----------------------------------------------------------------------------
(* Answers.  mi: the answer has a message integrity that is valid for the    *)
(* key of the request.                                                       *)
Challenge(code, v) == [code |-> code, nonce |-> v, mi |-> FALSE]
Results(signed)    == [code : {"success", "error"}, nonce : {0}, mi : signed]

\* How the server answers request r of t while it accepts nonce v.  It signs
\* what it answers an authenticated request; a relay on the way that rewrites
\* addresses makes the signature invalid.
Given(t, r, v) ==
  CASE auth = "short" -> Results({TRUE})
    [] auth = "long" /\ trans[t].method = "binding" -> Results({FALSE, r.nonce # 0})
    [] auth = "long" /\ trans[t].method = "turn" /\ r.nonce = 0 ->
         {Challenge("unauthorized", v)}
    [] auth = "long" /\ trans[t].method = "turn" /\ r.nonce \notin {0, v} ->
         {Challenge("stale", v)}
    [] auth = "long" /\ trans[t].method = "turn" /\ r.nonce = v ->
         {Challenge("unauthorized", v)} \union Results(BOOLEAN)

\* The answers to the k-th request of t that may arrive now
Answers(t, k) ==
  UNION {Given(t, trans[t].sent[k], v) : v \in trans[t].sent[k].since .. server}

\* An answer to the k-th request gets to t: its id is in the pool, and t is
\* active (StunTransactionPool::writeIncomingMessage, checkActiveAndFrom).
Arrives(t, k) == <<t, k>> \in ids /\ trans[t].active

\* processIncoming of a cancelled transaction
AnswerCancelled(t, k, a) ==
  /\ Arrives(t, k) /\ trans[t].cancelling
  /\ Ends(t, outcome[t])
  /\ UNCHANGED <<mode, auth, poolVars, server>>

\* Mutant: a refusal of the credentials is a reason to send them again.
ChallengedAlways(a) == auth = "long" /\ a.code = "unauthorized"

\* 401, and this server has not had credentials yet
Challenged(a) == auth = "long" /\ a.code = "unauthorized" /\ ~tried

\* 438 with a nonce the pool does not know
GoneStale(a) == auth = "long" /\ a.code = "stale" /\ tried /\ a.nonce # nonce

\* Challenged, and the pool has a user name: retry.
RetryWithCredentials(t, k, a) ==
  /\ Arrives(t, k) /\ ~trans[t].cancelling
  /\ Challenged(a) /\ user
  /\ nonce' = a.nonce /\ tried' = TRUE
  /\ TryRequest(t, a.nonce)
  /\ UNCHANGED <<mode, auth, user, server, outcome>>

\* Challenged, and it has none: needAuthParams.  Both receivers answer with
\* continueAfterParams at once, IceLocalTransport without a name.
NeedAuthParams(t, k, a) ==
  /\ Arrives(t, k) /\ ~trans[t].cancelling
  /\ Challenged(a) /\ ~user
  /\ nonce' = a.nonce /\ tried' = TRUE
  /\ user' \in BOOLEAN
  /\ trans' = [u \in Trans |->
       LET tr == IF u = t THEN Stopped(trans[u]) ELSE trans[u]
       IN [tr EXCEPT !.resume = @ \/ (tr.state = "live" /\ ~tr.active /\ ~tr.cancelling)]]
  /\ UNCHANGED <<mode, auth, ids, server, outcome>>

\* The queued continueAfterParams of a transaction
ContinueAfterParams(t) ==
  /\ trans[t].resume
  /\ IF trans[t].cancelling
     THEN /\ trans' = [trans EXCEPT ![t].resume = FALSE]
          /\ UNCHANGED ids
     ELSE TryRequest(t, nonce)
  /\ UNCHANGED <<mode, auth, poolVars, server, outcome>>

\* Mutant: returns before the retry.
RetryStaleForgets(t, k, a) ==
  /\ Arrives(t, k) /\ ~trans[t].cancelling
  /\ GoneStale(a)
  /\ nonce' = a.nonce
  /\ trans' = [trans EXCEPT ![t] = Stopped(@)]
  /\ UNCHANGED <<mode, auth, user, tried, ids, server, outcome>>

\* 438: retry with the new nonce.
RetryStale(t, k, a) ==
  /\ Arrives(t, k) /\ ~trans[t].cancelling
  /\ GoneStale(a)
  /\ nonce' = a.nonce
  /\ TryRequest(t, a.nonce)
  /\ UNCHANGED <<mode, auth, user, tried, server, outcome>>

\* An answer the transaction itself does not act on
Final(a) == ~Challenged(a) /\ ~GoneStale(a)

\* Mutant: no message integrity is asked for.
NeverDistrusted(a) == FALSE

\* Where credentials are used, an answer without message integrity is not
\* for the owner; a refusal cannot have one.
Distrusted(a) ==
  /\ auth = "long" => a.code # "unauthorized"
  /\ auth = "short" \/ tried
  /\ ~a.mi

\* processIncoming returns: t keeps its place in the pool, and nothing else.
Ignore(t, k, a) ==
  /\ Arrives(t, k) /\ ~trans[t].cancelling
  /\ Final(a) /\ Distrusted(a)
  /\ trans' = [trans EXCEPT ![t] = [Stopped(@) EXCEPT !.ignored = TRUE]]
  /\ UNCHANGED <<mode, auth, poolVars, ids, server, outcome>>

\* finished(msg)
Finish(t, k, a) ==
  /\ Arrives(t, k) /\ ~trans[t].cancelling
  /\ Final(a) /\ ~Distrusted(a)
  /\ Ends(t, [how |-> a.code, request |-> k, mi |-> a.mi])
  /\ UNCHANGED <<mode, auth, poolVars, server>>

-----------------------------------------------------------------------------
(* The server.                                                               *)
NewNonce ==
  /\ server < MaxNonce /\ server' = server + 1
  /\ UNCHANGED <<mode, auth, poolVars, ids, trans, outcome>>

Timeout(t) == Retransmit(t) \/ TimesOut(t) \/ TimesOutCancelled(t)

ProcessIncoming(t, k, a) ==
  \/ AnswerCancelled(t, k, a) \/ RetryWithCredentials(t, k, a) \/ NeedAuthParams(t, k, a)
  \/ RetryStale(t, k, a) \/ Ignore(t, k, a) \/ Finish(t, k, a)

Next ==
  \/ NewNonce
  \/ \E t \in Trans :
       \/ Start(t) \/ Cancel(t) \/ Delete(t) \/ Timeout(t) \/ ContinueAfterParams(t)
       \/ \E k \in 1..Requests(t) : \E a \in Answers(t, k) : ProcessIncoming(t, k, a)

Spec == Init /\ [][Next]_vars

(* Qt fires timers and makes queued calls; no datagram need ever arrive.     *)
FairSpec == Spec /\ \A t \in Trans : WF_vars(Timeout(t)) /\ WF_vars(ContinueAfterParams(t))

-----------------------------------------------------------------------------
Outcomes == [how : {"none", "timeout", "success", "error", "unauthorized", "stale"},
             request : Nat, mi : BOOLEAN]

(* Every variable has its type.                                              *)
TypeOK ==
  /\ mode \in {"Udp", "Tcp"} /\ auth \in {"long", "short"}
  /\ user \in BOOLEAN /\ tried \in BOOLEAN
  /\ nonce \in 0..MaxNonce /\ server \in 1..MaxNonce
  /\ trans \in [Trans -> Transactions]
  /\ ids \subseteq Trans \X Nat
  /\ outcome \in [Trans -> Outcomes]

(* The pool's table holds one id of each living transaction, that of its     *)
(* latest request, and no other: an answer is never handed to a transaction  *)
(* that is gone or that has asked again since.                               *)
PoolHoldsLatest == ids = {LatestId(t) : t \in {u \in Trans : Live(u)}}

(* The owner of a transaction is told about its latest request, however many *)
(* answers to earlier ones are still under way.                              *)
ToldAboutLatest == \A t \in Trans : outcome[t].how # "none" => outcome[t].request = Requests(t)

(* A living transaction has a timer running, or a call queued that will send *)
(* it again.  The two exceptions are where the code loses one: it dropped    *)
(* an answer without message integrity (line 386), or it was cancelled while *)
(* it waited for credentials, although cancel() promises self-deletion       *)
(* "either on incoming or timeout" (stunbinding.cpp:75).                     *)
NobodyForgotten ==
  \A t \in Trans : Live(t) =>
    \/ trans[t].active /\ trans[t].timer
    \/ trans[t].resume
    \/ trans[t].ignored \/ trans[t].cancelling

(* The owner of a request that carried credentials is told of a success only *)
(* if the server signed it: what the pool goes by (tried) agrees with what   *)
(* the request said when it was sent.                                        *)
SuccessIsSigned ==
  \A t \in Trans : outcome[t].how = "success" /\ trans[t].sent[outcome[t].request].nonce # 0
                     => outcome[t].mi

(* A transaction never repeats credentials that were refused: each of its    *)
(* requests carries a nonce younger than the one before, so a server that    *)
(* goes on refusing is not asked for ever.                                   *)
RetriesMakeProgress ==
  \A t \in Trans : \A i, j \in 1..Requests(t) :
    i < j => trans[t].sent[i].nonce < trans[t].sent[j].nonce

(* With no answer at all a transaction ends by itself, unless the code has   *)
(* lost it (see NobodyForgotten).                                            *)
EveryTransactionEnds ==
  \A t \in Trans :
    Live(t) ~> ~Live(t) \/ trans[t].ignored \/ (trans[t].cancelling /\ ~trans[t].active)
=============================================================================
