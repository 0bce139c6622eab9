----------------------- MODULE StunTransaction_proofs -----------------------
(***************************************************************************)
(* Theorems about StunTransaction for every set of transactions, number of *)
(* retransmissions and number of nonces: its type invariant and each of    *)
(* the invariants that TLC checks.                                         *)
(*                                                                         *)
(* The argument.  A request is sent in one way, TryRequest, and a          *)
(* transaction leaves the pool in one way, Ends; every other step leaves   *)
(* requests and ids alone.  What makes a retry legal is the age of the     *)
(* nonces: none is younger than the request it was sent in, the pool has   *)
(* one exactly if it has tried credentials, and a transaction that waits   *)
(* for them has sent none.                                                 *)
(***************************************************************************)
EXTENDS StunTransaction, SequenceTheorems, TLAPS

-----------------------------------------------------------------------------
(* The inductive invariant. *)

(* What the fields of a transaction tell about each other and its outcome. *)
Shape ==
  \A t \in Trans :
    /\ trans[t].active <=> trans[t].timer
    /\ trans[t].active => Live(t) /\ ~trans[t].resume
    /\ trans[t].resume => Live(t)
    /\ trans[t].state = "new" => trans[t].sent = <<>>
    /\ Live(t) => Requests(t) > 0
    /\ trans[t].state # "gone" => outcome[t] = Untold

(* The ages of the nonces. *)
Ages ==
  /\ nonce <= server
  /\ tried <=> nonce > 0
  /\ \A t \in Trans :
       /\ trans[t].resume => tried
       /\ \A i \in 1..Requests(t) :
            /\ trans[t].sent[i].nonce <= trans[t].sent[i].since
            /\ ~tried \/ trans[t].resume => trans[t].sent[i].nonce = 0

IInv ==
  /\ TypeOK /\ Shape /\ PoolHoldsLatest /\ ToldAboutLatest
  /\ NobodyForgotten /\ Ages /\ RetriesMakeProgress /\ SuccessIsSigned

-----------------------------------------------------------------------------
(* The two ways in which requests and ids change. *)

(* A new request of t goes out and becomes the one that t has in the pool. *)
Sends(t, n) ==
  /\ \A u \in Trans \ {t} : trans'[u] = trans[u]
  /\ trans'[t].state = "live" /\ trans'[t].active /\ trans'[t].timer
  /\ ~trans'[t].resume
  /\ trans'[t].cancelling = trans[t].cancelling
  /\ Len(trans'[t].sent) = Requests(t) + 1
  /\ \A i \in 1..Requests(t) : trans'[t].sent[i] = trans[t].sent[i]
  /\ trans'[t].sent[Requests(t) + 1] = [nonce |-> n, since |-> server]
  /\ ids' = (ids \ {LatestId(t)}) \union {<<t, Requests(t) + 1>>}

LEMMA TryRequestSends ==
  ASSUME TypeOK, NEW t \in Trans, NEW n \in 0..MaxNonce, TryRequest(t, n)
  PROVE  /\ trans' \in [Trans -> Transactions]
         /\ ids' \subseteq Trans \X Nat
         /\ Sends(t, n)
<1> DEFINE req == [nonce |-> n, since |-> server]
           tr == [trans[t] EXCEPT !.state = "live", !.active = TRUE, !.timer = TRUE, !.tries = 1,
                                  !.resume = FALSE, !.ignored = FALSE, !.sent = Append(trans[t].sent, req)]
<1>1. /\ trans[t] \in Transactions
      /\ trans[t].sent \in Seq([nonce : 0..MaxNonce, since : 1..MaxNonce])
      /\ req \in [nonce : 0..MaxNonce, since : 1..MaxNonce]
  BY DEF TypeOK, Transactions
<1>2. /\ Append(trans[t].sent, req) \in Seq([nonce : 0..MaxNonce, since : 1..MaxNonce])
      /\ Len(Append(trans[t].sent, req)) = Len(trans[t].sent) + 1
      /\ \A i \in 1..Len(trans[t].sent) : Append(trans[t].sent, req)[i] = trans[t].sent[i]
      /\ Append(trans[t].sent, req)[Len(trans[t].sent) + 1] = req
  BY <1>1, AppendProperties
<1>3. 1 \in 0..Rc
  BY LimitAssumption
<1>4. /\ tr \in Transactions
      /\ tr.state = "live" /\ tr.active /\ tr.timer /\ ~tr.resume
      /\ tr.cancelling = trans[t].cancelling
      /\ tr.sent = Append(trans[t].sent, req)
  BY <1>1, <1>2, <1>3 DEF Transactions
<1>5. trans' = [trans EXCEPT ![t] = tr] /\ trans \in [Trans -> Transactions]
  BY DEF TryRequest, TypeOK
<1>6. /\ trans' \in [Trans -> Transactions] /\ trans'[t] = tr
      /\ \A u \in Trans \ {t} : trans'[u] = trans[u]
  BY <1>4, <1>5
<1>7. Requests(t) \in Nat /\ Requests(t) = Len(trans[t].sent)
  BY <1>1, LenProperties DEF Requests
<1>8. ids' = (ids \ {LatestId(t)}) \union {<<t, Requests(t) + 1>>} /\ ids' \subseteq Trans \X Nat
  BY <1>7 DEF TryRequest, TypeOK
<1> HIDE DEF tr
<1> QED
  BY <1>2, <1>4, <1>6, <1>7, <1>8 DEF Sends

(* t leaves the pool. *)
Leaves(t) ==
  /\ \A u \in Trans \ {t} : trans'[u] = trans[u]
  /\ trans'[t].state = "gone" /\ ~trans'[t].active /\ ~trans'[t].timer /\ ~trans'[t].resume
  /\ trans'[t].sent = trans[t].sent
  /\ ids' = ids \ {LatestId(t)}

LEMMA EndsLeaves ==
  ASSUME TypeOK, NEW t \in Trans, NEW o \in Outcomes, Ends(t, o)
  PROVE  /\ trans' \in [Trans -> Transactions]
         /\ ids' \subseteq Trans \X Nat
         /\ outcome' \in [Trans -> Outcomes]
         /\ Leaves(t)
         /\ outcome'[t] = o /\ \A u \in Trans \ {t} : outcome'[u] = outcome[u]
<1> DEFINE tr == [Stopped(trans[t]) EXCEPT !.state = "gone", !.resume = FALSE]
<1>1. trans[t] \in Transactions
  BY DEF TypeOK
<1>2. /\ tr \in Transactions
      /\ tr.state = "gone" /\ ~tr.active /\ ~tr.timer /\ ~tr.resume /\ tr.sent = trans[t].sent
  BY <1>1 DEF Transactions, Stopped
<1>3. trans' = [trans EXCEPT ![t] = tr] /\ trans \in [Trans -> Transactions]
  BY DEF Ends, TypeOK
<1>4. /\ trans' \in [Trans -> Transactions] /\ trans'[t] = tr
      /\ \A u \in Trans \ {t} : trans'[u] = trans[u]
  BY <1>2, <1>3
<1>5. /\ outcome' \in [Trans -> Outcomes] /\ outcome'[t] = o
      /\ \A u \in Trans \ {t} : outcome'[u] = outcome[u]
  BY DEF Ends, TypeOK
<1>6. ids' = ids \ {LatestId(t)} /\ ids' \subseteq Trans \X Nat
  BY DEF Ends, TypeOK
<1> HIDE DEF tr
<1> QED
  BY <1>2, <1>4, <1>5, <1>6 DEF Leaves

(* Every other step keeps requests, ids and outcomes. *)
Keeps ==
  /\ ids' = ids /\ outcome' = outcome
  /\ \A u \in Trans : trans'[u].state = trans[u].state /\ trans'[u].sent = trans[u].sent

LEMMA RequestsIsNat == TypeOK => \A t \in Trans : Requests(t) \in Nat
<1> SUFFICES ASSUME TypeOK, NEW t \in Trans PROVE Requests(t) \in Nat
  OBVIOUS
<1>1. trans[t].sent \in Seq([nonce : 0..MaxNonce, since : 1..MaxNonce])
  BY DEF TypeOK, Transactions
<1> QED
  BY <1>1, LenProperties DEF Requests

LEMMA SentType ==
  ASSUME TypeOK, NEW t \in Trans, NEW i \in 1..Requests(t)
  PROVE  trans[t].sent[i].nonce \in 0..MaxNonce /\ trans[t].sent[i].since \in 1..MaxNonce
<1>1. trans[t].sent \in Seq([nonce : 0..MaxNonce, since : 1..MaxNonce])
  BY DEF TypeOK, Transactions
<1>2. trans[t].sent[i] \in [nonce : 0..MaxNonce, since : 1..MaxNonce]
  BY <1>1, ElementOfSeq DEF Requests
<1> QED
  BY <1>2

-----------------------------------------------------------------------------
(* Steps that send a request.  In each of them the pool's nonce is then the  *)
(* one in the request.                                                       *)

LEMMA SendsKeepsPool ==
  ASSUME TypeOK, PoolHoldsLatest, NEW t \in Trans, NEW n, Sends(t, n), trans[t].state # "gone",
         trans[t].state = "new" => Requests(t) = 0
  PROVE  PoolHoldsLatest'
<1>1. \A u \in Trans : Requests(u) \in Nat
  BY RequestsIsNat
<1>2. \A u \in Trans \ {t} : (LatestId(u)' = LatestId(u)) /\ (Live(u)' <=> Live(u))
  BY DEF Sends, LatestId, Requests, Live
<1>3. LatestId(t)' = <<t, Requests(t) + 1>> /\ Live(t)'
  BY DEF Sends, LatestId, Requests, Live
<1>4. ids = {LatestId(u) : u \in {v \in Trans : Live(v)}}
  BY DEF PoolHoldsLatest
<1>5. \A u \in Trans : LatestId(u) = LatestId(t) => u = t
  BY DEF LatestId
<1>6. ids \ {LatestId(t)} = {LatestId(u) : u \in {v \in Trans \ {t} : Live(v)}}
  BY <1>4, <1>5
<1>7. {LatestId(u)' : u \in {v \in Trans : Live(v)'}}
        = {LatestId(u) : u \in {v \in Trans \ {t} : Live(v)}} \union {<<t, Requests(t) + 1>>}
  BY <1>2, <1>3
<1>8. ids' = (ids \ {LatestId(t)}) \union {<<t, Requests(t) + 1>>}
  BY DEF Sends
<1> QED
  BY <1>6, <1>7, <1>8 DEF PoolHoldsLatest

LEMMA SendsInv ==
  ASSUME IInv, NEW t \in Trans, NEW n \in 0..MaxNonce, TryRequest(t, n), trans[t].state # "gone",
         \A i \in 1..Requests(t) : trans[t].sent[i].nonce < n,
         UNCHANGED <<mode, auth, user, server, outcome>>,
         nonce' = n, n <= server, tried' \in BOOLEAN, tried' <=> n > 0, tried => tried'
  PROVE  IInv'
<1>1. /\ trans' \in [Trans -> Transactions] /\ ids' \subseteq Trans \X Nat
      /\ Sends(t, n)
  BY TryRequestSends DEF IInv
<1>2. TypeOK'
  BY <1>1 DEF IInv, TypeOK
<1>3. /\ \A u \in Trans : Requests(u) \in Nat /\ Requests(u)' \in Nat
      /\ Requests(t)' = Requests(t) + 1
      /\ \A u \in Trans \ {t} : trans'[u] = trans[u] /\ Requests(u)' = Requests(u)
  <2>1. \A u \in Trans : Requests(u) \in Nat
    BY RequestsIsNat DEF IInv
  <2> QED
    BY <1>1, <2>1 DEF Sends, Requests
<1>4. Shape'
  BY <1>1, <1>3 DEF IInv, Shape, Sends, Live, Requests
<1>5. PoolHoldsLatest'
  <2>1. trans[t].state = "new" => Requests(t) = 0
    BY DEF IInv, Shape, Requests
  <2> QED
    BY <1>1, <2>1, SendsKeepsPool DEF IInv
<1>6. ToldAboutLatest'
  <2>1. outcome[t].how = "none"
    BY DEF IInv, Shape, Untold
  <2> QED
    BY <1>3, <2>1 DEF IInv, ToldAboutLatest
<1>7. NobodyForgotten'
  BY <1>1, <1>3 DEF IInv, NobodyForgotten, Sends, Live
<1>8. /\ trans'[t].sent[Requests(t) + 1].nonce = n /\ trans'[t].sent[Requests(t) + 1].since = server
      /\ \A i \in 1..Requests(t) : trans'[t].sent[i] = trans[t].sent[i]
      /\ ~trans'[t].resume
  BY <1>1 DEF Sends
<1>9. Ages'
  <2>1. nonce' <= server' /\ (tried' <=> nonce' > 0)
    OBVIOUS
  <2>2. ASSUME NEW u \in Trans
        PROVE  /\ trans'[u].resume => tried'
               /\ \A i \in 1..Requests(u)' :
                    /\ trans'[u].sent[i].nonce <= trans'[u].sent[i].since
                    /\ ~tried' \/ trans'[u].resume => trans'[u].sent[i].nonce = 0
    <3>1. CASE u # t
      BY <1>3, <3>1 DEF IInv, Ages
    <3>2. CASE u = t
      <4>1. ASSUME NEW i \in 1..Requests(t)'
            PROVE  /\ trans'[t].sent[i].nonce <= trans'[t].sent[i].since
                   /\ ~tried' => trans'[t].sent[i].nonce = 0
        <5>1. CASE i = Requests(t) + 1
          <6>1. ~tried' => n = 0
            OBVIOUS
          <6> QED
            BY <1>8, <5>1, <6>1
        <5>2. CASE i \in 1..Requests(t)
          BY <1>8, <5>2 DEF IInv, Ages
        <5> QED
          BY <1>3, <5>1, <5>2
      <4> QED
        BY <1>8, <3>2, <4>1
    <3> QED
      BY <3>1, <3>2
  <2> QED
    BY <2>1, <2>2 DEF Ages
<1>10. RetriesMakeProgress'
  <2> SUFFICES ASSUME NEW u \in Trans, NEW i \in 1..Requests(u)', NEW j \in 1..Requests(u)', i < j
               PROVE  trans'[u].sent[i].nonce < trans'[u].sent[j].nonce
    BY DEF RetriesMakeProgress
  <2>1. CASE u # t
    BY <1>3, <2>1 DEF IInv, RetriesMakeProgress
  <2>2. CASE u = t /\ j \in 1..Requests(t)
    <3>1. i \in 1..Requests(t)
      BY <1>3, <2>2
    <3> QED
      BY <1>8, <2>2, <3>1 DEF IInv, RetriesMakeProgress
  <2>3. CASE u = t /\ j = Requests(t) + 1
    <3>1. i \in 1..Requests(t)
      BY <1>3, <2>3
    <3> QED
      BY <1>8, <2>3, <3>1
  <2> QED
    BY <1>3, <2>1, <2>2, <2>3
<1>11. SuccessIsSigned'
  <2>1. outcome[t].how # "success"
    BY DEF IInv, Shape, Untold
  <2> QED
    BY <1>3, <2>1 DEF IInv, SuccessIsSigned
<1> QED
  BY <1>2, <1>4, <1>5, <1>6, <1>7, <1>9, <1>10, <1>11 DEF IInv

-----------------------------------------------------------------------------
(* Steps that end a transaction. *)

LEMMA LeavesKeepsPool ==
  ASSUME PoolHoldsLatest, NEW t \in Trans, Leaves(t), Live(t)
  PROVE  PoolHoldsLatest'
<1>1. \A u \in Trans : LatestId(u)' = LatestId(u)
  BY DEF Leaves, LatestId, Requests
<1>2. \A u \in Trans : Live(u)' <=> Live(u) /\ u # t
  BY DEF Leaves, Live
<1>3. ids = {LatestId(u) : u \in {v \in Trans : Live(v)}}
  BY DEF PoolHoldsLatest
<1>4. \A u \in Trans : LatestId(u) = LatestId(t) => u = t
  BY DEF LatestId
<1>5. ids \ {LatestId(t)} = {LatestId(u) : u \in {v \in Trans \ {t} : Live(v)}}
  BY <1>3, <1>4
<1>6. {LatestId(u)' : u \in {v \in Trans : Live(v)'}}
        = {LatestId(u) : u \in {v \in Trans \ {t} : Live(v)}}
  BY <1>1, <1>2
<1>7. ids' = ids \ {LatestId(t)}
  BY DEF Leaves
<1> QED
  BY <1>5, <1>6, <1>7 DEF PoolHoldsLatest

LEMMA EndsInv ==
  ASSUME IInv, NEW t \in Trans, NEW o \in Outcomes, Live(t), Ends(t, o),
         o.how # "none" => o.request = Requests(t),
         o.how = "success" /\ trans[t].sent[o.request].nonce # 0 => o.mi,
         UNCHANGED <<mode, auth, poolVars, server>>
  PROVE  IInv'
<1>1. /\ trans' \in [Trans -> Transactions] /\ ids' \subseteq Trans \X Nat
      /\ outcome' \in [Trans -> Outcomes]
      /\ Leaves(t)
      /\ outcome'[t] = o /\ \A u \in Trans \ {t} : outcome'[u] = outcome[u]
  BY EndsLeaves DEF IInv
<1>2. /\ \A u \in Trans : Requests(u)' = Requests(u) /\ trans'[u].sent = trans[u].sent
      /\ \A u \in Trans \ {t} : trans'[u] = trans[u]
  BY <1>1 DEF Leaves, Requests
<1>3. TypeOK'
  BY <1>1 DEF IInv, TypeOK, poolVars
<1>4. Shape'
  BY <1>1, <1>2 DEF IInv, Shape, Leaves, Live
<1>5. PoolHoldsLatest'
  BY <1>1, LeavesKeepsPool DEF IInv
<1>6. ToldAboutLatest'
  BY <1>1, <1>2 DEF IInv, ToldAboutLatest
<1>7. NobodyForgotten'
  BY <1>1, <1>2 DEF IInv, NobodyForgotten, Leaves, Live
<1>8. Ages'
  <2>1. \A u \in Trans : trans'[u].resume => trans[u].resume
    BY <1>1, <1>2 DEF Leaves
  <2> QED
    BY <1>2, <2>1 DEF IInv, Ages, poolVars
<1>9. RetriesMakeProgress'
  BY <1>2 DEF IInv, RetriesMakeProgress
<1>10. SuccessIsSigned'
  BY <1>1, <1>2 DEF IInv, SuccessIsSigned
<1> QED
  BY <1>3, <1>4, <1>5, <1>6, <1>7, <1>8, <1>9, <1>10 DEF IInv

(* Nothing is told to the owner. *)
LEMMA EndsSilently ==
  ASSUME IInv, NEW t \in Trans, Live(t), Ends(t, outcome[t]),
         UNCHANGED <<mode, auth, poolVars, server>>
  PROVE  IInv'
<1>1. outcome[t] \in Outcomes /\ outcome[t].how = "none"
  BY DEF IInv, TypeOK, Shape, Untold, Live
<1> QED
  BY <1>1, EndsInv

-----------------------------------------------------------------------------
(* Steps that keep requests, ids and outcomes. *)

LEMMA KeepsInv ==
  ASSUME IInv, Keeps, TypeOK',
         nonce' <= server', tried' <=> nonce' > 0, tried => tried',
         \A u \in Trans :
           /\ trans'[u].active <=> trans'[u].timer
           /\ trans'[u].active => Live(u) /\ ~trans'[u].resume
           /\ trans'[u].resume => /\ Live(u) /\ tried'
                                  /\ \/ trans[u].resume
                                     \/ \A i \in 1..Requests(u) : trans[u].sent[i].nonce = 0
           /\ Live(u) => \/ trans'[u].active \/ trans'[u].resume
                         \/ trans'[u].ignored \/ trans'[u].cancelling
  PROVE  IInv'
<1>1. \A u \in Trans : /\ Requests(u)' = Requests(u) /\ LatestId(u)' = LatestId(u)
                       /\ Live(u)' <=> Live(u)
                       /\ trans'[u].sent = trans[u].sent
                       /\ trans'[u].state = trans[u].state
  BY DEF Keeps, Requests, LatestId, Live
<1>2. Shape'
  BY <1>1 DEF IInv, Shape, Keeps
<1>3. PoolHoldsLatest'
  <2>1. {LatestId(u)' : u \in {v \in Trans : Live(v)'}} = {LatestId(u) : u \in {v \in Trans : Live(v)}}
    BY <1>1
  <2> QED
    BY <2>1 DEF IInv, PoolHoldsLatest, Keeps
<1>4. ToldAboutLatest'
  BY <1>1 DEF IInv, ToldAboutLatest, Keeps
<1>5. NobodyForgotten'
  BY <1>1 DEF NobodyForgotten
<1>6. Ages'
  BY <1>1 DEF IInv, Ages
<1>7. RetriesMakeProgress'
  BY <1>1 DEF IInv, RetriesMakeProgress
<1>8. SuccessIsSigned'
  BY <1>1 DEF IInv, SuccessIsSigned, Keeps
<1> QED
  BY <1>2, <1>3, <1>4, <1>5, <1>6, <1>7, <1>8 DEF IInv

-----------------------------------------------------------------------------
(* Answers. *)

(* An answer that gets to t is one to its latest request. *)
LEMMA ArrivesLatest ==
  ASSUME IInv, NEW t \in Trans, NEW k, Arrives(t, k)
  PROVE  Live(t) /\ k = Requests(t) /\ k \in 1..Requests(t)
<1>1. PICK u \in {v \in Trans : Live(v)} : <<t, k>> = LatestId(u)
  BY DEF Arrives, IInv, PoolHoldsLatest
<1>2. t = u /\ k = Requests(t) /\ Live(t)
  BY <1>1 DEF LatestId
<1>3. Requests(t) > 0 /\ Requests(t) \in Nat
  BY <1>2, RequestsIsNat DEF IInv, Shape
<1> QED
  BY <1>2, <1>3

(* A challenge brings a nonce that the server has issued, not before it got  *)
(* the request, and one that says "stale" brings another than the request's. *)
LEMMA AnswerShape ==
  ASSUME TypeOK, NEW t \in Trans, NEW k \in 1..Requests(t), NEW a \in Answers(t, k)
  PROVE  /\ a.code \in {"success", "error", "unauthorized", "stale"} /\ a.mi \in BOOLEAN
         /\ a.code \in {"unauthorized", "stale"} =>
              /\ a.nonce \in 1..server
              /\ a.nonce >= trans[t].sent[k].since
         /\ a.code = "stale" => a.nonce # trans[t].sent[k].nonce
<1> DEFINE r == trans[t].sent[k]
<1>1. r.nonce \in 0..MaxNonce /\ r.since \in 1..MaxNonce /\ server \in 1..MaxNonce
  BY SentType DEF TypeOK
<1>2. PICK v \in r.since .. server : a \in Given(t, r, v)
  BY DEF Answers
<1>3. v \in 1..server /\ v >= r.since
  BY <1>1
<1>4. CASE auth = "short"
  <2>1. a \in Results({TRUE})
    BY <1>2, <1>4 DEF Given
  <2> QED
    BY <2>1 DEF Results
<1>5. CASE auth = "long" /\ trans[t].method = "binding"
  <2>1. a \in Results({FALSE, r.nonce # 0})
    BY <1>2, <1>5 DEF Given
  <2>2. {FALSE, r.nonce # 0} \subseteq BOOLEAN
    OBVIOUS
  <2> QED
    BY <2>1, <2>2 DEF Results
<1>6. CASE auth = "long" /\ trans[t].method = "turn" /\ r.nonce = 0
  <2>1. a = Challenge("unauthorized", v)
    BY <1>2, <1>3, <1>6 DEF Given
  <2> QED
    BY <1>3, <2>1 DEF Challenge
<1>7. CASE auth = "long" /\ trans[t].method = "turn" /\ r.nonce \notin {0, v}
  <2>1. a = Challenge("stale", v)
    BY <1>2, <1>7 DEF Given
  <2> QED
    BY <1>3, <1>7, <2>1 DEF Challenge
<1>8. CASE auth = "long" /\ trans[t].method = "turn" /\ r.nonce = v /\ v # 0
  <2>1. a \in {Challenge("unauthorized", v)} \union Results(BOOLEAN)
    BY <1>2, <1>8 DEF Given
  <2>2. CASE a = Challenge("unauthorized", v)
    BY <1>3, <2>2 DEF Challenge
  <2>3. CASE a \in Results(BOOLEAN)
    BY <2>3 DEF Results
  <2> QED
    BY <2>1, <2>2, <2>3
<1>9. auth \in {"long", "short"} /\ trans[t].method \in {"binding", "turn"}
  BY DEF TypeOK, Transactions
<1> QED
  BY <1>4, <1>5, <1>6, <1>7, <1>8, <1>9

-----------------------------------------------------------------------------
(* The steps. *)

LEMMA StartInv ==
  ASSUME IInv, NEW t \in Trans, Start(t)
  PROVE  IInv'
<1>1. trans[t].state = "new" /\ TryRequest(t, nonce)
  BY DEF Start
<1>2. Requests(t) = 0
  BY <1>1 DEF IInv, Shape, Requests
<1>3. /\ nonce \in 0..MaxNonce /\ nonce <= server /\ tried \in BOOLEAN
      /\ tried <=> nonce > 0
  BY DEF IInv, TypeOK, Ages
<1>4. UNCHANGED <<mode, auth, user, nonce, tried, server, outcome>>
  BY DEF Start, poolVars
<1> QED
  BY <1>1, <1>2, <1>3, <1>4, SendsInv

LEMMA RetryWithCredentialsInv ==
  ASSUME IInv, NEW t \in Trans, NEW k \in 1..Requests(t), NEW a \in Answers(t, k),
         RetryWithCredentials(t, k, a)
  PROVE  IInv'
<1>1. Live(t)
  BY ArrivesLatest DEF RetryWithCredentials
<1>2. a.nonce \in 1..server
  BY AnswerShape DEF IInv, RetryWithCredentials, Challenged
<1>3. ~tried /\ \A i \in 1..Requests(t) : trans[t].sent[i].nonce = 0
  BY DEF RetryWithCredentials, Challenged, IInv, Ages
<1>4. a.nonce \in 0..MaxNonce /\ a.nonce <= server /\ a.nonce > 0
  BY <1>2, LimitAssumption DEF IInv, TypeOK
<1>5. /\ TryRequest(t, a.nonce) /\ nonce' = a.nonce /\ tried' = TRUE
      /\ UNCHANGED <<mode, auth, user, server, outcome>>
  BY DEF RetryWithCredentials
<1>6. trans[t].state # "gone"
  BY <1>1 DEF Live
<1> QED
  BY <1>3, <1>4, <1>5, <1>6, SendsInv

LEMMA RetryStaleInv ==
  ASSUME IInv, NEW t \in Trans, NEW k \in 1..Requests(t), NEW a \in Answers(t, k),
         RetryStale(t, k, a)
  PROVE  IInv'
<1>1. Live(t) /\ k = Requests(t)
  BY ArrivesLatest DEF RetryStale
<1>2. /\ a.nonce \in 1..server /\ a.nonce >= trans[t].sent[k].since
      /\ a.nonce # trans[t].sent[k].nonce
  BY AnswerShape DEF IInv, RetryStale, GoneStale
<1>3. /\ trans[t].sent[k].nonce <= trans[t].sent[k].since
      /\ trans[t].sent[k].nonce \in Nat /\ trans[t].sent[k].since \in Nat
  BY SentType DEF IInv, Ages
<1>4. trans[t].sent[k].nonce < a.nonce
  BY <1>2, <1>3
<1>5. ASSUME NEW i \in 1..Requests(t)
      PROVE  trans[t].sent[i].nonce < a.nonce
  <2>1. trans[t].sent[i].nonce \in Nat
    BY SentType DEF IInv
  <2>2. CASE i = k
    BY <1>4, <2>2
  <2>3. CASE i < k
    <3>1. trans[t].sent[i].nonce < trans[t].sent[k].nonce
      BY <2>3 DEF IInv, RetriesMakeProgress
    <3> QED
      BY <1>2, <1>3, <1>4, <2>1, <3>1
  <2> QED
    BY <1>1, <2>2, <2>3
<1>6. a.nonce \in 0..MaxNonce /\ a.nonce <= server /\ a.nonce > 0
  BY <1>2, LimitAssumption DEF IInv, TypeOK
<1>7. /\ TryRequest(t, a.nonce) /\ nonce' = a.nonce /\ tried' = tried /\ tried = TRUE
      /\ UNCHANGED <<mode, auth, user, server, outcome>>
  BY DEF RetryStale, GoneStale, IInv, TypeOK
<1>8. trans[t].state # "gone"
  BY <1>1 DEF Live
<1> QED
  BY <1>5, <1>6, <1>7, <1>8, SendsInv

LEMMA ContinueAfterParamsInv ==
  ASSUME IInv, NEW t \in Trans, ContinueAfterParams(t)
  PROVE  IInv'
<1>1. trans[t].resume /\ Live(t) /\ tried
  BY DEF ContinueAfterParams, IInv, Shape, Ages
<1>2. /\ nonce \in 0..MaxNonce /\ nonce <= server /\ tried \in BOOLEAN
      /\ tried <=> nonce > 0
  BY DEF IInv, TypeOK, Ages
<1>3. UNCHANGED <<mode, auth, user, nonce, tried, server, outcome>>
  BY DEF ContinueAfterParams, poolVars
<1>4. CASE trans[t].cancelling
  <2>1. /\ trans' = [trans EXCEPT ![t].resume = FALSE] /\ ids' = ids
        /\ trans \in [Trans -> Transactions] /\ trans[t] \in Transactions
    BY <1>4 DEF ContinueAfterParams, IInv, TypeOK
  <2>2. trans' \in [Trans -> Transactions]
    BY <2>1 DEF Transactions
  <2>3. TypeOK'
    BY <1>3, <2>1, <2>2 DEF IInv, TypeOK
  <2>4. Keeps
    BY <1>3, <2>1 DEF Keeps, Transactions
  <2>5. \A u \in Trans :
          /\ trans'[u].active = trans[u].active /\ trans'[u].timer = trans[u].timer
          /\ trans'[u].resume => trans[u].resume /\ u # t
          /\ trans'[u].ignored = trans[u].ignored /\ trans'[u].cancelling = trans[u].cancelling
    BY <2>1 DEF Transactions
  <2>6. \A u \in Trans : u # t => trans'[u].resume = trans[u].resume
    BY <2>1
  <2> QED
    BY <1>1, <1>2, <1>3, <1>4, <2>3, <2>4, <2>5, <2>6, KeepsInv
       DEF IInv, Shape, NobodyForgotten, Ages
<1>5. CASE ~trans[t].cancelling
  <2>1. TryRequest(t, nonce)
    BY <1>5 DEF ContinueAfterParams
  <2>2. ASSUME NEW i \in 1..Requests(t)
        PROVE  trans[t].sent[i].nonce < nonce
    <3>1. trans[t].sent[i].nonce = 0
      BY <1>1 DEF IInv, Ages
    <3> QED
      BY <1>1, <1>2, <3>1
  <2>3. trans[t].state # "gone"
    BY <1>1 DEF Live
  <2> QED
    BY <1>2, <1>3, <2>1, <2>2, <2>3, SendsInv
<1> QED
  BY <1>4, <1>5

LEMMA NeedAuthParamsInv ==
  ASSUME IInv, NEW t \in Trans, NEW k \in 1..Requests(t), NEW a \in Answers(t, k),
         NeedAuthParams(t, k, a)
  PROVE  IInv'
<1> DEFINE tr(u) == IF u = t THEN Stopped(trans[u]) ELSE trans[u]
           new(u) == [tr(u) EXCEPT !.resume = @ \/ (tr(u).state = "live" /\ ~tr(u).active
                                                                     /\ ~tr(u).cancelling)]
<1>1. Live(t)
  BY ArrivesLatest DEF NeedAuthParams
<1>2. /\ a.nonce \in 1..server
      /\ server \in 1..MaxNonce
  BY AnswerShape DEF IInv, TypeOK, NeedAuthParams, Challenged
<1>3. /\ nonce' = a.nonce /\ tried' = TRUE /\ user' \in BOOLEAN
      /\ UNCHANGED <<mode, auth, ids, server, outcome>>
  BY DEF NeedAuthParams
<1>4. trans' = [u \in Trans |-> new(u)]
  BY DEF NeedAuthParams
<1>5. ASSUME NEW u \in Trans
      PROVE  /\ new(u) \in Transactions
             /\ new(u).state = trans[u].state /\ new(u).sent = trans[u].sent
             /\ new(u).cancelling = trans[u].cancelling
             /\ new(u).active <=> trans[u].active /\ u # t
             /\ new(u).timer <=> trans[u].timer /\ u # t
             /\ new(u).resume <=> (trans[u].resume \/ (Live(u) /\ ~new(u).active /\ ~trans[u].cancelling))
  <2>1. trans[u] \in Transactions
    BY DEF IInv, TypeOK
  <2>2. /\ tr(u) \in Transactions
        /\ tr(u).state = trans[u].state /\ tr(u).sent = trans[u].sent
        /\ tr(u).cancelling = trans[u].cancelling /\ tr(u).resume = trans[u].resume
        /\ tr(u).active <=> trans[u].active /\ u # t
        /\ tr(u).timer <=> trans[u].timer /\ u # t
    BY <2>1 DEF Stopped, Transactions
  <2> HIDE DEF tr
  <2>3. /\ new(u) \in Transactions
        /\ new(u).state = tr(u).state /\ new(u).sent = tr(u).sent
        /\ new(u).cancelling = tr(u).cancelling
        /\ new(u).active = tr(u).active /\ new(u).timer = tr(u).timer
        /\ new(u).resume <=>
             (tr(u).resume \/ (tr(u).state = "live" /\ ~tr(u).active /\ ~tr(u).cancelling))
    BY <2>2 DEF Transactions
  <2> HIDE DEF new
  <2> QED
    BY <2>2, <2>3 DEF Live
<1> HIDE DEF new
<1>6. \A u \in Trans : trans'[u] = new(u)
  BY <1>4
<1>7. TypeOK'
  <2>1. trans' \in [Trans -> Transactions]
    BY <1>4, <1>5
  <2> QED
    BY <1>2, <1>3, <2>1, LimitAssumption DEF IInv, TypeOK
<1>8. Keeps
  BY <1>3, <1>5, <1>6 DEF Keeps
<1>9. \A u \in Trans : \A i \in 1..Requests(u) : trans[u].sent[i].nonce = 0
  BY DEF IInv, Ages, NeedAuthParams, Challenged
<1>10. ASSUME NEW u \in Trans
       PROVE  /\ trans'[u].active <=> trans'[u].timer
              /\ trans'[u].active => Live(u) /\ ~trans'[u].resume
              /\ trans'[u].resume => Live(u)
              /\ Live(u) => \/ trans'[u].active \/ trans'[u].resume
                            \/ trans'[u].ignored \/ trans'[u].cancelling
  BY <1>5, <1>6 DEF IInv, Shape, NobodyForgotten
<1>11. nonce' <= server' /\ nonce' > 0
  BY <1>2, <1>3
<1> QED
  BY <1>3, <1>7, <1>8, <1>9, <1>10, <1>11, KeepsInv

(* A step that changes no more than flags of t. *)
LEMMA FlagsInv ==
  ASSUME IInv, NEW t \in Trans, NEW tr \in Transactions, Live(t),
         trans' = [trans EXCEPT ![t] = tr],
         tr.state = trans[t].state, tr.sent = trans[t].sent, tr.resume = trans[t].resume,
         tr.active <=> tr.timer, tr.active => trans[t].active,
         \/ tr.ignored \/ tr.cancelling
         \/ /\ tr.active = trans[t].active /\ tr.ignored = trans[t].ignored
            /\ tr.cancelling = trans[t].cancelling,
         UNCHANGED <<mode, auth, poolVars, ids, server, outcome>>
  PROVE  IInv'
<1>1. trans \in [Trans -> Transactions]
  BY DEF IInv, TypeOK
<1>2. trans'[t] = tr /\ \A u \in Trans : u # t => trans'[u] = trans[u]
  BY <1>1
<1>3. TypeOK'
  <2>1. trans' \in [Trans -> Transactions]
    BY <1>1
  <2> QED
    BY <2>1 DEF IInv, TypeOK, poolVars
<1>4. Keeps
  BY <1>2 DEF Keeps
<1>5. nonce' <= server' /\ (tried' <=> nonce' > 0) /\ (tried => tried')
  BY DEF IInv, Ages, poolVars
<1>6. ASSUME NEW u \in Trans
      PROVE  /\ trans'[u].active <=> trans'[u].timer
             /\ trans'[u].active => Live(u) /\ ~trans'[u].resume
             /\ trans'[u].resume => Live(u) /\ tried' /\ trans[u].resume
             /\ Live(u) => \/ trans'[u].active \/ trans'[u].resume
                           \/ trans'[u].ignored \/ trans'[u].cancelling
  <2>1. CASE u = t
    BY <1>2, <2>1 DEF IInv, Shape, NobodyForgotten, Ages, poolVars
  <2>2. CASE u # t
    BY <1>2, <2>2 DEF IInv, Shape, NobodyForgotten, Ages, poolVars
  <2> QED
    BY <2>1, <2>2
<1> QED
  BY <1>3, <1>4, <1>5, <1>6, KeepsInv

LEMMA NextInv ==
  ASSUME IInv, Next
  PROVE  IInv'
<1>0. /\ trans \in [Trans -> Transactions]
      /\ \A u \in Trans : outcome[u] \in Outcomes
  BY DEF IInv, TypeOK
<1>1. CASE NewNonce
  <2>1. /\ UNCHANGED <<mode, auth, user, nonce, tried, ids, trans, outcome>>
        /\ server' = server + 1 /\ server' \in 1..MaxNonce
        /\ server \in 1..MaxNonce /\ nonce \in 0..MaxNonce
    BY <1>1, LimitAssumption DEF NewNonce, poolVars, IInv, TypeOK
  <2>2. TypeOK' /\ Keeps
    BY <2>1 DEF IInv, TypeOK, Keeps
  <2>3. nonce' <= server' /\ (tried' <=> nonce' > 0) /\ (tried => tried')
    BY <2>1 DEF IInv, Ages
  <2>4. \A u \in Trans :
          /\ trans'[u].active <=> trans'[u].timer
          /\ trans'[u].active => Live(u) /\ ~trans'[u].resume
          /\ trans'[u].resume => Live(u) /\ tried' /\ trans[u].resume
          /\ Live(u) => \/ trans'[u].active \/ trans'[u].resume
                        \/ trans'[u].ignored \/ trans'[u].cancelling
    BY <2>1 DEF IInv, Shape, NobodyForgotten, Ages
  <2> QED
    BY <2>2, <2>3, <2>4, KeepsInv
<1>2. ASSUME NEW t \in Trans, Start(t) PROVE IInv'
  BY <1>2, StartInv
<1>3. ASSUME NEW t \in Trans, Cancel(t) PROVE IInv'
  <2> DEFINE tr == [trans[t] EXCEPT !.cancelling = TRUE]
  <2>1. /\ Live(t) /\ trans' = [trans EXCEPT ![t] = tr] /\ trans[t] \in Transactions
        /\ UNCHANGED <<mode, auth, poolVars, ids, server, outcome>>
    BY <1>0, <1>3 DEF Cancel
  <2>2. /\ tr \in Transactions /\ tr.cancelling
        /\ tr.state = trans[t].state /\ tr.sent = trans[t].sent /\ tr.resume = trans[t].resume
        /\ tr.active = trans[t].active /\ tr.timer = trans[t].timer
    BY <2>1 DEF Transactions
  <2>3. trans[t].active <=> trans[t].timer
    BY DEF IInv, Shape
  <2> HIDE DEF tr
  <2> QED
    BY <2>1, <2>2, <2>3, FlagsInv
<1>4. ASSUME NEW t \in Trans, Delete(t) PROVE IInv'
  BY <1>4, EndsSilently DEF Delete
<1>5. ASSUME NEW t \in Trans, Retransmit(t) PROVE IInv'
  <2> DEFINE tr == [trans[t] EXCEPT !.tries = @ + 1]
  <2>1. /\ trans' = [trans EXCEPT ![t] = tr] /\ trans[t] \in Transactions
        /\ trans[t].timer /\ trans[t].tries < Rc
        /\ UNCHANGED <<mode, auth, poolVars, ids, server, outcome>>
    BY <1>0, <1>5 DEF Retransmit
  <2>2. (trans[t].active <=> trans[t].timer) /\ Live(t)
    BY <2>1 DEF IInv, Shape
  <2>3. trans[t].tries \in 0..Rc /\ trans[t].tries + 1 \in 0..Rc
    BY <2>1, LimitAssumption DEF Transactions
  <2>4. /\ tr \in Transactions
        /\ tr.state = trans[t].state /\ tr.sent = trans[t].sent /\ tr.resume = trans[t].resume
        /\ tr.active = trans[t].active /\ tr.timer = trans[t].timer
        /\ tr.ignored = trans[t].ignored /\ tr.cancelling = trans[t].cancelling
    BY <2>1, <2>3 DEF Transactions
  <2> HIDE DEF tr
  <2> QED
    BY <2>1, <2>2, <2>4, FlagsInv
<1>6. ASSUME NEW t \in Trans, TimesOut(t) PROVE IInv'
  <2> DEFINE o == [how |-> "timeout", request |-> Requests(t), mi |-> FALSE]
  <2>1. Live(t)
    BY <1>6 DEF TimesOut, IInv, Shape
  <2>2. o \in Outcomes
    BY RequestsIsNat DEF IInv, Outcomes
  <2>3. Ends(t, o) /\ UNCHANGED <<mode, auth, poolVars, server>>
    BY <1>6 DEF TimesOut
  <2>4. o.how # "success" /\ o.request = Requests(t)
    OBVIOUS
  <2> HIDE DEF o
  <2> QED
    BY <2>1, <2>2, <2>3, <2>4, EndsInv
<1>7. ASSUME NEW t \in Trans, TimesOutCancelled(t) PROVE IInv'
  <2>1. Live(t)
    BY <1>7 DEF TimesOutCancelled, IInv, Shape
  <2> QED
    BY <1>7, <2>1, EndsSilently DEF TimesOutCancelled
<1>8. ASSUME NEW t \in Trans, ContinueAfterParams(t) PROVE IInv'
  BY <1>8, ContinueAfterParamsInv
<1>9. ASSUME NEW t \in Trans, NEW k \in 1..Requests(t), NEW a \in Answers(t, k),
             ProcessIncoming(t, k, a)
      PROVE  IInv'
  <2>1. CASE AnswerCancelled(t, k, a)
    BY <2>1, ArrivesLatest, EndsSilently DEF AnswerCancelled
  <2>2. CASE RetryWithCredentials(t, k, a)
    BY <2>2, RetryWithCredentialsInv
  <2>3. CASE NeedAuthParams(t, k, a)
    BY <2>3, NeedAuthParamsInv
  <2>4. CASE RetryStale(t, k, a)
    BY <2>4, RetryStaleInv
  <2>5. CASE Ignore(t, k, a)
    <3> DEFINE tr == [Stopped(trans[t]) EXCEPT !.ignored = TRUE]
    <3>1. /\ trans' = [trans EXCEPT ![t] = tr] /\ trans[t] \in Transactions /\ Live(t)
          /\ UNCHANGED <<mode, auth, poolVars, ids, server, outcome>>
      BY <1>0, <2>5, ArrivesLatest DEF Ignore
    <3>2. /\ tr \in Transactions /\ tr.ignored /\ ~tr.active /\ ~tr.timer
          /\ tr.state = trans[t].state /\ tr.sent = trans[t].sent /\ tr.resume = trans[t].resume
      BY <3>1 DEF Transactions, Stopped
    <3> HIDE DEF tr
    <3> QED
      BY <3>1, <3>2, FlagsInv
  <2>6. CASE Finish(t, k, a)
    <3> DEFINE o == [how |-> a.code, request |-> k, mi |-> a.mi]
    <3>1. Live(t) /\ k = Requests(t) /\ k \in Nat
      BY <2>6, ArrivesLatest, RequestsIsNat DEF Finish, IInv
    <3>2. a.code \in {"success", "error", "unauthorized", "stale"} /\ a.mi \in BOOLEAN
      BY AnswerShape DEF IInv
    <3>3. o \in Outcomes
      BY <3>1, <3>2 DEF Outcomes
    <3>4. Ends(t, o) /\ UNCHANGED <<mode, auth, poolVars, server>>
      BY <2>6 DEF Finish
    <3>5. a.code = "success" /\ trans[t].sent[k].nonce # 0 => a.mi
      <4>1. trans[t].sent[k].nonce # 0 => tried
        BY DEF IInv, Ages
      <4> QED
        BY <2>6, <4>1 DEF Finish, Distrusted
    <3>6. o.how = a.code /\ o.request = k /\ o.mi = a.mi
      OBVIOUS
    <3> HIDE DEF o
    <3> QED
      BY <3>1, <3>3, <3>4, <3>5, <3>6, EndsInv
  <2> QED
    BY <1>9, <2>1, <2>2, <2>3, <2>4, <2>5, <2>6 DEF ProcessIncoming
<1> QED
  BY <1>1, <1>2, <1>3, <1>4, <1>5, <1>6, <1>7, <1>8, <1>9 DEF Next, Timeout

LEMMA InitInv == Init => IInv
<1> SUFFICES ASSUME Init PROVE IInv
  OBVIOUS
<1>1. ASSUME NEW t \in Trans
      PROVE  /\ trans[t] \in Transactions
             /\ trans[t].state = "new" /\ ~trans[t].active /\ ~trans[t].timer
             /\ ~trans[t].resume /\ trans[t].sent = <<>>
  <2>1. PICK m \in {"binding", "turn"} : trans[t] = [Fresh EXCEPT !.method = m]
    BY DEF Init
  <2>2. <<>> \in Seq([nonce : 0..MaxNonce, since : 1..MaxNonce]) /\ 0 \in 0..Rc
    BY LimitAssumption
  <2> QED
    BY <2>1, <2>2 DEF Fresh, Transactions
<1>2. \A t \in Trans : Requests(t) = 0 /\ ~Live(t)
  <2>1. Len(<<>>) = 0
    OBVIOUS
  <2>2. ASSUME NEW t \in Trans PROVE Requests(t) = 0
    BY <1>1, <2>1, Zenon DEF Requests
  <2>3. ASSUME NEW t \in Trans PROVE ~Live(t)
    BY <1>1 DEF Live
  <2> QED
    BY <2>2, <2>3
<1>3. trans \in [Trans -> {[Fresh EXCEPT !.method = m] : m \in {"binding", "turn"}}]
  BY DEF Init
<1>4. trans \in [Trans -> Transactions]
  <2> DEFINE M == {[Fresh EXCEPT !.method = m] : m \in {"binding", "turn"}}
  <2>1. trans \in [Trans -> M]
    BY <1>3
  <2> HIDE DEF M
  <2> QED
    BY <1>1, <2>1
<1>5. TypeOK
  <2>1. outcome \in [Trans -> Outcomes]
    BY DEF Init, Outcomes, Untold
  <2>2. /\ mode \in {"Udp", "Tcp"} /\ auth \in {"long", "short"} /\ user \in BOOLEAN
        /\ nonce = 0 /\ tried = FALSE /\ ids = {} /\ server = 1
    BY DEF Init
  <2>3. 0 \in 0..MaxNonce /\ 1 \in 1..MaxNonce
    BY LimitAssumption
  <2> QED
    BY <1>4, <2>1, <2>2, <2>3 DEF TypeOK
<1>6. Shape /\ NobodyForgotten
  BY <1>1, <1>2 DEF Init, Shape, NobodyForgotten, Live
<1>7. PoolHoldsLatest
  BY <1>2 DEF Init, PoolHoldsLatest
<1>8. ToldAboutLatest /\ SuccessIsSigned
  BY DEF Init, ToldAboutLatest, SuccessIsSigned, Untold
<1>9. Ages /\ RetriesMakeProgress
  BY <1>1, <1>2 DEF Init, Ages, RetriesMakeProgress
<1> QED
  BY <1>5, <1>6, <1>7, <1>8, <1>9 DEF IInv

LEMMA Inductive == Spec => []IInv
<1>1. IInv /\ [Next]_vars => IInv'
  <2> SUFFICES ASSUME IInv, [Next]_vars PROVE IInv'
    OBVIOUS
  <2>1. CASE Next
    BY <2>1, NextInv
  <2>2. CASE UNCHANGED vars
    BY <2>2 DEF vars, IInv, TypeOK, Shape, PoolHoldsLatest, ToldAboutLatest, NobodyForgotten, Ages,
                RetriesMakeProgress, SuccessIsSigned, Live, Requests, LatestId
  <2> QED
    BY <2>1, <2>2
<1> QED
  BY <1>1, InitInv, PTL DEF Spec

-----------------------------------------------------------------------------
(* Every variable has its type: no transmission beyond the Rc-th, no nonce   *)
(* the server has not issued (t_timeout, processIncoming).                   *)
THEOREM TypeCorrect == Spec => []TypeOK
  BY Inductive, PTL DEF IInv

(* The pool's table has one id of each living transaction, that of its       *)
(* latest request (tryRequest, insert and remove, the destructor).           *)
THEOREM PoolIsExact == Spec => []PoolHoldsLatest
  BY Inductive, PTL DEF IInv

(* However answers are delayed, duplicated and reordered, the owner is told  *)
(* of the latest request only (writeIncomingMessage, processIncoming).       *)
THEOREM LateAnswersAreHarmless == Spec => []ToldAboutLatest
  BY Inductive, PTL DEF IInv

(* Outside the two places where the code loses one, a living transaction     *)
(* always has a timer running or a call queued (t_timeout, retry, slots).    *)
THEOREM LivingIsMoved == Spec => []NobodyForgotten
  BY Inductive, PTL DEF IInv

(* A request with credentials is told to have succeeded only if the answer   *)
(* was signed: the pool's "tried" can stand for "this request had them".     *)
THEOREM SignedSuccess == Spec => []SuccessIsSigned
  BY Inductive, PTL DEF IInv

(* Each retry carries a younger nonce than every request before it, so no    *)
(* transaction repeats what was refused (processIncoming, retry).            *)
THEOREM RetriesAreNew == Spec => []RetriesMakeProgress
  BY Inductive, PTL DEF IInv
=============================================================================
