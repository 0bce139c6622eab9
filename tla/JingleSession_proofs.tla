----------------------- MODULE JingleSession_proofs -----------------------
(***************************************************************************)
(* Theorems about JingleSession for any set of contents and any number of  *)
(* failures: its type invariant, and that a session is never stuck with    *)
(* something to send.                                                      *)
(*                                                                         *)
(* The argument.  NeverStalled has two halves.  That exactly one stanza    *)
(* ends a wait is OneAnswer, a relation between what a party asked and the *)
(* two wires:  each handler takes a request and sends its answer, or takes *)
(* an answer and forgets what it asked, or does neither.  It holds as long *)
(* as the session is there;  what its object has asked and not heard when  *)
(* it is deleted is what RecvLate takes.  That the step is planned when    *)
(* there is something to say is Planned, by planStep in each slot that     *)
(* makes something to say.  Where a slot plans nothing (a stream that      *)
(* connects or fails, <received/>) it must be shown to make nothing to     *)
(* say, and for the receiver this needs InOrder:  a stream is opened, and  *)
(* its file read, only after the receiver has accepted, so that a content  *)
(* never fails early (FailedEarly) but by its transport, whose signal      *)
(* plans the step.                                                         *)
(***************************************************************************)
EXTENDS JingleSession, SequenceTheorems, FiniteSetTheorems, TLAPS

-----------------------------------------------------------------------------
(* The inductive invariant. *)

(* Requests that a slot waits for, and their answers *)
IsRequest(s) == s.kind = "set" /\ s.action \in Answers
IsReply(s)   == s.kind # "set" /\ s.action \in Answers

(* Of what is sent to the peer (w) and by the peer (v), exactly one stanza *)
(* is the request a, or its answer;  none if a is "none".                  *)
OneAnswer(a, w, v) ==
  /\ \A i \in DOMAIN w : IsRequest(w[i]) =>
       /\ w[i].action = a
       /\ \A j \in DOMAIN w : IsRequest(w[j]) => i = j
       /\ \A j \in DOMAIN v : ~IsReply(v[j])
  /\ \A i \in DOMAIN v : IsReply(v[i]) =>
       /\ v[i].action = a
       /\ \A j \in DOMAIN v : IsReply(v[j]) => i = j
  /\ a # "none" => \/ \E i \in DOMAIN w : IsRequest(w[i])
                   \/ \E i \in DOMAIN v : IsReply(v[i])

(* What the fields of a party tell about each other *)
Formed(e, p) ==
  /\ p.asked # "none" => p.asked \in Answers /\ ~p.step
  /\ p.state = Finished => p = Gone
  /\ p.state = None => p = NoSession
  /\ \A c \in Contents : /\ p.app[c].received => p.app[c].connected
                         /\ p.app[c].opening \/ p.app[c].connected => p.app[c].state # None
  /\ e = "responder" /\ p.state < Unacked =>
       \A c \in Contents : ~p.app[c].opening /\ ~p.app[c].connected

(* A party that does not wait has its step planned if it has something to say. *)
Planned(e, p) == p.asked = "none" /\ HasToSend(e, p) => p.step

(* A party as it may be, planned or not *)
Whole(e, p) == p \in Parties /\ p.initial \subseteq Listed(p) /\ Formed(e, p)

(* A request is on the wire w, and no two are. *)
Sends(w, action) == \E i \in DOMAIN w : w[i].kind = "set" /\ w[i].action = action

Once(w, action) ==
  \A i, j \in DOMAIN w : w[i].kind = "set" /\ w[i].action = action
                         /\ w[j].kind = "set" /\ w[j].action = action => i = j

(* The session is offered once, the responder knows of it only by that offer, and streams *)
(* are opened only after the responder has accepted.                                      *)
InOrder ==
  /\ party["responder"].state < Unacked =>
       ~Sends(wire["responder"], "open") /\ ~Sends(wire["initiator"], "session-accept")
  /\ Sends(wire["responder"], "session-initiate") => party["responder"].state = None
  /\ party["initiator"].state < Unacked =>
       party["responder"].state = None /\ ~Sends(wire["responder"], "session-initiate")
  /\ Once(wire["responder"], "session-initiate")

IInv ==
  /\ TypeOK
  /\ \A e \in Ends : Formed(e, party[e]) /\ Planned(e, party[e])
  /\ \A e \in Ends : party[e].state # Finished => OneAnswer(party[e].asked, wire[Peer(e)], wire[e])
  /\ InOrder

-----------------------------------------------------------------------------
(* What is not a request leaves the front of the wire to the peer. *)
LEMMA Passed ==
  ASSUME NEW a, NEW w \in Seq(Stanzas), NEW v \in Seq(Stanzas), w # <<>>, ~IsRequest(Head(w)),
         OneAnswer(a, w, v)
  PROVE  OneAnswer(a, Tail(w), v)
<1>1. /\ Tail(w) \in Seq(Stanzas) /\ Len(Tail(w)) = Len(w) - 1 /\ Len(w) \in Nat
      /\ \A i \in DOMAIN Tail(w) : i + 1 \in DOMAIN w /\ Tail(w)[i] = w[i + 1]
  OBVIOUS
<1>2. \A i \in DOMAIN w : IsRequest(w[i]) => i # 1 /\ i - 1 \in DOMAIN Tail(w) /\ Tail(w)[i - 1] = w[i]
  BY <1>1
<1> HIDE DEF IsRequest, IsReply
<1>3. \A i, j \in DOMAIN Tail(w) : i \in Int /\ j \in Int /\ (i + 1 = j + 1 => i = j)
  BY <1>1
<1> QED
  BY <1>1, <1>2, <1>3 DEF OneAnswer

(* What is not an answer leaves the front of the wire from the peer. *)
LEMMA PassedReply ==
  ASSUME NEW a, NEW w \in Seq(Stanzas), NEW v \in Seq(Stanzas), v # <<>>, ~IsReply(Head(v)),
         OneAnswer(a, w, v)
  PROVE  OneAnswer(a, w, Tail(v))
<1>1. /\ Tail(v) \in Seq(Stanzas) /\ Len(Tail(v)) = Len(v) - 1 /\ Len(v) \in Nat
      /\ \A i \in DOMAIN Tail(v) : i + 1 \in DOMAIN v /\ Tail(v)[i] = v[i + 1]
  OBVIOUS
<1>2. \A i \in DOMAIN v : IsReply(v[i]) => i # 1 /\ i - 1 \in DOMAIN Tail(v) /\ Tail(v)[i - 1] = v[i]
  BY <1>1
<1>3. \A i, j \in DOMAIN Tail(v) : i \in Int /\ j \in Int /\ (i + 1 = j + 1 => i = j)
  BY <1>1
<1> QED
  BY <1>1, <1>2, <1>3 DEF OneAnswer

(* What is not a request is sent after it. *)
LEMMA Followed ==
  ASSUME NEW a, NEW w \in Seq(Stanzas), NEW v \in Seq(Stanzas), NEW s \in Seq(Stanzas),
         \A i \in DOMAIN s : ~IsRequest(s[i]), OneAnswer(a, w, v)
  PROVE  OneAnswer(a, w \o s, v)
<1>1. /\ DOMAIN w \subseteq DOMAIN (w \o s) /\ \A i \in DOMAIN w : (w \o s)[i] = w[i]
      /\ \A i \in DOMAIN (w \o s) : IsRequest((w \o s)[i]) => i \in DOMAIN w
  <2>1. /\ Len(w) \in Nat /\ Len(s) \in Nat /\ Len(w \o s) = Len(w) + Len(s)
        /\ \A i \in 1..Len(w) : (w \o s)[i] = w[i]
        /\ \A i \in 1..Len(w) + Len(s) : i > Len(w) => (w \o s)[i] = s[i - Len(w)] /\ i - Len(w) \in 1..Len(s)
    OBVIOUS
  <2> QED
    BY <2>1
<1> QED
  BY <1>1 DEF OneAnswer

(* What is not an answer is sent after it. *)
LEMMA FollowedReply ==
  ASSUME NEW a, NEW w \in Seq(Stanzas), NEW v \in Seq(Stanzas), NEW s \in Seq(Stanzas),
         \A i \in DOMAIN s : ~IsReply(s[i]), OneAnswer(a, w, v)
  PROVE  OneAnswer(a, w, v \o s)
<1>1. /\ DOMAIN v \subseteq DOMAIN (v \o s) /\ \A i \in DOMAIN v : (v \o s)[i] = v[i]
      /\ \A i \in DOMAIN (v \o s) : IsReply((v \o s)[i]) => i \in DOMAIN v
  <2>1. /\ Len(v) \in Nat /\ Len(s) \in Nat /\ Len(v \o s) = Len(v) + Len(s)
        /\ \A i \in 1..Len(v) : (v \o s)[i] = v[i]
        /\ \A i \in 1..Len(v) + Len(s) : i > Len(v) => (v \o s)[i] = s[i - Len(v)] /\ i - Len(v) \in 1..Len(s)
    OBVIOUS
  <2> QED
    BY <2>1
<1> QED
  BY <1>1 DEF OneAnswer

(* Who awaits nothing sends a request: exactly that one is awaited. *)
LEMMA Asked ==
  ASSUME NEW w \in Seq(Stanzas), NEW v \in Seq(Stanzas), NEW s \in Stanzas, IsRequest(s),
         OneAnswer("none", w, v)
  PROVE  OneAnswer(s.action, Append(w, s), v)
<1>1. /\ \A i \in DOMAIN w : ~IsRequest(w[i])
      /\ \A i \in DOMAIN v : ~IsReply(v[i])
  BY DEF OneAnswer, IsRequest, IsReply, Answers
<1>2. /\ Len(w) \in Nat /\ DOMAIN Append(w, s) = 1..Len(w) + 1
      /\ \A i \in 1..Len(w) + 1 : i \in DOMAIN w \/ i = Len(w) + 1
      /\ \A i \in DOMAIN w : Append(w, s)[i] = w[i]
      /\ Append(w, s)[Len(w) + 1] = s
  OBVIOUS
<1>3. \A i \in DOMAIN Append(w, s) : IsRequest(Append(w, s)[i]) <=> i = Len(w) + 1
  BY <1>1, <1>2
<1> QED
  BY <1>1, <1>2, <1>3 DEF OneAnswer

(* The peer takes the request and sends its answer. *)
LEMMA Replied ==
  ASSUME NEW a, NEW w \in Seq(Stanzas), NEW v \in Seq(Stanzas), NEW s \in Stanzas, w # <<>>,
         IsRequest(Head(w)), IsReply(s), s.action = Head(w).action, OneAnswer(a, w, v)
  PROVE  OneAnswer(a, Tail(w), Append(v, s))
<1>1. /\ \A j \in DOMAIN v : ~IsReply(v[j])
      /\ s.action = a
      /\ \A i \in DOMAIN w : IsRequest(w[i]) => i = 1
  BY DEF OneAnswer
<1>2. /\ Len(v) \in Nat /\ DOMAIN Append(v, s) = 1..Len(v) + 1
      /\ \A i \in 1..Len(v) + 1 : i \in DOMAIN v \/ i = Len(v) + 1
      /\ \A i \in DOMAIN v : Append(v, s)[i] = v[i]
      /\ Append(v, s)[Len(v) + 1] = s
  OBVIOUS
<1>3. \A i \in DOMAIN Append(v, s) : IsReply(Append(v, s)[i]) <=> i = Len(v) + 1
  BY <1>1, <1>2
<1>4. \A i \in DOMAIN Tail(w) : i + 1 # 1 /\ i + 1 \in DOMAIN w /\ Tail(w)[i] = w[i + 1]
  OBVIOUS
<1>5. \A i \in DOMAIN Tail(w) : ~IsRequest(Tail(w)[i])
  BY <1>1, <1>4
<1> QED
  BY <1>1, <1>2, <1>3, <1>5 DEF OneAnswer

(* The answer is taken: it was the one awaited, and no other is under way. *)
LEMMA AnswerTaken ==
  ASSUME NEW a, NEW w \in Seq(Stanzas), NEW v \in Seq(Stanzas), v # <<>>, IsReply(Head(v)),
         OneAnswer(a, w, v)
  PROVE  /\ Head(v).action = a
         /\ OneAnswer("none", w, Tail(v))
<1>1. /\ \A i \in DOMAIN w : ~IsRequest(w[i])
      /\ Head(v).action = a
      /\ \A i \in DOMAIN v : IsReply(v[i]) => i = 1
  BY DEF OneAnswer
<1>2. \A i \in DOMAIN Tail(v) : i + 1 # 1 /\ i + 1 \in DOMAIN v /\ Tail(v)[i] = v[i + 1]
  OBVIOUS
<1> QED
  BY <1>1, <1>2 DEF OneAnswer

-----------------------------------------------------------------------------
USE DEF None, Created, ApprovedToSend, Unacked, Pending, Accepted, Connecting, Active, Finishing,
        Finished, Ends, Peer

(* A party before and after the life of its session. *)
LEMMA Blank ==
  ASSUME NEW e \in Ends
  PROVE  /\ Whole(e, NoSession) /\ NoSession.asked = "none" /\ NoSession.state = None
         /\ Whole(e, Gone) /\ Gone.asked = "none" /\ Gone.state = Finished /\ ~Gone.step
         /\ ~Gone.known /\ Planned(e, Gone)
         /\ \A c \in Contents : Gone.app[c] = NoApp /\ NoSession.app[c] = NoApp
<1>1. /\ NoSession \in Parties /\ NoSession.asked = "none" /\ NoSession.state = None
      /\ ~NoSession.step /\ ~NoSession.known /\ ~NoSession.reason /\ NoSession.initial = {}
      /\ \A c \in Contents : NoSession.app[c] = NoApp
  BY DEF NoSession, Parties, Apps, NoApp, Requests
<1>a. /\ Gone \in Parties /\ Gone.asked = "none" /\ Gone.state = Finished
      /\ ~Gone.step /\ ~Gone.known /\ ~Gone.reason /\ Gone.initial = {}
      /\ \A c \in Contents : Gone.app[c] = NoApp
  BY <1>1 DEF Gone, Parties
<1>2. Formed(e, NoSession) /\ Formed(e, Gone)
  BY <1>1, <1>a DEF Formed, NoApp
<1>3. Planned(e, Gone)
  BY <1>a DEF Planned, HasToSend, FailedEarly
<1> QED
  BY <1>1, <1>a, <1>2, <1>3 DEF Whole

(* planStep makes every party with a session fit to wait. *)
LEMMA PlansStep ==
  ASSUME NEW e \in Ends, NEW p, Whole(e, p), p.state \notin {None, Finished}
  PROVE  /\ Whole(e, planStep(p)) /\ Planned(e, planStep(p))
         /\ planStep(p).asked = p.asked /\ planStep(p).state = p.state
<1> DEFINE q == planStep(p)
<1>1. /\ q \in Parties /\ q.asked = p.asked /\ q.state = p.state /\ q.app = p.app /\ q.initial = p.initial
      /\ q.asked = "none" => q.step
      /\ q.asked # "none" => q.step = p.step
  BY DEF planStep, Parties, Whole
<1> HIDE DEF q
<1>2. Whole(e, q)
  BY <1>1 DEF Whole, Formed, Listed
<1>3. Planned(e, q)
  BY <1>1 DEF Planned
<1> QED
  BY <1>1, <1>2, <1>3 DEF q

(* What setStates returns. *)
LEMMA StatesSet ==
  ASSUME NEW p \in Parties, NEW S \in SUBSET Contents, NEW s \in Created..Finished
  PROVE  /\ setStates(p, S, s) \in Parties
         /\ setStates(p, S, s) = [p EXCEPT !.app = setStates(p, S, s).app]
         /\ \A c \in Contents : setStates(p, S, s).app[c]
                                  = [p.app[c] EXCEPT !.state = IF c \in S THEN s ELSE @]
<1> DEFINE f == [c \in Contents |-> IF c \in S THEN [p.app[c] EXCEPT !.state = s] ELSE p.app[c]]
<1>1. f \in [Contents -> Apps]
  <2>1. ASSUME NEW c \in Contents PROVE p.app[c] \in Apps /\ [p.app[c] EXCEPT !.state = s] \in Apps
    BY DEF Parties, Apps
  <2> QED
    BY <2>1
<1>2. ASSUME NEW c \in Contents PROVE f[c] = [p.app[c] EXCEPT !.state = IF c \in S THEN s ELSE @]
  <2>1. p.app[c] \in Apps
    BY DEF Parties
  <2>2. [p.app[c] EXCEPT !.state = p.app[c].state] = p.app[c]
    BY <2>1 DEF Apps
  <2> QED
    BY <2>2
<1>3. setStates(p, S, s) = [p EXCEPT !.app = f]
  BY DEF setStates
<1> HIDE DEF f
<1>4. [p EXCEPT !.app = f] \in Parties /\ [p EXCEPT !.app = f].app = f
  BY <1>1 DEF Parties
<1> QED
  BY <1>2, <1>3, <1>4

(* setStates of contents changes their states, and nothing else of a party. *)
LEMMA Finishes ==
  ASSUME NEW e \in Ends, NEW p, NEW S \in SUBSET Contents, NEW s \in Created..Finished,
         Whole(e, p), p.state \notin {None, Finished}
  PROVE  LET q == setStates(p, S, s)
         IN /\ Whole(e, q) /\ q.asked = p.asked /\ q.state = p.state /\ q.step = p.step
            /\ q.known = p.known /\ q.reason = p.reason /\ q.initial = p.initial
            /\ Listed(q) = Listed(p) \union S
            /\ \A c \in Contents : /\ q.app[c].state = IF c \in S THEN s ELSE p.app[c].state
                                   /\ q.app[c].received = p.app[c].received
                                   /\ q.app[c].ready = p.app[c].ready
                                   /\ q.app[c].removing = p.app[c].removing
                                   /\ q.app[c].signaling = p.app[c].signaling
<1> DEFINE q == setStates(p, S, s)
<1>1. /\ q \in Parties
      /\ q = [p EXCEPT !.app = q.app]
      /\ \A c \in Contents : q.app[c] = [p.app[c] EXCEPT !.state = IF c \in S THEN s ELSE @]
  BY StatesSet DEF Whole
<1> HIDE DEF q
<1>2. \A c \in Contents : /\ q.app[c].state = IF c \in S THEN s ELSE p.app[c].state
                          /\ q.app[c].received = p.app[c].received
                          /\ q.app[c].connected = p.app[c].connected
                          /\ q.app[c].opening = p.app[c].opening
                          /\ q.app[c].ready = p.app[c].ready
                          /\ q.app[c].removing = p.app[c].removing
                          /\ q.app[c].signaling = p.app[c].signaling
  <2>1. \A c \in Contents : p.app[c] \in Apps
    BY DEF Whole, Parties
  <2> QED
    BY <1>1, <2>1 DEF Apps
<1>3. /\ q.asked = p.asked /\ q.state = p.state /\ q.step = p.step
      /\ q.known = p.known /\ q.reason = p.reason /\ q.initial = p.initial
  BY <1>1 DEF Whole, Parties
<1>4. Listed(q) = Listed(p) \union S
  BY <1>2 DEF Listed
<1>5. Formed(e, q)
  BY <1>2, <1>3 DEF Formed, Whole
<1> QED
  BY <1>1, <1>2, <1>3, <1>4, <1>5 DEF Whole, q

(* terminate of a session that it does not delete plans the step. *)
LEMMA Ending ==
  ASSUME NEW e \in Ends, NEW p, Whole(e, p), p.state \notin {None, Finished},
         e = "initiator" => p.state # ApprovedToSend
  PROVE  LET q == terminate(e, p)
         IN /\ Whole(e, q) /\ Planned(e, q) /\ q.asked = p.asked /\ q.state = Finishing
            /\ q.known = p.known
<1> DEFINE r == [p EXCEPT !.state = Finishing, !.reason = TRUE]
<1>1. /\ r \in Parties /\ r.state = Finishing /\ r.app = p.app /\ r.initial = p.initial
      /\ r.asked = p.asked /\ r.step = p.step /\ r.known = p.known
  <2>1. p \in Parties
    BY DEF Whole
  <2>2. [p EXCEPT !.state = Finishing] \in Parties
    BY <2>1 DEF Parties
  <2> QED
    BY <2>1, <2>2 DEF Parties
<1> HIDE DEF r
<1>2. Whole(e, r)
  BY <1>1 DEF Whole, Formed, Listed
<1>3. planStep(r).known = r.known
  BY <1>1 DEF planStep, Parties
<1>4. terminate(e, p) = planStep(r)
  BY DEF terminate, r
<1> QED
  BY <1>1, <1>2, <1>3, <1>4, PlansStep

(* Contents that finish leave nothing to send that was not there before. *)
LEMMA FinishesAll ==
  ASSUME NEW e \in Ends, NEW p, NEW S \in SUBSET Contents, Whole(e, p),
         p.state \notin {None, Finished}
  PROVE  LET q == finish(e, p, S)
         IN /\ Whole(e, q) /\ q.asked = p.asked /\ q.state \in {p.state, Finishing}
            /\ q.known = p.known
            /\ Planned(e, p) /\ (e = "initiator" \/ p.state # Created) => Planned(e, q)
<1> DEFINE q == setStates(p, S, Finished)
<1>1. /\ Whole(e, q) /\ q.asked = p.asked /\ q.state = p.state /\ q.step = p.step
      /\ q.known = p.known /\ q.reason = p.reason /\ q.initial = p.initial
      /\ Listed(q) = Listed(p) \union S
  BY Finishes
<1>2. \A c \in Contents : /\ q.app[c].state = IF c \in S THEN Finished ELSE p.app[c].state
                          /\ q.app[c].received = p.app[c].received
                          /\ q.app[c].ready = p.app[c].ready
                          /\ q.app[c].removing = p.app[c].removing
                          /\ q.app[c].signaling = p.app[c].signaling
  BY Finishes
<1> HIDE DEF q
<1>3. CASE e = "responder" /\ S # {} /\ \A c \in Listed(q) : q.app[c].state = Finished
  <2>1. finish(e, p, S) = terminate(e, q)
    BY <1>3 DEF finish, q
  <2> QED
    BY <1>1, <1>3, <2>1, Ending
<1>4. CASE ~(e = "responder" /\ S # {} /\ \A c \in Listed(q) : q.app[c].state = Finished)
  <2>1. finish(e, p, S) = q
    BY <1>4 DEF finish, q
  <2>2. \A c \in Contents : /\ Offers(q.app[c]) => Offers(p.app[c])
                            /\ Reports(q.app[c]) => Reports(p.app[c])
                            /\ Removes(q.app[c]) => Removes(p.app[c])
                            /\ q.app[c].signaling = p.app[c].signaling
    BY <1>2 DEF Offers, Reports, Removes
  <2>3. MayOffer(e, q) => MayOffer(e, p)
    <3>1. Blocking(e, p) \subseteq Blocking(e, q)
      BY <1>1, <2>2 DEF Blocking, Whole, Listed
    <3> QED
      BY <1>1, <3>1 DEF MayOffer
  <2>4. ReportsOf(q) \union RemovesOf(q) # {} => ReportsOf(p) \union RemovesOf(p) # {}
    <3>1. ASSUME NEW c \in Contents, c \in ReportsOf(q) \union RemovesOf(q)
          PROVE  c \in Listed(p) /\ p.app[c].signaling /\ (Reports(p.app[c]) \/ Removes(p.app[c]))
      <4>1. c \notin S
        BY <1>2, <3>1 DEF ReportsOf, RemovesOf, Reports, Removes
      <4> QED
        BY <1>1, <2>2, <3>1, <4>1 DEF ReportsOf, RemovesOf
    <3> QED
      BY <3>1 DEF ReportsOf, RemovesOf, Listed
  <2>5. Planned(e, p) /\ (e = "initiator" \/ p.state # Created) => Planned(e, q)
    BY <1>1, <2>3, <2>4 DEF Planned, HasToSend, FailedEarly
  <2> QED
    BY <1>1, <2>1, <2>5
<1> QED
  BY <1>3, <1>4

(* A party stays planned whose contents offer, report and remove no more than before. *)
LEMMA StaysPlanned ==
  ASSUME NEW e \in Ends, NEW p, NEW q, Planned(e, p),
         q.asked = p.asked, q.step = p.step, q.reason = p.reason, q.state = p.state,
         q.initial = p.initial, Listed(q) = Listed(p), FailedEarly(e, q) => FailedEarly(e, p),
         \A c \in Contents : /\ Offers(q.app[c]) => Offers(p.app[c])
                             /\ Reports(q.app[c]) => Reports(p.app[c])
                             /\ Removes(q.app[c]) => Removes(p.app[c])
                             /\ q.app[c].signaling = p.app[c].signaling,
         p.initial \subseteq Contents
  PROVE  Planned(e, q)
<1>1. MayOffer(e, q) => MayOffer(e, p)
  <2>1. Blocking(e, p) \subseteq Blocking(e, q)
    BY DEF Blocking, Listed
  <2> QED
    BY <2>1 DEF MayOffer
<1>2. ReportsOf(q) \union RemovesOf(q) \subseteq ReportsOf(p) \union RemovesOf(p)
  BY DEF ReportsOf, RemovesOf, Listed
<1> QED
  BY <1>1, <1>2 DEF Planned, HasToSend

(* One content changes. *)
LEMMA AppChanges ==
  ASSUME NEW e \in Ends, NEW p, NEW c \in Contents, NEW a \in Apps, Whole(e, p),
         p.state \notin {None, Finished}, a.state # None, p.app[c].state # None,
         a.received => a.connected,
         e = "responder" /\ p.state < Unacked => ~a.opening /\ ~a.connected
  PROVE  LET q == [p EXCEPT !.app[c] = a]
         IN /\ Whole(e, q) /\ Listed(q) = Listed(p)
            /\ q.asked = p.asked /\ q.step = p.step /\ q.reason = p.reason /\ q.state = p.state
            /\ q.initial = p.initial /\ q.known = p.known
            /\ \A d \in Contents : q.app[d] = IF d = c THEN a ELSE p.app[d]
<1> DEFINE q == [p EXCEPT !.app[c] = a]
<1>1. p \in Parties /\ p.app \in [Contents -> Apps]
  BY DEF Whole, Parties
<1>2. [p.app EXCEPT ![c] = a] \in [Contents -> Apps]
  BY <1>1
<1>3. q = [p EXCEPT !.app = [p.app EXCEPT ![c] = a]]
  OBVIOUS
<1>4. /\ q \in Parties /\ q.app = [p.app EXCEPT ![c] = a]
      /\ q.asked = p.asked /\ q.step = p.step /\ q.reason = p.reason /\ q.state = p.state
      /\ q.initial = p.initial /\ q.known = p.known
  BY <1>1, <1>2, <1>3 DEF Parties
<1> HIDE DEF q
<1>5. \A d \in Contents : q.app[d] = IF d = c THEN a ELSE p.app[d]
  BY <1>1, <1>4
<1>6. Listed(q) = Listed(p)
  BY <1>5 DEF Listed
<1>7. Formed(e, q)
  BY <1>4, <1>5 DEF Formed, Whole
<1> QED
  BY <1>4, <1>5, <1>6, <1>7 DEF Whole, q

(* The signal updated plans the step. *)
LEMMA Updates ==
  ASSUME NEW e \in Ends, NEW p, NEW c \in Contents, Whole(e, p),
         p.state \notin {None, Finished}, p.app[c].state # None
  PROVE  LET q == updated(p, c)
         IN Whole(e, q) /\ Planned(e, q) /\ q.asked = p.asked /\ q.state = p.state
<1> DEFINE a == [p.app[c] EXCEPT !.signaling = TRUE]
           r == [p EXCEPT !.app[c] = a]
<1>1. p.app[c] \in Apps
  BY DEF Whole, Parties
<1>2. /\ a \in Apps /\ a.state = p.app[c].state /\ a.received = p.app[c].received
      /\ a.connected = p.app[c].connected /\ a.opening = p.app[c].opening
  BY <1>1 DEF Apps
<1>3. updated(p, c) = planStep(r)
  BY DEF updated
<1> HIDE DEF a
<1>4. a.state # None /\ (a.received => a.connected)
      /\ (e = "responder" /\ p.state < Unacked => ~a.opening /\ ~a.connected)
  BY <1>2 DEF Whole, Formed
<1>5. Whole(e, r) /\ r.asked = p.asked /\ r.state = p.state
  BY <1>2, <1>4, AppChanges
<1> QED
  BY <1>3, <1>5, PlansStep
-----------------------------------------------------------------------------
(* Taking the first stanza sends nothing. *)
LEMMA SendsTail ==
  ASSUME NEW w \in Seq(Stanzas), NEW action, w # <<>>
  PROVE  /\ Sends(Tail(w), action) => Sends(w, action)
         /\ Once(w, action) => Once(Tail(w), action)
         /\ Once(w, action) /\ Head(w).kind = "set" /\ Head(w).action = action
              => ~Sends(Tail(w), action)
<1>1. /\ Len(w) \in Nat /\ 1 \in DOMAIN w
      /\ \A i \in DOMAIN Tail(w) : i \in Int /\ i + 1 \in DOMAIN w /\ i + 1 # 1 /\ Tail(w)[i] = w[i + 1]
      /\ \A i, j \in DOMAIN Tail(w) : i + 1 = j + 1 => i = j
  OBVIOUS
<1>2. Sends(Tail(w), action) => Sends(w, action)
  BY <1>1 DEF Sends
<1>3. Once(w, action) => Once(Tail(w), action)
  BY <1>1 DEF Once
<1>4. Once(w, action) /\ Head(w).kind = "set" /\ Head(w).action = action => ~Sends(Tail(w), action)
  BY <1>1 DEF Once, Sends
<1> QED
  BY <1>2, <1>3, <1>4

(* Sending other stanzas sends nothing of this kind. *)
LEMMA SendsMore ==
  ASSUME NEW w \in Seq(Stanzas), NEW s \in Seq(Stanzas), NEW action, ~Sends(s, action)
  PROVE  /\ Sends(w \o s, action) => Sends(w, action)
         /\ Once(w, action) => Once(w \o s, action)
<1>1. /\ Len(w) \in Nat /\ Len(s) \in Nat /\ DOMAIN (w \o s) = 1..Len(w) + Len(s)
      /\ \A i \in 1..Len(w) : (w \o s)[i] = w[i]
      /\ \A i \in 1..Len(w) + Len(s) : i > Len(w) => (w \o s)[i] = s[i - Len(w)] /\ i - Len(w) \in DOMAIN s
  OBVIOUS
<1>2. \A i \in DOMAIN (w \o s) : (w \o s)[i].kind = "set" /\ (w \o s)[i].action = action
                                  => i \in DOMAIN w /\ (w \o s)[i] = w[i]
  BY <1>1 DEF Sends
<1> QED
  BY <1>2 DEF Sends, Once

(* The first of its kind is the only one. *)
LEMMA SendsOnce ==
  ASSUME NEW w \in Seq(Stanzas), NEW s \in Stanzas, NEW action, ~Sends(w, action)
  PROVE  Once(Append(w, s), action)
<1>1. /\ Len(w) \in Nat /\ DOMAIN Append(w, s) = 1..Len(w) + 1
      /\ \A i \in 1..Len(w) + 1 : i \in DOMAIN w \/ i = Len(w) + 1
      /\ \A i \in DOMAIN w : Append(w, s)[i] = w[i]
  OBVIOUS
<1> QED
  BY <1>1 DEF Sends, Once

(* A part of a wire sends no more than the whole. *)
LEMMA SendsFirst ==
  ASSUME NEW w \in Seq(Stanzas), NEW k \in 0..Len(w), NEW action
  PROVE  /\ SubSeq(w, 1, k) \in Seq(Stanzas)
         /\ Sends(SubSeq(w, 1, k), action) => Sends(w, action)
         /\ Once(w, action) => Once(SubSeq(w, 1, k), action)
<1>1. /\ SubSeq(w, 1, k) \in Seq(Stanzas)
      /\ \A i \in DOMAIN SubSeq(w, 1, k) : i \in DOMAIN w /\ SubSeq(w, 1, k)[i] = w[i]
  OBVIOUS
<1> QED
  BY <1>1 DEF Sends, Once

(* The frame of every step: one party changes, and what it leaves is the invariant's parts. *)
LEMMA Framed ==
  ASSUME IInv, NEW e \in Ends, NEW p, Whole(e, p), Planned(e, p),
         party' = [party EXCEPT ![e] = p], wire' \in [Ends -> Seq(Stanzas)],
         got' \subseteq Contents, lost' \subseteq Ends, failures' \in 0..MaxFailures,
         p.state # Finished => OneAnswer(p.asked, wire'[Peer(e)], wire'[e]),
         party[Peer(e)].state # Finished => OneAnswer(party[Peer(e)].asked, wire'[e], wire'[Peer(e)]),
         InOrder'
  PROVE  IInv'
<1>1. party \in [Ends -> Parties] /\ Peer(e) \in Ends /\ Peer(e) # e /\ Peer(Peer(e)) = e
      /\ \A f \in Ends : f = e \/ f = Peer(e)
  BY DEF IInv, TypeOK
<1>2. /\ party' \in [Ends -> Parties] /\ party'[e] = p /\ party'[Peer(e)] = party[Peer(e)]
  BY <1>1 DEF Whole
<1> HIDE DEF Ends, Peer
<1>3. TypeOK'
  BY <1>1, <1>2 DEF TypeOK, IInv, Whole
<1>4. \A f \in Ends : Formed(f, party'[f]) /\ Planned(f, party'[f])
  BY <1>1, <1>2 DEF Whole, IInv
<1>5. \A f \in Ends : party'[f].state # Finished => OneAnswer(party'[f].asked, wire'[Peer(f)], wire'[f])
  BY <1>1, <1>2
<1> QED
  BY <1>3, <1>4, <1>5 DEF IInv

(* A step that sends none of the stanzas that InOrder names keeps it. *)
LEMMA Ordered ==
  ASSUME IInv, NEW e \in Ends, NEW p, party' = [party EXCEPT ![e] = p],
         Sends(wire["responder"], "open")' => Sends(wire["responder"], "open"),
         Sends(wire["initiator"], "session-accept")' => Sends(wire["initiator"], "session-accept"),
         Sends(wire["responder"], "session-initiate")' => Sends(wire["responder"], "session-initiate"),
         Once(wire["responder"], "session-initiate")',
         p.state < Unacked => party[e].state < Unacked,
         e = "responder" /\ party[e].state = None => p.state = None
  PROVE  InOrder'
<1>1. party'["initiator"] = IF e = "initiator" THEN p ELSE party["initiator"]
  BY DEF IInv, TypeOK
<1>2. party'["responder"] = IF e = "responder" THEN p ELSE party["responder"]
  BY DEF IInv, TypeOK
<1> QED
  BY <1>1, <1>2 DEF InOrder, IInv

(* A step that leaves the wires alone keeps the invariant. *)
LEMMA Alone ==
  ASSUME IInv, NEW e \in Ends, NEW p, Whole(e, p), Planned(e, p),
         party' = [party EXCEPT ![e] = p], wire' = wire,
         got' \subseteq Contents, lost' \subseteq Ends, failures' \in 0..MaxFailures,
         party[e].state # Finished, p.state # Finished => p.asked = party[e].asked,
         p.state < Unacked => party[e].state < Unacked,
         e = "responder" /\ party[e].state = None => p.state = None
  PROVE  IInv'
<1>1. InOrder'
  <2>1. Once(wire["responder"], "session-initiate")
    BY DEF IInv, InOrder
  <2> QED
    BY <2>1, Ordered
<1>2. \A f \in Ends : party[f].state # Finished => OneAnswer(party[f].asked, wire'[Peer(f)], wire'[f])
  BY DEF IInv
<1>3. wire' \in [Ends -> Seq(Stanzas)]
  BY DEF IInv, TypeOK
<1>4. Peer(e) \in Ends /\ Peer(Peer(e)) = e
  OBVIOUS
<1> HIDE DEF Ends, Peer
<1>5. /\ p.state # Finished => OneAnswer(p.asked, wire'[Peer(e)], wire'[e])
      /\ party[Peer(e)].state # Finished => OneAnswer(party[Peer(e)].asked, wire'[e], wire'[Peer(e)])
  BY <1>2, <1>4
<1> QED
  BY <1>1, <1>3, <1>5, Framed
-----------------------------------------------------------------------------
(* What Takes does to the wires. *)
LEMMA Taking ==
  ASSUME IInv, NEW e \in Ends, NEW p, NEW sent \in Seq(Stanzas), wire[e] # <<>>, Takes(e, p, sent)
  PROVE  /\ party' = [party EXCEPT ![e] = p]
         /\ wire' \in [Ends -> Seq(Stanzas)]
         /\ wire'[e] = Tail(wire[e]) /\ wire'[Peer(e)] = wire[Peer(e)] \o sent
         /\ got' \subseteq Contents /\ lost' \subseteq Ends /\ failures' \in 0..MaxFailures
         /\ wire[e] \in Seq(Stanzas) /\ wire[Peer(e)] \in Seq(Stanzas)
<1>1. /\ wire \in [Ends -> Seq(Stanzas)] /\ Peer(e) \in Ends /\ Peer(e) # e
      /\ got \subseteq Contents /\ lost \subseteq Ends /\ failures \in 0..MaxFailures
  BY DEF IInv, TypeOK
<1> HIDE DEF Ends, Peer
<1>2. /\ party' = [party EXCEPT ![e] = p] /\ got' = got /\ lost' = lost /\ failures' = failures
      /\ wire' = [wire EXCEPT ![e] = Tail(@), ![Peer(e)] = @ \o sent]
  BY DEF Takes
<1>3. wire[e] \in Seq(Stanzas) /\ wire[Peer(e)] \in Seq(Stanzas)
  BY <1>1
<1>4. Tail(wire[e]) \in Seq(Stanzas) /\ wire[Peer(e)] \o sent \in Seq(Stanzas)
  BY <1>3
<1>5. /\ wire' \in [Ends -> Seq(Stanzas)]
      /\ wire'[e] = Tail(wire[e]) /\ wire'[Peer(e)] = wire[Peer(e)] \o sent
  BY <1>1, <1>2, <1>4
<1> QED
  BY <1>1, <1>2, <1>3, <1>5

(* Taking a stanza and sending none that InOrder names. *)
LEMMA TakingInOrder ==
  ASSUME IInv, NEW e \in Ends, NEW p, NEW sent \in Seq(Stanzas), wire[e] # <<>>, Takes(e, p, sent),
         ~Sends(sent, "open"), ~Sends(sent, "session-accept"), ~Sends(sent, "session-initiate"),
         p.state < Unacked => party[e].state < Unacked,
         e = "responder" /\ party[e].state = None => p.state = None
  PROVE  InOrder'
<1>1. /\ party' = [party EXCEPT ![e] = p]
      /\ wire'[e] = Tail(wire[e]) /\ wire'[Peer(e)] = wire[Peer(e)] \o sent
      /\ wire[e] \in Seq(Stanzas) /\ wire[Peer(e)] \in Seq(Stanzas)
  BY Taking
<1>2. ASSUME NEW action \in {"open", "session-accept", "session-initiate"}, NEW f \in Ends
      PROVE  /\ Sends(wire'[f], action) => Sends(wire[f], action)
             /\ Once(wire[f], action) => Once(wire'[f], action)
  <2>1. CASE f = e
    BY <1>1, <2>1, SendsTail
  <2>2. CASE f = Peer(e)
    <3>1. ~Sends(sent, action) /\ wire'[f] = wire[Peer(e)] \o sent /\ wire[f] = wire[Peer(e)]
      BY <1>1, <2>2
    <3>2. wire[Peer(e)] \in Seq(Stanzas)
      BY <1>1
    <3> QED
      BY <3>1, <3>2, SendsMore
  <2> QED
    BY <2>1, <2>2
<1>3. Once(wire["responder"], "session-initiate")
  BY DEF IInv, InOrder
<1>4. /\ Sends(wire["responder"], "open")' => Sends(wire["responder"], "open")
      /\ Sends(wire["initiator"], "session-accept")' => Sends(wire["initiator"], "session-accept")
      /\ Sends(wire["responder"], "session-initiate")' => Sends(wire["responder"], "session-initiate")
      /\ Once(wire["responder"], "session-initiate")'
  BY <1>2, <1>3 DEF Sends, Once
<1> QED
  BY <1>1, <1>4, Ordered

(* A sequence that ends with one stanza. *)
LEMMA LastOf ==
  ASSUME NEW v \in Seq(Stanzas), NEW o \in Seq(Stanzas), NEW s \in Stanzas
  PROVE  /\ v \o o \in Seq(Stanzas) /\ <<s>> \in Seq(Stanzas)
         /\ v \o (o \o <<s>>) = (v \o o) \o <<s>>
         /\ (v \o o) \o <<s>> = Append(v \o o, s)
         /\ \A i \in DOMAIN <<s>> : <<s>>[i] = s
<1>1. v \o o \in Seq(Stanzas) /\ <<s>> \in Seq(Stanzas)
  OBVIOUS
<1>2. (v \o o) \o <<s>> = v \o (o \o <<s>>)
  <2>1. \A t \in Seq(Stanzas) : (v \o o) \o t = v \o (o \o t)
    BY ConcatAssociative
  <2> QED
    BY <1>1, <2>1
<1>3. Append(v \o o, s) = (v \o o) \o <<s>>
  BY <1>1, AppendIsConcat, Zenon
<1>4. \A i \in DOMAIN <<s>> : <<s>>[i] = s
  OBVIOUS
<1> QED
  BY <1>1, <1>2, <1>3, <1>4

(* A party answers a request, having sent others that nobody waits for. *)
LEMMA Answering ==
  ASSUME IInv, NEW e \in Ends, NEW p, NEW opens \in Seq(Stanzas), NEW s \in Stanzas,
         wire[e] # <<>>, IsRequest(Head(wire[e])), IsReply(s), s.action = Head(wire[e]).action,
         \A i \in DOMAIN opens : ~IsRequest(opens[i]) /\ ~IsReply(opens[i]),
         Takes(e, p, opens \o <<s>>), Whole(e, p), Planned(e, p),
         p.state # Finished => p.asked = party[e].asked /\ party[e].state # Finished,
         InOrder'
  PROVE  IInv'
<1> DEFINE w == wire[e]
           v == wire[Peer(e)]
<1>1. opens \o <<s>> \in Seq(Stanzas)
  OBVIOUS
<1>2. /\ party' = [party EXCEPT ![e] = p] /\ wire' \in [Ends -> Seq(Stanzas)]
      /\ wire'[e] = Tail(w) /\ wire'[Peer(e)] = v \o (opens \o <<s>>)
      /\ got' \subseteq Contents /\ lost' \subseteq Ends /\ failures' \in 0..MaxFailures
      /\ w \in Seq(Stanzas) /\ v \in Seq(Stanzas)
  BY <1>1, Taking
<1>3. /\ v \o opens \in Seq(Stanzas)
      /\ v \o (opens \o <<s>>) = Append(v \o opens, s)
      /\ v \o (opens \o <<s>>) = (v \o opens) \o <<s>>
      /\ <<s>> \in Seq(Stanzas) /\ \A i \in DOMAIN <<s>> : <<s>>[i] = s
  <2>1. v \in Seq(Stanzas)
    BY <1>2
  <2> HIDE DEF v
  <2>2. /\ v \o opens \in Seq(Stanzas) /\ <<s>> \in Seq(Stanzas)
        /\ v \o (opens \o <<s>>) = (v \o opens) \o <<s>>
        /\ (v \o opens) \o <<s>> = Append(v \o opens, s)
        /\ \A i \in DOMAIN <<s>> : <<s>>[i] = s
    BY <2>1, LastOf, Zenon
  <2> QED
    BY <2>2, Zenon
<1>4. Peer(e) \in Ends /\ Peer(Peer(e)) = e
  OBVIOUS
<1>5. \A f \in Ends : party[f].state # Finished => OneAnswer(party[f].asked, wire[Peer(f)], wire[f])
  BY DEF IInv
<1> HIDE DEF Ends, Peer
<1>6. party[Peer(e)].state # Finished => OneAnswer(party[Peer(e)].asked, wire'[e], wire'[Peer(e)])
  <2>1. SUFFICES ASSUME party[Peer(e)].state # Finished
                 PROVE  OneAnswer(party[Peer(e)].asked, Tail(w), Append(v \o opens, s))
    BY <1>2, <1>3
  <2>2. OneAnswer(party[Peer(e)].asked, w, v)
    BY <1>4, <1>5, <2>1
  <2>3. OneAnswer(party[Peer(e)].asked, w, v \o opens)
    BY <1>2, <2>2, FollowedReply
  <2> QED
    BY <1>2, <1>3, <2>3, Replied
<1>7. p.state # Finished => OneAnswer(p.asked, wire'[Peer(e)], wire'[e])
  <2>1. SUFFICES ASSUME p.state # Finished
                 PROVE  OneAnswer(party[e].asked, (v \o opens) \o <<s>>, Tail(w))
    BY <1>2, <1>3
  <2>2. OneAnswer(party[e].asked, v, w)
    BY <1>4, <1>5, <2>1
  <2>3. OneAnswer(party[e].asked, v, Tail(w))
    BY <1>2, <2>2, PassedReply DEF IsRequest, IsReply
  <2>4. Tail(w) \in Seq(Stanzas)
    BY <1>2
  <2>5. OneAnswer(party[e].asked, v \o opens, Tail(w))
    BY <1>2, <2>3, <2>4, Followed
  <2>6. \A i \in DOMAIN <<s>> : ~IsRequest(<<s>>[i])
    BY <1>3 DEF IsRequest, IsReply
  <2> QED
    BY <1>3, <2>4, <2>5, <2>6, Followed
<1> QED
  BY <1>2, <1>6, <1>7, Framed

(* A party takes the answer to its request. *)
LEMMA Replying ==
  ASSUME IInv, NEW e \in Ends, NEW p, wire[e] # <<>>, IsReply(Head(wire[e])), Takes(e, p, <<>>),
         Whole(e, p), Planned(e, p), party[e].state # Finished,
         p.state # Finished => p.asked = "none",
         InOrder'
  PROVE  IInv'
<1> DEFINE w == wire[e]
           v == wire[Peer(e)]
<1>1. <<>> \in Seq(Stanzas)
  OBVIOUS
<1>2. /\ party' = [party EXCEPT ![e] = p] /\ wire' \in [Ends -> Seq(Stanzas)]
      /\ wire'[e] = Tail(w) /\ wire'[Peer(e)] = v \o <<>>
      /\ got' \subseteq Contents /\ lost' \subseteq Ends /\ failures' \in 0..MaxFailures
      /\ w \in Seq(Stanzas) /\ v \in Seq(Stanzas)
  BY <1>1, Taking
<1>3. v \o <<>> = v
  BY <1>2
<1>4. Peer(e) \in Ends /\ Peer(Peer(e)) = e
  OBVIOUS
<1>5. \A f \in Ends : party[f].state # Finished => OneAnswer(party[f].asked, wire[Peer(f)], wire[f])
  BY DEF IInv
<1> HIDE DEF Ends, Peer
<1>6. party[Peer(e)].state # Finished => OneAnswer(party[Peer(e)].asked, wire'[e], wire'[Peer(e)])
  <2>1. ~IsRequest(Head(w))
    BY DEF IsRequest, IsReply
  <2> QED
    BY <1>2, <1>3, <1>4, <1>5, <2>1, Passed
<1>7. p.state # Finished => OneAnswer(p.asked, wire'[Peer(e)], wire'[e])
  <2>1. OneAnswer(party[e].asked, v, w)
    BY <1>4, <1>5
  <2>2. OneAnswer("none", v, Tail(w))
    BY <1>2, <2>1, AnswerTaken
  <2> QED
    BY <1>2, <1>3, <2>2
<1> QED
  BY <1>2, <1>6, <1>7, Framed

(* A party takes what nobody waits for. *)
LEMMA Ignoring ==
  ASSUME IInv, NEW e \in Ends, NEW p, wire[e] # <<>>, ~IsRequest(Head(wire[e])), Takes(e, p, <<>>),
         Whole(e, p), Planned(e, p),
         p.state # Finished => /\ p.asked = party[e].asked /\ party[e].state # Finished
                               /\ ~IsReply(Head(wire[e])),
         InOrder'
  PROVE  IInv'
<1> DEFINE w == wire[e]
           v == wire[Peer(e)]
<1>1. <<>> \in Seq(Stanzas)
  OBVIOUS
<1>2. /\ party' = [party EXCEPT ![e] = p] /\ wire' \in [Ends -> Seq(Stanzas)]
      /\ wire'[e] = Tail(w) /\ wire'[Peer(e)] = v \o <<>>
      /\ got' \subseteq Contents /\ lost' \subseteq Ends /\ failures' \in 0..MaxFailures
      /\ w \in Seq(Stanzas) /\ v \in Seq(Stanzas)
  BY <1>1, Taking
<1>3. v \o <<>> = v
  BY <1>2
<1>4. Peer(e) \in Ends /\ Peer(Peer(e)) = e
  OBVIOUS
<1>5. \A f \in Ends : party[f].state # Finished => OneAnswer(party[f].asked, wire[Peer(f)], wire[f])
  BY DEF IInv
<1> HIDE DEF Ends, Peer
<1>6. party[Peer(e)].state # Finished => OneAnswer(party[Peer(e)].asked, wire'[e], wire'[Peer(e)])
  BY <1>2, <1>3, <1>4, <1>5, Passed
<1>7. p.state # Finished => OneAnswer(p.asked, wire'[Peer(e)], wire'[e])
  BY <1>2, <1>3, <1>4, <1>5, PassedReply
<1> QED
  BY <1>2, <1>6, <1>7, Framed

(* e sends s of its own. *)
Puts(e, s) == wire' = [wire EXCEPT ![Peer(e)] = Append(@, s)]

(* What Puts does to the wires. *)
LEMMA Appending ==
  ASSUME IInv, NEW e \in Ends, NEW s \in Stanzas,
         Puts(e, s)
  PROVE  /\ wire' \in [Ends -> Seq(Stanzas)] /\ wire[e] \in Seq(Stanzas)
         /\ wire[Peer(e)] \in Seq(Stanzas)
         /\ wire'[e] = wire[e] /\ wire'[Peer(e)] = Append(wire[Peer(e)], s)
         /\ Append(wire[Peer(e)], s) = wire[Peer(e)] \o <<s>>
         /\ <<s>> \in Seq(Stanzas) /\ \A i \in DOMAIN <<s>> : <<s>>[i] = s
<1>1. wire \in [Ends -> Seq(Stanzas)] /\ Peer(e) \in Ends /\ Peer(e) # e
  BY DEF IInv, TypeOK
<1> HIDE DEF Ends, Peer
<1>2. wire[e] \in Seq(Stanzas) /\ wire[Peer(e)] \in Seq(Stanzas)
  BY <1>1
<1>3. /\ Append(wire[Peer(e)], s) \in Seq(Stanzas)
      /\ <<s>> \in Seq(Stanzas) /\ \A i \in DOMAIN <<s>> : <<s>>[i] = s
  BY <1>2
<1>4. Append(wire[Peer(e)], s) = wire[Peer(e)] \o <<s>>
  BY <1>2, AppendIsConcat
<1> QED
  BY <1>1, <1>2, <1>3, <1>4 DEF Puts

(* Sending a stanza that InOrder does not name. *)
LEMMA AppendingInOrder ==
  ASSUME IInv, NEW e \in Ends, NEW p, NEW s \in Stanzas, party' = [party EXCEPT ![e] = p],
         Puts(e, s),
         s.kind = "set" => s.action \notin {"open", "session-accept", "session-initiate"},
         p.state < Unacked => party[e].state < Unacked,
         e = "responder" /\ party[e].state = None => p.state = None
  PROVE  InOrder'
<1> DEFINE t == <<s>>
<1>1. /\ wire'[e] = wire[e] /\ wire'[Peer(e)] = wire[Peer(e)] \o t
      /\ wire[Peer(e)] \in Seq(Stanzas)
      /\ t \in Seq(Stanzas) /\ \A i \in DOMAIN t : t[i] = s
  BY Appending
<1> HIDE DEF t
<1>2. ASSUME NEW action \in {"open", "session-accept", "session-initiate"}, NEW f \in Ends
      PROVE  /\ Sends(wire'[f], action) => Sends(wire[f], action)
             /\ Once(wire[f], action) => Once(wire'[f], action)
  <2>1. CASE f = e
    BY <1>1, <2>1
  <2>2. CASE f = Peer(e)
    <3>1. ~Sends(t, action) /\ wire'[f] = wire[Peer(e)] \o t /\ wire[f] = wire[Peer(e)]
      BY <1>1, <2>2 DEF Sends
    <3>2. wire[Peer(e)] \in Seq(Stanzas) /\ t \in Seq(Stanzas)
      BY <1>1
    <3> QED
      BY <3>1, <3>2, SendsMore
  <2> QED
    BY <2>1, <2>2
<1>3. Once(wire["responder"], "session-initiate")
  BY DEF IInv, InOrder
<1>4. /\ Sends(wire["responder"], "open")' => Sends(wire["responder"], "open")
      /\ Sends(wire["initiator"], "session-accept")' => Sends(wire["initiator"], "session-accept")
      /\ Sends(wire["responder"], "session-initiate")' => Sends(wire["responder"], "session-initiate")
      /\ Once(wire["responder"], "session-initiate")'
  BY <1>2, <1>3 DEF Sends, Once
<1> QED
  BY <1>4, Ordered

(* A party without a request outstanding sends one. *)
LEMMA Asking ==
  ASSUME IInv, NEW e \in Ends, NEW p, NEW S \in SUBSET Contents, NEW action \in Answers,
         Asks(e, action, S, p), Whole(e, p), p.state \notin {None, Finished},
         party[e].asked = "none", party[e].state # Finished,
         InOrder'
  PROVE  IInv'
<1> DEFINE s == [kind |-> "set", action |-> action, contents |-> S]
           q == [p EXCEPT !.asked = action, !.step = FALSE]
<1>1. /\ s \in Stanzas /\ IsRequest(s) /\ ~IsReply(s) /\ s.action = action
  BY DEF Stanzas, IsRequest, IsReply, Answers, Requests
<1>2. /\ party' = [party EXCEPT ![e] = q] /\ Puts(e, s)
      /\ got' \subseteq Contents /\ lost' \subseteq Ends /\ failures' \in 0..MaxFailures
  BY DEF Asks, IInv, TypeOK, Puts
<1>3. /\ q \in Parties /\ q.asked = action /\ ~q.step /\ q.app = p.app /\ q.initial = p.initial
      /\ q.state = p.state
  BY DEF Whole, Parties, Answers, Requests
<1> HIDE DEF s, q
<1>4. Whole(e, q) /\ Planned(e, q)
  BY <1>3 DEF Whole, Formed, Planned, Listed, Answers
<1>5. /\ wire' \in [Ends -> Seq(Stanzas)] /\ wire[e] \in Seq(Stanzas)
      /\ wire[Peer(e)] \in Seq(Stanzas) /\ wire'[e] = wire[e]
      /\ wire'[Peer(e)] = Append(wire[Peer(e)], s)
      /\ wire'[Peer(e)] = wire[Peer(e)] \o <<s>>
      /\ <<s>> \in Seq(Stanzas) /\ \A i \in DOMAIN <<s>> : <<s>>[i] = s
  BY <1>1, <1>2, Appending
<1>6. Peer(e) \in Ends /\ Peer(Peer(e)) = e
  OBVIOUS
<1>7. \A f \in Ends : party[f].state # Finished => OneAnswer(party[f].asked, wire[Peer(f)], wire[f])
  BY DEF IInv
<1> HIDE DEF Ends, Peer
<1>8. OneAnswer(q.asked, wire'[Peer(e)], wire'[e])
  BY <1>1, <1>3, <1>5, <1>6, <1>7, Asked
<1>9. party[Peer(e)].state # Finished => OneAnswer(party[Peer(e)].asked, wire'[e], wire'[Peer(e)])
  <2>1. \A i \in DOMAIN <<s>> : ~IsReply(<<s>>[i])
    BY <1>1, <1>5
  <2> QED
    BY <1>5, <1>6, <1>7, <2>1, FollowedReply
<1> QED
  BY <1>2, <1>4, <1>5, <1>8, <1>9, Framed

(* A party says something that has no answer. *)
LEMMA Saying ==
  ASSUME IInv, NEW e \in Ends, NEW p, NEW s \in Stanzas, party' = [party EXCEPT ![e] = p],
         Puts(e, s), s.action \notin Answers,
         got' \subseteq Contents, lost' \subseteq Ends, failures' \in 0..MaxFailures,
         Whole(e, p), Planned(e, p),
         p.state # Finished => p.asked = party[e].asked /\ party[e].state # Finished,
         InOrder'
  PROVE  IInv'
<1> DEFINE t == <<s>>
<1>1. ~IsRequest(s) /\ ~IsReply(s)
  BY DEF IsRequest, IsReply
<1>2. /\ wire' \in [Ends -> Seq(Stanzas)] /\ wire[e] \in Seq(Stanzas)
      /\ wire[Peer(e)] \in Seq(Stanzas) /\ wire'[e] = wire[e]
      /\ wire'[Peer(e)] = wire[Peer(e)] \o t
      /\ t \in Seq(Stanzas) /\ \A i \in DOMAIN t : t[i] = s
  BY Appending
<1> HIDE DEF t
<1>3. Peer(e) \in Ends /\ Peer(Peer(e)) = e
  OBVIOUS
<1>4. \A f \in Ends : party[f].state # Finished => OneAnswer(party[f].asked, wire[Peer(f)], wire[f])
  BY DEF IInv
<1> HIDE DEF Ends, Peer
<1>5. \A i \in DOMAIN t : ~IsReply(t[i]) /\ ~IsRequest(t[i])
  BY <1>1, <1>2
<1>6. p.state # Finished => OneAnswer(p.asked, wire'[Peer(e)], wire'[e])
  BY <1>2, <1>3, <1>4, <1>5, Followed
<1>7. party[Peer(e)].state # Finished => OneAnswer(party[Peer(e)].asked, wire'[e], wire'[Peer(e)])
  BY <1>2, <1>3, <1>4, <1>5, FollowedReply
<1> QED
  BY <1>2, <1>6, <1>7, Framed
-----------------------------------------------------------------------------
(* One lemma per action. *)

(* What the invariant says of each variable. *)
LEMMA Given ==
  ASSUME IInv
  PROVE  /\ party \in [Ends -> Parties] /\ wire \in [Ends -> Seq(Stanzas)]
         /\ \A e \in Ends : Whole(e, party[e]) /\ Planned(e, party[e])
         /\ got \subseteq Contents /\ lost \subseteq Ends /\ failures \in 0..MaxFailures
BY DEF IInv, TypeOK, Whole

(* Who is known, has a step planned, an answer awaited or a content, has a session. *)
LEMMA Alive ==
  ASSUME NEW e \in Ends, NEW p, Whole(e, p),
         \/ p.known \/ p.step \/ p.asked # "none"
         \/ \E c \in Contents : p.app[c].state # None \/ p.app[c].connected \/ p.app[c].opening
  PROVE  p.state \notin {None, Finished}
<1>1. p = Gone \/ p = NoSession => /\ ~p.known /\ ~p.step /\ p.asked = "none"
                                   /\ \A c \in Contents : p.app[c] = NoApp
  BY Blank DEF NoSession
<1> QED
  BY <1>1 DEF Whole, Formed, NoApp

(* The state of the session is s. *)
InState(p, s) == [p EXCEPT !.state = s]

(* The state of the session changes. *)
LEMMA StateChanges ==
  ASSUME NEW e \in Ends, NEW p, NEW s \in Created..Finishing, Whole(e, p),
         p.state \notin {None, Finished}, s < Unacked => p.state < Unacked
  PROVE  /\ Whole(e, InState(p, s)) /\ InState(p, s).asked = p.asked
         /\ InState(p, s).step = p.step /\ InState(p, s).state = s
<1> DEFINE q == InState(p, s)
<1>1. /\ q \in Parties /\ q.asked = p.asked /\ q.step = p.step /\ q.state = s /\ q.app = p.app
      /\ q.initial = p.initial
  BY DEF Whole, Parties, InState
<1> HIDE DEF q
<1>2. Formed(e, q)
  BY <1>1 DEF Formed, Whole
<1>3. Listed(q) = Listed(p)
  BY <1>1 DEF Listed
<1> QED
  BY <1>1, <1>2, <1>3 DEF Whole, q

(* The state of the session changes, with those of some contents. *)
LEMMA AllChange ==
  ASSUME NEW e \in Ends, NEW p, NEW s \in Created..Finishing, NEW t \in Created..Finished,
         NEW S \in SUBSET Contents,
         Whole(e, p), p.state \notin {None, Finished}, s < Unacked => p.state < Unacked
  PROVE  /\ Whole(e, setStates(InState(p, s), S, t))
         /\ setStates(InState(p, s), S, t).asked = p.asked
         /\ setStates(InState(p, s), S, t).step = p.step
         /\ setStates(InState(p, s), S, t).state = s
<1> DEFINE r == InState(p, s)
<1>1. Whole(e, r) /\ r.asked = p.asked /\ r.step = p.step /\ r.state = s
  BY StateChanges
<1> HIDE DEF r
<1>2. LET q == setStates(r, S, t)
      IN Whole(e, q) /\ q.asked = p.asked /\ q.step = p.step /\ q.state = s
  BY <1>1, Finishes
<1> QED
  BY <1>2 DEF r

(* A slot that sends nothing keeps the invariant. *)
LEMMA SlotKeeps ==
  ASSUME IInv, NEW e \in Ends, NEW p, Slot(e, p), Whole(e, p), Planned(e, p),
         party[e].state \notin {None, Finished}, p.state # Finished => p.asked = party[e].asked,
         p.state < Unacked => party[e].state < Unacked
  PROVE  IInv'
BY Alone, Given DEF Slot

(* The same for one that a failure calls. *)
LEMMA FailureSlotKeeps ==
  ASSUME IInv, NEW e \in Ends, NEW p, FailureSlot(e, p), Whole(e, p), Planned(e, p),
         party[e].state \notin {None, Finished}, p.state # Finished => p.asked = party[e].asked,
         p.state < Unacked => party[e].state < Unacked
  PROVE  IInv'
<1>1. failures' \in 0..MaxFailures
  BY Given, MaxFailuresAssumption DEF FailureSlot
<1> QED
  BY <1>1, Alone, Given DEF FailureSlot

(* Initiate keeps the invariant. *)
LEMMA InitiateKeeps ==
  ASSUME IInv, Initiate
  PROVE  IInv'
<1> DEFINE e == "initiator"
           p == party[e]
           q == setStates(InState(p, ApprovedToSend), Listed(p), ApprovedToSend)
<1>1. Whole(e, p) /\ p.state = Created /\ Listed(p) \subseteq Contents /\ e \in Ends
  BY Given DEF Initiate, Listed
<1>2. Slot(e, planStep(q))
  BY DEF Initiate, InState
<1> HIDE DEF p
<1>3. Whole(e, q) /\ q.asked = p.asked /\ q.state = ApprovedToSend
  <2>1. /\ p.state \notin {None, Finished} /\ (ApprovedToSend < Unacked => p.state < Unacked)
        /\ ApprovedToSend \in Created..Finishing /\ ApprovedToSend \in Created..Finished
    BY <1>1
  <2> QED
    BY <1>1, <2>1, AllChange
<1> HIDE DEF q
<1>4. /\ Whole(e, planStep(q)) /\ Planned(e, planStep(q))
      /\ planStep(q).asked = p.asked /\ planStep(q).state = ApprovedToSend
  BY <1>1, <1>3, PlansStep
<1>5. p.state = party[e].state /\ p.asked = party[e].asked
  BY DEF p
<1> QED
  BY <1>1, <1>2, <1>4, <1>5, SlotKeeps

(* Accept keeps the invariant. *)
LEMMA AcceptKeeps ==
  ASSUME IInv, Accept
  PROVE  IInv'
<1> DEFINE e == "responder"
           p == party[e]
           q == setStates(InState(p, ApprovedToSend), Listed(p), ApprovedToSend)
<1>1. Whole(e, p) /\ p.state = Created /\ Listed(p) \subseteq Contents /\ e \in Ends
  BY Given DEF Accept, Listed
<1>2. Slot(e, planStep(q))
  BY DEF Accept, InState
<1> HIDE DEF p
<1>3. Whole(e, q) /\ q.asked = p.asked /\ q.state = ApprovedToSend
  <2>1. /\ p.state \notin {None, Finished} /\ (ApprovedToSend < Unacked => p.state < Unacked)
        /\ ApprovedToSend \in Created..Finishing /\ ApprovedToSend \in Created..Finished
    BY <1>1
  <2> QED
    BY <1>1, <2>1, AllChange
<1> HIDE DEF q
<1>4. /\ Whole(e, planStep(q)) /\ Planned(e, planStep(q))
      /\ planStep(q).asked = p.asked /\ planStep(q).state = ApprovedToSend
  BY <1>1, <1>3, PlansStep
<1>5. p.state = party[e].state /\ p.asked = party[e].asked
  BY DEF p
<1> QED
  BY <1>1, <1>2, <1>4, <1>5, SlotKeeps

(* Cancel keeps the invariant. *)
LEMMA CancelKeeps ==
  ASSUME IInv, NEW e \in Ends, Cancel(e)
  PROVE  IInv'
<1> DEFINE p == party[e]
<1>1. Whole(e, p) /\ p.state \in Created..Active
  BY Given DEF Cancel
<1>2. Slot(e, terminate(e, p))
  BY DEF Cancel
<1>a. p.state = party[e].state /\ p.asked = party[e].asked
  OBVIOUS
<1> HIDE DEF p
<1>3. CASE e = "initiator" /\ p.state = ApprovedToSend
  <2>1. terminate(e, p) = Gone
    BY <1>3 DEF terminate
  <2> QED
    BY <1>1, <1>2, <1>a, <2>1, SlotKeeps, Blank
<1>4. CASE ~(e = "initiator" /\ p.state = ApprovedToSend)
  <2> DEFINE q == terminate(e, p)
  <2>1. Whole(e, q) /\ Planned(e, q) /\ q.asked = p.asked /\ q.state = Finishing
    BY <1>1, <1>4, Ending
  <2> HIDE DEF q
  <2> QED
    <3>1. Slot(e, q)
      BY <1>2 DEF q
    <3> QED
      BY <1>1, <1>a, <2>1, <3>1, SlotKeeps
<1> QED
  BY <1>3, <1>4

(* TransportReady keeps the invariant. *)
LEMMA TransportReadyKeeps ==
  ASSUME IInv, NEW e \in Ends, NEW c \in Contents, TransportReady(e, c)
  PROVE  IInv'
<1> DEFINE p == party[e]
           a == [p.app[c] EXCEPT !.ready = TRUE]
           r == [p EXCEPT !.app[c] = a]
           q == updated(r, c)
<1>1. Whole(e, p) /\ p.app[c].state # None /\ p.app[c] \in Apps
  BY Given DEF TransportReady, Whole, Parties
<1>2. Slot(e, q)
  BY Zenon DEF TransportReady
<1>3. p.state \notin {None, Finished}
  BY <1>1, Alive
<1> HIDE DEF p
<1>4. /\ a \in Apps /\ a.state = p.app[c].state /\ a.received = p.app[c].received
      /\ a.connected = p.app[c].connected /\ a.opening = p.app[c].opening
  BY <1>1 DEF Apps
<1> HIDE DEF a
<1>5. /\ a.state # None /\ (a.received => a.connected)
      /\ e = "responder" /\ p.state < Unacked => ~a.opening /\ ~a.connected
  BY <1>1, <1>4 DEF Whole, Formed
<1>6. Whole(e, r) /\ r.asked = p.asked /\ r.state = p.state /\ r.app[c] = a
  BY <1>1, <1>3, <1>4, <1>5, AppChanges
<1> HIDE DEF r
<1>7. Whole(e, q) /\ Planned(e, q) /\ q.asked = p.asked /\ q.state = p.state
  BY <1>1, <1>3, <1>5, <1>6, Updates
<1> HIDE DEF q
<1>8. p.state = party[e].state /\ p.asked = party[e].asked
  BY DEF p
<1>9. Slot(e, q)
  BY <1>2 DEF q, r, a, p
<1> QED
  BY <1>3, <1>7, <1>8, <1>9, SlotKeeps

(* TransportFails keeps the invariant. *)
LEMMA TransportFailsKeeps ==
  ASSUME IInv, NEW e \in Ends, NEW c \in Contents, TransportFails(e, c)
  PROVE  IInv'
<1> DEFINE p == party[e]
<1>1. Whole(e, p) /\ p.app[c].state # None /\ p.app[c] \in Apps /\ p.app \in [Contents -> Apps]
  BY Given DEF TransportFails, Whole, Parties
<1>2. p.state \notin {None, Finished}
  BY <1>1, Alive
<1>3. PICK s \in {Finished, Finishing} \union {p.app[c].state} :
        FailureSlot(e, updated([p EXCEPT !.app[c].state = s, !.app[c].removing = TRUE], c))
  BY Zenon DEF TransportFails
<1>a. s \in Created..Finished
  BY DEF TransportFails
<1> DEFINE a == [p.app[c] EXCEPT !.state = s, !.removing = TRUE]
           r == [p EXCEPT !.app[c] = a]
           q == updated(r, c)
<1> HIDE DEF p
<1>4. [p EXCEPT !.app[c].state = s, !.app[c].removing = TRUE] = r
  BY <1>1 DEF Whole, Parties
<1>5. FailureSlot(e, q)
  BY <1>3, <1>4
<1>6. /\ a \in Apps /\ a.state = s /\ a.received = p.app[c].received
      /\ a.connected = p.app[c].connected /\ a.opening = p.app[c].opening
  <2>1. [p.app[c] EXCEPT !.state = s] \in Apps
    BY <1>1, <1>a DEF Apps
  <2> QED
    BY <1>1, <2>1 DEF Apps
<1> HIDE DEF a
<1>7. /\ a.state # None /\ (a.received => a.connected)
      /\ e = "responder" /\ p.state < Unacked => ~a.opening /\ ~a.connected
  BY <1>1, <1>6, <1>a DEF Whole, Formed
<1>8. Whole(e, r) /\ r.asked = p.asked /\ r.state = p.state /\ r.app[c] = a
  BY <1>1, <1>2, <1>6, <1>7, AppChanges
<1> HIDE DEF r
<1>9. Whole(e, q) /\ Planned(e, q) /\ q.asked = p.asked /\ q.state = p.state
  BY <1>2, <1>7, <1>8, Updates
<1> HIDE DEF q
<1>10. p.state = party[e].state /\ p.asked = party[e].asked
  BY DEF p
<1> QED
  BY <1>2, <1>5, <1>9, <1>10, FailureSlotKeeps DEF q, r, a

(* Several contents change. *)
LEMMA AppsChange ==
  ASSUME NEW e \in Ends, NEW p, NEW f \in [Contents -> Apps], Whole(e, p),
         p.state \notin {None, Finished},
         \A c \in Contents : /\ f[c].state = None <=> p.app[c].state = None
                             /\ f[c].received => f[c].connected
                             /\ f[c].opening \/ f[c].connected => f[c].state # None
                             /\ e = "responder" /\ p.state < Unacked => ~f[c].opening /\ ~f[c].connected
  PROVE  LET q == [p EXCEPT !.app = f]
         IN /\ Whole(e, q) /\ Listed(q) = Listed(p) /\ q.app = f
            /\ q.asked = p.asked /\ q.step = p.step /\ q.reason = p.reason /\ q.state = p.state
            /\ q.initial = p.initial /\ q.known = p.known
<1> DEFINE q == [p EXCEPT !.app = f]
<1>1. p \in Parties
  BY DEF Whole
<1>2. /\ q \in Parties /\ q.app = f
      /\ q.asked = p.asked /\ q.step = p.step /\ q.reason = p.reason /\ q.state = p.state
      /\ q.initial = p.initial /\ q.known = p.known
  BY <1>1 DEF Parties
<1> HIDE DEF q
<1>3. Listed(q) = Listed(p)
  BY <1>2 DEF Listed
<1>4. Formed(e, q)
  BY <1>2 DEF Formed, Whole
<1> QED
  BY <1>2, <1>3, <1>4 DEF Whole, q

(* Streams are opened and connected: nothing to report or to remove comes of it. *)
LEMMA Streams ==
  ASSUME NEW e \in Ends, NEW p, NEW f \in [Contents -> Apps], Whole(e, p), Planned(e, p),
         p.state \notin {None, Finished}, e = "responder" => p.state >= Unacked,
         \A c \in Contents :
           /\ f[c].received = p.app[c].received /\ f[c].ready = p.app[c].ready
           /\ f[c].removing = p.app[c].removing /\ f[c].signaling = p.app[c].signaling
           /\ f[c].opening => f[c].state # None
           /\ \/ f[c].state = p.app[c].state /\ f[c].connected = p.app[c].connected
              \/ /\ f[c].state = Active /\ f[c].connected /\ ~f[c].removing
                 /\ ~p.app[c].connected /\ p.app[c].state # None
  PROVE  LET q == [p EXCEPT !.app = f]
         IN Whole(e, q) /\ Planned(e, q) /\ q.asked = p.asked /\ q.state = p.state
<1> DEFINE q == [p EXCEPT !.app = f]
<1>1. \A c \in Contents : /\ p.app[c].received => p.app[c].connected
                          /\ p.app[c].opening \/ p.app[c].connected => p.app[c].state # None
  BY DEF Whole, Formed
<1>2. \A c \in Contents : /\ f[c].state = None <=> p.app[c].state = None
                          /\ f[c].received => f[c].connected
                          /\ f[c].opening \/ f[c].connected => f[c].state # None
  BY <1>1
<1>3. p.state \in Int
  BY DEF Whole, Parties
<1>4. /\ Whole(e, q) /\ Listed(q) = Listed(p) /\ q.app = f
      /\ q.asked = p.asked /\ q.step = p.step /\ q.reason = p.reason /\ q.state = p.state
      /\ q.initial = p.initial
  BY <1>2, <1>3, AppsChange
<1> HIDE DEF q
<1>5. \A c \in Contents : /\ Offers(q.app[c]) => Offers(p.app[c])
                          /\ Reports(q.app[c]) => Reports(p.app[c])
                          /\ Removes(q.app[c]) => Removes(p.app[c])
                          /\ q.app[c].signaling = p.app[c].signaling
  BY <1>1, <1>4 DEF Offers, Reports, Removes
<1>6. ~FailedEarly(e, q)
  BY <1>4 DEF FailedEarly
<1>7. p.initial \subseteq Contents
  BY DEF Whole, Listed
<1>8. Planned(e, q)
  BY <1>4, <1>5, <1>6, <1>7, StaysPlanned
<1> QED
  BY <1>4, <1>8 DEF q

(* What Connects changes of a content. *)
LEMMA ConnectsWell ==
  ASSUME NEW x \in Apps
  PROVE  /\ Connects(x) \in Apps /\ Connects(x).received = x.received
         /\ Connects(x).ready = x.ready /\ Connects(x).removing = x.removing
         /\ Connects(x).signaling = x.signaling /\ Connects(x).opening = x.opening
         /\ \/ Connects(x).state = x.state /\ Connects(x).connected = x.connected
            \/ /\ Connects(x).state = Active /\ Connects(x).connected /\ ~Connects(x).removing
               /\ ~x.connected /\ x.state # None
<1>1. CASE x.state = None \/ x.removing \/ x.connected
  BY <1>1 DEF Connects
<1>2. CASE ~(x.state = None \/ x.removing \/ x.connected)
  <2> DEFINE y == [x EXCEPT !.connected = TRUE]
  <2>1. /\ y \in Apps /\ y.received = x.received /\ y.ready = x.ready /\ y.removing = x.removing
        /\ y.signaling = x.signaling /\ y.opening = x.opening /\ y.connected
    BY DEF Apps
  <2>2. Connects(x) = [y EXCEPT !.state = Active]
    BY <1>2 DEF Connects, Apps
  <2> HIDE DEF y
  <2> QED
    BY <1>2, <2>1, <2>2 DEF Apps
<1> QED
  BY <1>1, <1>2

(* AcceptStream keeps the invariant. *)
LEMMA AcceptStreamKeeps ==
  ASSUME IInv, NEW c \in Contents, AcceptStream(c)
  PROVE  IInv'
<1> DEFINE e == "responder"
           p == party[e]
           a == p.app[c]
           b == Connects([a EXCEPT !.opening = FALSE])
           f == [p.app EXCEPT ![c] = b]
           q == [p EXCEPT !.app = f]
           s == [kind |-> "result", action |-> "open", contents |-> {c}]
<1>1. /\ Whole(e, p) /\ Planned(e, p) /\ p \in Parties /\ p.app \in [Contents -> Apps]
      /\ a \in Apps /\ a.opening /\ party \in [Ends -> Parties]
  BY Given DEF AcceptStream, Whole, Parties
<1>2. p.state \notin {None, Finished}
  BY <1>1, Alive
<1>3. p.state >= Unacked /\ a.state # None
  BY <1>1 DEF Whole, Formed, Parties
<1>4. /\ b \in Apps /\ b.received = a.received /\ b.ready = a.ready /\ b.removing = a.removing
      /\ b.signaling = a.signaling /\ ~b.opening
      /\ \/ b.state = a.state /\ b.connected = a.connected
         \/ b.state = Active /\ b.connected /\ ~b.removing /\ ~a.connected /\ a.state # None
  <2> DEFINE x == [a EXCEPT !.opening = FALSE]
  <2>1. /\ x \in Apps /\ x.received = a.received /\ x.ready = a.ready /\ x.removing = a.removing
        /\ x.signaling = a.signaling /\ ~x.opening /\ x.state = a.state /\ x.connected = a.connected
    BY <1>1 DEF Apps
  <2>2. b = Connects(x)
    OBVIOUS
  <2> HIDE DEF x, b, a
  <2> QED
    BY <1>3, <2>1, <2>2, ConnectsWell
<1>5. party' = [party EXCEPT ![e] = q] /\ Puts(e, s)
  BY <1>1 DEF AcceptStream, Parties, Puts
<1> HIDE DEF b
<1>6. f \in [Contents -> Apps] /\ \A d \in Contents : f[d] = IF d = c THEN b ELSE p.app[d]
  BY <1>1, <1>4
<1>7. \A d \in Contents : p.app[d].opening => p.app[d].state # None
  BY <1>1 DEF Whole, Formed
<1> HIDE DEF f
<1>8. Whole(e, q) /\ Planned(e, q) /\ q.asked = p.asked /\ q.state = p.state
  <2> HIDE DEF p
  <2> QED
    BY <1>1, <1>2, <1>3, <1>4, <1>6, <1>7, Streams
<1> HIDE DEF q
<1>9. s \in Stanzas /\ s.action \notin Answers /\ s.kind # "set"
  BY DEF Stanzas, Answers, Requests
<1> HIDE DEF s
<1>10. got' \subseteq Contents /\ lost' \subseteq Ends /\ failures' \in 0..MaxFailures
  BY Given DEF AcceptStream
<1>11. InOrder'
  BY <1>5, <1>8, <1>9, AppendingInOrder
<1> QED
  BY <1>2, <1>5, <1>8, <1>9, <1>10, <1>11, Saying

(* Transferred keeps the invariant. *)
LEMMA TransferredKeeps ==
  ASSUME IInv, NEW c \in Contents, Transferred(c)
  PROVE  IInv'
<1>e. PICK e \in Ends : e = "responder"
  OBVIOUS
<1> DEFINE p == party[e]
           a == [p.app[c] EXCEPT !.received = TRUE]
           r == [p EXCEPT !.app[c] = a]
           q == updated(r, c)
<1>1. /\ Whole(e, p) /\ p.app[c].connected /\ p.app[c] \in Apps /\ p \in Parties
      /\ p.app \in [Contents -> Apps]
  BY <1>e, Given DEF Transferred, Streaming, Whole, Parties
<1>2. p.state \notin {None, Finished}
  BY <1>1, Alive
<1>3. party' = [party EXCEPT ![e] = q] /\ wire' = wire
  BY <1>1, <1>e DEF Transferred, Parties
<1> HIDE DEF p
<1>4. /\ a \in Apps /\ a.state = p.app[c].state /\ a.connected = p.app[c].connected
      /\ a.opening = p.app[c].opening
  BY <1>1 DEF Apps
<1> HIDE DEF a
<1>5. /\ a.state # None /\ (a.received => a.connected) /\ p.app[c].state # None
      /\ e = "responder" /\ p.state < Unacked => ~a.opening /\ ~a.connected
  BY <1>1, <1>4 DEF Whole, Formed
<1>6. Whole(e, r) /\ r.asked = p.asked /\ r.state = p.state /\ r.app[c] = a
  <2>1. /\ a.state # None /\ p.app[c].state # None /\ (a.received => a.connected)
        /\ (e = "responder" /\ p.state < Unacked => ~a.opening /\ ~a.connected)
    BY <1>5
  <2>2. Whole(e, p)
    BY <1>1
  <2>3. a \in Apps
    BY <1>4
  <2> QED
    BY <1>2, <2>1, <2>2, <2>3, AppChanges
<1> HIDE DEF r
<1>7. Whole(e, q) /\ Planned(e, q) /\ q.asked = p.asked /\ q.state = p.state
  BY <1>2, <1>5, <1>6, Updates
<1> HIDE DEF q
<1>8. p.state = party[e].state /\ p.asked = party[e].asked
  BY DEF p
<1>9. got' \subseteq Contents /\ lost' \subseteq Ends /\ failures' \in 0..MaxFailures
  BY Given DEF Transferred
<1> QED
  BY <1>2, <1>3, <1>7, <1>8, <1>9, Alone

(* StreamFails keeps the invariant. *)
LEMMA StreamFailsKeeps ==
  ASSUME IInv, NEW e \in Ends, NEW c \in Contents, StreamFails(e, c)
  PROVE  IInv'
<1> DEFINE p == party[e]
           q == finish(e, p, {c})
<1>1. Whole(e, p) /\ Planned(e, p) /\ p.app[c].connected
  BY Given DEF StreamFails, Streaming
<1>2. p.state \notin {None, Finished} /\ (e = "initiator" \/ p.state # Created)
  BY <1>1, Alive DEF Whole, Formed
<1>3. FailureSlot(e, q)
  BY DEF StreamFails
<1> HIDE DEF p
<1>4. Whole(e, q) /\ Planned(e, q) /\ q.asked = p.asked /\ q.state \in {p.state, Finishing}
  BY <1>1, <1>2, FinishesAll
<1> HIDE DEF q
<1>5. p.state = party[e].state /\ p.asked = party[e].asked
  BY DEF p
<1> QED
  BY <1>2, <1>3, <1>4, <1>5, FailureSlotKeeps

(* StepTerminates keeps the invariant. *)
LEMMA StepTerminatesKeeps ==
  ASSUME IInv, NEW e \in Ends, StepTerminates(e)
  PROVE  IInv'
<1> DEFINE s == [kind |-> "set", action |-> "session-terminate", contents |-> {}]
           q == Gone
<1>1. party' = [party EXCEPT ![e] = q] /\ Puts(e, s)
  BY DEF StepTerminates, Puts
<1>2. s \in Stanzas /\ s.action \notin Answers
      /\ s.action \notin {"open", "session-accept", "session-initiate"}
  BY DEF Stanzas, Answers, Requests
<1> HIDE DEF s
<1>3. got' \subseteq Contents /\ lost' \subseteq Ends /\ failures' \in 0..MaxFailures
  BY Given DEF StepTerminates
<1>4. Whole(e, q) /\ Planned(e, q) /\ q.state = Finished
  BY Blank
<1> HIDE DEF q
<1>5. Whole(e, party[e]) /\ party[e].step
  BY Given DEF StepTerminates
<1>6. party[e].state \notin {None, Finished}
  BY <1>5, Alive
<1>7. InOrder'
  <2>1. /\ q.state < Unacked => party[e].state < Unacked
        /\ e = "responder" /\ party[e].state = None => q.state = None
        /\ s.kind = "set" => s.action \notin {"open", "session-accept", "session-initiate"}
    BY <1>2, <1>4, <1>6
  <2> QED
    BY <1>1, <1>2, <2>1, AppendingInOrder
<1> QED
  BY <1>1, <1>2, <1>3, <1>4, <1>7, Saying

(* StepGivesUp keeps the invariant. *)
LEMMA StepGivesUpKeeps ==
  ASSUME IInv, NEW e \in Ends, StepGivesUp(e)
  PROVE  IInv'
<1>1. Whole(e, party[e]) /\ party[e].step /\ Slot(e, Gone)
  BY Given DEF StepGivesUp, Proceeds
<1>2. party[e].state \notin {None, Finished}
  BY <1>1, Alive
<1>3. Whole(e, Gone) /\ Planned(e, Gone) /\ Gone.state = Finished
  BY Blank
<1> QED
  BY <1>1, <1>2, <1>3, SlotKeeps

(* StepIdles keeps the invariant. *)
LEMMA StepIdlesKeeps ==
  ASSUME IInv, NEW e \in Ends, StepIdles(e)
  PROVE  IInv'
<1> DEFINE p == party[e]
           q == [p EXCEPT !.step = FALSE]
<1>1. Whole(e, p) /\ p.step /\ Slot(e, q) /\ ~p.reason /\ ~FailedEarly(e, p)
  BY Given DEF StepIdles
<1>2. p.state \notin {None, Finished}
  BY <1>1, Alive
<1>3. \/ p.state = Created
      \/ ~MayOffer(e, p) /\ ReportsOf(p) \union RemovesOf(p) = {}
  BY DEF StepIdles, Otherwise
<1> HIDE DEF p
<1>4. /\ q \in Parties /\ ~q.step /\ q.asked = p.asked /\ q.app = p.app /\ q.initial = p.initial
      /\ q.state = p.state /\ q.reason = p.reason
  BY <1>1 DEF Whole, Parties
<1> HIDE DEF q
<1>5. Whole(e, q)
  BY <1>1, <1>2, <1>4 DEF Whole, Formed, Listed
<1>6. ~HasToSend(e, q)
  <2>1. /\ Listed(q) = Listed(p) /\ (MayOffer(e, q) <=> MayOffer(e, p))
    BY <1>4 DEF Listed, MayOffer, Blocking
  <2>2. ReportsOf(q) = ReportsOf(p) /\ RemovesOf(q) = RemovesOf(p)
    BY <1>4, <2>1 DEF ReportsOf, RemovesOf
  <2>3. ~FailedEarly(e, q)
    BY <1>1, <1>4, <2>1 DEF FailedEarly
  <2> QED
    BY <1>1, <1>3, <1>4, <2>1, <2>2, <2>3 DEF HasToSend
<1>7. Planned(e, q)
  BY <1>6 DEF Planned
<1>8. p.state = party[e].state /\ p.asked = party[e].asked
  BY DEF p
<1> QED
  BY <1>1, <1>2, <1>4, <1>5, <1>7, <1>8, SlotKeeps

(* StepRemoves keeps the invariant. *)
LEMMA StepRemovesKeeps ==
  ASSUME IInv, NEW e \in Ends, StepRemoves(e)
  PROVE  IInv'
<1> DEFINE p == party[e]
           S == RemovesOf(p)
<1>1. Whole(e, p) /\ p.step /\ Asks(e, "content-remove", S, p) /\ S \subseteq Contents
  BY Given DEF StepRemoves, Otherwise, Proceeds, RemovesOf, Listed
<1>2. p.state \notin {None, Finished} /\ p.asked = "none"
  BY <1>1, Alive DEF Whole, Formed
<1>3. "content-remove" \in Answers
  BY DEF Answers
<1>4. InOrder'
  <2> DEFINE s == [kind |-> "set", action |-> "content-remove", contents |-> S]
             q == [p EXCEPT !.asked = "content-remove", !.step = FALSE]
  <2>1. party' = [party EXCEPT ![e] = q] /\ Puts(e, s)
    BY <1>1 DEF Asks, Puts
  <2>2. s \in Stanzas /\ s.action \notin {"open", "session-accept", "session-initiate"}
    BY <1>1 DEF Stanzas, Requests
  <2>3. q.state = p.state
    BY <1>1 DEF Whole, Parties
  <2> HIDE DEF s, q
  <2> QED
    BY <1>2, <2>1, <2>2, <2>3, AppendingInOrder
<1> QED
  BY <1>1, <1>2, <1>3, <1>4, Asking

(* StepReports keeps the invariant. *)
LEMMA StepReportsKeeps ==
  ASSUME IInv, NEW e \in Ends, StepReports(e)
  PROVE  IInv'
<1> DEFINE p == party[e]
           S == ReportsOf(p)
           f == [c \in Contents |-> IF c \in S THEN [p.app[c] EXCEPT !.received = FALSE] ELSE p.app[c]]
           r == [p EXCEPT !.app = f]
<1>1. Whole(e, p) /\ p.step /\ S \subseteq Contents
  BY Given DEF StepReports, Otherwise, Proceeds, ReportsOf, Listed
<1>a. Asks(e, "session-info", S, r)
  BY DEF StepReports
<1>2. p.state \notin {None, Finished} /\ p.asked = "none"
  BY <1>1, Alive DEF Whole, Formed
<1>3. "session-info" \in Answers
  BY DEF Answers
<1> HIDE DEF p, S
<1>4. f \in [Contents -> Apps] /\ \A c \in Contents : /\ f[c].state = p.app[c].state
                                                      /\ f[c].connected = p.app[c].connected
                                                      /\ f[c].opening = p.app[c].opening
                                                      /\ f[c].received => p.app[c].received
  <2>1. ASSUME NEW c \in Contents
        PROVE  /\ f[c] \in Apps /\ f[c].state = p.app[c].state
               /\ f[c].connected = p.app[c].connected
               /\ f[c].opening = p.app[c].opening
               /\ f[c].received => p.app[c].received
    <3>1. p.app[c] \in Apps
      BY <1>1 DEF Whole, Parties
    <3> QED
      BY <3>1 DEF Apps
  <2> QED
    BY <2>1
<1> HIDE DEF f
<1>5. \A c \in Contents : /\ f[c].state = None <=> p.app[c].state = None
                          /\ f[c].received => f[c].connected
                          /\ f[c].opening \/ f[c].connected => f[c].state # None
                          /\ e = "responder" /\ p.state < Unacked => ~f[c].opening /\ ~f[c].connected
  BY <1>1, <1>4 DEF Whole, Formed
<1>6. Whole(e, r) /\ r.state = p.state
  BY <1>1, <1>2, <1>4, <1>5, AppsChange
<1> HIDE DEF r
<1>7. InOrder'
  <2> DEFINE s == [kind |-> "set", action |-> "session-info", contents |-> S]
             q == [r EXCEPT !.asked = "session-info", !.step = FALSE]
  <2>1. party' = [party EXCEPT ![e] = q] /\ Puts(e, s)
    BY <1>a DEF Asks, Puts
  <2>2. s \in Stanzas /\ s.action \notin {"open", "session-accept", "session-initiate"}
    BY <1>1 DEF Stanzas, Requests
  <2>3. q.state = party[e].state /\ party[e].state \notin {None, Finished}
    BY <1>2, <1>6 DEF Whole, Parties, p
  <2> HIDE DEF s, q
  <2> QED
    BY <2>1, <2>2, <2>3, AppendingInOrder
<1>8. party[e].asked = "none" /\ party[e].state # Finished
  BY <1>2 DEF p
<1> QED
  BY <1>1, <1>2, <1>3, <1>a, <1>6, <1>7, <1>8, Asking

(* StepOffers keeps the invariant. *)
LEMMA StepOffersKeeps ==
  ASSUME IInv, NEW e \in Ends, StepOffers(e)
  PROVE  IInv'
<1> DEFINE p == party[e]
           S == Listed(p)
           action == IF e = "initiator" THEN "session-initiate" ELSE "session-accept"
           r == [p EXCEPT !.state = Unacked, !.known = TRUE, !.initial = {}]
           q == setStates(r, S, Unacked)
<1>1. /\ Whole(e, p) /\ p.step /\ S \subseteq Contents /\ p.state = ApprovedToSend
      /\ party \in [Ends -> Parties] /\ wire \in [Ends -> Seq(Stanzas)]
  BY Given DEF StepOffers, Proceeds, Listed, MayOffer
<1>2. Asks(e, action, S, q)
  BY DEF StepOffers
<1>3. p.asked = "none" /\ party[e].state = ApprovedToSend /\ party[e].asked = "none"
  BY <1>1 DEF Whole, Formed
<1>4. action \in Answers /\ action \in Requests
  BY DEF Answers, Requests
<1>a. e = "responder" => action = "session-accept"
  OBVIOUS
<1>b. e = "initiator" => action = "session-initiate"
  OBVIOUS
<1> HIDE DEF p, S, action
<1>5. /\ r \in Parties /\ r.state = Unacked /\ r.app = p.app /\ r.initial = {}
      /\ r.asked = p.asked /\ r.step = p.step
  <2> DEFINE x == [p EXCEPT !.state = Unacked]
             y == [x EXCEPT !.known = TRUE]
  <2>1. /\ x \in Parties /\ x.state = Unacked /\ x.app = p.app
        /\ x.asked = p.asked /\ x.step = p.step
    <3>1. p \in Parties
      BY <1>1 DEF Whole
    <3> QED
      BY <3>1 DEF Parties
  <2>2. r = [y EXCEPT !.initial = {}]
    OBVIOUS
  <2> HIDE DEF x
  <2>3. /\ y \in Parties /\ y.state = Unacked /\ y.app = p.app
        /\ y.asked = p.asked /\ y.step = p.step
    BY <2>1 DEF Parties
  <2> HIDE DEF y, r
  <2> QED
    BY <2>2, <2>3 DEF Parties
<1> HIDE DEF r
<1>6. Whole(e, r)
  BY <1>1, <1>5 DEF Whole, Formed
<1>7. Whole(e, q) /\ q.state = Unacked
  <2>1. r.state \notin {None, Finished} /\ Unacked \in Created..Finished
    BY <1>5
  <2> QED
    BY <1>1, <1>5, <1>6, <2>1, Finishes
<1> HIDE DEF q
<1>8. InOrder'
  <2> DEFINE s == [kind |-> "set", action |-> action, contents |-> S]
             z == [q EXCEPT !.asked = action, !.step = FALSE]
             t == <<s>>
  <2>1. party' = [party EXCEPT ![e] = z] /\ Puts(e, s)
    BY <1>2 DEF Asks, Puts
  <2>2. s \in Stanzas /\ s.kind = "set" /\ s.action = action
    BY <1>1, <1>4 DEF Stanzas
  <2>3. z.state = Unacked
    BY <1>7 DEF Whole, Parties
  <2> HIDE DEF s, z
  <2>4. /\ wire'[e] = wire[e] /\ wire'[Peer(e)] = wire[Peer(e)] \o t
        /\ wire[Peer(e)] \in Seq(Stanzas)
        /\ t \in Seq(Stanzas) /\ \A i \in DOMAIN t : t[i] = s
    BY <2>1, <2>2, Appending
  <2>5. Len(t) = 1
    BY DEF t
  <2> HIDE DEF t
  <2>6. ASSUME NEW other, other # action
        PROVE  /\ Sends(wire'[Peer(e)], other) => Sends(wire[Peer(e)], other)
               /\ Once(wire[Peer(e)], other) => Once(wire'[Peer(e)], other)
    <3>1. ~Sends(t, other)
      BY <2>2, <2>4, <2>6 DEF Sends
    <3> QED
      BY <2>4, <3>1, SendsMore
  <2>7. CASE e = "initiator"
    <3>1. /\ party'["initiator"].state = Unacked
          /\ party'["responder"] = party["responder"]
      BY <1>1, <2>1, <2>3, <2>7
    <3>2. /\ party["responder"].state = None /\ ~Sends(wire["responder"], "session-initiate")
      BY <1>3, <2>7 DEF IInv, InOrder
    <3>3. Peer(e) = "responder" /\ action = "session-initiate" /\ wire'["initiator"] = wire["initiator"]
      BY <1>b, <2>4, <2>7
    <3>4. ~Sends(wire'["responder"], "open")
      BY <2>6, <3>2, <3>3 DEF IInv, InOrder
    <3>5. ~Sends(wire'["initiator"], "session-accept")
      BY <3>2, <3>3 DEF IInv, InOrder
    <3>6. Once(wire'["responder"], "session-initiate")
      <4>1. /\ wire'["responder"] = Append(wire["responder"], s)
            /\ wire["responder"] \in Seq(Stanzas)
        BY <2>1, <2>2, <3>3, Appending
      <4> QED
        BY <2>2, <3>2, <4>1, SendsOnce
    <3> QED
      BY <3>1, <3>2, <3>4, <3>5, <3>6 DEF InOrder, Sends, Once
  <2>8. CASE e = "responder"
    <3>1. /\ party'["responder"].state = Unacked
          /\ party'["initiator"] = party["initiator"]
      BY <1>1, <2>1, <2>3, <2>8
    <3>2. wire'["responder"] = wire["responder"]
      BY <2>4, <2>8
    <3>3. /\ ~Sends(wire["responder"], "session-initiate")
          /\ ~(party["initiator"].state < Unacked)
          /\ Once(wire["responder"], "session-initiate")
      BY <1>1, <1>3, <2>8 DEF IInv, InOrder, Parties
    <3> QED
      BY <3>1, <3>2, <3>3 DEF InOrder, Sends, Once
  <2> QED
    BY <2>7, <2>8
<1> QED
  BY <1>1, <1>2, <1>3, <1>4, <1>7, <1>8, Asking
-----------------------------------------------------------------------------
(* What Receives says of the head of a wire. *)
LEMMA Received ==
  ASSUME IInv, NEW e \in Ends, NEW kind, NEW action, Receives(e, kind, action)
  PROVE  /\ wire[e] \in Seq(Stanzas) /\ wire[e] # <<>> /\ Head(wire[e]) \in Stanzas
         /\ Head(wire[e]).kind = kind /\ Head(wire[e]).action = action
         /\ Head(wire[e]).contents \subseteq Contents
         /\ kind = "set" => Sends(wire[e], action)
<1>1. wire[e] \in Seq(Stanzas) /\ wire[e] # <<>>
  BY Given DEF Receives
<1>2. Head(wire[e]) \in Stanzas /\ 1 \in DOMAIN wire[e] /\ Head(wire[e]) = wire[e][1]
  BY <1>1
<1>3. Head(wire[e]).kind = kind /\ Head(wire[e]).action = action
  BY DEF Receives
<1>4. Head(wire[e]).contents \subseteq Contents
  BY <1>2 DEF Stanzas
<1> QED
  BY <1>1, <1>2, <1>3, <1>4 DEF Sends

(* A stanza with another kind. *)
LEMMA SameWith ==
  ASSUME NEW s \in Stanzas, NEW kind \in {"result", "error"}
  PROVE  /\ [s EXCEPT !.kind = kind] \in Stanzas /\ [s EXCEPT !.kind = kind].kind = kind
         /\ [s EXCEPT !.kind = kind].action = s.action
BY DEF Stanzas

(* A handler of a request that sends its answer only. *)
LEMMA AnswerKeeps ==
  ASSUME IInv, NEW e \in Ends, NEW p, NEW kind \in {"result", "error"}, NEW action \in Answers,
         Receives(e, "set", action), Takes(e, p, Answer(e, kind)), Whole(e, p), Planned(e, p),
         p.state # Finished => p.asked = party[e].asked /\ party[e].state # Finished,
         InOrder'
  PROVE  IInv'
<1> DEFINE s == [Head(wire[e]) EXCEPT !.kind = kind]
           t == <<s>>
           none == <<>>
<1>1. /\ wire[e] # <<>> /\ Head(wire[e]) \in Stanzas
      /\ Head(wire[e]).kind = "set" /\ Head(wire[e]).action = action
  BY Received
<1>2. s \in Stanzas /\ s.kind = kind /\ s.action = action
  BY <1>1, SameWith
<1>3. Takes(e, p, t)
  BY DEF Answer
<1> HIDE DEF s
<1>4. IsRequest(Head(wire[e])) /\ IsReply(s)
  BY <1>1, <1>2 DEF IsRequest, IsReply
<1>5. t \in Seq(Stanzas) /\ none \in Seq(Stanzas) /\ none \o t = t /\ DOMAIN none = {}
  BY <1>2
<1>6. Takes(e, p, none \o t)
  BY <1>3, <1>5
<1> HIDE DEF none
<1> QED
  BY <1>1, <1>2, <1>4, <1>5, <1>6, Answering

(* An answer is none of the stanzas that InOrder names. *)
LEMMA AnswerInOrder ==
  ASSUME IInv, NEW e \in Ends, NEW p, NEW kind \in {"result", "error"}, NEW action \in Answers,
         Receives(e, "set", action), Takes(e, p, Answer(e, kind)),
         p.state < Unacked => party[e].state < Unacked,
         e = "responder" /\ party[e].state = None => p.state = None
  PROVE  InOrder'
<1> DEFINE s == [Head(wire[e]) EXCEPT !.kind = kind]
           t == <<s>>
<1>1. wire[e] # <<>> /\ Head(wire[e]) \in Stanzas
  BY Received
<1>2. s \in Stanzas /\ s.kind # "set"
  BY <1>1, SameWith
<1>3. Takes(e, p, t)
  BY DEF Answer
<1> HIDE DEF s
<1>4. t \in Seq(Stanzas) /\ \A i \in DOMAIN t : t[i] = s
  BY <1>2
<1> HIDE DEF t
<1>5. ~Sends(t, "open") /\ ~Sends(t, "session-accept") /\ ~Sends(t, "session-initiate")
  BY <1>2, <1>4 DEF Sends
<1> QED
  BY <1>1, <1>3, <1>4, <1>5, TakingInOrder

(* A handler that sends nothing. *)
LEMMA SilentInOrder ==
  ASSUME IInv, NEW e \in Ends, NEW p, wire[e] # <<>>, Takes(e, p, <<>>),
         p.state < Unacked => party[e].state < Unacked,
         e = "responder" /\ party[e].state = None => p.state = None
  PROVE  InOrder'
<1> DEFINE none == <<>>
<1>1. none \in Seq(Stanzas) /\ DOMAIN none = {} /\ Takes(e, p, none)
  OBVIOUS
<1> HIDE DEF none
<1>2. ~Sends(none, "open") /\ ~Sends(none, "session-accept") /\ ~Sends(none, "session-initiate")
  BY <1>1 DEF Sends
<1> QED
  BY <1>1, <1>2, TakingInOrder

(* answered leaves a party that awaits nothing and has its step planned. *)
LEMMA AnswersStep ==
  ASSUME NEW e \in Ends, NEW p, Whole(e, p), p.state \notin {None, Finished}
  PROVE  /\ Whole(e, answered(p)) /\ Planned(e, answered(p))
         /\ answered(p).asked = "none" /\ answered(p).state = p.state
<1> DEFINE q == [p EXCEPT !.asked = "none"]
<1>1. /\ q \in Parties /\ q.asked = "none" /\ q.state = p.state /\ q.app = p.app
      /\ q.initial = p.initial
  BY DEF Whole, Parties
<1>2. answered(p) = planStep(q)
  BY DEF answered
<1> HIDE DEF q
<1>3. Whole(e, q)
  BY <1>1 DEF Whole, Formed, Listed
<1> QED
  BY <1>1, <1>2, <1>3, PlansStep

(* RefuseInitiate keeps the invariant. *)
LEMMA RefuseInitiateKeeps ==
  ASSUME IInv, RefuseInitiate
  PROVE  IInv'
<1>e. PICK e \in Ends : e = "responder"
  OBVIOUS
<1>1. /\ Receives(e, "set", "session-initiate") /\ Takes(e, party[e], Answer(e, "error"))
      /\ Whole(e, party[e]) /\ Planned(e, party[e])
  BY <1>e, Given DEF RefuseInitiate
<1>2. "session-initiate" \in Answers
  BY DEF Answers
<1>3. InOrder'
  BY <1>1, <1>2, AnswerInOrder
<1> QED
  BY <1>1, <1>2, <1>3, AnswerKeeps

(* RecvUnknown keeps the invariant. *)
LEMMA RecvUnknownKeeps ==
  ASSUME IInv, NEW e \in Ends, RecvUnknown(e)
  PROVE  IInv'
<1>1. PICK action \in Requests \ {"session-initiate"} : Receives(e, "set", action)
  BY DEF RecvUnknown
<1>2. Whole(e, party[e]) /\ Planned(e, party[e])
  BY Given
<1>3. Head(wire[e]).kind = "set" /\ Head(wire[e]).action = action /\ wire[e] # <<>>
  BY <1>1, Received
<1>4. CASE action = "session-terminate"
  <2>1. Takes(e, party[e], <<>>)
    BY <1>3, <1>4 DEF RecvUnknown
  <2>2. ~IsRequest(Head(wire[e])) /\ ~IsReply(Head(wire[e]))
    BY <1>3, <1>4 DEF IsRequest, IsReply, Answers
  <2>3. InOrder'
    BY <1>3, <2>1, SilentInOrder
  <2> QED
    BY <1>2, <1>3, <2>1, <2>2, <2>3, Ignoring
<1>5. CASE action # "session-terminate"
  <2>1. Takes(e, party[e], Answer(e, "error"))
    BY <1>3, <1>5 DEF RecvUnknown
  <2>2. action \in Answers
    BY <1>1, <1>5 DEF Requests, Answers
  <2>3. InOrder'
    BY <1>1, <2>1, <2>2, AnswerInOrder
  <2> QED
    BY <1>1, <1>2, <2>1, <2>2, <2>3, AnswerKeeps
<1> QED
  BY <1>4, <1>5

(* RecvInitiate keeps the invariant. *)
LEMMA RecvInitiateKeeps ==
  ASSUME IInv, RecvInitiate
  PROVE  IInv'
<1>e. PICK e \in Ends : e = "responder"
  OBVIOUS
<1> DEFINE S == Head(wire[e]).contents
           x == [NoSession EXCEPT !.state = Created, !.known = TRUE]
           y == [x EXCEPT !.initial = S]
           z == [x EXCEPT !.reason = TRUE]
           r == setStates(y, S, Created)
<1>1. /\ Receives(e, "set", "session-initiate") /\ "session-initiate" \in Answers
  BY <1>e DEF RecvInitiate, Answers
<1>2. \E p \in {planStep(r), planStep(z)} : Takes(e, p, Answer(e, "result"))
  BY <1>e DEF RecvInitiate
<1>3. S \subseteq Contents /\ Sends(wire[e], "session-initiate") /\ wire[e] # <<>>
  BY <1>1, Received
<1>4. party[e].state = None /\ ~(party["initiator"].state < Unacked) /\ party[e] = NoSession
  BY <1>e, <1>3 DEF IInv, InOrder, Formed
<1>5. /\ x \in Parties /\ x.state = Created /\ x.asked = "none" /\ x.initial = {}
      /\ \A c \in Contents : x.app[c] = NoApp
  <2>1. NoSession \in Parties /\ NoSession.asked = "none" /\ NoSession.initial = {}
        /\ \A c \in Contents : NoSession.app[c] = NoApp
    BY Blank DEF Whole, NoSession
  <2> HIDE DEF NoSession
  <2>2. [NoSession EXCEPT !.state = Created] \in Parties
    BY <2>1 DEF Parties
  <2> QED
    BY <2>1, <2>2 DEF Parties
<1> HIDE DEF x, S
<1>6. /\ y \in Parties /\ y.state = Created /\ y.asked = "none" /\ y.initial = S
      /\ \A c \in Contents : y.app[c] = NoApp
  BY <1>3, <1>5 DEF Parties
<1>7. /\ z \in Parties /\ z.state = Created /\ z.asked = "none" /\ z.initial = {}
      /\ \A c \in Contents : z.app[c] = NoApp
  BY <1>3, <1>5 DEF Parties
<1> HIDE DEF y, z
<1>8. Whole(e, z)
  BY <1>7 DEF Whole, Formed, NoApp
<1>9. Whole(e, r) /\ r.state = Created /\ r.asked = "none"
  <2>1. /\ r \in Parties /\ r = [y EXCEPT !.app = r.app]
        /\ \A c \in Contents : r.app[c] = [y.app[c] EXCEPT !.state = IF c \in S THEN Created ELSE @]
    BY <1>3, <1>6, StatesSet
  <2> HIDE DEF r
  <2>2. r.state = Created /\ r.asked = "none" /\ r.initial = S
    BY <1>6, <2>1 DEF Parties
  <2>3. \A c \in Contents : /\ ~r.app[c].opening /\ ~r.app[c].connected /\ ~r.app[c].received
                            /\ c \in S => r.app[c].state # None
    <3>1. NoApp \in Apps /\ ~NoApp.opening /\ ~NoApp.connected /\ ~NoApp.received
      BY DEF NoApp, Apps
    <3>2. \A c \in Contents : r.app[c] = [NoApp EXCEPT !.state = IF c \in S THEN Created ELSE @]
      BY <1>6, <2>1
    <3> HIDE DEF NoApp
    <3>3. ASSUME NEW c \in Contents
          PROVE  /\ ~r.app[c].opening /\ ~r.app[c].connected /\ ~r.app[c].received
                 /\ c \in S => r.app[c].state # None
      <4>1. r.app[c] = [NoApp EXCEPT !.state = IF c \in S THEN Created ELSE NoApp.state]
        BY <3>2
      <4> QED
        BY <3>1, <4>1 DEF Apps
    <3> QED
      BY <3>3
  <2> QED
    BY <1>3, <2>1, <2>2, <2>3 DEF Whole, Formed, Listed
<1> HIDE DEF r
<1>10. ASSUME NEW p, Takes(e, p, Answer(e, "result")), Whole(e, p), Planned(e, p),
              p.state = Created, p.asked = "none"
       PROVE  IInv'
  <2> DEFINE s == [Head(wire[e]) EXCEPT !.kind = "result"]
             t == <<s>>
  <2>1. s \in Stanzas /\ s.kind # "set" /\ Takes(e, p, t)
    BY <1>1, <1>10, Received, SameWith DEF Answer
  <2> HIDE DEF s
  <2>2. t \in Seq(Stanzas) /\ \A i \in DOMAIN t : t[i] = s
    BY <2>1
  <2> HIDE DEF t
  <2>3. /\ party' = [party EXCEPT ![e] = p] /\ wire'[e] = Tail(wire[e])
        /\ wire'[Peer(e)] = wire[Peer(e)] \o t
        /\ wire[e] \in Seq(Stanzas) /\ wire[Peer(e)] \in Seq(Stanzas)
    BY <1>3, <2>1, <2>2, Taking
  <2>4. party'["responder"] = p /\ party'["initiator"] = party["initiator"]
    BY <1>e, <2>3, Given
  <2>5. /\ ~Sends(wire["responder"], "open") /\ ~Sends(wire["initiator"], "session-accept")
        /\ Once(wire["responder"], "session-initiate")
    BY <1>e, <1>4 DEF IInv, InOrder
  <2>6. /\ ~Sends(wire'["responder"], "open") /\ ~Sends(wire'["responder"], "session-initiate")
        /\ Once(wire'["responder"], "session-initiate")
    <3>1. Head(wire[e]).kind = "set" /\ Head(wire[e]).action = "session-initiate"
      BY <1>1, Received
    <3> QED
      BY <1>e, <1>3, <2>3, <2>5, <3>1, SendsTail
  <2>7. ~Sends(wire'["initiator"], "session-accept")
    <3>1. ~Sends(t, "session-accept")
      BY <2>1, <2>2 DEF Sends
    <3>2. /\ wire'["initiator"] = wire["initiator"] \o t
          /\ wire["initiator"] \in Seq(Stanzas)
      BY <1>e, <2>3
    <3> QED
      BY <2>2, <2>5, <3>1, <3>2, SendsMore
  <2>8. InOrder'
    BY <1>4, <1>10, <2>4, <2>6, <2>7 DEF InOrder, Sends, Once
  <2>9. p.asked = party[e].asked /\ party[e].state # Finished
    BY <1>4, <1>10, Blank
  <2> QED
    BY <1>1, <1>10, <2>8, <2>9, AnswerKeeps
<1>11. /\ Whole(e, planStep(r)) /\ Planned(e, planStep(r))
       /\ planStep(r).state = Created /\ planStep(r).asked = "none"
  BY <1>9, PlansStep
<1>12. /\ Whole(e, planStep(z)) /\ Planned(e, planStep(z))
       /\ planStep(z).state = Created /\ planStep(z).asked = "none"
  BY <1>7, <1>8, PlansStep
<1> QED
  BY <1>2, <1>10, <1>11, <1>12

(* The deleted contents leave nothing behind, initial included. *)
LEMMA Unlisting ==
  ASSUME NEW e \in Ends, NEW p, NEW S \in SUBSET Contents, Whole(e, p),
         p.state \notin {None, Finished}
  PROVE  /\ Whole(e, unlist(p, S)) /\ unlist(p, S).asked = p.asked
         /\ unlist(p, S).state = p.state
<1> DEFINE f == [c \in Contents |-> IF c \in S THEN NoApp ELSE p.app[c]]
           x == [p EXCEPT !.initial = p.initial \ S]
           q == [x EXCEPT !.app = f]
<1>1. p \in Parties /\ p.app \in [Contents -> Apps]
  BY DEF Whole, Parties
<1>2. NoApp \in Apps
  BY DEF NoApp, Apps
<1>3. f \in [Contents -> Apps]
  BY <1>1, <1>2
<1>4. \A c \in Contents : f[c] = IF c \in S THEN NoApp ELSE p.app[c]
  OBVIOUS
<1>5. unlist(p, S) = IF Listed(q) = {} THEN [q EXCEPT !.reason = TRUE] ELSE q
  BY DEF unlist
<1> HIDE DEF f
<1>6. /\ x \in Parties /\ x.asked = p.asked /\ x.state = p.state /\ x.step = p.step
      /\ x.initial = p.initial \ S
  BY <1>1 DEF Parties
<1> HIDE DEF x
<1>7. /\ q \in Parties /\ q.asked = p.asked /\ q.state = p.state /\ q.step = p.step
      /\ q.initial = p.initial \ S /\ q.app = f
  BY <1>3, <1>6 DEF Parties
<1> HIDE DEF q
<1>8. Whole(e, q)
  <2>1. Formed(e, q)
    BY <1>4, <1>7 DEF Whole, Formed, NoApp
  <2>2. q.initial \subseteq Listed(q)
    BY <1>4, <1>7 DEF Whole, Listed
  <2> QED
    BY <1>7, <2>1, <2>2 DEF Whole
<1>9. CASE Listed(q) = {}
  <2> DEFINE r == [q EXCEPT !.reason = TRUE]
  <2>1. /\ r \in Parties /\ r.asked = q.asked /\ r.state = q.state /\ r.step = q.step
        /\ r.initial = q.initial /\ r.app = q.app
    BY <1>7 DEF Parties
  <2>2. unlist(p, S) = r
    BY <1>5, <1>9
  <2> HIDE DEF r
  <2>3. Whole(e, r)
    BY <1>7, <1>8, <2>1 DEF Whole, Formed, Listed
  <2> QED
    BY <1>7, <2>1, <2>2, <2>3
<1>10. CASE Listed(q) # {}
  <2>1. unlist(p, S) = q
    BY <1>5, <1>10
  <2> QED
    BY <1>7, <1>8, <2>1
<1> QED
  BY <1>9, <1>10

(* RecvRemove keeps the invariant. *)
LEMMA RecvRemoveKeeps ==
  ASSUME IInv, NEW e \in Ends, RecvRemove(e)
  PROVE  IInv'
<1> DEFINE p == party[e]
           S == Head(wire[e]).contents \intersect Listed(p)
           q == finish(e, p, S)
           r == unlist(q, S)
           z == planStep(r)
<1>1. Receives(e, "set", "content-remove") /\ "content-remove" \in Answers
  BY DEF RecvRemove, Answers
<1>2. Takes(e, z, Answer(e, "result")) /\ p.known
  BY DEF RecvRemove
<1>3. Whole(e, p) /\ p.state \notin {None, Finished} /\ S \in SUBSET Contents
  BY <1>2, Given, Alive DEF Listed
<1> HIDE DEF p, S
<1>4. Whole(e, q) /\ q.asked = p.asked /\ q.state \in {p.state, Finishing}
  BY <1>3, FinishesAll
<1> HIDE DEF q
<1>5. Whole(e, r) /\ r.asked = p.asked /\ r.state \in {p.state, Finishing}
  BY <1>3, <1>4, Unlisting
<1> HIDE DEF r
<1>6. Whole(e, z) /\ Planned(e, z) /\ z.asked = p.asked /\ z.state \in {p.state, Finishing}
  BY <1>3, <1>5, PlansStep
<1> HIDE DEF z
<1>7. /\ z.state < Unacked => party[e].state < Unacked
      /\ e = "responder" /\ party[e].state = None => z.state = None
      /\ z.asked = party[e].asked /\ party[e].state # Finished
  BY <1>3, <1>6 DEF p
<1>8. InOrder'
  BY <1>1, <1>2, <1>7, AnswerInOrder
<1> QED
  BY <1>1, <1>2, <1>6, <1>7, <1>8, AnswerKeeps

(* RecvInfo keeps the invariant. *)
LEMMA RecvInfoKeeps ==
  ASSUME IInv, RecvInfo
  PROVE  IInv'
<1>e. PICK e \in Ends : e = "initiator"
  OBVIOUS
<1> DEFINE p == party[e]
<1>1. Receives(e, "set", "session-info") /\ "session-info" \in Answers /\ p.known
  BY <1>e DEF RecvInfo, Answers
<1>2. PICK c \in Head(wire[e]).contents :
        Takes(e, finish(e, p, {c} \intersect Listed(p)), Answer(e, "result"))
  BY <1>e DEF RecvInfo
<1> DEFINE S == {c} \intersect Listed(p)
           q == finish(e, p, S)
<1>3. /\ Whole(e, p) /\ p.state \notin {None, Finished} /\ S \in SUBSET Contents
      /\ Planned(e, p)
  BY <1>1, Given, Alive DEF Listed
<1> HIDE DEF p, S
<1>4. Whole(e, q) /\ q.asked = p.asked /\ q.state \in {p.state, Finishing} /\ Planned(e, q)
  BY <1>e, <1>3, FinishesAll
<1>5. Takes(e, q, Answer(e, "result"))
  BY <1>2 DEF S, p
<1> HIDE DEF q
<1>7. /\ q.state < Unacked => party[e].state < Unacked
      /\ e = "responder" /\ party[e].state = None => q.state = None
      /\ q.asked = party[e].asked /\ party[e].state # Finished
  BY <1>3, <1>4 DEF p
<1>8. InOrder'
  BY <1>1, <1>5, <1>7, AnswerInOrder
<1> QED
  BY <1>1, <1>4, <1>5, <1>7, <1>8, AnswerKeeps

(* RecvTerminate keeps the invariant. *)
LEMMA RecvTerminateKeeps ==
  ASSUME IInv, NEW e \in Ends, RecvTerminate(e)
  PROVE  IInv'
<1>1. Receives(e, "set", "session-terminate") /\ party[e].known /\ Takes(e, Gone, <<>>)
  BY DEF RecvTerminate
<1>2. wire[e] # <<>> /\ ~IsRequest(Head(wire[e]))
  BY <1>1, Received DEF IsRequest, Answers
<1>3. party[e].state \notin {None, Finished}
  BY <1>1, Given, Alive
<1>4. Whole(e, Gone) /\ Planned(e, Gone) /\ Gone.state = Finished
  BY Blank
<1>5. InOrder'
  BY <1>1, <1>2, <1>3, <1>4, SilentInOrder
<1> QED
  BY <1>1, <1>2, <1>4, <1>5, Ignoring

(* The requests for streams are well formed, and nobody waits for their answers. *)
LEMMA Opening ==
  ASSUME NEW S \in SUBSET Contents, NEW opens \in Opens(S)
  PROVE  /\ opens \in Seq(Stanzas)
         /\ \A i \in DOMAIN opens : opens[i].kind = "set" /\ opens[i].action = "open"
<1> DEFINE n == Cardinality(S)
<1>1. n \in Nat
  BY ContentsAssumption, FS_Subset, FS_CardinalityType
<1>2. PICK o \in [1..n -> S] :
        opens = [i \in 1..n |-> [kind |-> "set", action |-> "open", contents |-> {o[i]}]]
  BY DEF Opens
<1> HIDE DEF n
<1>3. ASSUME NEW i \in 1..n
      PROVE  /\ opens[i] \in Stanzas /\ opens[i].kind = "set" /\ opens[i].action = "open"
  <2>1. {o[i]} \in SUBSET Contents
    OBVIOUS
  <2> QED
    BY <1>2, <2>1 DEF Stanzas
<1>4. opens \in [1..n -> Stanzas]
  BY <1>2, <1>3
<1> QED
  BY <1>1, <1>3, <1>4

(* RecvAccept keeps the invariant. *)
LEMMA RecvAcceptKeeps ==
  ASSUME IInv, RecvAccept
  PROVE  IInv'
<1>e. PICK e \in Ends : e = "initiator"
  OBVIOUS
<1> DEFINE p == party[e]
           S == Head(wire[e]).contents
           q == setStates(InState(p, Connecting), S, Connecting)
           z == planStep(q)
<1>1. Receives(e, "set", "session-accept") /\ "session-accept" \in Answers /\ p.known
  BY <1>e DEF RecvAccept, Answers
<1>2. \/ \E opens \in Opens(S) : Takes(e, z, opens \o Answer(e, "result"))
      \/ Takes(e, p, Answer(e, "error"))
  BY <1>e DEF RecvAccept, InState
<1>3. /\ Whole(e, p) /\ p.state \notin {None, Finished} /\ S \in SUBSET Contents
      /\ Planned(e, p)
  BY <1>1, Given, Alive, Received
<1>4. CASE Takes(e, p, Answer(e, "error"))
  <2>1. InOrder'
    BY <1>1, <1>4, AnswerInOrder
  <2> QED
    BY <1>1, <1>3, <1>4, <2>1, AnswerKeeps
<1>5. CASE \E opens \in Opens(S) : Takes(e, z, opens \o Answer(e, "result"))
  <2> DEFINE s == [Head(wire[e]) EXCEPT !.kind = "result"]
             t == <<s>>
  <2>1. PICK opens \in Opens(S) : Takes(e, z, opens \o t)
    BY <1>5 DEF Answer
  <2>2. /\ s \in Stanzas /\ s.kind = "result" /\ s.action = "session-accept"
        /\ IsRequest(Head(wire[e])) /\ Head(wire[e]).action = "session-accept"
        /\ wire[e] # <<>> /\ IsReply(s)
    <3>1. /\ wire[e] # <<>> /\ Head(wire[e]) \in Stanzas
          /\ Head(wire[e]).kind = "set" /\ Head(wire[e]).action = "session-accept"
      BY <1>1, Received
    <3>2. s \in Stanzas /\ s.kind = "result" /\ s.action = "session-accept"
      BY <3>1, SameWith
    <3> QED
      BY <1>1, <3>1, <3>2 DEF IsRequest, IsReply
  <2>3. /\ opens \in Seq(Stanzas)
        /\ \A i \in DOMAIN opens : opens[i].kind = "set" /\ opens[i].action = "open"
    BY <1>3, Opening
  <2> HIDE DEF s
  <2>4. /\ p.state = party[e].state /\ p.asked = party[e].asked
    OBVIOUS
  <2> HIDE DEF p, S
  <2>5. Whole(e, q) /\ q.asked = p.asked /\ q.state = Connecting
    <3>1. /\ Connecting \in Created..Finishing /\ Connecting \in Created..Finished
          /\ Connecting < Unacked => p.state < Unacked
      OBVIOUS
    <3> QED
      BY <1>3, <3>1, AllChange
  <2> HIDE DEF q
  <2>6. Whole(e, z) /\ Planned(e, z) /\ z.asked = p.asked /\ z.state = Connecting
    BY <2>5, PlansStep
  <2> HIDE DEF z
  <2>7. InOrder'
    <3>1. t \in Seq(Stanzas) /\ \A i \in DOMAIN t : t[i] = s
      BY <2>2
    <3> HIDE DEF t
    <3> DEFINE u == opens \o t
    <3>2. u \in Seq(Stanzas) /\ Takes(e, z, u)
      BY <2>1, <2>3, <3>1
    <3>3. /\ party' = [party EXCEPT ![e] = z] /\ wire'[e] = Tail(wire[e])
          /\ wire'[Peer(e)] = wire[Peer(e)] \o u
          /\ wire[e] \in Seq(Stanzas) /\ wire[Peer(e)] \in Seq(Stanzas)
      BY <2>2, <3>2, Taking
    <3>4. ~Sends(opens, "session-initiate") /\ ~Sends(t, "session-initiate")
      BY <2>2, <2>3, <3>1 DEF Sends
    <3>5. ~Sends(u, "session-initiate")
      BY <2>3, <3>1, <3>4, SendsMore
    <3> HIDE DEF u
    <3>6. party'["initiator"] = z /\ party'["responder"] = party["responder"]
      BY <1>e, <3>3, Given
    <3>7. Sends(wire["initiator"], "session-accept")
      BY <1>1, <1>e, Received
    <3>8. /\ ~(party["responder"].state < Unacked)
          /\ Sends(wire["responder"], "session-initiate") => party["responder"].state = None
          /\ Once(wire["responder"], "session-initiate")
      BY <3>7 DEF IInv, InOrder
    <3>9. wire'["responder"] = wire["responder"] \o u /\ wire["responder"] \in Seq(Stanzas)
      BY <1>e, <3>3
    <3>10. /\ Sends(wire'["responder"], "session-initiate") => Sends(wire["responder"], "session-initiate")
           /\ Once(wire'["responder"], "session-initiate")
      BY <3>2, <3>5, <3>8, <3>9, SendsMore
    <3> QED
      BY <2>6, <3>6, <3>8, <3>10 DEF InOrder, Sends, Once
  <2>8. \A i \in DOMAIN opens : ~IsRequest(opens[i]) /\ ~IsReply(opens[i])
    BY <2>3 DEF IsRequest, IsReply, Answers
  <2>9. z.state # Finished => z.asked = party[e].asked /\ party[e].state # Finished
    BY <1>3, <2>4, <2>6
  <2> QED
    BY <2>1, <2>2, <2>3, <2>6, <2>7, <2>8, <2>9, Answering
<1> QED
  BY <1>2, <1>4, <1>5

(* RecvOpen keeps the invariant. *)
LEMMA RecvOpenKeeps ==
  ASSUME IInv, RecvOpen
  PROVE  IInv'
<1>e. PICK e \in Ends : e = "responder"
  OBVIOUS
<1> DEFINE p == party[e]
           S == Head(wire[e]).contents \intersect Listed(p)
           f == [c \in Contents |-> IF c \in S THEN [p.app[c] EXCEPT !.opening = TRUE] ELSE p.app[c]]
           q == [p EXCEPT !.app = f]
<1>1. Receives(e, "set", "open") /\ Takes(e, q, <<>>)
  BY <1>e DEF RecvOpen
<1>2. /\ wire[e] # <<>> /\ ~IsRequest(Head(wire[e])) /\ ~IsReply(Head(wire[e]))
      /\ Sends(wire[e], "open")
  BY <1>1, Received DEF IsRequest, IsReply, Answers
<1>3. Whole(e, p) /\ Planned(e, p) /\ p \in Parties /\ p.app \in [Contents -> Apps]
  BY Given DEF Whole, Parties
<1>4. ~(p.state < Unacked) /\ p.state \in Int
  BY <1>e, <1>2, <1>3 DEF IInv, InOrder, Parties
<1>5. S \subseteq Listed(p) /\ S \subseteq Contents
  BY DEF Listed
<1>6. p.state = party[e].state /\ p.asked = party[e].asked
  OBVIOUS
<1> HIDE DEF p, S
<1>7. Whole(e, q) /\ Planned(e, q) /\ q.asked = p.asked /\ q.state = p.state
  <2>1. CASE p.state = Finished
    <3>1. p = Gone
      BY <1>3, <2>1 DEF Whole, Formed
    <3>2. \A c \in Contents : p.app[c] = NoApp
      BY <3>1, Blank
    <3>3. S = {}
      BY <1>5, <3>2 DEF Listed, NoApp
    <3>4. f = p.app
      BY <1>3, <3>3
    <3> HIDE DEF f
    <3>5. q = p
      BY <1>3, <3>4 DEF Parties
    <3> QED
      BY <1>3, <3>5
  <2>2. CASE p.state # Finished
    <3>1. ASSUME NEW c \in Contents
          PROVE  /\ f[c] \in Apps
                 /\ f[c].received = p.app[c].received /\ f[c].ready = p.app[c].ready
                 /\ f[c].removing = p.app[c].removing /\ f[c].signaling = p.app[c].signaling
                 /\ f[c].opening => f[c].state # None
                 /\ \/ f[c].state = p.app[c].state /\ f[c].connected = p.app[c].connected
                    \/ /\ f[c].state = Active /\ f[c].connected /\ ~f[c].removing
                       /\ ~p.app[c].connected /\ p.app[c].state # None
      <4>1. /\ p.app[c] \in Apps /\ (p.app[c].opening => p.app[c].state # None)
            /\ (c \in S => p.app[c].state # None)
        BY <1>3, <1>5 DEF Whole, Formed, Listed
      <4>2. f[c] = IF c \in S THEN [p.app[c] EXCEPT !.opening = TRUE] ELSE p.app[c]
        OBVIOUS
      <4> HIDE DEF f
      <4> QED
        BY <4>1, <4>2 DEF Apps
    <3>2. f \in [Contents -> Apps]
      BY <3>1
    <3> HIDE DEF f
    <3>3. p.state \notin {None, Finished} /\ (e = "responder" => p.state >= Unacked)
      BY <1>4, <2>2
    <3> QED
      BY <1>3, <3>1, <3>2, <3>3, Streams
  <2> QED
    BY <2>1, <2>2
<1> HIDE DEF q
<1>8. /\ q.state < Unacked => party[e].state < Unacked
      /\ e = "responder" /\ party[e].state = None => q.state = None
  BY <1>6, <1>7
<1>9. InOrder'
  BY <1>1, <1>2, <1>8, SilentInOrder
<1>10. q.state # Finished => q.asked = party[e].asked /\ party[e].state # Finished
  BY <1>6, <1>7
<1> QED
  BY <1>1, <1>2, <1>7, <1>9, <1>10, Ignoring

(* RecvOpened keeps the invariant. *)
LEMMA RecvOpenedKeeps ==
  ASSUME IInv, RecvOpened
  PROVE  IInv'
<1>e. PICK e \in Ends : e = "initiator"
  OBVIOUS
<1> DEFINE p == party[e]
           S == Head(wire[e]).contents
           f == [c \in Contents |-> IF c \in S THEN Connects(p.app[c]) ELSE p.app[c]]
           q == [p EXCEPT !.app = f]
<1>1. Receives(e, "result", "open") /\ Takes(e, q, <<>>)
  BY <1>e DEF RecvOpened
<1>2. wire[e] # <<>> /\ ~IsRequest(Head(wire[e])) /\ ~IsReply(Head(wire[e]))
  BY <1>1, Received DEF IsRequest, IsReply, Answers
<1>3. Whole(e, p) /\ Planned(e, p) /\ p \in Parties /\ p.app \in [Contents -> Apps]
  BY Given DEF Whole, Parties
<1>6. p.state = party[e].state /\ p.asked = party[e].asked
  OBVIOUS
<1> HIDE DEF p, S
<1>7. Whole(e, q) /\ Planned(e, q) /\ q.asked = p.asked /\ q.state = p.state
  <2>1. CASE p.state \in {None, Finished}
    <3>1. p = Gone \/ p = NoSession
      BY <1>3, <2>1 DEF Whole, Formed
    <3>2. \A c \in Contents : p.app[c] = NoApp
      BY <3>1, Blank
    <3>3. Connects(NoApp) = NoApp
      BY DEF Connects, NoApp
    <3>4. f = p.app
      BY <1>3, <3>2, <3>3
    <3> HIDE DEF f
    <3>5. q = p
      BY <1>3, <3>4 DEF Parties
    <3> QED
      BY <1>3, <3>5
  <2>2. CASE p.state \notin {None, Finished}
    <3>1. ASSUME NEW c \in Contents
          PROVE  /\ f[c] \in Apps
                 /\ f[c].received = p.app[c].received /\ f[c].ready = p.app[c].ready
                 /\ f[c].removing = p.app[c].removing /\ f[c].signaling = p.app[c].signaling
                 /\ f[c].opening => f[c].state # None
                 /\ \/ f[c].state = p.app[c].state /\ f[c].connected = p.app[c].connected
                    \/ /\ f[c].state = Active /\ f[c].connected /\ ~f[c].removing
                       /\ ~p.app[c].connected /\ p.app[c].state # None
      <4>1. p.app[c] \in Apps /\ (p.app[c].opening => p.app[c].state # None)
        BY <1>3 DEF Whole, Formed
      <4>2. f[c] = IF c \in S THEN Connects(p.app[c]) ELSE p.app[c]
        OBVIOUS
      <4> HIDE DEF f
      <4>3. CASE c \in S
        <5> DEFINE x == p.app[c]
        <5>1. x \in Apps /\ (x.opening => x.state # None) /\ f[c] = Connects(x)
          BY <4>1, <4>2, <4>3
        <5> HIDE DEF x
        <5>2. /\ f[c] \in Apps /\ f[c].received = x.received
              /\ f[c].ready = x.ready /\ f[c].removing = x.removing
              /\ f[c].signaling = x.signaling /\ f[c].opening = x.opening
              /\ \/ f[c].state = x.state /\ f[c].connected = x.connected
                 \/ /\ f[c].state = Active /\ f[c].connected /\ ~f[c].removing
                    /\ ~x.connected /\ x.state # None
          BY <5>1, ConnectsWell
        <5> QED
          BY <5>1, <5>2 DEF x
      <4>4. CASE c \notin S
        BY <4>1, <4>2, <4>4
      <4> QED
        BY <4>3, <4>4
    <3>2. f \in [Contents -> Apps]
      BY <3>1
    <3> HIDE DEF f
    <3>3. e = "responder" => p.state >= Unacked
      BY <1>e
    <3> QED
      BY <1>3, <2>2, <3>1, <3>2, <3>3, Streams
  <2> QED
    BY <2>1, <2>2
<1> HIDE DEF q
<1>8. /\ q.state < Unacked => party[e].state < Unacked
      /\ e = "responder" /\ party[e].state = None => q.state = None
  BY <1>6, <1>7
<1>9. InOrder'
  BY <1>1, <1>2, <1>8, SilentInOrder
<1>10. q.state # Finished => q.asked = party[e].asked /\ party[e].state # Finished
  BY <1>6, <1>7
<1> QED
  BY <1>1, <1>2, <1>7, <1>9, <1>10, Ignoring

(* RecvAgreed keeps the invariant. *)
LEMMA RecvAgreedKeeps ==
  ASSUME IInv, NEW e \in Ends, RecvAgreed(e)
  PROVE  IInv'
<1> DEFINE p == party[e]
           S == Listed(p)
           a == setStates(InState(p, Pending), S, Pending)
           b == setStates(InState(p, Active), S, Connecting)
           q == IF e = "initiator" THEN answered(a) ELSE answered(b)
<1>1. Receives(e, "result", p.asked) /\ p.asked \in Answers /\ p.asked # "none"
  BY DEF RecvAgreed, Answers
<1>2. Takes(e, q, <<>>)
  BY DEF RecvAgreed, InState
<1>3. Whole(e, p) /\ S \in SUBSET Contents
  BY Given DEF Listed
<1>4. p.state \notin {None, Finished}
  BY <1>1, <1>3, Alive
<1>5. wire[e] # <<>> /\ IsReply(Head(wire[e]))
  BY <1>1, Received DEF IsReply
<1>6. p.state = party[e].state
  OBVIOUS
<1> HIDE DEF p, S
<1>7. Whole(e, a) /\ a.state = Pending /\ Whole(e, b) /\ b.state = Active
  <2>1. /\ Pending \in Created..Finishing /\ Pending \in Created..Finished
        /\ Active \in Created..Finishing /\ Connecting \in Created..Finished
        /\ Pending < Unacked => p.state < Unacked
        /\ Active < Unacked => p.state < Unacked
    OBVIOUS
  <2> QED
    BY <1>3, <1>4, <2>1, AllChange
<1> HIDE DEF a, b
<1>8. /\ Whole(e, q) /\ Planned(e, q) /\ q.asked = "none" /\ q.state \in {Pending, Active}
  BY <1>7, AnswersStep
<1> HIDE DEF q
<1>9. InOrder'
  <2>1. /\ q.state < Unacked => party[e].state < Unacked
        /\ e = "responder" /\ party[e].state = None => q.state = None
    BY <1>4, <1>6, <1>8
  <2> QED
    BY <1>2, <1>5, <2>1, SilentInOrder
<1>10. party[e].state # Finished
  BY <1>4, <1>6
<1> QED
  BY <1>2, <1>5, <1>8, <1>9, <1>10, Replying

(* RecvRefused keeps the invariant. *)
LEMMA RecvRefusedKeeps ==
  ASSUME IInv, NEW e \in Ends, RecvRefused(e)
  PROVE  IInv'
<1> DEFINE p == party[e]
           r == [p EXCEPT !.known = FALSE]
           q == answered(r)
<1>1. Receives(e, "error", p.asked) /\ p.asked \in Answers /\ p.asked # "none"
  BY DEF RecvRefused, Answers
<1>2. Takes(e, q, <<>>)
  BY DEF RecvRefused
<1>3. Whole(e, p)
  BY Given
<1>4. p.state \notin {None, Finished}
  BY <1>1, <1>3, Alive
<1>5. wire[e] # <<>> /\ IsReply(Head(wire[e]))
  BY <1>1, Received DEF IsReply
<1>6. p.state = party[e].state
  OBVIOUS
<1> HIDE DEF p
<1>7. /\ r \in Parties /\ r.asked = p.asked /\ r.step = p.step /\ r.state = p.state
      /\ r.app = p.app /\ r.initial = p.initial
  BY <1>3 DEF Whole, Parties
<1> HIDE DEF r
<1>8. Whole(e, r)
  BY <1>3, <1>4, <1>7 DEF Whole, Formed, Listed
<1>9. Whole(e, q) /\ Planned(e, q) /\ q.asked = "none" /\ q.state = p.state
  BY <1>4, <1>7, <1>8, AnswersStep
<1> HIDE DEF q
<1>10. InOrder'
  <2>1. /\ q.state < Unacked => party[e].state < Unacked
        /\ e = "responder" /\ party[e].state = None => q.state = None
    BY <1>6, <1>9
  <2> QED
    BY <1>2, <1>5, <2>1, SilentInOrder
<1>11. party[e].state # Finished
  BY <1>4, <1>6
<1> QED
  BY <1>2, <1>5, <1>9, <1>10, <1>11, Replying

(* RecvDone keeps the invariant. *)
LEMMA RecvDoneKeeps ==
  ASSUME IInv, NEW e \in Ends, RecvDone(e)
  PROVE  IInv'
<1> DEFINE p == party[e]
           S == Head(wire[e]).contents \intersect Listed(p)
           r == finish(e, p, S)
           q == answered(r)
<1>1. PICK kind \in {"result", "error"} : Receives(e, kind, p.asked)
  BY DEF RecvDone
<1>a. p.asked \in Answers /\ p.asked # "none"
  BY DEF RecvDone, Answers
<1>2. Takes(e, q, <<>>)
  BY DEF RecvDone
<1>3. Whole(e, p) /\ S \in SUBSET Contents
  BY Given DEF Listed
<1>4. p.state \notin {None, Finished}
  BY <1>a, <1>3, Alive
<1>5. wire[e] # <<>> /\ IsReply(Head(wire[e]))
  BY <1>1, <1>a, Received DEF IsReply
<1>6. p.state = party[e].state
  OBVIOUS
<1> HIDE DEF p, S
<1>7. Whole(e, r) /\ r.state \in {p.state, Finishing}
  BY <1>3, <1>4, FinishesAll
<1> HIDE DEF r
<1>8. Whole(e, q) /\ Planned(e, q) /\ q.asked = "none" /\ q.state \in {p.state, Finishing}
  BY <1>4, <1>7, AnswersStep
<1> HIDE DEF q
<1>9. InOrder'
  <2>1. /\ q.state < Unacked => party[e].state < Unacked
        /\ e = "responder" /\ party[e].state = None => q.state = None
    BY <1>4, <1>6, <1>8
  <2> QED
    BY <1>2, <1>5, <2>1, SilentInOrder
<1>10. party[e].state # Finished
  BY <1>4, <1>6
<1> QED
  BY <1>2, <1>5, <1>8, <1>9, <1>10, Replying

(* RecvLate keeps the invariant. *)
LEMMA RecvLateKeeps ==
  ASSUME IInv, NEW e \in Ends, RecvLate(e)
  PROVE  IInv'
<1>1. PICK kind \in {"result", "error"}, action \in Answers : Receives(e, kind, action)
  BY DEF RecvLate
<1>2. Head(wire[e]).action # party[e].asked /\ Takes(e, party[e], <<>>)
  BY DEF RecvLate
<1>3. /\ wire[e] \in Seq(Stanzas) /\ wire[e] # <<>>
      /\ IsReply(Head(wire[e])) /\ ~IsRequest(Head(wire[e]))
  BY <1>1, Received DEF IsRequest, IsReply
<1>4. Whole(e, party[e]) /\ Planned(e, party[e])
  BY Given
<1>5. party[e].state = Finished
  <2>1. SUFFICES ASSUME party[e].state # Finished PROVE FALSE
    OBVIOUS
  <2>2. OneAnswer(party[e].asked, wire[Peer(e)], wire[e]) /\ wire[Peer(e)] \in Seq(Stanzas)
    BY <2>1, Given DEF IInv
  <2> QED
    BY <1>2, <1>3, <2>2, AnswerTaken
<1>6. InOrder'
  BY <1>2, <1>3, SilentInOrder
<1> QED
  BY <1>2, <1>3, <1>4, <1>5, <1>6, Ignoring

(* What is left of the wait for an answer when the peer is disconnected: the answer, *)
(* if it got through, or one refusal.                                               *)
LEMMA Refused ==
  ASSUME NEW a, NEW w \in Seq(Stanzas), NEW v \in Seq(Stanzas), NEW k \in 0..Len(v),
         a \in Answers \union {"none"}, NEW lostOnes,
         lostOnes = {w[i] : i \in {j \in DOMAIN w : w[j].kind = "set" /\ w[j].action = a}}
                    \union {v[i] : i \in {j \in k + 1..Len(v) : v[j].kind # "set" /\ v[j].action = a}},
         NEW refusal,
         \/ lostOnes = {} /\ refusal = <<>>
         \/ \E s \in lostOnes : refusal = <<[s EXCEPT !.kind = "error"]>>
  PROVE  /\ refusal \in Seq(Stanzas) /\ \A i \in DOMAIN refusal : refusal[i].kind # "set"
         /\ OneAnswer(a, w, v) => OneAnswer(a, <<>>, SubSeq(v, 1, k) \o refusal)
<1> DEFINE u == SubSeq(v, 1, k)
           none == <<>>
<1>1. /\ u \in Seq(Stanzas) /\ Len(u) = k /\ DOMAIN u = 1..k /\ k \in Nat
      /\ Len(v) \in Nat /\ DOMAIN v = 1..Len(v) /\ 1..k \subseteq DOMAIN v
      /\ \A i \in 1..k : u[i] = v[i]
  OBVIOUS
<1>2. none \in Seq(Stanzas) /\ DOMAIN none = {}
  OBVIOUS
<1>3. ASSUME NEW s \in lostOnes
      PROVE  /\ s \in Stanzas /\ s.action = a /\ a \in Answers /\ a # "none"
  <2>1. s \in Stanzas /\ s.action = a
    BY <1>1
  <2> QED
    BY <2>1 DEF Stanzas, Requests, Answers
<1>4. CASE lostOnes = {} /\ refusal = none
  <2>1. refusal \in Seq(Stanzas) /\ (\A i \in DOMAIN refusal : refusal[i].kind # "set") /\ u \o refusal = u
    BY <1>1, <1>2, <1>4
  <2>2. /\ \A i \in DOMAIN w : ~(w[i].kind = "set" /\ w[i].action = a)
        /\ \A i \in DOMAIN v : v[i].kind # "set" /\ v[i].action = a => i \in 1..k
    <3>1. /\ \A i \in DOMAIN w : ~(w[i].kind = "set" /\ w[i].action = a)
          /\ \A i \in k + 1..Len(v) : ~(v[i].kind # "set" /\ v[i].action = a)
      BY <1>4
    <3>2. \A i \in DOMAIN v : i \in 1..k \/ i \in k + 1..Len(v)
      BY <1>1
    <3> QED
      BY <3>1, <3>2
  <2>3. ASSUME OneAnswer(a, w, v) PROVE OneAnswer(a, none, u)
    <3>1. \A i \in DOMAIN w : ~IsRequest(w[i])
      BY <2>2, <2>3 DEF OneAnswer, IsRequest
    <3>2. \A i \in DOMAIN v : IsReply(v[i]) => i \in 1..k
      BY <2>2, <2>3 DEF OneAnswer, IsReply
    <3> HIDE DEF u, none
    <3> QED
      BY <1>1, <1>2, <2>3, <3>1, <3>2 DEF OneAnswer
  <2> QED
    BY <2>1, <2>3
<1>5. CASE \E s \in lostOnes : refusal = <<[s EXCEPT !.kind = "error"]>>
  <2>1. PICK s \in lostOnes : refusal = <<[s EXCEPT !.kind = "error"]>>
    BY <1>5
  <2> DEFINE r == [s EXCEPT !.kind = "error"]
  <2>2. r \in Stanzas /\ r.kind = "error" /\ r.action = a /\ a \in Answers /\ a # "none"
    BY <1>3, SameWith
  <2>3. refusal = <<r>>
    BY <2>1
  <2> HIDE DEF r
  <2>4. refusal \in Seq(Stanzas) /\ \A i \in DOMAIN refusal : refusal[i].kind # "set"
    BY <2>2, <2>3
  <2>5. ASSUME OneAnswer(a, w, v) PROVE \A i \in DOMAIN u : ~IsReply(u[i])
    <3>1. \/ \E i \in DOMAIN w : IsRequest(w[i])
          \/ \E i \in DOMAIN v : i > k /\ IsReply(v[i])
      <4>1. \/ \E i \in DOMAIN w : w[i].kind = "set" /\ w[i].action = a
            \/ \E i \in k + 1..Len(v) : v[i].kind # "set" /\ v[i].action = a
        BY <2>1
      <4> QED
        BY <1>1, <2>2, <4>1 DEF IsRequest, IsReply
    <3> HIDE DEF u
    <3>2. \A i \in 1..k : ~(i > k)
      BY <1>1
    <3> QED
      BY <1>1, <2>5, <3>1, <3>2 DEF OneAnswer
  <2>6. u \o refusal = Append(u, r)
    <3>1. u \in Seq(Stanzas)
      BY <1>1
    <3> HIDE DEF u
    <3> QED
      BY <2>2, <2>3, <3>1, AppendIsConcat
  <2>7. IsReply(r)
    BY <2>2 DEF IsReply
  <2>8. ASSUME OneAnswer(a, w, v) PROVE OneAnswer(a, none, Append(u, r))
    <3>1. u \in Seq(Stanzas)
      BY <1>1
    <3> HIDE DEF u, none
    <3>2. /\ Len(u) \in Nat /\ DOMAIN Append(u, r) = 1..Len(u) + 1
          /\ \A i \in 1..Len(u) + 1 : i \in DOMAIN u \/ i = Len(u) + 1
          /\ \A i \in DOMAIN u : Append(u, r)[i] = u[i]
          /\ Append(u, r)[Len(u) + 1] = r
      BY <2>2, <3>1
    <3>3. \A i \in DOMAIN Append(u, r) : IsReply(Append(u, r)[i]) <=> i = Len(u) + 1
      BY <2>5, <2>7, <2>8, <3>2
    <3> QED
      <4> DEFINE z == Append(u, r)
      <4>1. \A i \in DOMAIN z : IsReply(z[i]) => /\ z[i].action = a
                                               /\ \A j \in DOMAIN z : IsReply(z[j]) => i = j
        BY <2>2, <3>2, <3>3
      <4>2. \E i \in DOMAIN z : IsReply(z[i])
        <5>1. Len(u) + 1 \in DOMAIN z /\ z[Len(u) + 1] = r
          BY <3>2
        <5> QED
          BY <2>7, <5>1, Zenon
      <4> HIDE DEF z
      <4>3. OneAnswer(a, none, z)
        BY <1>2, <4>1, <4>2 DEF OneAnswer
      <4> QED
        BY <4>3 DEF z
  <2> QED
    BY <2>4, <2>6, <2>8
<1> QED
  BY <1>4, <1>5

(* Disconnect keeps the invariant. *)
LEMMA DisconnectKeeps ==
  ASSUME IInv, NEW e \in Ends, Disconnect(e)
  PROVE  IInv'
<1> DEFINE f == Peer(e)
           w == wire[e]
           v == wire[f]
           a == party[f].asked
           Requested(i) == w[i].kind = "set" /\ w[i].action = a
           Answered(i)  == v[i].kind # "set" /\ v[i].action = a
           Lost(k) == {w[i] : i \in {j \in DOMAIN w : Requested(j)}}
                      \union {v[i] : i \in {j \in k + 1..Len(v) : Answered(j)}}
           Refusals(k) == IF Lost(k) = {} THEN {<<>>} ELSE {<<[s EXCEPT !.kind = "error"]>> : s \in Lost(k)}
<1>1. PICK k \in 0..Len(v) : \E refusal \in Refusals(k) :
        wire' = [wire EXCEPT ![e] = <<>>, ![f] = SubSeq(@, 1, k) \o refusal]
  BY Zenon DEF Disconnect
<1>2. PICK refusal \in Refusals(k) :
        wire' = [wire EXCEPT ![e] = <<>>, ![f] = SubSeq(@, 1, k) \o refusal]
  BY <1>1
<1>3. /\ party' = [party EXCEPT ![e] = Gone] /\ party[e].state # None
      /\ got' \subseteq Contents /\ lost' \subseteq Ends /\ failures' \in 0..MaxFailures
  <2>1. /\ party' = [party EXCEPT ![e] = Gone] /\ party[e].state \in Created..Finishing
        /\ lost' = lost \union {e} /\ got' = got
        /\ failures < MaxFailures /\ failures' = failures + 1
    BY Zenon DEF Disconnect
  <2>2. got \subseteq Contents /\ lost \subseteq Ends /\ failures \in 0..MaxFailures
    BY Given
  <2> QED
    BY <2>1, <2>2, MaxFailuresAssumption
<1>4. /\ f \in Ends /\ f # e /\ Peer(f) = e /\ (e = "responder" => f = "initiator")
      /\ (e = "initiator" => f = "responder")
  OBVIOUS
<1>5. wire \in [Ends -> Seq(Stanzas)] /\ Whole(f, party[f])
  BY <1>4, Given
<1> HIDE DEF Ends, Peer
<1>6. w \in Seq(Stanzas) /\ v \in Seq(Stanzas) /\ a \in Answers \union {"none"}
  BY <1>4, <1>5 DEF Whole, Formed
<1>7. /\ wire'[e] = <<>> /\ wire'[f] = SubSeq(v, 1, k) \o refusal
  BY <1>2, <1>4, <1>5
<1>8. \/ Lost(k) = {} /\ refusal = <<>>
      \/ \E s \in Lost(k) : refusal = <<[s EXCEPT !.kind = "error"]>>
  BY <1>2
<1> DEFINE lostOnes == Lost(k)
<1>9. /\ refusal \in Seq(Stanzas) /\ \A i \in DOMAIN refusal : refusal[i].kind # "set"
      /\ OneAnswer(a, w, v) => OneAnswer(a, <<>>, SubSeq(v, 1, k) \o refusal)
  <2>1. lostOnes = {w[i] : i \in {j \in DOMAIN w : w[j].kind = "set" /\ w[j].action = a}}
                   \union {v[i] : i \in {j \in k + 1..Len(v) : v[j].kind # "set" /\ v[j].action = a}}
    OBVIOUS
  <2>2. \/ lostOnes = {} /\ refusal = <<>>
        \/ \E s \in lostOnes : refusal = <<[s EXCEPT !.kind = "error"]>>
    BY <1>8
  <2> HIDE DEF lostOnes, w, v, a
  <2> QED
    BY <1>6, <2>1, <2>2, Refused
<1> HIDE DEF Lost, Refusals, Requested, Answered, lostOnes
<1>10. /\ SubSeq(v, 1, k) \in Seq(Stanzas)
       /\ \A action : /\ Sends(SubSeq(v, 1, k), action) => Sends(v, action)
                      /\ Once(v, action) => Once(SubSeq(v, 1, k), action)
  BY <1>6, SendsFirst
<1> DEFINE u == SubSeq(v, 1, k)
<1>11. wire'[f] = u \o refusal /\ u \in Seq(Stanzas) /\ u \o refusal \in Seq(Stanzas)
  BY <1>7, <1>9, <1>10
<1>12. wire' \in [Ends -> Seq(Stanzas)]
  <2>1. <<>> \in Seq(Stanzas)
    OBVIOUS
  <2>2. wire' = [wire EXCEPT ![e] = <<>>, ![f] = u \o refusal]
    BY <1>2, <1>4, <1>5
  <2> HIDE DEF u
  <2> QED
    BY <1>4, <1>5, <1>11, <2>1, <2>2
<1>13. ASSUME NEW action
       PROVE  /\ ~Sends(wire'[e], action) /\ Once(wire'[e], action)
              /\ Sends(wire'[f], action) => Sends(v, action)
              /\ Once(v, action) => Once(wire'[f], action)
  <2>1. DOMAIN wire'[e] = {}
    BY <1>7
  <2>2. ~Sends(refusal, action)
    BY <1>9 DEF Sends
  <2>3. /\ Sends(u, action) => Sends(v, action)
        /\ Once(v, action) => Once(u, action)
    BY <1>10
  <2> HIDE DEF u, v
  <2>4. /\ Sends(u \o refusal, action) => Sends(u, action)
        /\ Once(u, action) => Once(u \o refusal, action)
    BY <1>9, <1>11, <2>2, SendsMore
  <2> QED
    BY <1>11, <2>1, <2>3, <2>4 DEF Sends, Once
<1>14. Whole(e, Gone) /\ Planned(e, Gone) /\ Gone.state = Finished
  BY Blank
<1>15. InOrder'
  <2>1. /\ Sends(wire'["responder"], "open") => Sends(wire["responder"], "open")
        /\ Sends(wire'["initiator"], "session-accept") => Sends(wire["initiator"], "session-accept")
        /\ Sends(wire'["responder"], "session-initiate") => Sends(wire["responder"], "session-initiate")
        /\ Once(wire["responder"], "session-initiate") => Once(wire'["responder"], "session-initiate")
    <3>1. CASE e = "responder"
      BY <1>4, <1>13, <3>1
    <3>2. CASE e = "initiator"
      BY <1>4, <1>13, <3>2
    <3> QED
      BY <3>1, <3>2 DEF Ends
  <2>2. Once(wire["responder"], "session-initiate")
    BY DEF IInv, InOrder
  <2>3. /\ Sends(wire["responder"], "open")' => Sends(wire["responder"], "open")
        /\ Sends(wire["initiator"], "session-accept")' => Sends(wire["initiator"], "session-accept")
        /\ Sends(wire["responder"], "session-initiate")' => Sends(wire["responder"], "session-initiate")
        /\ Once(wire["responder"], "session-initiate")'
    BY <2>1, <2>2 DEF Sends, Once
  <2>4. /\ Gone.state < Unacked => party[e].state < Unacked
        /\ e = "responder" /\ party[e].state = None => Gone.state = None
    BY <1>3, <1>14
  <2> QED
    BY <1>3, <2>3, <2>4, Ordered
<1>16. party[f].state # Finished => OneAnswer(party[f].asked, wire'[e], wire'[f])
  <2>1. SUFFICES ASSUME party[f].state # Finished PROVE OneAnswer(a, wire'[e], wire'[f])
    OBVIOUS
  <2>2. OneAnswer(a, w, v)
    BY <1>4, <2>1 DEF IInv
  <2> QED
    BY <1>7, <1>9, <2>2
<1> QED
  BY <1>3, <1>12, <1>14, <1>15, <1>16, Framed

-----------------------------------------------------------------------------
(* The initial states. *)
LEMMA Starts == Init => IInv
<1> SUFFICES ASSUME Init PROVE IInv
  OBVIOUS
<1> DEFINE x == [NoSession EXCEPT !.state = Created]
<1>1. PICK S \in SUBSET Contents :
        party = [e \in Ends |-> IF e = "initiator" THEN setStates(x, S, Created) ELSE NoSession]
  BY DEF Init
<1> DEFINE p == setStates(x, S, Created)
<1>2. /\ NoSession \in Parties /\ NoSession.asked = "none" /\ NoSession.state = None
      /\ NoSession.initial = {} /\ NoSession.reason = FALSE
      /\ \A c \in Contents : NoSession.app[c] = NoApp
      /\ \A e \in Ends : Whole(e, NoSession)
  BY Blank DEF Whole, NoSession
<1>3. /\ x \in Parties /\ x.asked = "none" /\ x.state = Created /\ x.initial = {}
      /\ x.reason = FALSE /\ \A c \in Contents : x.app[c] = NoApp
  <2> HIDE DEF NoSession
  <2> QED
    BY <1>2 DEF Parties
<1> HIDE DEF x
<1>4. \A e \in Ends : e = "initiator" => Whole(e, x)
  BY <1>3 DEF Whole, Formed, NoApp
<1>5. \A e \in Ends : e = "initiator" =>
        Whole(e, p) /\ p.asked = "none" /\ p.state = Created /\ p.reason = FALSE
  <2>1. SUFFICES ASSUME NEW e \in Ends, e = "initiator"
                 PROVE  Whole(e, p) /\ p.asked = "none" /\ p.state = Created /\ p.reason = FALSE
    OBVIOUS
  <2>2. Whole(e, x) /\ x.state \notin {None, Finished} /\ Created \in Created..Finished
    BY <1>3, <1>4, <2>1
  <2> QED
    BY <1>3, <2>2, Finishes
<1> HIDE DEF p
<1>6. /\ party["initiator"] = p /\ party["responder"] = NoSession
      /\ wire = [e \in Ends |-> <<>>] /\ got = {} /\ lost = {} /\ failures = 0
  BY <1>1 DEF Init, p
<1>7. /\ \A e \in Ends : Whole(e, party[e]) /\ party[e].asked = "none"
      /\ party \in [Ends -> Parties]
  BY <1>1, <1>2, <1>5, <1>6 DEF Whole, p
<1>8. \A e \in Ends : Planned(e, party[e])
  BY <1>2, <1>5, <1>6 DEF Planned, HasToSend, FailedEarly
<1>9. TypeOK
  <2>1. wire \in [Ends -> Seq(Stanzas)]
    BY <1>6
  <2> QED
    BY <1>6, <1>7, <2>1, MaxFailuresAssumption DEF TypeOK, Whole
<1>10. \A e \in Ends : OneAnswer(party[e].asked, wire[Peer(e)], wire[e])
  BY <1>6, <1>7 DEF OneAnswer
<1>11. InOrder
  BY <1>2, <1>5, <1>6 DEF InOrder, Sends, Once
<1> QED
  BY <1>7, <1>8, <1>9, <1>10, <1>11 DEF IInv, Whole

(* Every step keeps the invariant. *)
LEMMA Steps == IInv /\ [Next]_vars => IInv'
<1> SUFFICES ASSUME IInv, [Next]_vars PROVE IInv'
  OBVIOUS
<1>1. CASE User
  BY <1>1, InitiateKeeps, AcceptKeeps, CancelKeeps DEF User
<1>2. CASE Transports
  BY <1>2, AcceptStreamKeeps, TransferredKeeps, TransportReadyKeeps, TransportFailsKeeps,
     StreamFailsKeeps DEF Transports
<1>3. ASSUME NEW e \in Ends, doStep(e) PROVE IInv'
  BY <1>3, StepTerminatesKeeps, StepOffersKeeps, StepGivesUpKeeps, StepReportsKeeps,
     StepRemovesKeeps, StepIdlesKeeps DEF doStep
<1>4. ASSUME NEW e \in Ends, take(e) PROVE IInv'
  BY <1>4, RecvInitiateKeeps, RefuseInitiateKeeps, RecvOpenKeeps, RecvAcceptKeeps, RecvInfoKeeps,
     RecvOpenedKeeps, RecvUnknownKeeps, RecvRemoveKeeps, RecvTerminateKeeps, RecvAgreedKeeps,
     RecvRefusedKeeps, RecvDoneKeeps, RecvLateKeeps DEF take
<1>5. ASSUME NEW e \in Ends, Disconnect(e) PROVE IInv'
  BY <1>5, DisconnectKeeps
<1>6. CASE UNCHANGED vars
  BY <1>6 DEF vars, IInv, TypeOK, InOrder, OneAnswer, Sends, Once, Formed, Planned, HasToSend
<1> QED
  BY <1>1, <1>2, <1>3, <1>4, <1>5, <1>6 DEF Next

(* IInv holds in every state of every behaviour: the inductive invariant. *)
THEOREM Inductive == Spec => []IInv
BY Starts, Steps, PTL DEF Spec

(* Every variable keeps its type, for any contents and any number of failures, and a
   session waits only for contents that it has (initialIncomingUnacceptedContent). *)
THEOREM TypeCorrect == Spec => []TypeOK
<1>1. IInv => TypeOK
  BY DEF IInv
<1> QED
  BY <1>1, Inductive, PTL

(* OneAnswer in terms of Awaited. *)
LEMMA OneIsAwaited ==
  ASSUME IInv, NEW e \in Ends, party[e].asked # "none"
  PROVE  Cardinality(Awaited(e)) = 1
<1> DEFINE a == party[e].asked
           w == wire[Peer(e)]
           v == wire[e]
<1>1. Whole(e, party[e]) /\ a \in Answers
  BY Given DEF Whole, Formed
<1>2. OneAnswer(a, w, v)
  BY <1>1, Alive DEF IInv
<1>3. Awaited(e) = {<<"request", i>> : i \in {j \in DOMAIN w : w[j].kind = "set" /\ w[j].action = a}}
                   \union {<<"answer", i>> : i \in {j \in DOMAIN v : v[j].kind # "set" /\ v[j].action = a}}
  BY DEF Awaited
<1> HIDE DEF a, w, v
<1>4. /\ \A j \in DOMAIN w : w[j].kind = "set" /\ w[j].action = a <=> IsRequest(w[j])
      /\ \A j \in DOMAIN v : v[j].kind # "set" /\ v[j].action = a <=> IsReply(v[j])
  BY <1>1, <1>2 DEF OneAnswer, IsRequest, IsReply
<1>5. Awaited(e) = {<<"request", i>> : i \in {j \in DOMAIN w : IsRequest(w[j])}}
                   \union {<<"answer", i>> : i \in {j \in DOMAIN v : IsReply(v[j])}}
  BY <1>3, <1>4
<1>6. a # "none"
  BY DEF a
<1> HIDE DEF IsRequest, IsReply
<1>7. \E x : Awaited(e) = {x}
  <2>1. CASE \E i \in DOMAIN w : IsRequest(w[i])
    <3>1. PICK i \in DOMAIN w : IsRequest(w[i])
      BY <2>1
    <3>2. Awaited(e) = {<<"request", i>>}
      BY <1>2, <1>5, <3>1 DEF OneAnswer
    <3> QED
      BY <3>2
  <2>2. CASE \E i \in DOMAIN v : IsReply(v[i])
    <3>1. PICK i \in DOMAIN v : IsReply(v[i])
      BY <2>2
    <3>2. \A j \in DOMAIN w : ~IsRequest(w[j])
      BY <1>2, <3>1 DEF OneAnswer
    <3>3. Awaited(e) = {<<"answer", i>>}
      BY <1>2, <1>5, <3>1, <3>2 DEF OneAnswer
    <3> QED
      BY <3>3
  <2> QED
    BY <1>2, <1>6, <2>1, <2>2 DEF OneAnswer
<1> QED
  BY <1>7, FS_Singleton

(* A session never stalls with something to send: while it waits for an answer exactly
   one stanza will end the wait, and when it does not wait its step is planned (planStep, doStep). *)
THEOREM NeverStalls == Spec => []NeverStalled
<1>1. IInv => NeverStalled
  BY OneIsAwaited DEF IInv, NeverStalled, Planned
<1> QED
  BY <1>1, Inductive, PTL
=============================================================================
