--------------------------- MODULE JingleSession ---------------------------
(***************************************************************************)
(* A Jingle session (XEP-0166) that offers files (XEP-0234), between two   *)
(* clients that run this code: Session::Private in                         *)
(* xmpp-im/jingle-session.cpp, the content's state in                      *)
(* jingle-application.cpp and jingle-ft.cpp, the stream of its transport   *)
(* in jingle-ibb.cpp, and the dialog that owns the session in              *)
(* src/multifiletransferdlg.cpp.  The initiator sends, the responder       *)
(* receives.                                                               *)
(*                                                                         *)
(* A party has one request outstanding at a time, and what it wants to     *)
(* send meanwhile waits for the answer; a function of the code is a        *)
(* function from one party to the next, an action a slot with all it       *)
(* calls.  The contents are offered when the session starts, and their     *)
(* transport is the last one there is to try: where it fails the content   *)
(* is removed, not its transport replaced.  Two entities exchange stanzas  *)
(* in order.                                                               *)
(***************************************************************************)
EXTENDS Integers, Sequences, FiniteSets

CONSTANTS
  Contents,    \* names of contents, in the order of contentList
  MaxFailures  \* bound: failures of transports, streams and clients

ASSUME ContentsAssumption == Contents \subseteq Nat /\ IsFiniteSet(Contents)
ASSUME MaxFailuresAssumption == MaxFailures \in Nat

VARIABLES
  party,     \* party[e]: the Session of e and its contents, see Parties
  wire,      \* wire[e]: stanzas under way to e
  got,       \* contents the responder has received completely
  lost,      \* ends whose client was disconnected
  failures   \* failures so far

vars == <<party, wire, got, lost, failures>>

-----------------------------------------------------------------------------
Ends    == {"initiator", "responder"}
Peer(e) == IF e = "initiator" THEN "responder" ELSE "initiator"

\* enum State; None before and after the life of an object
None           == -1
Created        == 0
ApprovedToSend == 1
Unacked        == 2
Pending        == 3
Accepted       == 4
Connecting     == 5
Active         == 6
Finishing      == 7
Finished       == 8

(***************************************************************************)
(* An app is a content of a party, the Application and its transport:      *)
(* ready, the transport has its offer or answer (hasUpdates);  removing,   *)
(* _terminationReason is set;  received, outgoingReceived of a receiver;   *)
(* opening, its stream has been asked for and not accepted yet;            *)
(* connected, the stream is there;  signaling, in signalingContent.        *)
(***************************************************************************)
Apps == [state : None..Finished, ready : BOOLEAN, removing : BOOLEAN, received : BOOLEAN,
         opening : BOOLEAN, connected : BOOLEAN, signaling : BOOLEAN]

NoApp == [state |-> None, ready |-> FALSE, removing |-> FALSE, received |-> FALSE,
          opening |-> FALSE, connected |-> FALSE, signaling |-> FALSE]

Requests == {"session-initiate", "session-accept", "session-info", "session-terminate",
             "content-remove"}

(***************************************************************************)
(* asked: the request whose answer is awaited (waitingAck and the callback *)
(* of its task);  step: stepTimer is running;  reason: terminateReason is  *)
(* set;  known: the Manager finds the session;  initial: as in             *)
(* initialIncomingUnacceptedContent.                                       *)
(***************************************************************************)
Parties == [state : None..Finished, asked : Requests \union {"none"}, step : BOOLEAN,
            reason : BOOLEAN, known : BOOLEAN, initial : SUBSET Contents, app : [Contents -> Apps]]

NoSession == [state |-> None, asked |-> "none", step |-> FALSE, reason |-> FALSE, known |-> FALSE,
              initial |-> {}, app |-> [c \in Contents |-> NoApp]]

Stanzas == [kind : {"set", "result", "error"}, action : Requests \union {"open"},
            contents : SUBSET Contents]

Listed(p) == {c \in Contents : p.app[c].state # None}

\* setState(s) of the contents in S, past the signal stateChanged
setStates(p, S, s) ==
  [p EXCEPT !.app = [c \in Contents |-> IF c \in S THEN [p.app[c] EXCEPT !.state = s]
                                                   ELSE p.app[c]]]

\* The answer that is awaited will plan the step.
planStep(p) == IF p.asked = "none" THEN [p EXCEPT !.step = TRUE] ELSE p

\* The signal Application::updated
updated(p, c) == planStep([p EXCEPT !.app[c].signaling = TRUE])

\* setSessionFinished: the object and its contents are deleted before
\* another slot of it runs, and the Manager has forgotten it.
Gone == [NoSession EXCEPT !.state = Finished]

terminate(e, p) ==
  IF e = "initiator" /\ p.state = ApprovedToSend THEN Gone
  ELSE planStep([p EXCEPT !.state = Finishing, !.reason = TRUE])

\* setState(Finished), and what the dialog makes of it: the receiver ends
\* the session after the last file.
finish(e, p, S) ==
  LET q == setStates(p, S, Finished)
  IN IF e = "responder" /\ S # {} /\ \A c \in Listed(q) : q.app[c].state = Finished
     THEN terminate(e, q) ELSE q

\* evaluateOutgoingUpdate of a content, by what it comes to: session-info;
\* content-remove; content-add or content-accept
Reports(a) == a.state = Active /\ a.received
Removes(a) == a.removing /\ a.state \notin {Created, Finished} /\ ~Reports(a)
Offers(a)  == a.state = ApprovedToSend /\ a.ready /\ ~a.removing

-----------------------------------------------------------------------------
Init ==
  /\ \E S \in SUBSET Contents \ {{}} :
       party = [e \in Ends |->
                  IF e = "initiator"
                  THEN setStates([NoSession EXCEPT !.state = Created], S, Created)
                  ELSE NoSession]
  /\ wire = [e \in Ends |-> <<>>]
  /\ got = {} /\ lost = {} /\ failures = 0

\* A slot of e that makes its party p and sends nothing
Slot(e, p) == party' = [party EXCEPT ![e] = p] /\ UNCHANGED <<wire, got, lost, failures>>

\* A slot of e that a failure calls
FailureSlot(e, p) ==
  /\ failures < MaxFailures /\ failures' = failures + 1
  /\ party' = [party EXCEPT ![e] = p] /\ UNCHANGED <<wire, got, lost>>

-----------------------------------------------------------------------------
(* The users: "Send" and "Receive" in the dialogs, and closing a dialog.     *)
(* Where a reason is set the session is about to be deleted anyway.          *)

\* Session::initiate
Initiate ==
  LET p == party["initiator"]
  IN /\ p.state = Created
     /\ Slot("initiator", planStep(setStates([p EXCEPT !.state = ApprovedToSend],
                                             Listed(p), ApprovedToSend)))

\* Session::accept
Accept ==
  LET p == party["responder"]
  IN /\ p.state = Created /\ ~p.reason
     /\ Slot("responder", planStep(setStates([p EXCEPT !.state = ApprovedToSend],
                                             Listed(p), ApprovedToSend)))

\* MultiFileTransferDlg::reject and accept
Cancel(e) ==
  /\ party[e].state \in Created..Active /\ ~party[e].reason
  /\ e = "initiator" => party[e].state # Created
  /\ Slot(e, terminate(e, party[e]))

-----------------------------------------------------------------------------
(* The transports and the streams.                                           *)

\* The transport has found what to offer.
TransportReady(e, c) ==
  LET a == party[e].app[c]
  IN /\ a.state = ApprovedToSend /\ ~a.ready /\ ~a.removing
     /\ Slot(e, updated([party[e] EXCEPT !.app[c].ready = TRUE], c))

\* Transport::failed.  Either selectNextTransport has tried all transports,
\* or the peer supports none of those it has not tried, and then the state
\* stays.
TransportFails(e, c) ==
  LET a      == party[e].app[c]
      unsent == e = "initiator" /\ a.state = ApprovedToSend
  IN /\ a.state \in Created..Active /\ ~a.removing
     /\ e = "initiator" => a.state # Created
     /\ \E s \in {IF unsent THEN Finished ELSE Finishing}
                \union (IF a.state = Created THEN {} ELSE {a.state}) :
          FailureSlot(e, updated([party[e] EXCEPT !.app[c].state = s,
                                                  !.app[c].removing = TRUE], c))

\* onConnectionConnected, unless a failure has deleted the ConnectionWaiter
Connects(a) == IF a.state = None \/ a.removing \/ a.connected THEN a
               ELSE [a EXCEPT !.connected = TRUE, !.state = Active]

\* IBBConnection::accept, queued when the request to open the stream came
AcceptStream(c) ==
  LET a == party["responder"].app[c]
  IN /\ a.opening
     /\ party' = [party EXCEPT !["responder"].app[c] = Connects([a EXCEPT !.opening = FALSE])]
     /\ wire' = [wire EXCEPT !["initiator"] =
                   Append(@, [kind |-> "result", action |-> "open", contents |-> {c}])]
     /\ UNCHANGED <<got, lost, failures>>

Streaming(c) ==
  /\ c \notin got
  /\ party["responder"].asked # "session-accept" \* its answer was sent before the data
  /\ \A e \in Ends : party[e].app[c].connected /\ party[e].app[c].state # Finished

\* tryFinalizeIncoming: the last byte has been read.
Transferred(c) ==
  /\ Streaming(c)
  /\ party' = [party EXCEPT !["responder"] = updated([@ EXCEPT !.app[c].received = TRUE], c)]
  /\ got' = got \union {c}
  /\ UNCHANGED <<wire, lost, failures>>

\* handleStreamFail: a file cannot be read or written.
StreamFails(e, c) == Streaming(c) /\ FailureSlot(e, finish(e, party[e], {c}))

-----------------------------------------------------------------------------
(* doStep.  A step is planned only while no answer is awaited.               *)

\* sendJingle: e becomes p and asks its peer.
Asks(e, action, S, p) ==
  /\ party' = [party EXCEPT ![e] = [p EXCEPT !.asked = action, !.step = FALSE]]
  /\ wire' = [wire EXCEPT ![Peer(e)] =
                Append(@, [kind |-> "set", action |-> action, contents |-> S])]
  /\ UNCHANGED <<got, lost, failures>>

\* All contents failed before the user has answered.
FailedEarly(e, p) ==
  /\ e = "responder" /\ p.state = Created
  /\ \A c \in Listed(p) : p.app[c].state >= Finishing

\* Mutant: a session in Created tells nobody, whichever end it is.
StepTerminatesQuietly(e) ==
  /\ party[e].step /\ (party[e].reason \/ FailedEarly(e, party[e]))
  /\ party' = [party EXCEPT ![e] = Gone]
  /\ wire' = IF party[e].state = Created THEN wire
             ELSE [wire EXCEPT ![Peer(e)] =
                    Append(@, [kind |-> "set", action |-> "session-terminate", contents |-> {}])]
  /\ UNCHANGED <<got, lost, failures>>

StepTerminates(e) ==
  /\ party[e].step /\ (party[e].reason \/ FailedEarly(e, party[e]))
  /\ party' = [party EXCEPT ![e] = Gone]
  /\ wire' = [wire EXCEPT ![Peer(e)] =
                Append(@, [kind |-> "set", action |-> "session-terminate", contents |-> {}])]
  /\ UNCHANGED <<got, lost, failures>>

\* doStep, past the session's end and the wait for the user
Proceeds(e, p) == p.step /\ ~p.reason /\ p.state > Created

\* Contents that hold up session-initiate and session-accept
Blocking(e, p) ==
  {c \in (IF e = "initiator" THEN Listed(p) ELSE p.initial) : ~Offers(p.app[c])}

MayOffer(e, p) == p.state = ApprovedToSend /\ Blocking(e, p) = {}

\* The initiator gives up if the first of them has failed.
GivesUp(e, p) ==
  /\ e = "initiator" /\ p.state = ApprovedToSend
  /\ \E c \in Blocking(e, p) : Removes(p.app[c]) /\ \A d \in Blocking(e, p) : c <= d

\* trySendSessionAcceptOrInitiate
StepOffers(e) ==
  LET p == party[e]
  IN /\ Proceeds(e, p) /\ MayOffer(e, p)
     /\ Asks(e, IF e = "initiator" THEN "session-initiate" ELSE "session-accept", Listed(p),
             setStates([p EXCEPT !.state = Unacked, !.known = TRUE, !.initial = {}],
                       Listed(p), Unacked))

StepGivesUp(e) == Proceeds(e, party[e]) /\ GivesUp(e, party[e]) /\ Slot(e, Gone)

ReportsOf(p)  == {c \in Listed(p) : p.app[c].signaling /\ Reports(p.app[c])}
RemovesOf(p)  == {c \in Listed(p) : p.app[c].signaling /\ Removes(p.app[c])}
Otherwise(e, p) == Proceeds(e, p) /\ ~MayOffer(e, p) /\ ~GivesUp(e, p)

\* <received/>, for all contents that have something to report
StepReports(e) ==
  LET p == party[e]
  IN /\ Otherwise(e, p) /\ ReportsOf(p) # {}
     /\ Asks(e, "session-info", ReportsOf(p),
             [p EXCEPT !.app = [c \in Contents |->
                IF c \in ReportsOf(p) THEN [@[c] EXCEPT !.received = FALSE] ELSE @[c]]])

StepRemoves(e) ==
  LET p == party[e]
  IN /\ Otherwise(e, p) /\ ReportsOf(p) = {} /\ RemovesOf(p) # {}
     /\ Asks(e, "content-remove", RemovesOf(p), p)

\* Nothing to send: the user is still to answer, or nothing has changed.
StepIdles(e) ==
  LET p == party[e]
  IN /\ p.step /\ ~p.reason /\ ~FailedEarly(e, p)
     /\ \/ p.state = Created
        \/ Otherwise(e, p) /\ ReportsOf(p) \union RemovesOf(p) = {}
     /\ Slot(e, [p EXCEPT !.step = FALSE])

-----------------------------------------------------------------------------
(* JTPush::take and the handlers it calls.  The answer to session-terminate, *)
(* and the refusal of a stream, reach nobody who waits for them: they are    *)
(* left out.                                                                 *)

Receives(e, kind, action) ==
  wire[e] # <<>> /\ Head(wire[e]).kind = kind /\ Head(wire[e]).action = action

\* e becomes p and sends what follows.
Takes(e, p, sent) ==
  /\ party' = [party EXCEPT ![e] = p]
  /\ wire' = [wire EXCEPT ![e] = Tail(@), ![Peer(e)] = @ \o sent]
  /\ UNCHANGED <<got, lost, failures>>

Answer(e, kind) == <<[Head(wire[e]) EXCEPT !.kind = kind]>>

\* Session::incomingInitiate; the contents may not be supported.
RecvInitiate ==
  LET e == "responder"
      S == Head(wire[e]).contents
      p == [NoSession EXCEPT !.state = Created, !.known = TRUE]
  IN /\ Receives(e, "set", "session-initiate") /\ e \notin lost
     /\ \/ Takes(e, planStep(setStates([p EXCEPT !.initial = S], S, Created)), Answer(e, "result"))
        \/ Takes(e, planStep([p EXCEPT !.reason = TRUE]), Answer(e, "result"))

\* The peer may not open sessions here, or is not understood, or is redirected.
RefuseInitiate ==
  /\ Receives("responder", "set", "session-initiate")
  /\ Takes("responder", party["responder"], Answer("responder", "error"))

\* A request for a session that the Manager does not find
RecvUnknown(e) ==
  /\ \E action \in Requests \ {"session-initiate"} : Receives(e, "set", action)
  /\ ~party[e].known
  /\ Takes(e, party[e], IF Head(wire[e]).action = "session-terminate" THEN <<>>
                        ELSE Answer(e, "error"))

\* parseContentAcceptList: all contents that are named, or none
Acceptable(p, S) ==
  /\ S \subseteq Listed(p)
  /\ \A c \in S : p.app[c].state = Pending /\ ~p.app[c].removing

\* The requests for streams, in the order of contentList
Opens(S) ==
  {[i \in 1..Cardinality(S) |-> [kind |-> "set", action |-> "open", contents |-> {order[i]}]] :
     order \in {o \in [1..Cardinality(S) -> S] : \A i, j \in DOMAIN o : i < j => o[i] < o[j]}}

\* handleIncomingSessionAccept: the streams are opened before the answer.
RecvAccept ==
  LET e == "initiator"
      p == party[e]
      S == Head(wire[e]).contents
  IN /\ Receives(e, "set", "session-accept") /\ p.known
     /\ \/ /\ Acceptable(p, S)
           /\ \E opens \in Opens(S) :
                Takes(e, planStep(setStates([p EXCEPT !.state = Connecting], S, Connecting)),
                      opens \o Answer(e, "result"))
        \/ ~Acceptable(p, S) /\ Takes(e, p, Answer(e, "error"))

\* Mutant: initialIncomingUnacceptedContent keeps the deleted contents.
unlistKeepsInitial(p, S) ==
  LET q == [p EXCEPT !.app = [c \in Contents |-> IF c \in S THEN NoApp ELSE @[c]]]
  IN IF Listed(q) = {} THEN [q EXCEPT !.reason = TRUE] ELSE q

\* The contents are deleted.
unlist(p, S) ==
  LET q == [p EXCEPT !.initial = @ \ S,
                     !.app = [c \in Contents |-> IF c \in S THEN NoApp ELSE @[c]]]
  IN IF Listed(q) = {} THEN [q EXCEPT !.reason = TRUE] ELSE q

\* handleIncomingContentRemove
RecvRemove(e) ==
  LET p == party[e]
      S == Head(wire[e]).contents \intersect Listed(p)
  IN /\ Receives(e, "set", "content-remove") /\ p.known
     /\ Takes(e, planStep(unlist(finish(e, p, S), S)), Answer(e, "result"))

\* Pad::incomingSessionInfo returns at the first <received/>.
RecvInfo ==
  LET e == "initiator"
      p == party[e]
  IN /\ Receives(e, "set", "session-info") /\ p.known
     /\ \E c \in Head(wire[e]).contents :
          Takes(e, finish(e, p, {c} \intersect Listed(p)), Answer(e, "result"))

RecvTerminate(e) ==
  /\ Receives(e, "set", "session-terminate") /\ party[e].known
  /\ Takes(e, Gone, <<>>)

\* IBB::Manager::handleIncoming: the connection of a content that is there
RecvOpen ==
  LET e == "responder"
      S == Head(wire[e]).contents \intersect Listed(party[e])
  IN /\ Receives(e, "set", "open")
     /\ Takes(e, [party[e] EXCEPT !.app = [c \in Contents |->
                   IF c \in S THEN [@[c] EXCEPT !.opening = TRUE] ELSE @[c]]], <<>>)

RecvOpened ==
  LET e == "initiator"
      S == Head(wire[e]).contents
  IN /\ Receives(e, "result", "open")
     /\ Takes(e, [party[e] EXCEPT !.app = [c \in Contents |->
                   IF c \in S THEN Connects(@[c]) ELSE @[c]]], <<>>)

-----------------------------------------------------------------------------
(* JT::finished: the callback of the request, and the next step.             *)

Answers == {"session-initiate", "session-accept", "session-info", "content-remove"}

\* Mutant: no step after the answer.
answeredPlansNothing(p) == [p EXCEPT !.asked = "none"]

answered(p) == planStep([p EXCEPT !.asked = "none"])

\* trySendSessionAcceptOrInitiate: the contents that are still there
RecvAgreed(e) ==
  LET p == party[e]
  IN /\ Receives(e, "result", p.asked) /\ p.asked \in {"session-initiate", "session-accept"}
     /\ Takes(e, IF e = "initiator"
                 THEN answered(setStates([p EXCEPT !.state = Pending], Listed(p), Pending))
                 ELSE answered(setStates([p EXCEPT !.state = Active], Listed(p), Connecting)),
              <<>>)

\* Only the signal terminated: the Manager forgets a session that stays.
RecvRefused(e) ==
  LET p == party[e]
  IN /\ Receives(e, "error", p.asked) /\ p.asked \in {"session-initiate", "session-accept"}
     /\ Takes(e, answered([p EXCEPT !.known = FALSE]), <<>>)

\* Mutant: the content ends only if the peer agrees.
RecvDoneIfAgreed(e) ==
  LET p == party[e]
      S == Head(wire[e]).contents \intersect Listed(p)
  IN /\ \E kind \in {"result", "error"} : Receives(e, kind, p.asked)
     /\ p.asked \in {"session-info", "content-remove"}
     /\ Takes(e, answered(IF Head(wire[e]).kind = "result" THEN finish(e, p, S) ELSE p), <<>>)

\* The callbacks of content-remove and <received/> do not ask for success.
RecvDone(e) ==
  LET p == party[e]
      S == Head(wire[e]).contents \intersect Listed(p)
  IN /\ \E kind \in {"result", "error"} : Receives(e, kind, p.asked)
     /\ p.asked \in {"session-info", "content-remove"}
     /\ Takes(e, answered(finish(e, p, S)), <<>>)

\* The task was deleted with its session, or had no callback.
RecvLate(e) ==
  /\ \E kind \in {"result", "error"}, action \in Answers : Receives(e, kind, action)
  /\ Head(wire[e]).action # party[e].asked
  /\ Takes(e, party[e], <<>>)

-----------------------------------------------------------------------------
(* Client::disconnected at e.  Of what e sent only a part arrives.  Where    *)
(* the peer awaits an answer that does not, its task times out, or the       *)
(* server refuses its request.                                               *)
Disconnect(e) ==
  LET p == Peer(e)
      Requested(i) == wire[e][i].kind = "set" /\ wire[e][i].action = party[p].asked
      Answered(i)  == wire[p][i].kind # "set" /\ wire[p][i].action = party[p].asked
      Lost(k) == {wire[e][i] : i \in {j \in DOMAIN wire[e] : Requested(j)}}
                 \union {wire[p][i] : i \in {j \in k + 1..Len(wire[p]) : Answered(j)}}
      Refusals(k) == IF Lost(k) = {} THEN {<<>>}
                     ELSE {<<[s EXCEPT !.kind = "error"]>> : s \in Lost(k)}
  IN /\ e \notin lost /\ party[e].state \in Created..Finishing
     /\ \E k \in 0..Len(wire[p]) : \E refusal \in Refusals(k) :
          wire' = [wire EXCEPT ![e] = <<>>, ![p] = SubSeq(@, 1, k) \o refusal]
     /\ party' = [party EXCEPT ![e] = Gone]
     /\ lost' = lost \union {e}
     /\ failures < MaxFailures /\ failures' = failures + 1
     /\ UNCHANGED got

-----------------------------------------------------------------------------
User == Initiate \/ Accept \/ \E e \in Ends : Cancel(e)

Transports ==
  \E c \in Contents : \/ AcceptStream(c) \/ Transferred(c)
                     \/ \E e \in Ends : TransportReady(e, c) \/ TransportFails(e, c) \/ StreamFails(e, c)

doStep(e) == \/ StepTerminates(e) \/ StepOffers(e) \/ StepGivesUp(e) \/ StepReports(e)
             \/ StepRemoves(e) \/ StepIdles(e)

take(e) ==
  \/ e = "responder" /\ (RecvInitiate \/ RefuseInitiate \/ RecvOpen)
  \/ e = "initiator" /\ (RecvAccept \/ RecvInfo \/ RecvOpened)
  \/ RecvUnknown(e) \/ RecvRemove(e) \/ RecvTerminate(e)
  \/ RecvAgreed(e) \/ RecvRefused(e) \/ RecvDone(e) \/ RecvLate(e)

Next == \/ User \/ Transports
        \/ \E e \in Ends : doStep(e) \/ take(e) \/ Disconnect(e)

Spec == Init /\ [][Next]_vars

\* The event loop runs timers that have expired and reads what has arrived.
FairSpec ==
  /\ Spec
  /\ \A e \in Ends : WF_vars(doStep(e)) /\ WF_vars(take(e))

-----------------------------------------------------------------------------
(* Types, and that a session never waits for a content it has deleted.       *)
TypeOK ==
  /\ party \in [Ends -> Parties] /\ wire \in [Ends -> Seq(Stanzas)]
  /\ \A e \in Ends : party[e].initial \subseteq Listed(party[e])
  /\ got \subseteq Contents /\ lost \subseteq Ends /\ failures \in 0..MaxFailures

\* e, its party being p, has something to say to its peer.
HasToSend(e, p) ==
  \/ p.reason \/ FailedEarly(e, p)
  \/ p.state > Created /\ p.state # Finished
     /\ (MayOffer(e, p) \/ ReportsOf(p) \union RemovesOf(p) # {})

\* Stanzas that will end the wait of e for its answer
Awaited(e) ==
  {<<"request", i>> : i \in {j \in DOMAIN wire[Peer(e)] :
      wire[Peer(e)][j].kind = "set" /\ wire[Peer(e)][j].action = party[e].asked}}
  \union
  {<<"answer", i>> : i \in {j \in DOMAIN wire[e] :
      wire[e][j].kind # "set" /\ wire[e][j].action = party[e].asked}}

(***************************************************************************)
(* A session is never stuck with something to send (planStep, doStep).     *)
(* While it waits, exactly one stanza, its request or the answer, is under *)
(* way to end the wait;  when it does not wait and has a termination, an   *)
(* offer, a report or a removal to send, its step is planned, whichever    *)
(* callbacks ran in between.                                               *)
(***************************************************************************)
NeverStalled ==
  \A e \in Ends : IF party[e].asked # "none" THEN Cardinality(Awaited(e)) = 1
                  ELSE HasToSend(e, party[e]) => party[e].step

Ended(e) == party[e].state \in {None, Finished}

(***************************************************************************)
(* A session that is ended at one end, for whatever reason and whatever    *)
(* was under way, ends there and at the peer, unless a client was          *)
(* disconnected or the Manager of the peer has forgotten a session whose   *)
(* offer or acceptance was refused (terminate, session-terminate).         *)
(***************************************************************************)
EndReachesPeer ==
  \A e \in Ends : (party[e].reason \/ party[e].state = Finished)
                 ~> [](Ended(e) /\ (Ended(Peer(e)) \/ ~party[Peer(e)].known \/ lost # {}))

\* The responder has all files of the session, and has not put a content
\* back to Connecting whose stream was there (RecvAgreed).
AllReceived ==
  LET p == party["responder"]
  IN /\ Listed(p) # {} /\ Listed(p) \subseteq got
     /\ \A c \in Listed(p) : p.app[c].state >= Active

(***************************************************************************)
(* After the last file the session ends at both ends, by <received/>, its  *)
(* answer and session-terminate, also when contents fail or are removed    *)
(* meanwhile (tryFinalizeIncoming, takeOutgoingUpdate, the dialog).        *)
(***************************************************************************)
TransferEnds == AllReceived ~> (Ended("responder") /\ (Ended("initiator") \/ lost # {}))
=============================================================================
