----------------------------- MODULE Namespaces ------------------------------
(***************************************************************************)
(* PUBLISH_NAMESPACE and SUBSCRIBE_NAMESPACE between two endpoints of the   *)
(* library (namespace.go): the requester with the goroutine that reads the *)
(* answers and turns announcements into events, and the responder with the *)
(* prefix registry of its session, its handler and its announcer.          *)
(*                                                                         *)
(* A PUBLISH_NAMESPACE is a request on which nothing is announced.          *)
(* REQUEST_UPDATE, which the library does not send for a namespace, is not *)
(* in this module.  finish and Close are one step each: nothing else is    *)
(* written once the answer or the announcer is claimed by them.            *)
(***************************************************************************)
EXTENDS Naturals, FiniteSets, SequencesExt

CONSTANTS
    Subscriptions,  \* SUBSCRIBE_NAMESPACE requests, made once each
    Publications,   \* PUBLISH_NAMESPACE requests
    Handled,        \* those for which the responder has set a handler
    Prefix,         \* Prefix[r]: the prefix subscription r asks for
    Names,          \* namespaces the responder's application announces
    MaxRequests,    \* bound: requests made
    MaxSends,       \* bound: announcements and withdrawals
    Buffer          \* namespaceEventBuffer

Request == Subscriptions \cup Publications

ASSUME ConstantsAssumption ==
    /\ Subscriptions \cap Publications = {}
    /\ Handled \subseteq Request
    /\ Prefix \in [Subscriptions -> Seq(STRING)]
    /\ Names \subseteq Seq(STRING)
    /\ MaxRequests \in Nat /\ MaxSends \in Nat /\ Buffer \in Nat \ {0}

VARIABLES
    (* The requester, per request. *)
    call,      \* the call: "idle", "waiting", "returned" or "failed"
    half,      \* its half of the stream: "none", "open", "fin" or "reset"
    outcome,   \* established and answerErr: "none", "ok", "refused" or "over"
    reader,    \* run: "off", "reading", "emitting", "closing" or "over"
    emitting,  \* the event that emit has recorded and not yet sent
    active,    \* active, and then what the closing loop has still to report
    events,    \* the events channel
    view,      \* what the application makes of the events it has received
    missed,    \* an event was given up
    fault,     \* run returns a protocol error
    (* The responder, per request. *)
    served,    \* serve: "none", "serving" or "returned"
    handling,  \* the context of its request is alive
    answer,    \* "none", "accepted", "refused", or "closed" by the announcer
    replies,   \* written on its half, and not yet read
    said,      \* namespaces announced and not withdrawn
    sends,     \* announcements written, on any request
    misused,   \* Done was called without an Announce before it
    reserved,  \* the subscriptions whose prefix prefixRegistry holds
    session    \* "up", "ended", or "blamed" for a NAMESPACE_DONE

calls == <<call, half>>
reading == <<outcome, reader, emitting, active, missed, fault>>
requester == <<calls, reading, events, view>>
announcing == <<said, sends, misused>>
serving == <<served, handling, answer, reserved>>
vars == <<requester, serving, announcing, replies, session>>

Event == [name : Names, available : BOOLEAN]

(* What the responder puts on its half of the stream. *)
Ok == <<"ok">>
Refusal == <<"error">>
Fin == <<"fin">>
Reset == <<"reset">>
News(event) == <<"news", event>>

\* Variant of Overlapping: only the same prefix overlaps.
SamePrefix(p, q) == p = q

\* overlappingPrefixes: one is a prefix of the other.
Overlapping(p, q) == IsPrefix(p, q) \/ IsPrefix(q, p)

\* namespaceSuffix: the namespaces an announcer for r can name.
Under(r) == {n \in Names : IsPrefix(Prefix[r], n)}

Init ==
    /\ call = [r \in Request |-> "idle"]
    /\ half = [r \in Request |-> "none"]
    /\ outcome = [r \in Request |-> "none"]
    /\ reader = [r \in Request |-> "off"]
    /\ emitting = [r \in Request |-> <<>>]
    /\ active = [r \in Request |-> {}]
    /\ events = [r \in Request |-> <<>>]
    /\ view = [r \in Request |-> {}]
    /\ missed = [r \in Request |-> FALSE]
    /\ fault = [r \in Request |-> FALSE]
    /\ served = [r \in Request |-> "none"]
    /\ handling = [r \in Request |-> FALSE]
    /\ answer = [r \in Request |-> "none"]
    /\ replies = [r \in Request |-> <<>>]
    /\ said = [r \in Request |-> {}]
    /\ sends = 0
    /\ misused = FALSE
    /\ reserved = {}
    /\ session = "up"

-----------------------------------------------------------------------------
(* The requester: SubscribeNamespace, PublishNamespace and the handles. *)

Calls(r, from, to) ==
    /\ call[r] = from
    /\ call' = [call EXCEPT ![r] = to]
    /\ UNCHANGED <<events, view, serving, announcing, replies, session>>

Ask(r) ==
    /\ session = "up"
    /\ Cardinality({q \in Request : call[q] # "idle"}) < MaxRequests
    /\ Calls(r, "idle", "waiting")
    /\ half' = [half EXCEPT ![r] = "open"]
    /\ reader' = [reader EXCEPT ![r] = "reading"]
    /\ UNCHANGED <<outcome, emitting, active, missed, fault>>

\* awaitEstablished
Returns(r) ==
    /\ outcome[r] = "ok"
    /\ Calls(r, "waiting", "returned")
    /\ UNCHANGED <<half, reading>>

\* requestStream.cancel: what is still open is ended, and reading stops.
Cancel(r, ending) ==
    /\ half' = [half EXCEPT ![r] = ending]
    /\ UNCHANGED reading

\* A refusal, a request that ended without an answer, or a caller that gives up,
\* which it may at any moment.
Fails(r) == Calls(r, "waiting", "failed") /\ Cancel(r, "reset")

Close(r) == half[r] = "open" /\ Calls(r, "returned", "returned") /\ Cancel(r, "fin")

Told(known, event) ==
    IF event.available THEN known \cup {event.name} ELSE known \ {event.name}

ReceiveEvent(r) ==
    /\ call[r] = "returned" /\ events[r] # <<>>
    /\ view' = [view EXCEPT ![r] = Told(@, Head(events[r]))]
    /\ events' = [events EXCEPT ![r] = Tail(@)]
    /\ UNCHANGED <<calls, reading, serving, announcing, replies, session>>

-----------------------------------------------------------------------------
(* The requester's reader: run, handleMessage and emit. *)

Withdrawn(r) == half[r] \in {"fin", "reset"}

ReaderAt(r, from, to) ==
    /\ reader[r] = from
    /\ reader' = [reader EXCEPT ![r] = to]
    /\ UNCHANGED <<calls, view, serving, announcing>>

\* The parser reads ahead, so a message may be handled after cancel.
Reads(r, message) ==
    /\ replies[r] # <<>> /\ Head(replies[r]) = message
    /\ replies' = [replies EXCEPT ![r] = Tail(@)]
    /\ UNCHANGED <<events, missed, session>>

Settle(r, what) == outcome' = [outcome EXCEPT ![r] = IF @ = "none" THEN what ELSE @]

ReadAnswer(r) ==
    /\ ReaderAt(r, "reading", "reading")
    /\ \/ Reads(r, Ok) /\ Settle(r, "ok")
       \/ Reads(r, Refusal) /\ Settle(r, "refused")
    /\ UNCHANGED <<emitting, active, fault>>

\* emit: the change is recorded, and then reported.
EmitRecords(r, event) ==
    /\ event.available \/ event.name \in active[r]
    /\ Reads(r, News(event)) /\ ReaderAt(r, "reading", "emitting")
    /\ emitting' = [emitting EXCEPT ![r] = <<event>>]
    /\ active' = [active EXCEPT ![r] = Told(@, event)]
    /\ UNCHANGED <<outcome, fault>>

\* The end of run up to its closing loop: the context is cancelled, a call that
\* waits is told, and the namespaces still active are taken for the loop.
RunEnds(r, from) == ReaderAt(r, from, "closing") /\ Settle(r, "over")

\* Variant of EmitRefuses: it looks for the suffix among the namespaces.
EmitRefusesSuffix(r, event) ==
    /\ ~event.available
    /\ Reads(r, News(event)) /\ RunEnds(r, "reading")
    /\ SubSeq(event.name, Len(Prefix[r]) + 1, Len(event.name)) \notin active[r]
    /\ fault' = [fault EXCEPT ![r] = TRUE]
    /\ UNCHANGED <<emitting, active>>

\* A NAMESPACE_DONE for a namespace never announced is a protocol error.
EmitRefuses(r, event) ==
    /\ ~event.available /\ event.name \notin active[r]
    /\ Reads(r, News(event)) /\ RunEnds(r, "reading")
    /\ fault' = [fault EXCEPT ![r] = TRUE]
    /\ UNCHANGED <<emitting, active>>

\* Variant of EmitSends: an event that finds the channel full is dropped.
EmitSendsOrDrops(r) ==
    /\ ReaderAt(r, "emitting", "reading")
    /\ events' = [events EXCEPT ![r] = IF Len(@) < Buffer THEN @ \o emitting[r] ELSE @]
    /\ emitting' = [emitting EXCEPT ![r] = <<>>]
    /\ UNCHANGED <<outcome, active, missed, fault, replies, session>>

EmitSends(r) ==
    /\ Len(events[r]) < Buffer
    /\ ReaderAt(r, "emitting", "reading")
    /\ events' = [events EXCEPT ![r] = @ \o emitting[r]]
    /\ emitting' = [emitting EXCEPT ![r] = <<>>]
    /\ UNCHANGED <<outcome, active, missed, fault, replies, session>>

\* Variant of EmitFails: emit waits for room however the request ends.
EmitWaits(r) == FALSE

\* The request has ended while emit was waiting, or as soon as it could have sent.
EmitFails(r) ==
    /\ Withdrawn(r) \/ session # "up"
    /\ RunEnds(r, "emitting")
    /\ emitting' = [emitting EXCEPT ![r] = <<>>]
    /\ missed' = [missed EXCEPT ![r] = TRUE]
    /\ UNCHANGED <<active, fault, events, replies, session>>

\* The FIN, or the stream or the session has ended.
ReadFails(r) ==
    /\ \/ Withdrawn(r) \/ session # "up"
       \/ replies[r] # <<>> /\ Head(replies[r]) \in {Fin, Reset}
    /\ RunEnds(r, "reading")
    /\ UNCHANGED <<emitting, active, missed, fault, events, replies, session>>

\* One namespace of the closing summary, given up if there is no room for it.
RunReports(r, n) ==
    /\ n \in active[r]
    /\ ReaderAt(r, "closing", "closing")
    /\ active' = [active EXCEPT ![r] = @ \ {n}]
    /\ \/ /\ Len(events[r]) < Buffer /\ UNCHANGED missed
          /\ events' = [events EXCEPT ![r] = Append(@, [name |-> n, available |-> FALSE])]
       \/ /\ Len(events[r]) >= Buffer /\ UNCHANGED events
          /\ missed' = [missed EXCEPT ![r] = TRUE]
    /\ UNCHANGED <<outcome, emitting, fault, replies, session>>

\* close(events); failIfProtocolError.
RunCloses(r) ==
    /\ active[r] = {}
    /\ ReaderAt(r, "closing", "over")
    /\ session' = IF fault[r] /\ session = "up" THEN "blamed" ELSE session
    /\ UNCHANGED <<outcome, emitting, active, missed, fault, events, replies>>

-----------------------------------------------------------------------------
(* The responder: handleBidiStream, serve, the handler and the announcer. *)

Responds(r) == UNCHANGED <<requester, session>>

Writes(r, messages) == replies' = [replies EXCEPT ![r] = @ \o messages]

\* The request arrives.  Its prefix is taken, checked and reserved in one step; it
\* is refused if it overlaps, or if there is no handler for it.
Serve(r) ==
    LET overlap == r \in Subscriptions
                   /\ \E s \in reserved : Overlapping(Prefix[s], Prefix[r])
    IN  /\ session = "up" /\ half[r] # "none" /\ served[r] = "none"
        /\ \/ /\ ~overlap /\ r \in Handled
              /\ served' = [served EXCEPT ![r] = "serving"]
              /\ handling' = [handling EXCEPT ![r] = TRUE]
              /\ reserved' = reserved \cup ({r} \cap Subscriptions)
              /\ UNCHANGED <<answer, replies>>
           \/ /\ overlap \/ r \notin Handled
              /\ served' = [served EXCEPT ![r] = "returned"]
              /\ answer' = [answer EXCEPT ![r] = "refused"]
              /\ Writes(r, <<Refusal, Fin>>)
              /\ UNCHANGED <<handling, reserved>>
        /\ Responds(r) /\ UNCHANGED announcing

\* A request that was reset before it could be read.
ServeNothing(r) ==
    /\ session = "up" /\ half[r] = "reset" /\ served[r] = "none"
    /\ served' = [served EXCEPT ![r] = "returned"]
    /\ Writes(r, <<Reset>>)
    /\ Responds(r) /\ UNCHANGED <<handling, answer, reserved, announcing>>

\* Accept, and its REQUEST_OK.
Accept(r) ==
    /\ session = "up" /\ served[r] # "none" /\ answer[r] = "none" /\ r \in Handled
    /\ answer' = [answer EXCEPT ![r] = "accepted"]
    /\ Writes(r, <<Ok>>)
    /\ Responds(r) /\ UNCHANGED <<served, handling, reserved, announcing>>

\* Reject by the handler.
Reject(r) ==
    /\ session = "up" /\ served[r] # "none" /\ answer[r] = "none" /\ r \in Handled
    /\ answer' = [answer EXCEPT ![r] = "refused"]
    /\ handling' = [handling EXCEPT ![r] = FALSE]
    /\ Writes(r, <<Refusal, Fin>>)
    /\ Responds(r) /\ UNCHANGED <<served, reserved, announcing>>

\* Announce and Done; nothing in the code keeps the application from a Done that
\* no Announce went before.
Sends(r, n, available) ==
    /\ session = "up" /\ r \in Subscriptions /\ answer[r] = "accepted"
    /\ n \in Under(r) /\ sends < MaxSends
    /\ Writes(r, <<News([name |-> n, available |-> available])>>)
    /\ sends' = sends + 1
    /\ said' = [said EXCEPT ![r] = IF available THEN @ \cup {n} ELSE @ \ {n}]
    /\ misused' = (misused \/ (~available /\ n \notin said[r]))
    /\ Responds(r) /\ UNCHANGED serving

Announce(r, n) == Sends(r, n, TRUE)
Done(r, n) == Sends(r, n, FALSE)

\* NamespaceAnnouncer.Close: FIN, and reading stops.
CloseAnnouncer(r) ==
    /\ r \in Subscriptions /\ answer[r] = "accepted"
    /\ answer' = [answer EXCEPT ![r] = "closed"]
    /\ handling' = [handling EXCEPT ![r] = FALSE]
    /\ Writes(r, <<Fin>>)
    /\ Responds(r) /\ UNCHANGED <<served, reserved, announcing>>

\* Variant of ServeEnds: a request that the peer finished keeps its context.
ServeEndsQuietly(r) ==
    /\ served[r] = "serving"
    /\ Withdrawn(r) \/ answer[r] = "closed" \/ session # "up"
    /\ served' = [served EXCEPT ![r] = "returned"]
    /\ handling' = [handling EXCEPT ![r] = @ /\ half[r] = "fin"]
    /\ reserved' = reserved \ {r}
    /\ Responds(r) /\ UNCHANGED <<answer, announcing, replies>>

\* The responder's reader finds the requester's half ended, or stopped it itself:
\* the context ends and the prefix is released.
ServeEnds(r) ==
    /\ served[r] = "serving"
    /\ Withdrawn(r) \/ answer[r] = "closed" \/ session # "up"
    /\ served' = [served EXCEPT ![r] = "returned"]
    /\ handling' = [handling EXCEPT ![r] = FALSE]
    /\ reserved' = reserved \ {r}
    /\ Responds(r) /\ UNCHANGED <<answer, announcing, replies>>

\* Either end closes the session, or the connection is lost.
EndSession ==
    /\ session = "up" /\ session' = "ended"
    /\ UNCHANGED <<requester, serving, announcing, replies>>

-----------------------------------------------------------------------------

ReaderStep(r) ==
    \/ ReadAnswer(r) \/ EmitSends(r) \/ EmitFails(r) \/ ReadFails(r) \/ RunCloses(r)
    \/ \E event \in Event : EmitRecords(r, event) \/ EmitRefuses(r, event)
    \/ \E n \in Names : RunReports(r, n)

RequestStep(r) ==
    \/ Ask(r) \/ Returns(r) \/ Fails(r) \/ Close(r) \/ ReceiveEvent(r)
    \/ ReaderStep(r)
    \/ Serve(r) \/ ServeNothing(r) \/ ServeEnds(r)
    \/ Accept(r) \/ Reject(r) \/ CloseAnnouncer(r)
    \/ \E n \in Names : Announce(r, n) \/ Done(r, n)

Next == EndSession \/ \E r \in Request : RequestStep(r)

Spec == Init /\ [][Next]_vars

\* The readers of both ends run; the applications promise nothing.
Fairness == \A r \in Request : WF_vars(ReaderStep(r)) /\ WF_vars(ServeEnds(r))

FairSpec == Spec /\ Fairness

-----------------------------------------------------------------------------
(* Properties. *)

\* prefixRegistry: no namespace falls under two subscriptions the responder serves
\* at once, whatever order requests and their endings arrive in.
OneSubscriptionPerName ==
    \A r, s \in reserved : r # s => Under(r) \cap Under(s) = {}

\* What an application that knows "known" makes of a queue of events: the last
\* one about a name counts.
After(known, queue) ==
    {n \in known \cup {queue[i].name : i \in DOMAIN queue} :
        \/ n \in known /\ \A i \in DOMAIN queue : queue[i].name # n
        \/ \E i \in DOMAIN queue :
             /\ queue[i] = [name |-> n, available |-> TRUE]
             /\ \A j \in DOMAIN queue : j > i => queue[j].name # n}

\* Namespaces: "nothing is dropped", and a range over the channel leaves the
\* application with what is active; once the channel is closed that is nothing.
\* Only an event given up at the end of the request excuses a difference.
ViewFollows ==
    \A r \in Request :
        ~missed[r] => After(view[r], events[r] \o emitting[r]) = active[r]

\* Section 10.18 as emit applies it: a session is closed for a NAMESPACE_DONE only
\* if the peer's application withdrew what it had not announced.
NoFalseAlarm == session = "blamed" => misused

\* run, Close and release: a subscription that is closed, given up or cut off lets
\* go everywhere.  Its channel is closed, even if nobody receives from it any more;
\* its handler is told, and its prefix can be asked for again.
EndingReleases == \A r \in Subscriptions :
    (reader[r] # "off" /\ (Withdrawn(r) \/ session # "up"))
        ~> (reader[r] = "over" /\ ~handling[r] /\ r \notin reserved)
==============================================================================
