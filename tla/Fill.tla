-------------------------------- MODULE Fill --------------------------------
(***************************************************************************)
(* A subscription with fills, at both ends (draft 22): the state the two   *)
(* share through REQUEST_UPDATEs and PUBLISH_STATE_NOTIFYs, the fill asked *)
(* for with the SUBSCRIBE and the Refills after it, and what each end      *)
(* works out on its own from that state: the publisher whether to open a   *)
(* fill stream and for which range, the subscriber whether one is coming   *)
(* (fill.go; remote_track.go, subscribe.go and publish_state.go as far as  *)
(* they keep that state).                                                  *)
(*                                                                         *)
(* Fill 0 is the SUBSCRIBE's, fill u the one update u asked for.  A        *)
(* goroutine is a program counter; what is done under one lock, or in one  *)
(* call of the transport, is one step.  Objects and their streams are      *)
(* Subscription's and RemoteTrack's.                                       *)
(***************************************************************************)
EXTENDS LocationFilters, FiniteSets, SequencesExt

CONSTANTS
  Places,      \* bound: Locations Objects are published at
  Forms,       \* the SUBSCRIBEs considered
  Asks,        \* the updates considered
  Changes,     \* the NotifyStates considered
  MaxUpdates,  \* bound: updates the subscriber makes
  MaxNotices   \* bound: NotifyStates the publisher makes

\* A parameter is a sequence of at most one: <<>> when it is not given.  "fill"
\* holds the LOCATION_FILTER inside FILL_PARAMETERS, itself optional.
Parameters(values) == {<<>>} \cup {<<v>> : v \in values}
Requests == [forward : Parameters(BOOLEAN), filter : Parameters(Filters),
             fill : Parameters(Parameters(Filters))]

\* Its filters can be encoded: validate, in each.  Subscribe sends no other.
Encodable(r) ==
  /\ r.filter # <<>> => Valid(r.filter[1])
  /\ r.fill # <<>> /\ r.fill[1] # <<>> => Valid(r.fill[1][1])

ASSUME FillAssumption ==
  /\ Places \subseteq Locations
  /\ Forms \subseteq {r \in Requests : Encodable(r)} /\ Asks \subseteq Requests
  /\ Changes \subseteq [paused : Parameters(BOOLEAN), filter : Parameters(Filters)]
  /\ MaxUpdates \in Nat /\ MaxNotices \in Nat

Updates == 1 .. MaxUpdates
Fills == 0 .. MaxUpdates

VARIABLES
  request,    \* request[u]: what update u asks for; 0 is the SUBSCRIBE
  made,       \* updates made
  (* The stream between the two. *)
  session,    \* FALSE: the session has ended, at both ends
  up, down,   \* what is on the way to the publisher, and to the subscriber
  (* Subscription, under its mu, and its goroutines. *)
  pub,        \* largest, joining (the Largest Object of SUBSCRIBE_OK), forward, filter
  acceptor,   \* the handler in Accept: "asked", "answered", "returned"
  reader,     \* the reader: <<>>, or the update it is at and where
  notice,     \* what NotifyStates between their two steps are to write
  notices,    \* NotifyStates made
  opened,     \* opened[f]: the publisher's side of fill f
  range,      \* the range startFill resolved for fill 0
  ending,     \* how far the publisher's ending is
  (* RemoteTrack, and its FillStreams. *)
  sub,        \* largest, paused and filter
  established,
  pending,    \* pendingUpdates, by the number of the update
  writing,    \* updates between taking their slot and their write's return
  fills,      \* the fills listed in t.fills
  attached,   \* FillStreams that have their stream
  outcome,    \* outcome[f]: "open", "complete" or "failed"
  delivery,   \* "on", "lost" (the session has ended), "over" (run has returned),
              \* "left" (by finishDelivery), "closed" (by Close)
  leaving,    \* finishDelivery's copy of the fills, while it goes through it
  abandoned,  \* attached fills whose handler has returned without an outcome
  (* History. *)
  disturbed,  \* fills the two ends resolved with different knowledge
  apart,      \* what has left the ends with different views: an update and a
              \* notification have "crossed", a notification has "overtaken"
              \* another, one could not be written ("unsaid"), or an update
              \* ("unsent")
  late        \* fills opened, or asked for, after the step that ends fills

wire == <<session, up, down>>
publisher == <<pub, acceptor, reader, notice, notices, opened, range, ending>>
subscriber == <<sub, established, pending, writing, fills, attached, outcome, delivery, leaving, abandoned>>
history == <<disturbed, apart, late>>
vars == <<request, made, wire, publisher, subscriber, history>>

------------------------------------------------------------------------------
(* Helpers.                                                                *)

Given(parameter, default) == IF parameter = <<>> THEN default ELSE parameter[1]
HasFill(u) == request[u].fill # <<>>
Later(l, m) == IF Before(l, m) THEN m ELSE l
Message(type, update, largest, paused, filter) ==
  [type |-> type, update |-> update, largest |-> largest, paused |-> paused, filter |-> filter]
FillFilter(u, filter) == Given(request[u].fill[1], filter)
Ask(forward, filter, fill) == [forward |-> forward, filter |-> filter, fill |-> fill]

\* The half of the publisher is FINed once PUBLISH_DONE is written.
SendDone == ending \in {"written", "cancelled", "ended"}

\* The reader, or Accept, has settled what it answers and not yet resolved the
\* fill that goes with it.
Resolving ==
  (IF acceptor = "answered" /\ HasFill(0) THEN {0} ELSE {})
    \cup {reader[i].update : i \in DOMAIN reader}
InFlight == writing # {} \/ up # <<>>
NoticeUnread == notice # <<>> \/ \E i \in DOMAIN down : down[i].type = "Notify"

Init ==
  /\ request \in {[u \in Fills |-> IF u = 0 THEN form ELSE Ask(<<>>, <<>>, <<>>)] : form \in Forms}
  /\ made = 0
  /\ session = TRUE /\ up = <<>> /\ down = <<>>
  /\ pub = [largest |-> NoLocation, joining |-> NoLocation, forward |-> TRUE, filter |-> NoFilter]
  /\ acceptor = "asked" /\ reader = <<>> /\ notice = <<>> /\ notices = 0
  /\ opened = [f \in Fills |-> "unasked"]
  /\ range = NoRange
  /\ ending = "no"
  /\ sub = [largest |-> NoLocation, paused |-> ~Given(request[0].forward, TRUE),
            filter |-> Given(request[0].filter, NoFilter)]
  /\ established = FALSE /\ pending = <<>> /\ writing = {}
  /\ fills = IF HasFill(0) THEN {0} ELSE {}
  /\ attached = {}
  /\ outcome = [f \in Fills |-> "open"]
  /\ delivery = "on" /\ leaving = {} /\ abandoned = {}
  /\ disturbed = {} /\ apart = {} /\ late = {}

------------------------------------------------------------------------------
(* The publisher.                                                          *)

\* What reaches the subscriber; nothing does once it has closed.
Send(m) == down' = IF delivery = "closed" \/ ~session THEN down ELSE Append(down, m)

\* Accept, up to the SUBSCRIBE_OK: the parameters become the Subscription's
\* state, and the application reports a Largest Object, or none.
AcceptAnswers(largest) ==
  /\ session /\ acceptor = "asked" /\ acceptor' = "answered"
  /\ pub' = [largest |-> largest, joining |-> largest, forward |-> Given(request[0].forward, TRUE),
             filter |-> Given(request[0].filter, NoFilter)]
  /\ Send(Message("Ok", 0, largest, <<>>, <<>>))
  /\ UNCHANGED <<request, made, session, up, reader, notice, notices, opened, range, ending,
                 subscriber, history>>

\* startFill: nothing for a paused subscription or an empty range, otherwise
\* the application's handler.  A nil handler opens and resets, as one may.
StartFill(f) ==
  LET resolved == FetchRange(FillFilter(f, pub.filter), pub.largest)
      none == ~pub.forward \/ resolved = NoRange
  IN /\ opened' = [opened EXCEPT ![f] = IF none THEN "nothing" ELSE "handed"]
     /\ range' = IF f = 0 /\ ~none THEN resolved ELSE range

AcceptReturns ==
  /\ acceptor = "answered" /\ acceptor' = "returned"
  /\ IF HasFill(0) THEN StartFill(0) ELSE UNCHANGED <<opened, range>>
  /\ UNCHANGED <<request, made, wire, pub, reader, notice, notices, ending, subscriber, history>>

\* Variant of MayPublish: Objects may be sent before Accept returns.
MayPublishEarly == acceptor # "asked" /\ ending = "no"

\* The Subscription is the application's once Accept has returned.
MayPublish == acceptor = "returned" /\ ending = "no"

\* An Object is written, or UpdateLargestObject called.
Publish(l) ==
  /\ MayPublish /\ Before(pub.largest, l)
  /\ pub' = [pub EXCEPT !.largest = l]
  /\ disturbed' = disturbed \cup Resolving
  /\ UNCHANGED <<request, made, wire, acceptor, reader, notice, notices, opened, range, ending,
                 subscriber, apart, late>>

\* Variant of MergedFilter: an explicit "no filter" is taken for an absent one.
MergedUnlessNone(given, current) ==
  IF given = <<NoFilter>> THEN current ELSE Given(given, current)

\* activeFilter: an explicit "no filter" removes the filter.
MergedFilter(given, current) == Given(given, current)

\* mergeUpdate: the parameters given replace the state.
MergeUpdate ==
  /\ up # <<>> /\ reader = <<>> /\ acceptor # "asked"
  /\ ending \notin {"cancelled", "ended"}
  /\ LET u == Head(up)
     IN /\ pub' = [pub EXCEPT !.forward = Given(request[u].forward, @),
                              !.filter = MergedFilter(request[u].filter, @)]
        /\ reader' = <<[update |-> u, at |-> "merged"]>>
  /\ up' = Tail(up)
  /\ disturbed' = IF pub' = pub THEN disturbed ELSE disturbed \cup Resolving
  /\ UNCHANGED <<request, made, session, down, acceptor, notice, notices, opened, range, ending,
                 subscriber, apart, late>>

\* applyUpdate's answer, with the Largest Object.  A write that fails ends the
\* reader.
AnswerUpdate ==
  /\ reader # <<>> /\ reader[1].at = "merged"
  /\ IF SendDone \/ ~session
     THEN reader' = <<>> /\ UNCHANGED down
     ELSE /\ Send(Message("UpdateOk", reader[1].update, pub.largest, <<>>, <<>>))
          /\ reader' = IF HasFill(reader[1].update)
                       THEN <<[reader[1] EXCEPT !.at = "answered"]>> ELSE <<>>
  /\ UNCHANGED <<request, made, session, up, pub, acceptor, notice, notices, opened, range, ending,
                 subscriber, history>>

ReaderStartsFill ==
  /\ reader # <<>> /\ reader[1].at = "answered"
  /\ reader' = <<>>
  /\ StartFill(reader[1].update)
  /\ UNCHANGED <<request, made, wire, pub, acceptor, notice, notices, ending, subscriber, history>>

\* NotifyState: the state changes under the lock, the message follows.  Of
\* several calls each does both on its own.
NotifyState(change) ==
  /\ MayPublish /\ notices < MaxNotices
  /\ pub' = [pub EXCEPT !.forward = ~Given(change.paused, ~@), !.filter = Given(change.filter, @)]
  /\ notice' = Append(notice, Message("Notify", 0, pub.largest, change.paused, change.filter))
  /\ notices' = notices + 1
  /\ disturbed' = disturbed \cup Resolving
  /\ apart' = IF InFlight THEN apart \cup {"crossed"} ELSE apart
  /\ UNCHANGED <<request, made, wire, acceptor, reader, opened, range, ending, subscriber, late>>

\* The write, of whichever call comes first.  A filter that cannot be encoded
\* fails it, and the state is not put back.
WriteNotice(i) ==
  /\ i \in DOMAIN notice /\ notice' = RemoveAt(notice, i)
  /\ LET m == notice[i]
         fails == m.filter # <<>> /\ ~Valid(m.filter[1])
     IN /\ IF fails \/ SendDone THEN UNCHANGED down ELSE Send(m)
        /\ apart' = apart \cup (IF fails THEN {"unsaid"} ELSE IF i # 1 THEN {"overtaken"} ELSE {})
  /\ UNCHANGED <<request, made, session, up, pub, acceptor, reader, notices, opened, range, ending,
                 subscriber, disturbed, late>>

\* FillRequest.Accept, or Reject: openFill, up to the FETCH_HEADER.  It fails
\* once the subscription's context has ended.
OpenFill(f) ==
  /\ opened[f] = "handed"
  /\ opened' = [opened EXCEPT ![f] = IF ending \in {"cancelled", "ended"} \/ ~session
                                     THEN "refused" ELSE "opening"]
  /\ UNCHANGED <<request, made, wire, pub, acceptor, reader, notice, notices, range, ending,
                 subscriber, history>>

\* openFill's last step: the response is one resetFills finds.
RegisterFill(f) ==
  /\ opened[f] = "opening"
  /\ opened' = [opened EXCEPT ![f] = "open"]
  /\ late' = IF ending = "ended" THEN late \cup {f} ELSE late
  /\ UNCHANGED <<request, made, wire, pub, acceptor, reader, notice, notices, range, ending,
                 subscriber, disturbed, apart>>

\* FetchResponse.Close and Reset.
EndFill(f, how) ==
  /\ opened[f] = "open" /\ how \in {"fin", "reset"}
  /\ opened' = [opened EXCEPT ![f] = how]
  /\ UNCHANGED <<request, made, wire, pub, acceptor, reader, notice, notices, range, ending,
                 subscriber, history>>

\* resetFills
AfterReset == [f \in Fills |-> IF opened[f] = "open" THEN "reset" ELSE opened[f]]

\* Close: resetFills, PUBLISH_DONE and FIN, cancel.
CloseResetsFills ==
  /\ MayPublish /\ ending' = "resetting"
  /\ opened' = AfterReset
  /\ UNCHANGED <<request, made, wire, pub, acceptor, reader, notice, notices, range, subscriber, history>>

CloseWrites ==
  /\ ending = "resetting" /\ ending' = "written"
  /\ Send(Message("Done", 0, NoLocation, <<>>, <<>>))
  /\ UNCHANGED <<request, made, session, up, pub, acceptor, reader, notice, notices, opened, range,
                 subscriber, history>>

CloseCancels ==
  /\ ending = "written" /\ ending' = "cancelled"
  /\ UNCHANGED <<request, made, wire, pub, acceptor, reader, notice, notices, opened, range,
                 subscriber, history>>

\* streamEnded: the reader is done, after cancel, the subscriber's reset or the
\* end of the session.
StreamEnded ==
  /\ reader = <<>> /\ acceptor = "returned"
  /\ ending = "cancelled" \/ (ending = "no" /\ (delivery = "closed" \/ ~session))
  /\ ending' = "ended" /\ up' = <<>>
  /\ opened' = AfterReset
  /\ UNCHANGED <<request, made, session, down, pub, acceptor, reader, notice, notices, range,
                 subscriber, history>>

------------------------------------------------------------------------------
(* The subscriber.                                                         *)

\* Variant of MayUpdate: updateMu is not held over the write.
MayUpdateBetween == TRUE
\* updateMu
MayUpdate == writing = {}

\* update, up to the write: the slot is taken and what was asked recorded.
MakeUpdate(ask) ==
  /\ established /\ made < MaxUpdates /\ MayUpdate
  /\ LET u == made + 1
         hasFill == ask.fill # <<>>
     IN /\ made' = u
        /\ request' = [request EXCEPT ![u] = ask]
        /\ pending' = Append(pending, u)
        /\ writing' = writing \cup {u}
        /\ fills' = IF hasFill THEN fills \cup {u} ELSE fills
        /\ late' = IF hasFill /\ delivery = "left" THEN late \cup {u} ELSE late
        /\ sub' = [sub EXCEPT !.paused = ~Given(ask.forward, ~@), !.filter = Given(ask.filter, @)]
  /\ disturbed' = IF ask.forward = <<>> /\ ask.filter = <<>> THEN disturbed
                  ELSE disturbed \cup {pending[i] : i \in DOMAIN pending}
  /\ apart' = IF NoticeUnread THEN apart \cup {"crossed"} ELSE apart
  /\ UNCHANGED <<wire, publisher, established, attached, outcome, delivery, leaving, abandoned>>

\* First outcome wins.
Finished(f, how) == [outcome EXCEPT ![f] = IF @ = "open" THEN how ELSE @]

WriteUpdate(u) ==
  /\ u \in writing /\ writing' = writing \ {u}
  /\ Encodable(request[u]) /\ session /\ delivery # "closed"
  /\ up' = IF ending \in {"cancelled", "ended"} THEN up ELSE Append(up, u)
  /\ UNCHANGED <<request, made, session, down, publisher, sub, established, pending, fills, attached,
                 outcome, delivery, leaving, abandoned, history>>

\* A filter cannot be encoded; or the stream is cancelled here, stopped by the
\* publisher or gone: the last slot is given back, the fill with it, and what was
\* asked stays recorded.
WriteFails(u) ==
  /\ u \in writing /\ writing' = writing \ {u}
  /\ ~Encodable(request[u]) \/ ~session \/ delivery = "closed" \/ ending \in {"cancelled", "ended"}
  /\ pending' = SubSeq(pending, 1, Len(pending) - 1)
  /\ fills' = fills \ {u}
  /\ outcome' = IF HasFill(u) THEN Finished(u, "failed") ELSE outcome
  /\ apart' = IF ~Encodable(request[u]) /\ (request[u].forward # <<>> \/ request[u].filter # <<>>)
              THEN apart \cup {"unsent"} ELSE apart
  /\ UNCHANGED <<request, made, wire, publisher, sub, established, attached, delivery, leaving,
                 abandoned, disturbed, late>>

\* Variant of ExpectedRange: FILL_PARAMETERS' own filter is overlooked.
ExpectedByOuter(f, state) == FetchRange(state.filter, state.largest)

ExpectedRange(f, state) == FetchRange(FillFilter(f, state.filter), state.largest)

\* expect, with the state the answer leaves.
Expect(f, state) ==
  outcome' = IF f \notin attached /\ (state.paused \/ ExpectedRange(f, state) = NoRange)
             THEN Finished(f, "complete") ELSE outcome

ReadsNext(type) == delivery = "on" /\ down # <<>> /\ Head(down).type = type /\ down' = Tail(down)

\* accepted
ReadOk ==
  /\ ReadsNext("Ok")
  /\ established' = TRUE
  /\ sub' = [sub EXCEPT !.largest = Head(down).largest]
  /\ IF HasFill(0) THEN Expect(0, sub') ELSE UNCHANGED outcome
  /\ UNCHANGED <<request, made, session, up, publisher, pending, writing, fills, attached, delivery,
                 leaving, abandoned, disturbed, apart, late>>

\* REQUEST_OK: the oldest update is answered.
ReadUpdateOk ==
  /\ ReadsNext("UpdateOk") /\ pending # <<>>
  /\ pending' = Tail(pending)
  /\ sub' = [sub EXCEPT !.largest = Later(@, Head(down).largest)]
  /\ IF HasFill(Head(pending)) THEN Expect(Head(pending), sub') ELSE UNCHANGED outcome
  /\ UNCHANGED <<request, made, session, up, publisher, established, writing, fills, attached, delivery,
                 leaving, abandoned, disturbed, apart, late>>

\* stateNotified
ReadNotify ==
  /\ ReadsNext("Notify")
  /\ LET m == Head(down)
     IN sub' = [largest |-> Later(sub.largest, m.largest),
                paused |-> Given(m.paused, sub.paused), filter |-> Given(m.filter, sub.filter)]
  /\ UNCHANGED <<request, made, session, up, publisher, established, pending, writing, fills, attached,
                 outcome, delivery, leaving, abandoned, history>>

\* PUBLISH_DONE and FIN: run returns.
ReadDone ==
  /\ ReadsNext("Done") /\ delivery' = "over"
  /\ UNCHANGED <<request, made, session, up, publisher, sub, established, pending, writing, fills, attached,
                 outcome, leaving, abandoned, history>>

\* finishDelivery, when the streams announced have ended or the grace period
\* has, at once when the session has: it copies the list, and then ends each
\* fill without a stream.
FinishDelivery ==
  /\ delivery \in {"lost", "over"} /\ delivery' = "left" /\ leaving' = fills
  /\ UNCHANGED <<request, made, wire, publisher, sub, established, pending, writing, fills, attached,
                 outcome, abandoned, history>>

\* RemoteTrack.Close: cancel, finishDelivery, and FillStream.Close for each.
Close ==
  /\ established /\ delivery # "closed" /\ delivery' = "closed"
  /\ leaving' = fills /\ down' = <<>>
  /\ UNCHANGED <<request, made, session, up, publisher, sub, established, pending, writing, fills, attached,
                 outcome, abandoned, history>>

\* Variant of EndsWith: a fill without a stream is left waiting for one.
EndsAttached(f) == f \in attached
\* The fills finishDelivery ends, and Close's loop.
EndsWith(f) == delivery = "closed" \/ f \notin attached

FinishFill(f) ==
  /\ f \in leaving /\ leaving' = leaving \ {f}
  /\ outcome' = IF EndsWith(f) THEN Finished(f, "failed") ELSE outcome
  /\ UNCHANGED <<request, made, wire, publisher, sub, established, pending, writing, fills, attached,
                 delivery, abandoned, history>>

\* handleFetchStream: the stream may come before the answer, or after the fill
\* was given up; then it is stopped.
AttachStream(f) ==
  /\ opened[f] \in {"opening", "open", "fin", "reset"}
  /\ f \notin attached /\ outcome[f] = "open"
  /\ attached' = attached \cup {f}
  /\ UNCHANGED <<request, made, wire, publisher, sub, established, pending, writing, fills,
                 outcome, delivery, leaving, abandoned, history>>

\* awaitOrder, the records, and responseComplete.
StreamEnds(f) ==
  /\ f \in attached \ abandoned /\ established /\ outcome[f] = "open"
  /\ opened[f] \in {"fin", "reset"}
  /\ outcome' = Finished(f, IF opened[f] = "fin" THEN "complete" ELSE "failed")
  /\ UNCHANGED <<request, made, wire, publisher, sub, established, pending, writing, fills, attached,
                 delivery, leaving, abandoned, history>>

\* The session ends: readers fail, and nothing is on its way any more.
SessionEnds ==
  /\ session /\ session' = FALSE
  /\ up' = <<>> /\ down' = <<>>
  /\ delivery' = IF delivery = "on" THEN "lost" ELSE delivery
  /\ UNCHANGED <<request, made, publisher, sub, established, pending, writing, fills, attached,
                 outcome, leaving, abandoned, history>>

\* A fill's handler when the session has ended.  One that awaits the order, or
\* its next record, ends the fill; one in deliver just returns.
HandlerFails(f) ==
  /\ ~session /\ f \in attached \ abandoned /\ outcome[f] = "open"
  /\ outcome' = Finished(f, "failed")
  /\ UNCHANGED <<request, made, wire, publisher, sub, established, pending, writing, fills, attached,
                 delivery, leaving, abandoned, history>>

DeliverFails(f) ==
  /\ ~session /\ f \in attached \ abandoned /\ outcome[f] = "open"
  /\ established /\ opened[f] # "opening"
  /\ abandoned' = abandoned \cup {f}
  /\ UNCHANGED <<request, made, wire, publisher, sub, established, pending, writing, fills, attached,
                 outcome, delivery, leaving, history>>

------------------------------------------------------------------------------
LibraryStep ==
  \/ AcceptReturns \/ MergeUpdate \/ AnswerUpdate \/ ReaderStartsFill
  \/ \E i \in 1 .. MaxNotices : WriteNotice(i)
  \/ CloseWrites \/ CloseCancels \/ StreamEnded
  \/ ReadOk \/ ReadUpdateOk \/ ReadNotify \/ ReadDone \/ FinishDelivery
  \/ \E u \in Updates : WriteUpdate(u) \/ WriteFails(u)
  \/ \E f \in Fills : RegisterFill(f) \/ FinishFill(f) \/ AttachStream(f) \/ StreamEnds(f)
                        \/ HandlerFails(f) \/ DeliverFails(f)

ApplicationStep ==
  \/ \E l \in Places \cup {NoLocation} : AcceptAnswers(l)
  \/ \E l \in Places : Publish(l)
  \/ \E change \in Changes : NotifyState(change)
  \/ \E f \in Fills : OpenFill(f) \/ EndFill(f, "fin") \/ EndFill(f, "reset")
  \/ \E ask \in Asks : MakeUpdate(ask)
  \/ CloseResetsFills \/ Close

Next == LibraryStep \/ ApplicationStep \/ SessionEnds

Spec == Init /\ [][Next]_vars

\* The library's goroutines run, at both ends, and the subscriber's application
\* takes what a stream that has ended still holds; nothing else is promised.
Fairness ==
  /\ WF_vars(AcceptReturns \/ MergeUpdate \/ AnswerUpdate \/ ReaderStartsFill \/ StreamEnded)
  /\ WF_vars(CloseWrites \/ CloseCancels)
  /\ WF_vars(ReadOk \/ ReadUpdateOk \/ ReadNotify \/ ReadDone \/ FinishDelivery)
  /\ WF_vars(\E u \in Updates : WriteUpdate(u) \/ WriteFails(u))
  /\ WF_vars(\E f \in Fills : RegisterFill(f))
  /\ WF_vars(\E f \in Fills : FinishFill(f) \/ StreamEnds(f) \/ HandlerFails(f) \/ DeliverFails(f))
FairSpec == Spec /\ Fairness

------------------------------------------------------------------------------
(* Properties.                                                             *)

Updating == writing \cup {up[i] : i \in DOMAIN up}
Merged == {reader[i].update : i \in {k \in DOMAIN reader : reader[k].at = "merged"}}
UpdateOks == {down[i].update : i \in {k \in DOMAIN down : down[k].type = "UpdateOk"}}

\* An answer carries no ID: the update it frees the slot of is the one it is the
\* answer to, and as long as answers come there is a slot for each update that is
\* being written, on its way, being applied or answered, and no other
\* (remote_track.go:372, the slot is taken before the write; 390, "updateMu keeps
\* this update's slot the last").
SlotsInOrder ==
  delivery = "on" =>
    /\ down # <<>> /\ Head(down).type = "UpdateOk" =>
         pending # <<>> /\ Head(pending) = Head(down).update
    /\ ~SendDone => {pending[i] : i \in DOMAIN pending} = UpdateOks \cup Merged \cup Updating

Quiet == /\ up = <<>> /\ down = <<>> /\ reader = <<>> /\ notice = <<>> /\ writing = {}
         /\ acceptor = "returned" /\ delivery = "on" /\ ending = "no"

\* With nothing under way the two ends have the same word for what is paused and
\* filtered, and the subscriber knows no Object the publisher does not, but for
\* what the reasons explain.
AgreeUnless(reasons) ==
  Quiet /\ apart \subseteq reasons =>
    /\ sub.paused = ~pub.forward /\ sub.filter = pub.filter
    /\ NotAfter(sub.largest, pub.largest)

\* The views agree unless an update and a notification have crossed, each end
\* then keeping the other's word for good, two notifications were written in
\* the other order, or the write of a change already made failed
\* (remote_track.go:235, what the publisher last said is "kept current";
\* publish_state.go:76, "Paused reflects it").
ViewsAgree == AgreeUnless({})

\* A change whose write fails leaves nothing to disagree about, as the
\* subscription is then over (remote_track.go:375, "A failed write leaves the
\* stream, and with it the subscription, unusable, so the state is not rolled
\* back").
FailedWriteIsFinal == AgreeUnless({"unsent"})

\* What NotifyState said last is what the subscriber has (remote_track.go:235,
\* "LargestObject and Paused are kept current").
LastNoticeStands == AgreeUnless({"overtaken"})

\* A subscriber that concludes no stream is coming is right, and one that
\* waits is not left without (fill.go:191, "the subscriber can work out the
\* same, and not wait for a stream that will never be opened"), unless the
\* publisher's state changed between its answer and startFill, a later
\* update changed the subscriber's before the answer, or their views are apart.
Answered(f) == f \in fills /\ established /\ \A i \in DOMAIN pending : pending[i] # f
StreamAsExpected ==
  apart = {} => \A f \in Fills \ (disturbed \cup attached) :
    /\ outcome[f] = "complete" => opened[f] \in {"unasked", "nothing"}
    /\ Answered(f) /\ outcome[f] = "open" => opened[f] # "nothing"

\* A subscription from the Next Object on and the open-ended fill asked for
\* with it, by a filter of its own, meet: from the fill's start on, each Object
\* is in one of the two and in one only (fill.go:378, the range is resolved after the SUBSCRIBE_OK, "so
\* the Largest Object the range is resolved against is the one the subscriber
\* was told").  A Track that has used up its IDs has no next Object.
FillMeetsSubscription ==
  /\ request[0].filter = <<NextObject>>
  /\ HasFill(0) /\ request[0].fill[1] # <<>> /\ ~HasEndGroup(FillFilter(0, NoFilter))
  /\ range # NoRange /\ pub.joining # At(MaxID, MaxID)
  => \A l \in Locations : NotAfter(range.start, l) =>
       InRange(range, l) # InRange(SubscriptionRange(NextObject, pub.joining), l)

\* A fill does not outlive its subscription: once delivery ends each fill ends,
\* with its stream or without, but for those opened or asked for after the step
\* that was to end them, and those whose handler the end of the session found
\* in deliver (remote_track.go:514, "a fill whose stream never came is over too";
\* subscribe.go:643, "a fill stream still open is reset first").
FillsEnd ==
  delivery # "on" ~> \A f \in fills \ (late \cup abandoned) : outcome[f] # "open"

\* ReadObject returns once the subscription has ended, if not by an Object by
\* an error (fill.go:125, "It returns [...] any other error if the fill failed:
\* the publisher reset the stream, the request was refused, or the subscription
\* ended first").
ReadersOfFillsReturn ==
  delivery # "on" ~> \A f \in fills \ late : outcome[f] # "open"
=============================================================================
