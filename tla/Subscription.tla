----------------------------- MODULE Subscription -----------------------------
(***************************************************************************)
(* The publisher's half of one subscription (subscribe.go, with NotifyState *)
(* of publish_state.go, the publisher's side of fill.go and requestStream): *)
(* a SUBSCRIBE that the application's handler accepts or rejects while the  *)
(* stream's reader already takes REQUEST_UPDATEs, the fills they ask for,   *)
(* data streams, state notifications, Close, and the end of the request.   *)
(*                                                                         *)
(* Each goroutine is a program counter; what the code does under one lock, *)
(* or in one call of the transport, is one step.  The session is draft-22. *)
(***************************************************************************)
EXTENDS Naturals, Sequences, FiniteSets

CONSTANTS
    MaxUpdates,   \* bound: REQUEST_UPDATEs the subscriber sends
    Kinds,        \* what they ask for, of "pause", "resume", "fill", "range"
    OwnFill,      \* the SUBSCRIBE carries FILL_PARAMETERS
    FillHandler,  \* the session has a FillHandler
    Rejects,      \* the application may also call Reject
    Notices,      \* the states NotifyState may report, of "pause", "resume"
    Queue         \* subscriptionUpdateBuffer

ASSUME ConstantsAssumption ==
    /\ MaxUpdates \in Nat /\ Queue \in Nat \ {0}
    /\ Kinds \subseteq {"pause", "resume", "fill", "range"}
    /\ OwnFill \in BOOLEAN /\ FillHandler \in BOOLEAN /\ Rejects \in BOOLEAN
    /\ Notices \subseteq {"pause", "resume"}

VARIABLES
    (* The subscriber, and its half of the request stream. *)
    kind,        \* kind[u]: what update u asks for, once sent
    sent,        \* updates sent
    peerEnd,     \* how the subscriber ended its half: "open", "fin", "reset"
    (* The request stream (requestStream). *)
    out,         \* what this endpoint wrote, in order
    sendDone,    \* requestStream.sendDone
    readStopped, \* requestStream.readStopped
    ctx,         \* requestStream.ctx is alive
    session,     \* the session's context is alive
    (* SubscribeRequest, under its mu. *)
    answered,    \* answered
    published,   \* subscription is set
    inTime,      \* history: the request's context was alive when it was
    wanted,      \* the Forward of params: updates folded in before the answer
    (* Subscription, under its mu. *)
    forward,     \* forward
    streams,     \* streamCount
    closed,      \* closed
    announced,   \* the Stream Count Close read
    ended,       \* ended
    updates,     \* the updates channel: "none", "open", "closed"
    queued,      \* updates in it
    fill,        \* fill[f]: the fill of update f, 0 for the SUBSCRIBE's own
    registered,  \* the session's incomingSubs has the subscription
    (* Program counters. *)
    reader,      \* the goroutine of serve, at update number taken
    taken,       \* updates the reader has read
    acceptor,    \* the handler's goroutine, in Accept
    snapshot,    \* Accept's copy of params: its Forward
    rejector,    \* a goroutine in Reject
    closer,      \* closer[c]: Close, called by the application or the reader
    notifier,    \* a goroutine in NotifyState, and what it reports
    subgroup     \* a stream of the application: "none", "opened", "open", "closed"

peer == <<kind, sent, peerEnd>>
stream == <<out, sendDone, readStopped>>
request == <<answered, published, inTime, wanted>>
subscription == <<forward, streams, closed, announced, ended, updates, queued, fill>>
goroutines == <<reader, taken, acceptor, snapshot, rejector, closer, notifier, subgroup>>
vars == <<peer, stream, ctx, session, request, subscription, registered, goroutines>>

Update == 1 .. MaxUpdates
Fill == 0 .. MaxUpdates
Caller == {"app", "reader"}

Init ==
    /\ kind = [u \in Update |-> "none"] /\ sent = 0 /\ peerEnd = "open"
    /\ out = <<>> /\ sendDone = FALSE /\ readStopped = FALSE
    /\ ctx = TRUE /\ session = TRUE
    /\ answered = FALSE /\ published = FALSE /\ inTime = FALSE /\ wanted = TRUE
    /\ forward = TRUE /\ streams = 0 /\ closed = FALSE /\ announced = 0
    /\ ended = FALSE /\ updates = "none" /\ queued = 0
    /\ fill = [f \in Fill |-> IF f = 0 /\ OwnFill THEN "asked" ELSE "none"]
    /\ registered = FALSE
    /\ reader = "reading" /\ taken = 0
    /\ acceptor = "idle" /\ snapshot = TRUE /\ rejector = "idle"
    /\ closer = [c \in Caller |-> "idle"]
    /\ notifier = [state |-> "none", at |-> "idle"]
    /\ subgroup = "none"

-----------------------------------------------------------------------------
(* The subscriber and the session. *)

SendUpdate(k) ==
    /\ peerEnd = "open" /\ sent < MaxUpdates /\ k \in Kinds
    /\ sent' = sent + 1
    /\ kind' = [kind EXCEPT ![sent + 1] = k]
    /\ UNCHANGED <<peerEnd, stream, ctx, session, request, subscription, registered, goroutines>>

EndPeer(how) ==
    /\ peerEnd = "open"
    /\ peerEnd' = how
    /\ UNCHANGED <<kind, sent, stream, ctx, session, request, subscription, registered, goroutines>>

EndSession ==
    /\ session
    /\ session' = FALSE /\ ctx' = FALSE
    /\ UNCHANGED <<peer, stream, request, subscription, registered, goroutines>>

-----------------------------------------------------------------------------
(* requestStream. *)

Message(type, arg) == [type |-> type, arg |-> arg]

\* write, to the end: under mu, after sendDone has been looked at.
Writes(type, arg) ==
    /\ ~sendDone /\ session
    /\ out' = Append(out, Message(type, arg))
    /\ UNCHANGED <<sendDone, readStopped>>

\* write returns an error: our half is finished, or the transport refuses
\* because the subscriber abandoned the stream or the session is over.
WriteFails ==
    /\ sendDone \/ peerEnd = "reset" \/ ~session
    /\ UNCHANGED stream

\* closeSend.
CloseSend ==
    /\ sendDone' = TRUE
    /\ out' = IF sendDone THEN out ELSE Append(out, Message("fin", 0))
    /\ UNCHANGED readStopped

\* Variant of Cancel: it does not ask whether our half is finished.
CancelAgain ==
    /\ sendDone' = TRUE /\ readStopped' = TRUE /\ ctx' = FALSE
    /\ out' = Append(out, Message("reset", 0))

\* cancel: reset what is open, STOP_SENDING, and end the context.
Cancel ==
    /\ sendDone' = TRUE /\ readStopped' = TRUE /\ ctx' = FALSE
    /\ out' = IF sendDone THEN out ELSE Append(out, Message("reset", 0))

-----------------------------------------------------------------------------
(* Subscription. *)

\* startFill: no stream for a paused subscription, nor for a range that resolves
\* to nothing.  A fill that is started is the FillHandler's, on a goroutine of its
\* own; without one its stream is opened and reset right here.
StartFill(f) ==
    \/ fill' = [fill EXCEPT ![f] = "dropped"]
    \/ forward /\ fill' = [fill EXCEPT ![f] = "started"]

\* Whoever started f is still at it.
Rejecting(f) == ~FillHandler /\ fill[f] \in {"started", "opened", "open"}

\* openFill: the stream and its FETCH_HEADER.
OpenFill(f) ==
    /\ fill[f] = "started"
    /\ \/ ctx /\ fill' = [fill EXCEPT ![f] = "opened"]
       \/ ~ctx /\ fill' = [fill EXCEPT ![f] = "dropped"]
    /\ UNCHANGED <<peer, stream, ctx, session, request, forward, streams, closed, announced,
                   ended, updates, queued, registered, goroutines>>

\* openFill: the response is counted and put in fills, where resetFills sees it.
RegisterFill(f) ==
    /\ fill[f] = "opened"
    /\ fill' = [fill EXCEPT ![f] = "open"]
    /\ streams' = streams + 1
    /\ UNCHANGED <<peer, stream, ctx, session, request, forward, closed, announced,
                   ended, updates, queued, registered, goroutines>>

\* FetchResponse.Close and Reset, by the fill handler or for want of one.
CloseFill(f) ==
    /\ fill[f] = "open"
    /\ fill' = [fill EXCEPT ![f] = "closed"]
    /\ UNCHANGED <<peer, stream, ctx, session, request, forward, streams, closed, announced,
                   ended, updates, queued, registered, goroutines>>

\* resetFills; a response in fills that its handler closes meanwhile is done.
ResetFills == fill' = [f \in Fill |-> IF fill[f] = "open" THEN "closed" ELSE fill[f]]

\* OpenSubgroup: the stream and its header first, then the count.
OpenSubgroup ==
    /\ acceptor = "returned" /\ closer["app"] = "idle"
    /\ \/ /\ subgroup = "none" /\ ctx
          /\ subgroup' = "opened"
          /\ UNCHANGED streams
       \/ /\ subgroup = "opened"
          /\ subgroup' = "open"
          /\ streams' = streams + 1
    /\ UNCHANGED <<peer, stream, ctx, session, request, forward, closed, announced, ended,
                   updates, queued, fill, registered, reader, taken, acceptor, snapshot,
                   rejector, closer, notifier>>

CloseSubgroup ==
    /\ subgroup = "open"
    /\ subgroup' = "closed"
    /\ UNCHANGED <<peer, stream, ctx, session, request, subscription, registered, reader, taken,
                   acceptor, snapshot, rejector, closer, notifier>>

\* NotifyState applies the state under mu, and writes it after.
SetState(k) ==
    /\ acceptor = "returned" /\ notifier.at = "idle" /\ k \in Notices
    /\ forward' = (k = "resume")
    /\ notifier' = [state |-> k, at |-> "set"]
    /\ UNCHANGED <<peer, stream, ctx, session, request, streams, closed, announced, ended,
                   updates, queued, fill, registered, reader, taken, acceptor, snapshot,
                   rejector, closer, subgroup>>

NotifyState ==
    /\ notifier.at = "set"
    /\ Writes("notify", notifier.state) \/ WriteFails
    /\ notifier' = [notifier EXCEPT !.at = "over"]
    /\ UNCHANGED <<peer, ctx, session, request, subscription, registered, reader, taken,
                   acceptor, snapshot, rejector, closer, subgroup>>

\* Variant of Updates: the channel of an ended subscription stays open.
UpdatesAfterEnd ==
    /\ acceptor = "returned" /\ updates = "none"
    /\ updates' = "open"
    /\ UNCHANGED <<peer, stream, ctx, session, request, forward, streams, closed, announced,
                   ended, queued, fill, registered, goroutines>>

\* Updates: the first call makes the channel, closed if the stream is over.
Updates ==
    /\ acceptor = "returned" /\ updates = "none"
    /\ updates' = IF ended THEN "closed" ELSE "open"
    /\ UNCHANGED <<peer, stream, ctx, session, request, forward, streams, closed, announced,
                   ended, queued, fill, registered, goroutines>>

ReceiveUpdate ==
    /\ queued > 0
    /\ queued' = queued - 1
    /\ UNCHANGED <<peer, stream, ctx, session, request, forward, streams, closed, announced,
                   ended, updates, fill, registered, goroutines>>

(* Close. *)

CloserAt(c, from, to) ==
    /\ closer[c] = from
    /\ closer' = [closer EXCEPT ![c] = to]
    /\ UNCHANGED <<peer, session, request, registered, taken, acceptor, snapshot,
                   rejector, notifier, subgroup>>

\* The application calls it once it has closed the streams it opened.
CallClose ==
    /\ acceptor = "returned" /\ subgroup \in {"none", "closed"}
    /\ CloserAt("app", "idle", "reset")
    /\ UNCHANGED <<stream, ctx, subscription, reader>>

CloseResetsFills(c) ==
    /\ CloserAt(c, "reset", "claim")
    /\ ResetFills
    /\ UNCHANGED <<stream, ctx, forward, streams, closed, announced, ended, updates, queued, reader>>

CloseClaims(c) ==
    /\ \/ /\ ~closed /\ CloserAt(c, "claim", "write")
          /\ closed' = TRUE /\ announced' = streams
       \/ /\ closed /\ CloserAt(c, "claim", "over")
          /\ UNCHANGED <<closed, announced>>
    /\ UNCHANGED <<stream, ctx, forward, streams, ended, updates, queued, fill, reader>>

\* finish: PUBLISH_DONE, then FIN; without the one the other is not tried.
CloseWrites(c) ==
    /\ \/ Writes("done", announced) /\ CloserAt(c, "write", "fin")
       \/ WriteFails /\ CloserAt(c, "write", "cancel")
    /\ UNCHANGED <<ctx, subscription, reader>>

CloseFinishes(c) ==
    /\ CloserAt(c, "fin", "cancel")
    /\ CloseSend
    /\ UNCHANGED <<ctx, subscription, reader>>

CloseCancels(c) ==
    /\ CloserAt(c, "cancel", "over")
    /\ Cancel
    /\ UNCHANGED <<subscription, reader>>

-----------------------------------------------------------------------------
(* The handler: Accept and Reject. *)

AcceptorAt(from, to) ==
    /\ acceptor = from
    /\ acceptor' = to
    /\ UNCHANGED <<peer, session, ctx, reader, taken, rejector, closer, notifier, subgroup>>

AcceptReads ==
    /\ \/ ~answered /\ AcceptorAt("idle", "read") /\ snapshot' = wanted
       \/ answered /\ AcceptorAt("idle", "failed") /\ UNCHANGED snapshot
    /\ UNCHANGED <<stream, request, subscription, registered>>

\* Variant of AcceptPublishes: answered is not looked at a second time.
AcceptPublishesBlindly ==
    /\ AcceptorAt("read", "published")
    /\ answered' = TRUE /\ published' = TRUE /\ forward' = snapshot /\ inTime' = ctx
    /\ UNCHANGED <<stream, wanted, streams, closed, announced, ended, updates, queued, fill,
                   registered, snapshot>>

AcceptPublishes ==
    /\ \/ /\ ~answered /\ AcceptorAt("read", "published")
          /\ answered' = TRUE /\ published' = TRUE /\ inTime' = ctx
          /\ forward' = snapshot
       \/ /\ answered /\ AcceptorAt("read", "failed")
          /\ UNCHANGED <<answered, published, inTime, forward>>
    /\ UNCHANGED <<stream, wanted, streams, closed, announced, ended, updates, queued, fill,
                   registered, snapshot>>

AcceptRegisters ==
    /\ AcceptorAt("published", "registered")
    /\ registered' = TRUE
    /\ UNCHANGED <<stream, request, subscription, snapshot>>

AcceptWrites ==
    /\ \/ Writes("ok", 0) /\ AcceptorAt("registered", "told")
       \/ WriteFails /\ AcceptorAt("registered", "failed")
    /\ UNCHANGED <<request, subscription, registered, snapshot>>

AcceptStartsOwnFill ==
    /\ AcceptorAt("told", "early")
    /\ \/ fill[0] = "asked" /\ StartFill(0)
       \/ fill[0] = "none" /\ UNCHANGED fill
    /\ UNCHANGED <<stream, request, forward, streams, closed, announced, ended, updates, queued,
                   registered, snapshot>>

\* Accept is rejecting a fill: one that is not the reader's.
AcceptRejects == \E f \in Fill : Rejecting(f) /\ ~(reader = "notifying" /\ f = taken)

\* earlyFills is taken and emptied, and each of them started.
AcceptTakesEarlyFills ==
    /\ ~AcceptRejects /\ AcceptorAt("early", "starting")
    /\ fill' = [f \in Fill |-> IF fill[f] = "early" THEN "taken" ELSE fill[f]]
    /\ UNCHANGED <<stream, request, forward, streams, closed, announced, ended, updates, queued,
                   registered, snapshot>>

AcceptStartsFill(f) ==
    /\ acceptor = "starting" /\ fill[f] = "taken" /\ ~AcceptRejects
    /\ StartFill(f)
    /\ UNCHANGED <<peer, stream, ctx, session, request, forward, streams, closed, announced,
                   ended, updates, queued, registered, goroutines>>

AcceptReturns ==
    /\ ~AcceptRejects /\ \A f \in Fill : fill[f] # "taken"
    /\ AcceptorAt("starting", "returned")
    /\ UNCHANGED <<stream, request, subscription, registered, snapshot>>

RejectorAt(from, to) ==
    /\ rejector = from
    /\ rejector' = to
    /\ UNCHANGED <<peer, session, published, inTime, wanted, subscription, registered, reader,
                   taken, acceptor, snapshot, closer, notifier, subgroup>>

RejectClaims ==
    /\ Rejects
    /\ \/ ~answered /\ RejectorAt("idle", "write") /\ answered' = TRUE
       \/ answered /\ RejectorAt("idle", "over") /\ UNCHANGED answered
    /\ UNCHANGED <<stream, ctx>>

\* finish again.
RejectWrites ==
    /\ \/ Writes("error", 0) /\ RejectorAt("write", "fin")
       \/ WriteFails /\ RejectorAt("write", "cancel")
    /\ UNCHANGED <<answered, ctx>>

RejectFinishes ==
    /\ RejectorAt("fin", "cancel")
    /\ CloseSend
    /\ UNCHANGED <<answered, ctx>>

RejectCancels ==
    /\ RejectorAt("cancel", "over")
    /\ ctx' = FALSE
    /\ UNCHANGED <<answered, stream>>

-----------------------------------------------------------------------------
(* The reader: serve, run, handleMessage and applyUpdate. *)

ReaderAt(from, to) ==
    /\ reader = from
    /\ reader' = to
    /\ UNCHANGED <<peer, session, answered, published, inTime, acceptor, snapshot, rejector,
                   notifier, subgroup>>

\* The next update off the stream.
Take(u) ==
    /\ taken < sent /\ ~readStopped /\ session /\ u = taken + 1
    /\ taken' = u

\* Variant of FoldUpdate: the subscription is looked for before mu is taken.
FoldUpdateStale(u) ==
    /\ Take(u)
    /\ ReaderAt("reading", IF kind[u] = "range" THEN "refusing" ELSE "folded")
    /\ wanted' = IF kind[u] \in {"pause", "resume"} THEN kind[u] = "resume" ELSE wanted
    /\ fill' = IF kind[u] = "fill" THEN [fill EXCEPT ![u] = "early"] ELSE fill
    /\ UNCHANGED <<stream, ctx, forward, streams, closed, announced, ended, updates, queued,
                   registered, closer>>

\* Before the answer it folds into the request; a fill waits for the answer.
FoldUpdate(u) ==
    /\ Take(u) /\ ~published
    /\ ReaderAt("reading", IF kind[u] = "range" THEN "refusing" ELSE "folded")
    /\ wanted' = IF kind[u] \in {"pause", "resume"} THEN kind[u] = "resume" ELSE wanted
    /\ fill' = IF kind[u] = "fill" THEN [fill EXCEPT ![u] = "early"] ELSE fill
    /\ UNCHANGED <<stream, ctx, forward, streams, closed, announced, ended, updates, queued,
                   registered, closer>>

AnswerFolded ==
    /\ \/ Writes("updateOk", taken) /\ ReaderAt("folded", "reading")
       \/ Writes("updateError", taken) /\ ReaderAt("refusing", "reading")
       \/ WriteFails /\ (ReaderAt("folded", "ending") \/ ReaderAt("refusing", "ending"))
    /\ UNCHANGED <<ctx, wanted, subscription, registered, taken, closer>>

\* mergeUpdate.
MergeUpdate(u) ==
    /\ Take(u) /\ published
    /\ ReaderAt("reading", IF kind[u] = "range" THEN "failing" ELSE "merged")
    /\ forward' = IF kind[u] \in {"pause", "resume"} THEN kind[u] = "resume" ELSE forward
    /\ UNCHANGED <<stream, ctx, wanted, streams, closed, announced, ended, updates, queued, fill,
                   registered, closer>>

\* Variant of AnswerFailed: PUBLISH_DONE is all the answer a failed update gets.
AnswerFailedByClosing ==
    /\ ReaderAt("failing", "closing")
    /\ closer' = [closer EXCEPT !["reader"] = "reset"]
    /\ UNCHANGED <<stream, ctx, wanted, subscription, registered, taken>>

\* A failed update is answered and ends the subscription: Close runs here too.
AnswerFailed ==
    /\ \/ Writes("updateError", taken) /\ ReaderAt("failing", "closing")
       \/ WriteFails /\ ReaderAt("failing", "closingFailed")
    /\ closer' = [closer EXCEPT !["reader"] = "reset"]
    /\ UNCHANGED <<ctx, wanted, subscription, registered, taken>>

FailedReturns ==
    /\ closer["reader"] = "over"
    /\ ReaderAt("closing", "reading") \/ ReaderAt("closingFailed", "ending")
    /\ closer' = [closer EXCEPT !["reader"] = "idle"]
    /\ UNCHANGED <<stream, ctx, wanted, subscription, registered, taken>>

AnswerMerged ==
    /\ \/ Writes("updateOk", taken) /\ ReaderAt("merged", "answered")
       \/ WriteFails /\ ReaderAt("merged", "ending")
    /\ UNCHANGED <<ctx, wanted, subscription, registered, taken, closer>>

ReaderStartsFill ==
    /\ ReaderAt("answered", "notifying")
    /\ IF kind[taken] = "fill" THEN StartFill(taken) ELSE UNCHANGED fill
    /\ UNCHANGED <<stream, ctx, wanted, forward, streams, closed, announced, ended, updates,
                   queued, registered, taken, closer>>

\* Variant of NotifyUpdate: the send is not selected against the context.
NotifyUpdateHolds ==
    /\ \/ updates = "none" /\ ReaderAt("notifying", "reading") /\ UNCHANGED queued
       \/ /\ updates = "open" /\ queued < Queue /\ ReaderAt("notifying", "reading")
          /\ queued' = queued + 1
    /\ UNCHANGED <<stream, ctx, wanted, forward, streams, closed, announced, ended, updates,
                   fill, registered, taken, closer>>

\* Variant of NotifyUpdate: it sends on the channel nobody has asked for.
NotifyUpdateNil ==
    /\ \/ /\ updates = "open" /\ queued < Queue /\ ReaderAt("notifying", "reading")
          /\ queued' = queued + 1
       \/ updates = "open" /\ ~ctx /\ ReaderAt("notifying", "ending") /\ UNCHANGED queued
    /\ UNCHANGED <<stream, ctx, wanted, forward, streams, closed, announced, ended, updates,
                   fill, registered, taken, closer>>

\* notify blocks while the channel is full and the request goes on.
NotifyUpdate ==
    /\ ~Rejecting(taken)
    /\ \/ /\ updates = "none" /\ ReaderAt("notifying", "reading")
          /\ UNCHANGED queued
       \/ /\ updates = "open" /\ queued < Queue /\ ReaderAt("notifying", "reading")
          /\ queued' = queued + 1
       \/ /\ updates = "open" /\ ~ctx /\ ReaderAt("notifying", "ending")
          /\ UNCHANGED queued
    /\ UNCHANGED <<stream, ctx, wanted, forward, streams, closed, announced, ended, updates,
                   fill, registered, taken, closer>>

\* The read returns the FIN, or fails: reset, stopped, or no connection.
ReadEnds ==
    /\ \/ peerEnd = "fin" /\ taken = sent
       \/ peerEnd = "reset" \/ readStopped \/ ~session
    /\ ReaderAt("reading", "ending")
    /\ UNCHANGED <<stream, ctx, wanted, subscription, registered, taken, closer>>

RunReturns ==
    /\ ReaderAt("ending", "ended")
    /\ ctx' = FALSE
    /\ UNCHANGED <<stream, wanted, subscription, registered, taken, closer>>

\* Variant of StreamEnded: the subscription is looked for in the session's map,
\* where Accept puts it later.
StreamEndedUnregistered ==
    /\ \/ registered /\ registered' = FALSE /\ ReaderAt("ended", "resetting")
       \/ ~registered /\ UNCHANGED registered /\ ReaderAt("ended", "gone")
    /\ UNCHANGED <<stream, ctx, wanted, subscription, taken, closer>>

\* streamEnded: there is a subscription to end, or none yet, and then nobody ends
\* the one that Accept may still make.
StreamEnded ==
    /\ \/ published /\ registered' = FALSE /\ ReaderAt("ended", "resetting")
       \/ ~published /\ UNCHANGED registered /\ ReaderAt("ended", "gone")
    /\ UNCHANGED <<stream, ctx, wanted, subscription, taken, closer>>

StreamEndedResetsFills ==
    /\ ReaderAt("resetting", "finishing")
    /\ ResetFills
    /\ UNCHANGED <<stream, ctx, wanted, forward, streams, closed, announced, ended, updates,
                   queued, registered, taken, closer>>

StreamEndedClosesUpdates ==
    /\ ReaderAt("finishing", "over")
    /\ ended' = TRUE
    /\ updates' = IF updates = "open" THEN "closed" ELSE updates
    /\ UNCHANGED <<stream, ctx, wanted, forward, streams, closed, announced, queued, fill,
                   registered, taken, closer>>

-----------------------------------------------------------------------------

PeerStep == (\E k \in Kinds : SendUpdate(k)) \/ (\E how \in {"fin", "reset"} : EndPeer(how))

ReaderStep ==
    \/ \E u \in Update : FoldUpdate(u) \/ MergeUpdate(u)
    \/ AnswerFolded \/ AnswerFailed \/ FailedReturns \/ AnswerMerged
    \/ ReaderStartsFill \/ NotifyUpdate \/ ReadEnds \/ RunReturns
    \/ StreamEnded \/ StreamEndedResetsFills \/ StreamEndedClosesUpdates

AcceptStep ==
    \/ AcceptReads \/ AcceptPublishes \/ AcceptRegisters \/ AcceptWrites
    \/ AcceptStartsOwnFill \/ AcceptTakesEarlyFills \/ AcceptReturns
    \/ \E f \in Fill : AcceptStartsFill(f)

RejectStep == RejectClaims \/ RejectWrites \/ RejectFinishes \/ RejectCancels

CloseStep(c) ==
    CloseResetsFills(c) \/ CloseClaims(c) \/ CloseWrites(c) \/ CloseFinishes(c) \/ CloseCancels(c)

FillStep(f) == OpenFill(f) \/ RegisterFill(f) \/ CloseFill(f)

ApplicationStep ==
    \/ OpenSubgroup \/ CloseSubgroup \/ CallClose
    \/ (\E k \in Notices : SetState(k)) \/ NotifyState
    \/ Updates \/ ReceiveUpdate

Next ==
    \/ PeerStep \/ EndSession \/ ReaderStep \/ AcceptStep \/ RejectStep \/ ApplicationStep
    \/ \E c \in Caller : CloseStep(c)
    \/ \E f \in Fill : FillStep(f)

Spec == Init /\ [][Next]_vars

\* The library's goroutines run; the application and the subscriber promise
\* nothing, except that a call the application has made goes on, and that the
\* subscriber lets the publisher open the streams that it then resets.
Fairness ==
    /\ WF_vars(ReaderStep)
    /\ WF_vars(AcceptStep /\ acceptor # "idle")
    /\ \A c \in Caller : WF_vars(CloseStep(c))
    /\ ~FillHandler => \A f \in Fill : WF_vars(FillStep(f))

FairSpec == Spec /\ Fairness
-----------------------------------------------------------------------------
(* Properties. *)

\* Where messages of the given types stand in what has been written.
Written(types) == {i \in 1 .. Len(out) : out[i].type \in types}

\* Accept, Reject and Close race: the subscriber gets one answer to its
\* SUBSCRIBE, one PUBLISH_DONE at most, and none after a rejection; closeSend
\* and cancel terminate our half once, by FIN or by reset, and nothing follows.
OneEnding ==
    /\ \A i, j \in Written({"ok", "error"}) : i = j
    /\ \A i, j \in Written({"error", "done"}) : i = j
    /\ \A i \in Written({"fin", "reset"}) : i = Len(out)

\* Section 10.9: exactly one REQUEST_OK or REQUEST_ERROR per REQUEST_UPDATE, in
\* the order of the updates, whether the SUBSCRIBE was answered before or after.
OneAnswerPerUpdate ==
    LET answers == Written({"updateOk", "updateError"})
    IN /\ \A i \in answers : out[i].arg \in 1 .. taken
       /\ \A i, j \in answers : i < j => out[i].arg < out[j].arg
       /\ reader = "reading" => \A u \in 1 .. taken : \E i \in answers : out[i].arg = u

\* earlyFills: a fill asked for before the answer is started or found empty once
\* Accept returns, whichever side of the answer its update fell on.
EarlyFillsKept ==
    acceptor = "returned" => \A f \in Fill : fill[f] \notin {"asked", "early", "taken"}

\* The reader's goroutine, serve, has returned.
Served == reader \in {"over", "gone"}

\* Updates: of a subscription that was accepted while its request was alive, a
\* range over the channel terminates once the reader has returned, whether the
\* application asked for the channel before the end or after it.
RangeTerminates == inTime /\ Served => updates # "open"

\* Close ends the reader, and with it the request, also when nobody receives the
\* updates that fill the channel; and the end of the subscriber's half ends the
\* context, which is how a publisher that asked for no updates learns of it.
EndNoticed ==
    /\ \A c \in Caller : closer[c] = "cancel" ~> Served
    /\ (peerEnd # "open" /\ updates = "none") ~> (~ctx \/ updates # "none")

(* What the comments of the code say, and the code does not keep. *)

\* Updates: "The channel is closed when the subscription ends, so a range over it
\* terminates on its own".  Also that of a subscription which is accepted when
\* its subscriber is gone already.
UpdatesEnd == Served => updates # "open"

\* SubscriptionUpdate: "the accessors on Subscription are always current".  Once
\* Accept has returned, and the reader has applied and answered all it has read,
\* Forward is what the last update asked for.
Asked == SelectSeq([u \in 1 .. taken |-> kind[u]], LAMBDA k : k \in {"pause", "resume"})
StateIsCurrent ==
    (acceptor = "returned" /\ reader = "reading" /\ Asked # <<>> /\ notifier.at = "idle")
        => (forward <=> Asked[Len(Asked)] = "resume")

==============================================================================
