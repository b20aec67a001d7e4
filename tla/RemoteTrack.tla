----------------------------- MODULE RemoteTrack -----------------------------
(***************************************************************************)
(* The subscriber's half of subscriptions (remote_track.go and the stream  *)
(* handlers of session.go): SUBSCRIBE and its answer, the index that       *)
(* routes data streams by Track Alias, the goroutine that reads each data  *)
(* stream into the subscription's buffer, PUBLISH_DONE with its Stream     *)
(* Count, the wait for the streams it announced, Close, and the end of the *)
(* session.                                                                *)
(*                                                                         *)
(* The publisher and the network are the environment: a request stream     *)
(* delivers its messages in order, and everything else may overtake.       *)
(* Updates, fills and PUBLISH_STATE_NOTIFY are not in this module.         *)
(***************************************************************************)
EXTENDS Naturals, Sequences, FiniteSets

CONSTANTS
    Subs,      \* subscriptions the application may make, once each
    Tracks,    \* tracks: a namespace of several fields, and a name
    TrackOf,   \* TrackOf[s]: the track subscription s is to
    NameOf,    \* NameOf[k]: the string fullName makes of track k
    Aliases,   \* Track Aliases the publisher may choose
    Reuse,     \* it may give two subscriptions the same one
    Streams,   \* subgroup streams the publisher may open
    MaxObjects,\* bound: objects a publisher puts on one stream
    Buffer,    \* remoteTrackObjectBuffer
    Markers,   \* Session.SubgroupEndEvents
    None       \* neither a subscription nor an alias

ASSUME ConstantsAssumption ==
    /\ IsFiniteSet(Streams)
    /\ TrackOf \in [Subs -> Tracks] /\ DOMAIN NameOf = Tracks
    /\ Reuse \in BOOLEAN
    /\ MaxObjects \in Nat /\ Buffer \in Nat \ {0}
    /\ Markers \in BOOLEAN
    /\ None \notin Subs /\ None \notin Aliases

VARIABLES
    (* The publisher, and what is in flight. *)
    pub,        \* the publisher: "idle", "asked", "serving", "finished"
    alias,      \* alias[s]: the Track Alias of its SUBSCRIBE_OK, or None
    answers,    \* answers[s]: request-stream messages not yet read
    announced,  \* announced[s]: Stream Count of its PUBLISH_DONE
    owner,      \* owner[d]: the subscription stream d was opened for, or None
    sent,       \* sent[d]: objects written on d
    ending,     \* ending[d]: "open", "fin" or "reset"
    (* The subscriber: per subscription. *)
    app,        \* the application: "idle", "calling", "reading", "ended", "closed"
    reader,     \* run, on the request stream: "off", "reading", "over"
    answer,     \* established: "none", "ok" or "failed"
    done,       \* publishDone: "none", "counted" or "uncounted"
    ended,      \* endedStreams
    signal,     \* the streamEnded channel holds its one token
    waiter,     \* awaitDataStreams: "off", "check", "select", "over", or "expired"
    delivery,   \* deliveryCtx: "open", or why it was cancelled
    unrouting,  \* a finishDelivery has not yet reached unregisterTrackAlias
    objects,    \* the objects channel
    got,        \* got[s][d]: objects of d that ReadObject returned, in order
    (* The subscriber: the index and the stream handlers. *)
    pending,    \* remoteTrackIndex.pending
    slice,      \* remoteTrackIndex.byAlias: of each alias, the array its slice
                \* is in, and its length
    array,      \* array[s]: the array allocated when s was appended
    phase,      \* the handler of d: "idle", "await", "copy", "deliver", then for
                \* each subscription "mark", "count" and "signal", and "over"
    held,       \* held[d]: the slice that await read under the lock
    tracks,     \* tracks[d]: the subscriptions await returned
    todo,       \* todo[d]: those the current object, or the end, is still for
    read,       \* read[d]: objects the handler has read from d
    failed,     \* failed[d]: receive returned an error
    session     \* the session's context is alive

publisher == <<pub, alias, answers, announced, owner, sent, ending>>
index == <<pending, slice, array>>
handlers == <<phase, held, tracks, todo, read, failed>>
request == <<reader, answer, done>>
counting == <<ended, signal, waiter>>
subscriber == <<app, request, counting, delivery, unrouting, objects, got>>
vars == <<publisher, subscriber, index, handlers, session>>

\* The cause ReadObject returns: errPeerFinishedRequest after the publisher's FIN,
\* whether its streams were waited for or not, and anything else (Close, a reset,
\* the session).
Cause == {"finished", "abrupt"}

Message == {"ok", "error", "done", "uncounted", "fin", "reset"}

\* What the objects channel carries: object number n of a stream, or the
\* marker of its end.
Item == [stream : Streams, n : 1 .. MaxObjects, kind : {"object"}]
            \cup [stream : Streams, n : {0}, kind : {"fin", "reset"}]

NoSlice == [array |-> None, len |-> 0]

Init ==
    /\ pub = [s \in Subs |-> "idle"]
    /\ alias = [s \in Subs |-> None]
    /\ answers = [s \in Subs |-> <<>>]
    /\ announced = [s \in Subs |-> 0]
    /\ owner = [d \in Streams |-> None]
    /\ sent = [d \in Streams |-> 0]
    /\ ending = [d \in Streams |-> "open"]
    /\ app = [s \in Subs |-> "idle"]
    /\ reader = [s \in Subs |-> "off"]
    /\ answer = [s \in Subs |-> "none"]
    /\ done = [s \in Subs |-> "none"]
    /\ ended = [s \in Subs |-> 0]
    /\ signal = [s \in Subs |-> FALSE]
    /\ waiter = [s \in Subs |-> "off"]
    /\ delivery = [s \in Subs |-> "open"]
    /\ unrouting = [s \in Subs |-> FALSE]
    /\ objects = [s \in Subs |-> <<>>]
    /\ got = [s \in Subs |-> [d \in Streams |-> 0]]
    /\ pending = {}
    /\ slice = [a \in Aliases |-> NoSlice]
    /\ array = [s \in Subs |-> <<>>]
    /\ phase = [d \in Streams |-> "idle"]
    /\ held = [d \in Streams |-> NoSlice]
    /\ tracks = [d \in Streams |-> <<>>]
    /\ todo = [d \in Streams |-> <<>>]
    /\ read = [d \in Streams |-> 0]
    /\ failed = [d \in Streams |-> FALSE]
    /\ session = TRUE

-----------------------------------------------------------------------------
(* The publisher. *)

Send(s, messages) == answers' = [answers EXCEPT ![s] = @ \o messages]

\* newTrackAlias gives every subscription an alias of its own; other publishers
\* may let subscriptions to one track share theirs (draft-22 Section 3.1.3),
\* and one that reuses an alias for another track is refused in ReadOk.
MayUse(a) == Reuse \/ \A s \in Subs : alias[s] # a

SubscribeOk(s, a) ==
    /\ session /\ pub[s] = "asked" /\ MayUse(a)
    /\ pub' = [pub EXCEPT ![s] = "serving"]
    /\ alias' = [alias EXCEPT ![s] = a]
    /\ Send(s, <<"ok">>)
    /\ UNCHANGED <<announced, owner, sent, ending, subscriber, index, handlers, session>>

\* REQUEST_ERROR and FIN, or a reset of the request stream.
Refuse(s, messages) ==
    /\ session
    /\ \/ pub[s] = "asked" /\ messages = <<"error", "fin">>
       \/ pub[s] \in {"asked", "serving"} /\ messages = <<"reset">>
    /\ pub' = [pub EXCEPT ![s] = "finished"]
    /\ Send(s, messages)
    /\ UNCHANGED <<alias, announced, owner, sent, ending, subscriber, index, handlers, session>>

OpenSubgroup(s, d) ==
    /\ session /\ pub[s] = "serving" /\ owner[d] = None
    /\ owner' = [owner EXCEPT ![d] = s]
    /\ UNCHANGED <<pub, alias, answers, announced, sent, ending, subscriber, index, handlers, session>>

WriteObject(d) ==
    /\ session /\ owner[d] # None /\ ending[d] = "open" /\ sent[d] < MaxObjects
    /\ sent' = [sent EXCEPT ![d] = @ + 1]
    /\ UNCHANGED <<pub, alias, answers, announced, owner, ending, subscriber, index, handlers, session>>

\* Subgroup.Close and Subgroup.Reset.
EndSubgroup(d, how) ==
    /\ session /\ owner[d] # None /\ ending[d] = "open"
    /\ ending' = [ending EXCEPT ![d] = how]
    /\ UNCHANGED <<pub, alias, answers, announced, owner, sent, subscriber, index, handlers, session>>

StreamsOf(s) == {d \in Streams : owner[d] = s}

\* Subscription.Close, its streams closed first: PUBLISH_DONE and FIN.  A
\* publisher that cannot count its streams says so.
PublishDone(s, message) ==
    /\ session /\ pub[s] = "serving"
    /\ \A d \in StreamsOf(s) : ending[d] # "open"
    /\ message \in {"done", "uncounted"}
    /\ pub' = [pub EXCEPT ![s] = "finished"]
    /\ announced' = [announced EXCEPT ![s] = Cardinality(StreamsOf(s))]
    /\ Send(s, <<message, "fin">>)
    /\ UNCHANGED <<alias, owner, sent, ending, subscriber, index, handlers, session>>

-----------------------------------------------------------------------------
(* The application. *)

\* Session.Subscribe: the reader runs, the index expects an answer, and the
\* SUBSCRIBE goes out.
Subscribe(s) ==
    /\ session /\ app[s] = "idle"
    /\ app' = [app EXCEPT ![s] = "calling"]
    /\ reader' = [reader EXCEPT ![s] = "reading"]
    /\ pending' = pending \cup {s}
    /\ pub' = [pub EXCEPT ![s] = "asked"]
    /\ UNCHANGED <<alias, answers, announced, owner, sent, ending, answer, done, counting,
                   delivery, unrouting, objects, got, slice, array, handlers, session>>

\* Subscribe returns an error and cancels the request: the write failed, the
\* caller's context ended (even as the answer arrives), or the answer is no.
SubscribeFails(s) ==
    /\ app[s] = "calling"
    /\ app' = [app EXCEPT ![s] = "closed"]
    /\ UNCHANGED <<publisher, request, counting, delivery, unrouting, objects, got,
                   index, handlers, session>>

Subscribed(s) ==
    /\ app[s] = "calling" /\ answer[s] = "ok"
    /\ app' = [app EXCEPT ![s] = "reading"]
    /\ UNCHANGED <<publisher, request, counting, delivery, unrouting, objects, got,
                   index, handlers, session>>

\* finishDelivery up to unregisterTrackAlias: the first cause wins.
FinishDelivery(s, cause) ==
    /\ delivery' = [delivery EXCEPT ![s] = IF @ = "open" THEN cause ELSE @]
    /\ unrouting' = [unrouting EXCEPT ![s] = TRUE]

(* remoteTrackIndex.byAlias: a Go slice of an array that another slice may share. *)

FullName(s) == NameOf[TrackOf[s]]

\* The subscriptions under an alias, as one that holds the lock reads them.
ByAlias(a) == IF slice[a].len = 0 THEN <<>> ELSE SubSeq(array[slice[a].array], 1, slice[a].len)

\* s is at place n of the slice of its alias.
At(s, n) ==
    /\ alias[s] # None /\ n \in 1 .. slice[alias[s]].len
    /\ array[slice[alias[s]].array][n] = s

Routed(s) == \E n \in 1 .. Cardinality(Subs) : At(s, n)

\* append: into the array while it has room, else into one of twice the length.
Register(s) ==
    LET its == alias[s]
        n == slice[its].len
        fits == n > 0 /\ n < Len(array[slice[its].array])
        home == IF fits THEN slice[its].array ELSE s
    IN /\ slice' = [slice EXCEPT ![its] = [array |-> home, len |-> n + 1]]
       /\ array' = [array EXCEPT ![home] =
             IF fits THEN [@ EXCEPT ![n + 1] = s]
             ELSE ByAlias(its) \o <<s>> \o [i \in 1 .. n - 1 |-> None]]

\* Variant of Remove: the last of the slice goes, whoever it is.
RemoveLast(s, n) ==
    /\ slice' = [slice EXCEPT ![alias[s]] =
                     IF @.len = 1 THEN NoSlice ELSE [@ EXCEPT !.len = @ - 1]]
    /\ UNCHANGED array

\* append(tracks[:n], tracks[n+1:]...): those behind move up in the array.
Remove(s, n) ==
    LET from == slice[alias[s]]
        old == array[from.array]
    IN /\ slice' = [slice EXCEPT ![alias[s]] =
                        IF from.len = 1 THEN NoSlice ELSE [from EXCEPT !.len = from.len - 1]]
       /\ array' = [array EXCEPT ![from.array] =
             [i \in 1 .. Len(old) |-> IF n <= i /\ i < from.len THEN old[i + 1] ELSE old[i]]]

\* The rest of finishDelivery: remoteTrackIndex.remove.
Unroute(s) ==
    /\ unrouting[s]
    /\ unrouting' = [unrouting EXCEPT ![s] = FALSE]
    /\ \/ \E n \in 1 .. Cardinality(Subs) : At(s, n) /\ Remove(s, n)
       \/ ~Routed(s) /\ UNCHANGED <<slice, array>>
    /\ UNCHANGED <<publisher, app, request, counting, delivery, objects, got,
                   pending, handlers, session>>

Close(s) ==
    /\ app[s] = "reading"
    /\ app' = [app EXCEPT ![s] = "closed"]
    /\ FinishDelivery(s, "abrupt")
    /\ UNCHANGED <<publisher, request, counting, objects, got, index, handlers, session>>

ReadObject(s) ==
    /\ app[s] = "reading" /\ objects[s] # <<>>
    /\ objects' = [objects EXCEPT ![s] = Tail(@)]
    /\ LET item == Head(objects[s])
       IN got' = [got EXCEPT ![s][item.stream] = @ + IF item.kind = "object" THEN 1 ELSE 0]
    /\ UNCHANGED <<publisher, app, request, counting, delivery, unrouting, index, handlers, session>>

\* ReadObject returns the cause delivery ended with.
ReadEnd(s) ==
    /\ app[s] = "reading" /\ objects[s] = <<>> /\ delivery[s] # "open"
    /\ app' = [app EXCEPT ![s] = "ended"]
    /\ UNCHANGED <<publisher, request, counting, delivery, unrouting, objects, got,
                   index, handlers, session>>

-----------------------------------------------------------------------------
(* The request stream's reader: run and handleMessage. *)

\* The reader takes the next message off the stream.
Reads(s, message) ==
    /\ reader[s] = "reading" /\ answers[s] # <<>> /\ Head(answers[s]) = message
    /\ answers' = [answers EXCEPT ![s] = Tail(@)]
    /\ UNCHANGED <<pub, alias, announced, owner, sent, ending, app, ended, signal,
                   objects, got, handlers>>

ReadsOn(s, message) ==
    /\ Reads(s, message)
    /\ UNCHANGED <<reader, waiter, delivery, unrouting, session>>

\* Variant of RunEnds: delivery ends with the request stream, announced streams
\* or not.
RunEndsAtOnce(s, clean) ==
    /\ reader' = [reader EXCEPT ![s] = "over"]
    /\ answer' = [answer EXCEPT ![s] = IF @ = "none" THEN "failed" ELSE @]
    /\ pending' = pending \ {s}
    /\ FinishDelivery(s, IF clean THEN "finished" ELSE "abrupt")
    /\ UNCHANGED <<waiter, done, slice, array, session>>

\* Variant of RunEnds: an unanswered subscription stays in the index.
RunEndsPending(s, clean) ==
    /\ reader' = [reader EXCEPT ![s] = "over"]
    /\ answer' = [answer EXCEPT ![s] = IF @ = "none" THEN "failed" ELSE @]
    /\ FinishDelivery(s, IF clean THEN "finished" ELSE "abrupt")
    /\ UNCHANGED <<waiter, done, index, session>>

\* run after its read loop: an unanswered request is answered, the index
\* forgets it, and delivery stays open only for streams still to come.
RunEnds(s, clean) ==
    /\ reader' = [reader EXCEPT ![s] = "over"]
    /\ answer' = [answer EXCEPT ![s] = IF @ = "none" THEN "failed" ELSE @]
    /\ pending' = pending \ {s}
    /\ IF clean /\ done[s] = "counted" /\ ended[s] < announced[s]
       THEN /\ waiter' = [waiter EXCEPT ![s] = "check"]
            /\ UNCHANGED <<delivery, unrouting>>
       ELSE /\ FinishDelivery(s, IF clean THEN "finished" ELSE "abrupt")
            /\ UNCHANGED waiter
    /\ UNCHANGED <<done, slice, array, session>>

\* Variant of Duplicate: add does not compare the tracks.
DuplicateUnnoticed(s) == FALSE

\* remoteTrackIndex.add refuses an alias that names another track, by fullName:
\* the namespace's fields joined with "/", and the track name.
Duplicate(s) ==
    \E n \in 1 .. Len(ByAlias(alias[s])) : FullName(ByAlias(alias[s])[n]) # FullName(s)

\* accepted: the alias is registered, then established is closed.
ReadOk(s) ==
    /\ ReadsOn(s, "ok") /\ ~Duplicate(s)
    /\ pending' = pending \ {s}
    /\ Register(s)
    /\ answer' = [answer EXCEPT ![s] = "ok"]
    /\ UNCHANGED done

\* The error ends run, and then the session.
ReadDuplicate(s) ==
    /\ Reads(s, "ok") /\ Duplicate(s)
    /\ reader' = [reader EXCEPT ![s] = "over"]
    /\ answer' = [answer EXCEPT ![s] = "failed"]
    /\ pending' = pending \ {s}
    /\ unrouting' = [unrouting EXCEPT ![s] = TRUE]
    /\ delivery' = [t \in Subs |-> IF delivery[t] = "open" THEN "abrupt" ELSE delivery[t]]
    /\ session' = FALSE
    /\ UNCHANGED <<slice, array, done, waiter>>

ReadError(s) ==
    /\ ReadsOn(s, "error")
    /\ pending' = pending \ {s}
    /\ answer' = [answer EXCEPT ![s] = "failed"]
    /\ UNCHANGED <<slice, array, done>>

ReadPublishDone(s) ==
    /\ \/ ReadsOn(s, "done") /\ done' = [done EXCEPT ![s] = "counted"]
       \/ ReadsOn(s, "uncounted") /\ done' = [done EXCEPT ![s] = "uncounted"]
    /\ UNCHANGED <<answer, index>>

ReadStreamEnd(s) ==
    \/ Reads(s, "fin") /\ RunEnds(s, TRUE)
    \/ Reads(s, "reset") /\ RunEnds(s, FALSE)

\* cancel sent STOP_SENDING, or the connection is gone: the read fails.
ReadFails(s) ==
    /\ reader[s] = "reading" /\ (app[s] = "closed" \/ ~session)
    /\ RunEnds(s, FALSE)
    /\ UNCHANGED <<publisher, app, ended, signal, objects, got, handlers>>

\* Session.fail over a protocol error, Session.Close, or a lost connection:
\* every delivery context is a child of the session's.
SessionEnds ==
    /\ session
    /\ session' = FALSE
    /\ delivery' = [s \in Subs |-> IF delivery[s] = "open" THEN "abrupt" ELSE delivery[s]]
    /\ UNCHANGED <<publisher, app, request, counting, unrouting, objects, got, index, handlers>>

(* awaitDataStreams. *)

WaiterChecks(s) ==
    /\ waiter[s] = "check"
    /\ IF ended[s] >= announced[s]
       THEN /\ waiter' = [waiter EXCEPT ![s] = "over"]
            /\ FinishDelivery(s, "finished")
       ELSE /\ waiter' = [waiter EXCEPT ![s] = "select"]
            /\ UNCHANGED <<delivery, unrouting>>
    /\ UNCHANGED <<publisher, app, request, ended, signal, objects, got, index, handlers, session>>

WaiterWakes(s) ==
    /\ waiter[s] = "select" /\ signal[s]
    /\ waiter' = [waiter EXCEPT ![s] = "check"]
    /\ signal' = [signal EXCEPT ![s] = FALSE]
    /\ UNCHANGED <<publisher, app, request, ended, delivery, unrouting, objects, got,
                   index, handlers, session>>

\* Variant of WaiterGivesUp: no timer.
WaiterInsists(s, how) ==
    /\ waiter[s] = "select" /\ how = "over" /\ delivery[s] # "open"
    /\ waiter' = [waiter EXCEPT ![s] = how]
    /\ FinishDelivery(s, "finished")
    /\ UNCHANGED <<publisher, app, request, ended, signal, objects, got, index, handlers, session>>

\* The timer may fire while the wait is in its select, or delivery has ended for
\* another cause, which stands.  The application is not told of the timer.
WaiterGivesUp(s, how) ==
    /\ waiter[s] = "select"
    /\ how = "expired" \/ (how = "over" /\ delivery[s] # "open")
    /\ waiter' = [waiter EXCEPT ![s] = how]
    /\ FinishDelivery(s, "finished")
    /\ UNCHANGED <<publisher, app, request, ended, signal, objects, got, index, handlers, session>>

-----------------------------------------------------------------------------
(* The handler of a data stream: handleSubgroupStream. *)

ToPhase(d, next) == phase' = [phase EXCEPT ![d] = next]

\* The stream is accepted and its header read.
TakeStream(d) ==
    /\ session /\ phase[d] = "idle" /\ owner[d] # None
    /\ ToPhase(d, "await")
    /\ UNCHANGED <<publisher, subscriber, index, held, tracks, todo, read, failed, session>>

\* headerFailed: reset before the header arrived, so no subscription counts it.
HeaderLost(d) ==
    /\ phase[d] = "idle" /\ ending[d] = "reset"
    /\ ToPhase(d, "over")
    /\ UNCHANGED <<publisher, subscriber, index, held, tracks, todo, read, failed, session>>

\* The subscriptions byAlias has under the header's alias.
Lookup(d) == ByAlias(alias[owner[d]])

\* A known alias is not enough while a SUBSCRIBE to the same track is pending.
Ready(d) ==
    /\ Lookup(d) # <<>>
    /\ \A t \in pending : FullName(t) # FullName(Lookup(d)[1])

\* await: the alias is known.  The slice is read under the lock, and copied after
\* it is released: its array may change meanwhile.
AliasKnown(d) ==
    /\ phase[d] = "await" /\ Ready(d)
    /\ ToPhase(d, "copy")
    /\ held' = [held EXCEPT ![d] = slice[alias[owner[d]]]]
    /\ UNCHANGED <<publisher, subscriber, index, tracks, todo, read, failed, session>>

\* Each element of the copy is read by itself.
Copy(d) ==
    LET n == Len(tracks[d]) + 1
    IN /\ phase[d] = "copy"
       /\ tracks' = [tracks EXCEPT ![d] = Append(@, array[held[d].array][n])]
       /\ ToPhase(d, IF n = held[d].len THEN "deliver" ELSE "copy")
       /\ UNCHANGED <<publisher, subscriber, index, held, todo, read, failed, session>>

\* trackAliasWait, or the session, has ended: the stream goes to whoever has the
\* alias by now, which lookup copies under the lock, or is stopped.
AliasWaitEnds(d) ==
    /\ phase[d] = "await"
    /\ tracks' = [tracks EXCEPT ![d] = Lookup(d)]
    /\ ToPhase(d, IF Lookup(d) = <<>> THEN "over" ELSE "deliver")
    /\ UNCHANGED <<publisher, subscriber, index, held, todo, read, failed, session>>

\* Variant of NextObject: the next object is read before this one is delivered.
NextObjectAhead(d) ==
    /\ phase[d] = "deliver" /\ read[d] < sent[d]
    /\ read' = [read EXCEPT ![d] = @ + 1]
    /\ todo' = [todo EXCEPT ![d] = tracks[d]]
    /\ UNCHANGED <<publisher, subscriber, index, phase, held, tracks, failed, session>>

NextObject(d) ==
    /\ phase[d] = "deliver" /\ todo[d] = <<>> /\ read[d] < sent[d]
    /\ read' = [read EXCEPT ![d] = @ + 1]
    /\ todo' = [todo EXCEPT ![d] = tracks[d]]
    /\ UNCHANGED <<publisher, subscriber, index, phase, held, tracks, failed, session>>

\* subgroupStreamEnded starts, for the first or the next subscription.
ToEnd(d) == ToPhase(d, IF Markers THEN "mark" ELSE "count")

\* receive returns, and the end of the stream is for every subscription.
ReceiveReturns(d, error) ==
    /\ ToEnd(d)
    /\ todo' = [todo EXCEPT ![d] = tracks[d]]
    /\ failed' = [failed EXCEPT ![d] = error]
    /\ UNCHANGED <<publisher, subscriber, index, held, tracks, read, session>>

\* The FIN after the last object, or a failed read: a reset overtakes objects.
StreamEnds(d) ==
    /\ phase[d] = "deliver" /\ todo[d] = <<>>
    /\ \/ ending[d] = "fin" /\ read[d] = sent[d] /\ ReceiveReturns(d, FALSE)
       \/ (ending[d] = "reset" \/ ~session) /\ ReceiveReturns(d, TRUE)

\* It is the turn of t.
Turn(d, t) == todo[d] # <<>> /\ t = Head(todo[d])

\* deliver: it blocks while the buffer is full and delivery is open.
Deliver(d, t) ==
    /\ phase[d] = "deliver" /\ Turn(d, t) /\ Len(objects[t]) < Buffer
    /\ objects' = [objects EXCEPT ![t] =
                       Append(@, [stream |-> d, n |-> read[d], kind |-> "object"])]
    /\ todo' = [todo EXCEPT ![d] = Tail(@)]
    /\ UNCHANGED <<publisher, app, request, counting, delivery, unrouting, got, index,
                   phase, held, tracks, read, failed, session>>

\* Variant of DeliverFails: deliver watches the session only.
DeliverHolds(d, t) ==
    /\ phase[d] = "deliver" /\ Turn(d, t) /\ ~session
    /\ ReceiveReturns(d, TRUE)

DeliverFails(d, t) ==
    /\ phase[d] = "deliver" /\ Turn(d, t) /\ delivery[t] # "open"
    /\ ReceiveReturns(d, TRUE)

\* The marker is delivered, or given up as delivery has ended.
Marks(d, t, how) ==
    /\ phase[d] = "mark" /\ Turn(d, t)
    /\ ToPhase(d, "count")
    /\ \/ /\ Len(objects[t]) < Buffer
          /\ objects' = [objects EXCEPT ![t] = Append(@, [stream |-> d, n |-> 0, kind |-> how])]
       \/ delivery[t] # "open" /\ UNCHANGED objects
    /\ UNCHANGED <<publisher, app, request, counting, delivery, unrouting, got, index,
                   held, tracks, todo, read, failed, session>>

\* Variant of Mark: the marker says how the stream ended, not what was delivered.
MarkByEnding(d, t) == Marks(d, t, ending[d])

\* subgroupStreamEnded for one subscription: the marker, if the session asked
\* for it, then the count.
Mark(d, t) == Marks(d, t, IF failed[d] THEN "reset" ELSE "fin")

\* dataStreamEnded: the stream is counted under the subscription's lock, ...
Count(d, t) ==
    /\ phase[d] = "count" /\ Turn(d, t)
    /\ ToPhase(d, "signal")
    /\ ended' = [ended EXCEPT ![t] = @ + 1]
    /\ UNCHANGED <<publisher, app, request, signal, waiter, delivery, unrouting, objects, got,
                   index, held, tracks, todo, read, failed, session>>

\* ... and the wait is told after it is released.
Signals(d, t, token) ==
    /\ phase[d] = "signal" /\ Turn(d, t)
    /\ signal' = [signal EXCEPT ![t] = token]
    /\ todo' = [todo EXCEPT ![d] = Tail(@)]
    /\ IF Len(todo[d]) = 1 THEN ToPhase(d, "over") ELSE ToEnd(d)
    /\ UNCHANGED <<publisher, app, request, ended, waiter, delivery, unrouting, objects, got,
                   index, held, tracks, read, failed, session>>

\* Variant of Signal: the channel has no place, and nobody may be receiving.
SignalUnbuffered(d, t) == Signals(d, t, signal[t])

Signal(d, t) == Signals(d, t, TRUE)

-----------------------------------------------------------------------------

PublisherStep(s) ==
    \/ \E a \in Aliases : SubscribeOk(s, a)
    \/ \E messages \in {<<"error", "fin">>, <<"reset">>} : Refuse(s, messages)
    \/ \E d \in Streams : OpenSubgroup(s, d)
    \/ \E message \in {"done", "uncounted"} : PublishDone(s, message)

StreamStep(d) ==
    \/ WriteObject(d)
    \/ \E how \in {"fin", "reset"} : EndSubgroup(d, how)

ApplicationStep(s) ==
    \/ Subscribe(s) \/ SubscribeFails(s) \/ Subscribed(s)
    \/ Close(s) \/ ReadObject(s) \/ ReadEnd(s)

ReaderStep(s) ==
    \/ ReadOk(s) \/ ReadDuplicate(s) \/ ReadError(s) \/ ReadPublishDone(s)
    \/ ReadStreamEnd(s) \/ ReadFails(s) \/ Unroute(s)

WaiterStep(s) ==
    \/ WaiterChecks(s) \/ WaiterWakes(s)
    \/ \E how \in {"expired", "over"} : WaiterGivesUp(s, how)

HandlerStep(d) ==
    \/ TakeStream(d) \/ HeaderLost(d) \/ AliasKnown(d) \/ Copy(d) \/ AliasWaitEnds(d)
    \/ NextObject(d) \/ StreamEnds(d)
    \/ \E t \in Subs : \/ Deliver(d, t) \/ DeliverFails(d, t)
                       \/ Mark(d, t) \/ Count(d, t) \/ Signal(d, t)

Next ==
    \/ \E s \in Subs : PublisherStep(s) \/ ApplicationStep(s) \/ ReaderStep(s) \/ WaiterStep(s)
    \/ \E d \in Streams : StreamStep(d) \/ HandlerStep(d)
    \/ SessionEnds

Spec == Init /\ [][Next]_vars

\* The library's goroutines run and its timers fire; the application reads what
\* it subscribed to.  The publisher and the network promise nothing.
Fairness ==
    /\ \A s \in Subs : WF_vars(ReaderStep(s)) /\ WF_vars(WaiterStep(s))
                       /\ WF_vars(Subscribed(s)) /\ WF_vars(ReadObject(s))
    /\ \A d \in Streams : WF_vars(HandlerStep(d))

FairSpec == Spec /\ Fairness

-----------------------------------------------------------------------------
(* Properties. *)

\* The objects of d in the buffer of s, among its first k items.
Buffered(s, d, k) ==
    Cardinality({i \in 1 .. k : objects[s][i].stream = d /\ objects[s][i].kind = "object"})

\* ReadObject and PUBLISH_DONE: the application reads each stream's objects in
\* order and once, and when delivery ends with the publisher's FIN, the streams
\* were counted and the grace period did not run out, it has read all of every
\* stream that finished, whatever overtook what.
Promise == INSTANCE ObjectDelivery WITH
    written <- sent,
    received <- got,
    counted <- [s \in Subs |-> done[s] = "counted"],
    expired <- [s \in Subs |-> waiter[s] = "expired"],
    outcome <- [s \in Subs |->
        CASE app[s] = "ended" /\ delivery[s] = "finished" -> "finished"
          [] app[s] = "closed" \/ (app[s] = "ended" /\ delivery[s] # "finished") -> "cut"
          [] OTHER -> "open"]
KeepsPromise == Promise!Spec

\* The objects channel carries each stream's objects in the order of the stream,
\* none twice and none left out, up to the one its handler is delivering, and
\* subgroupStreamEnded's EndsSubgroup marker after the last: a subscription that
\* missed one is told SubgroupReset.
InOrder ==
    \A s \in Subs : \A i \in 1 .. Len(objects[s]) :
        LET item == objects[s][i]
            before == got[s][item.stream] + Buffered(s, item.stream, i)
        IN /\ item.kind = "object" => item.n = before
           /\ item.kind = "fin" => before = sent[item.stream]

\* ReadObject's doc: "after a clean PUBLISH_DONE delivery stays open until the
\* StreamCount of data streams it announced have ended, so nothing a data stream
\* carried is lost".  The application, told that the publisher finished, has read
\* all of every stream that finished.
FinishedIsComplete ==
    \A s \in Subs : app[s] = "ended" /\ delivery[s] = "finished" /\ done[s] = "counted" =>
        \A d \in StreamsOf(s) : ending[d] = "fin" => got[s][d] = sent[d]

\* The same, but for a grace period that ran out: of subscriptions that share an
\* alias, each is given all of the streams it counts, whatever becomes of the
\* others.
CountedIsComplete ==
    \A s \in Subs : app[s] = "ended" /\ delivery[s] = "finished" /\ done[s] = "counted"
                    /\ waiter[s] # "expired" =>
        \A d \in StreamsOf(s) : ending[d] = "fin" => got[s][d] = sent[d]

\* await returns "a copy, so the caller is not reading the slice we append to":
\* each subscription is in it once, and is given each object once.
EachOnce ==
    \A d \in Streams : \A i, j \in 1 .. Len(tracks[d]) : tracks[d][i] = tracks[d][j] => i = j

\* append and remove work on arrays in place: whoever joins or leaves an alias,
\* each of those that share it is routed, at one place.
SharersRouted ==
    \A s \in Subs :
        /\ answer[s] = "ok" /\ delivery[s] = "open" => Routed(s)
        /\ \A m, n \in 1 .. Cardinality(Subs) : At(s, m) /\ At(s, n) => m = n

\* remoteTrackIndex.add, Section 11.1: whatever aliases the publisher chooses,
\* an alias routes to subscriptions of one track only.
AliasNamesOneTrack ==
    \A s, t \in Subs : Routed(s) /\ Routed(t) /\ alias[s] = alias[t] => TrackOf[s] = TrackOf[t]

\* dataStreamEnded and awaitDataStreams: the token in the one-place channel is
\* enough, though it is put there after the lock is released.  The wait never
\* sleeps on a count that has been reached with nothing to wake it, neither a
\* token nor a handler about to put one.
NoLostWakeup ==
    \A s \in Subs : waiter[s] = "select" /\ ended[s] >= announced[s] =>
        signal[s] \/ \E d \in Streams : phase[d] = "signal" /\ Turn(d, s)

\* A subscription whose request stream is over ends delivery, whatever streams
\* its publisher announced and never sent, and the index forgets it: later data
\* streams are neither routed to it nor held up by it.
DeliveryEnds ==
    \A s \in Subs : reader[s] = "over" ~> delivery[s] # "open" /\ s \notin pending /\ ~Routed(s)

\* The handler of a stream that has ended returns, as long as the application
\* reads or ends its subscriptions: no data stream is held for good.
HandlersReturn ==
    \A d \in Streams : phase[d] # "idle" /\ ending[d] # "open" ~> phase[d] = "over"
==============================================================================
