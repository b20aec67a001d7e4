# A verification development for moqtransport

`moqtransport` is a Go library for Media over QUIC Transport (drafts 18 and 22).
These modules model its session layer: the handshake, request IDs, subscriptions
and their fills, fetches and namespaces, each at both ends, and the encodings
whose meaning two ends have to share. TLC checks them on small instances, and
TLAPS proves theorems about them for every value of the constants. Line numbers
refer to the files under `src/`.

## The system

One `Session` runs per connection, at each end. QUIC gives it streams that are
ordered one by one and not among each other, and unreliable datagrams.

| # | Component | State it keeps | Operations | Module |
|---|-----------|----------------|------------|--------|
| 1 | Session and handshake (`session.go`, `control_stream_pair.go`, `pending_streams.go`) | context and its cause, pair of control streams, streams held until SETUP | `Run`, `Close`, `fail`, `connectionLost`, accept loops, `hold`/`release`, `adoptRemote`, `readControlStream` | `Session` |
| 2 | Request IDs (`request_id.go`) | next ID; high-water mark and the set `ahead` | `nextID`, `use` | `RequestIDs`, `UsedIDs` |
| 3 | Request stream (`request_stream.go`) | which halves are finished, the context of the request, what is outstanding | `write`, `closeSend`, `finish`, `cancel`, `run`, `readMessage`, `awaitAnswer` | inside `Subscription`, `Fetch`, `RemoteTrack`, `Namespaces`, `Exchange` |
| 4 | Subscriber (`remote_track.go`, `subgroup.go`, `handleSubgroupStream`) | answer, object channel, ended-stream count, alias index; filter, pause and Largest Object | `Subscribe`, `ReadObject`, `Close`, `run`, `deliver`, `awaitDataStreams`, index `add`/`await`/`remove`; `Update`, `stateNotified` | `RemoteTrack`, `ObjectDelivery`; `Fill` |
| 5 | Publisher (`subscribe.go`, `publish_state.go`) | parameters, subscription, fills, pending answers | `Accept`, `Reject`, updates, `OpenSubgroup`, `NotifyState`, `Close` | `Subscription`; `Fill` for the state the updates carry |
| 6 | Fill (`fill.go`) | at the publisher its open fill streams, at the subscriber its `FillStream`s | `startFill`, `openFill`, `resetFills`; `Refill`, `expect`, attachment, `finishDelivery` | `Fill`; the races around `Accept` in `Subscription` |
| 7 | Fetch (`fetch.go`) | answer, data stream, object channel, receiver table | `Accept`, `Reject`, `WriteObject`, `Fetch`, `ReadObject`, `responseComplete` | `Fetch`; ranges in `RangeRequests` |
| 8 | Namespaces (`namespace.go`) | announced namespaces, event channel, prefix registry | `Announce`, `Done`, `emit`, `reserve`, `release` | `Namespaces` |
| 9 | Track status (`track_status.go`) | answered flag | `Accept`, `Reject`, `TrackStatus` | `Exchange` |
| 10 | Parameter scope (`parameter_check.go`, `wire2/parameter_scope.go`) | what is outstanding, so which parameters are allowed | `opened`, `check` | `Exchange`, `TypeDeltas` |
| 11 | Codecs (`internal/wire2`) | prior record of a stream, for the deltas | append and parse of headers, objects, datagrams, FETCH records, filters, parameters | `DataStreams`, `LocationFilters`, `RangeRequests`, `TypeDeltas`, `Exchange` |
| 12 | Priority mapping (`priority.go`) | none | urgency and order of a stream | not modelled |
| 13 | Datagrams (`receiveDatagrams`, `sendDatagram`) | none | route a datagram by alias | their objects in `DataStreams`; the loop not modelled |
| 14 | QUIC and WebTransport adapters, qlog, error texts, the generator, examples | none of interest | I/O | not modelled |

### How they interact

* `Run` starts the accept loops before it sends SETUP. A unidirectional stream is
  classified on a goroutine of its own; the control stream is adopted at once, the
  others are held by `pendingStreams` until `Run` releases them.
* Every request stream has a reader goroutine (`requestStream.run`), and the
  application calls into the same object from other goroutines. The two share the
  request's context, its mutex and a few channels.
* The subscriber's data streams find their subscription through
  `remoteTrackIndex`, by Track Alias. The alias is in SUBSCRIBE_OK, which the
  stream may overtake, so the handler waits (`await`). A fetch and a fill are found
  by their Request ID through `fetchReceivers`, where they are before the request
  is sent.
* PUBLISH_DONE counts the subscription's streams. It travels on the request
  stream and may overtake any of them, so the subscriber waits for as many ended
  streams (`awaitDataStreams`), for at most a grace period.
* The publisher answers a REQUEST_UPDATE on the reader goroutine and starts fills
  on others, while the application opens subgroups, notifies states and closes.
* Both ends keep the filter, the pause and the Largest Object of a subscription,
  and each works out from its own copy what a fill covers and whether a fill
  stream will come at all. No message says so.
* What parameters an answer may carry depends on what it answers. The answer does
  not say, so both ends count what is outstanding.

### What makes it hard

Streams overtake one another; an update, a reset or the loss of the connection
arrives while a call is between two of its steps; channels are bounded and their
consumer may have gone; both ends may end a request at once; both may change the
same state at once; delivery may have to end without the messages that would end
it; and much is never sent, as both ends can work it out.

## Modules

### Components

**`UsedIDs`** is the abstract specification of Request ID tracking: a growing set
of IDs, and a verdict on each ID that comes. **`RequestIDs`** has two endpoints, a
generator and a tracker each, the goroutines that are between allocating an ID
and writing it, the streams in flight and the loop of `use` with its lock.
Endpoints in `Rogue` may also write any ID of `Strays` (duplicates, gaps, the
other side's parity). Its instance of `UsedIDs`, `used` mapped to what the mark
and the holes stand for, is the property `ExactMemory`.

**`Session`** is one endpoint from `Run` to its end. `place[s]` says where a
stream of the peer is: its goroutine, a queue, handled, or gone. The peer and the
caller of `Run` decide what arrives, and when the caller's context ends. A close
takes two steps, the context and then the connection (`session.go:242-245`).

**`RemoteTrack`** is the subscriber's delivery. Per subscription: `app` (the
calls), `reader` (`run`), `waiter` (`awaitDataStreams` with its one-token channel
`streamEnded`), `delivery` (the delivery context, and whether the cause it was
cancelled with is that the publisher finished, which is all the application is told),
`objects` (the channel). Per data stream: `phase`, the program counter of
`handleSubgroupStream`. It copies the slice of its alias one element at a time after
the lock is released ("copy"), delivers each object to one subscription after the
other, and at the end of the stream, for each subscription, counts it under the lock
("count") and wakes the waiter after that ("signal"). The index is `pending`, `slice` and
`array`: Go slices that may share an array, which `append` and `remove` write to in
place (a shift of elements is one step). Tracks are compared by `NameOf`, the string
`fullName` makes of a track, which two tracks may have in common. The publisher is
any publisher the draft allows; with `Reuse` it may use one alias for two
subscriptions. **`ObjectDelivery`** is what it promises: the objects of a stream come
in order and once, and an end with the publisher's cause is complete if the publisher
counted its streams and the wait for them did not expire. The application is not told
whether it did. `MCRemoteTrack` gives constants their values.

**`Subscription`** is the publisher: `acceptor`, `rejector`, `closer`, a notifier
and the reader each have a program counter, and the steps between two lock
sections are separate actions. An update carries what changes control: a pause, a
fill, a range, or something that is refused. Without a `FillHandler` the fill's
stream is opened, and reset, by whoever starts the fill: the reader, or Accept. The
history variable `inTime` says that the request was alive when Accept took it. What
an update asks for in detail is `Fill`'s; priorities are left out.

**`Fill`** is one subscription at both ends, with the state they share. `pub` is
what the `Subscription` holds and `sub` what the `RemoteTrack` holds: Largest
Object, pause, filter. `up` and `down` are the messages on the request stream, and
`notice` what `NotifyState`s have set and not yet written, in any order. A write fails
when the stream is closed, and also on a live one, when a filter cannot be encoded:
`WriteFails` and `WriteNotice` then leave the state as it was changed. (A refusal by the
parameter check, which a conforming caller does not meet, would have the same effect.)
`opened[f]` is the publisher's side of fill `f`, from `startFill` to the end of the
stream; `fills`, `attached` and `outcome[f]` are the subscriber's. A handler may return
without an outcome: `DeliverFails`, after the end of the session, puts its fill in
`abandoned`. Fill 0 is the SUBSCRIBE's, fill `u` the one update `u` asked for. Three
history variables name the situations in which the ends may part (below): `disturbed`
and `late` hold fills, and `apart` holds reasons for different views: an update and a
notification have "crossed", a notification has "overtaken" another, one was never
sent ("unsaid"), or an update was not ("unsent"). `MCFill` gives the SUBSCRIBEs, updates
and notifications considered.

**`Fetch`** has both ends of one FETCH: `Accept`/`Reject` and the response stream
at the publisher; `Session.fetch`, the reader, `handleFetchStream` with
`responseComplete`, and `ReadObject` at the subscriber. The race the comment at
`fetch.go:545-548` describes, an answer recorded but not yet signalled, is the
step between `ReadAnswer` and `Establish`.

**`Namespaces`** has both ends of SUBSCRIBE_NAMESPACE and PUBLISH_NAMESPACE. At the
requester: the call, the reader (`run`) with the step between recording a change
(`EmitRecords`) and reporting it (`EmitSends`, `EmitFails`), the event channel, and
`view`, what an application that folds its events believes. At the responder: the
prefix registry, the handler's one answer and the announcer. After the reader has
ended `active` stands for the slice the closing loop walks. `MCNamespaces` gives
the prefixes and names their values.

### The wire

Bytes are abstracted to fields; the varint itself is a library outside the
repository. What is kept is what an encoding means: deltas, flags, the values that
have a second meaning, and the width of the integers. `MaxID` stands for 2^64-1,
and arithmetic wraps where the code's does.

**`TypeDeltas`** has the encoding of ascending types as deltas, which parameters
and properties share. An entry's place is one more than the entries before it, which
is what a stable sort gives.

**`LocationFilters`** has locations, the filters an application builds
(`filter.go`) and the ranges they select (`SubscriptionRange`, `FetchRange`), as
both ends compute them.

**`RangeRequests`** takes one SUBSCRIBE with its filter, or one FETCH with the
subscription it joins, from the caller at one end through the encoding of either
draft to the other end, and the End Location of FETCH_OK back.

**`DataStreams`** is a writer, a frame and a reader. `w` and `r` are what each
remembers of the stream: the prior object, from which group, subgroup, object ID
and priority of the next are deltas or left out. `kind` says whether it is a
subgroup stream, a datagram or the response to a FETCH, whose records are objects
and End-of-Range markers.

**`Exchange`** is one request stream at both ends, with the parameter check of
each: what each has outstanding (`opened`), the messages on the way, and the
verdict. A message may have a field that is `long`, longer than its reader takes and
its writer cares about: a reason phrase over 1024 bytes, a namespace or a prefix of
more than 32 fields. `Bounded` says which messages have such a field. (PUBLISH_DONE, whose
reason phrase has the same limit, is not among the messages of this module.) A
TRACK_STATUS request is modelled whole: its caller, its handler, which claims the
request before it writes the answer and may then fail to encode it, and their every
ending.

**`MCWire`** puts `RequestIDs`, `RangeRequests`, `DataStreams` and `Exchange` side by
side. They share no state, so each is explored with the others at rest.

### Proofs

`RequestIDsProofs`, `SessionProofs`, `RemoteTrackProofs`, `SubscriptionProofs`,
`FillProofs`, `FetchProofs` and `NamespacesProofs` hold the theorems of the modules they
are named after. `WireProofs` holds those of `RangeRequests`, `Exchange` and
`DataStreams`, and what they need of `TypeDeltas` and `LocationFilters`.

Some definitions are headed "Variant of ..." in the comment above them. They
are the plausible slips (a dropped check, a step too early, a lock not taken)
that each property was tested against: with the variant in place of the
definition, TLC reports the property.

## Runs

| Run | Question | Bounds |
|-----|----------|--------|
| `session` | The handshake against overtaking streams and every ending | one data stream, two requests for a queue of one, two control streams |
| `remote_track_one` | Order, completeness and the count of ended streams | one subscription, two streams with two objects between them, a channel of one: a full channel, a wrong count and a stream in flight at every moment; what follows Close is left to `remote_track_live` |
| `remote_track_live` | Does an alias ever name two tracks, is everyone who shares one routed, does delivery end, and does everything let go? | three subscriptions, two of them to one track, that may share an alias (an array of the index has room, is full, and is left), or one subscription with one stream of two objects; a channel of one |
| `subscription_safe` | Accept, Reject, Close, updates and fills racing: one answer and one ending, and no fill forgotten | one update of a fill, a range or a pause, one fill on the SUBSCRIBE, a queue of one |
| `subscription_live` | One answer per update; does everything end? | two updates, one of which may be refused, a queue of one |
| `fill` | Do both ends work out the same, and does every fill end? | `MaxID` 1, objects at two places; in a live session a SUBSCRIBE's fill, updates, notifications and an ending, at most two together (each pair of them crosses, two notifications overtake each other, and some cannot be encoded); or a SUBSCRIBE's fill and two updates that ask for one, with every ending, the session's among them |
| `fetch` | Completion, teardown, and the answer racing the response | two records, a channel of one |
| `namespaces` | Does the application know what is active, do prefixes stay apart, does every ending let go? | at most two of two overlapping subscriptions and a publication without a handler; two announcements or withdrawals of one name; a channel of one |
| `wire` | Is an ID of a conforming peer ever refused, is the compact memory of IDs exact, and does each end read what the other meant? | request IDs up to 4 and strays up to 7: gaps of two, duplicates above and below the mark, and the wrong parity all occur; both drafts; `MaxID` 2, so the first ID, the last and one between, and every delta that wraps; three messages of each end of a request stream: an answer, an update and its answer, in any overlap |

Each of the following checks one sentence of the documentation, and TLC finds a run
of the code that contradicts it. The bounds are the smallest in which it happens.

| Run | What happens |
|-----|--------------|
| `subscription_state` | an update handled during Accept is answered and lost |
| `subscription_end` | the subscriber's FIN comes before Accept: nobody closes the updates channel |
| `fetch_end` | a response that was reset ends in `ErrFetchComplete` |

The bounds are small because every hazard is a race of a few steps. Two objects
show order; a channel of one is as full as a channel of any size; two streams are
enough to be counted wrongly. A prior record and a next one are all that a delta
speaks of. Two messages are enough to cross, or to overtake each other.

Two runs explore two instances at once. In `remote_track_live`, `OneAtATimeNext` has
streams only with one subscription, and several subscriptions only without streams;
these are not refused, and the end of the session is left out where it does not change
the index. In `fill` the next-state relation of `MCSpec` is that of `Fill` within the two
bounds of the table. Both leave out steps of the applications, of the publisher and the
end of the session only, for which no fairness is assumed, so what must eventually
happen is not affected.

Deadlock is not checked where the system may stop: after the session has ended
nothing moves.

### Fairness

Liveness is checked under weak fairness of the library's own goroutines (they
run when they can) and of its timers (they fire). The peer is never fair: it may
stop sending at any time.

* `Fetch` and `RemoteTrack` have an application that goes on reading until it gets an
  error, as the documentation of `ReadObject` asks of it.
* In `Subscription` no application is fair except in a call of `Accept` or `Close`
  that has begun. Where the reader itself opens and resets a fill's stream, as it does
  without a `FillHandler`, the subscriber is assumed to grant the stream: `openUniStream`
  blocks for as long as it does not, and with it the reader (`fill.go:417-421`).
* In `Session` the goroutines of the handshake are fair, and neither the peer nor the
  caller of `Run` is.
* In `Namespaces` the two readers are fair and both applications may stop at any
  moment.
* In `Fill` the library's goroutines at both ends are fair, and the subscriber's
  application takes what an ended stream still holds. Neither application need
  close, update, or end a fill.
* In `Exchange` the two readers and the caller's return are fair. A handler need
  never answer.

## Proofs

Each proof module has an inductive invariant for each specification, a conjunction of
named parts (`IInv`, `FillIInv`, `ExchangeIInv`, `DataIInv`, ...), with a lemma per action
or per part that it is kept. TLC checked the invariants on the small instances before
they were proved.

`RequestIDsProofs`, for every `MaxRequestID`, every `Strays` and every `Rogue`:

* `TypeCorrect`: the type invariant.
* `HolesKept`: while no goroutine is in the loop of `use`, every ID in `ahead` is
  above the mark.
* `MemoryIsExact`: `RequestIDs` implements `UsedIDs`. The mark alone cannot say
  what was used, so the mapping is the IDs below the mark, of the right parity,
  and those in `ahead`; `Absorb` moves an ID from one to the other, which is a
  stutter of `UsedIDs`.
* `ConformingPeersAgree`: an endpoint never refuses an ID of a peer that numbers
  as the library does. `NeverRefused` is not inductive. The invariant adds that
  every ID in flight is below its sender's next ID, has its parity, is in flight
  once, and has not been used by the receiver.

`SessionProofs`, for any set of streams and any limit: `TypeCorrect` (with the bound
on each queue), `SetupFirst`, `NoneStranded` and `OwnCause`. The invariant says what
each step of `Run` implies: past the wait the peer's SETUP is known, a queue is
released exactly when `Run` is past its release, a stream is held only before and
handled only after that. The bound on a queue counts the stream that `hold` adds.
`OwnCause` needs that an accept loop which saw a live session found the connection
lost by itself, and that a close of ours comes after the context has ended.

`RemoteTrackProofs`, for any subscriptions, tracks, aliases and streams:

* `OneTrackPerAlias`, of tracks whose names `fullName` keeps apart: the theorem assumes
  it, as it is false of others. The check in `add` compares names that are registered,
  so the invariant has to say that an alias does not change once its SUBSCRIBE_OK is
  written, which is that a subscription in the index has been answered (`Progress`), and
  that `append` and `remove`, which work on shared arrays, put no subscription in a
  slice but under its own alias (`RoutesInv`).
* `WakeupsKept`: a waiter whose count has been reached finds the token, or a handler that
  has counted a stream and not yet signalled it. `Progress` again says that the Stream
  Count is fixed before anyone waits for it.

and, for any buffers, if each subscription has an alias of its own (`~Reuse`):

* `ObjectsInOrder`. The invariant counts: what a subscription has been given of a
  stream, whether read or still in its channel, is what the handler has read of the
  stream, or one less while an Object is being delivered to it (`DeliveredInv`). With a
  shared alias it is false, as a subscription may be in the handler's copy twice.
* `PromiseKept`: `RemoteTrack` implements `ObjectDelivery`. `ReadEnd` is the step that
  needs an argument: delivery ended by the count says that every stream's end was
  delivered, for the count is of streams that are over (`CountInv`), of this subscription
  only (`AliasInv`), and as many as were announced. A stream whose handler failed, though
  it had finished, had a delivery that was given up (`GivenUpInv`). With a shared alias
  the count may be of another subscription's streams; a publisher of this library never
  shares one.

`SubscriptionProofs`, for any number of updates and fills:

* `OneEndingOnly`, `EachUpdateAnsweredOnce`: what is on the stream follows from which
  goroutine has claimed what. `AnswerInv` and `CloseInv` say which steps of Accept,
  Reject and Close exclude one another, `WrittenInv` how many messages of each type
  that makes, and `UpdateInv` that the answers written are those of the updates
  behind the reader, in order.
* `EarlyFillsStarted`: a fill asked for is put aside, held by Accept or started.
* `RangesEnd`: of a subscription accepted while its request was alive, the updates
  channel is closed once the reader has returned. `TimeInv` says what that hypothesis
  gives: the reader has not passed `streamEnded` while `r.subscription` was unset.

`FillProofs`, for any updates, notifications, filters and Locations, and any number of
them. What one end has changed is somewhere on its way to the other, and `FillIInv`
says, for each place it may be in, what the ends will have when it gets there:

* `AnswersFreeTheirSlots`. An answer has no ID; the subscriber takes it for the answer
  to its oldest update. The slots are the updates being written, on their way, merged,
  and answered with the answer on its way (`SlotsInv`), and each of these is before the
  next in the order of the numbers (`InOrder`), so the first answer has the first slot.
  That a second update waits for the first one's write (`updateMu`) is what keeps it.
* `EndsAgree`, while `apart` is empty. Applying the updates on their way to the
  publisher's view gives the subscriber's (`UpdatesTell`); applying the messages on their
  way to the subscriber's, and the notification that has been set and not written, gives
  the publisher's (`NoticesTell`). The first holds while no notification is on its way,
  the second while no update is, and when nothing is they say the same thing, that the
  ends agree. Only the last value given for a parameter counts (`LastOf`).
* `StreamsComeAsExpected`, while `apart` is empty. A fill is followed from end to end. While its update is on
  its way no later update changes the view (`OnItsWay`); once it is merged the views
  agree and no notification is unread (`Applied`); once it is answered the answer's
  Largest Object is the newest the subscriber will know when it reads it, and resolves
  the fill as the publisher does or did (`AnswerOnItsWay`); once that is read, the
  subscriber has concluded what the publisher has decided or will decide (`Concluded`).
  A change at either end during any of these stages puts the fill in `disturbed`.
  `Stages` says in which order the steps come.
* `FillAndSubscriptionMeet`: the range of the SUBSCRIBE's fill ends at the Largest
  Object of SUBSCRIBE_OK, because nothing is published before Accept returns
  (`RangeInv`). It is about a fill with a filter of its own. A fill that takes over the
  filter of a subscription from the next Object on is empty, unless an update changes
  that filter between SUBSCRIBE_OK and `startFill`; the fill then follows the new
  filter, as the draft may or may not mean it to.

`FetchProofs`, for responses and channels of any size: `WholeResponses`,
`CompletionFailsNoCall`, `NoneUnanswered`. The invariant counts the records: those
written are those read by the handler and those to come, and those read are in the
channel or with the application.

`NamespacesProofs`, for any prefixes, names and requests:

* `PrefixesStayApart`, from the registry holding the prefix of every subscription being
  served.
* `AlarmsAreTrue`. A withdrawal may be refused only if nothing announced it, which is
  about a queue, so the invariant says of every withdrawal on its way that its
  announcement is before it or already recorded (`Honest`).
* `ViewsFollow`, with an events channel of any size. What an application makes of a queue
  of events is stated without recursion (`After`: the last event about a name counts),
  so that what one more event, and one fewer, does to it can be proved. `MCNamespaces`
  assumes, and TLC evaluates on every queue up to four events, that this is what taking
  the events one by one comes to.

`WireProofs`, for every width of the IDs:

* `FiltersReadAsMeant`, `JoinsAreSeamless` (`RangeRequests`). These
  are mostly about the operators of `LocationFilters`, for all locations; the invariant
  says only that the two ends hold the two encodings of one filter.
* `OnlyUncheckedFailsTheSession`, `MessagesTakenAsMeant` (`Exchange`), for any number of
  messages on their way. What no writer checks is a parameter given twice and a field
  longer than the reader takes. A sender puts a message in a context, the receiver works it out
  again from what it has seen. The contexts agree however messages cross because only
  the first message of each direction depends on anything: it is the request, or the
  request's answer (`First`), and every later one has a context of its own type
  (`Follows`). `Coming` says this of each place in each queue; `Scopes` and `Claims`
  that the answer comes first if it is still awaited. The parameters survive the
  encoding as deltas (`DeltasRoundTrip`): the sorted block is a permutation, its deltas
  add up to its types.
* `ObjectsReadAsWritten` (`DataStreams`), for subgroup streams, datagrams and FETCH
  responses in either order, with every choice of fields to leave out. A frame is
  decided when it is written, so the invariant speaks of what reading it will come to
  (`TakenAsWritten`): the object written, and a reader whose state agrees with the
  writer's in all that the next delta or omission refers to (`Agrees`), or the refusal
  of a Property.

Where an argument is by induction, as for the sum of the deltas or the place of an
entry in a sorted block, the proof takes the least counterexample (`LeastMember`) of a
statement about a recursive function: the induction theorems of the library take an
operator as a parameter, which the provers cannot instantiate. Folds and the
`RECURSIVE` operators stay out of the modules that are proved about.

The assumptions are those named in the modules (`ConstantsAssumption`,
`MaxIDAssumption` and their like): that bounds are natural numbers, a channel holds
something, a dummy value is not a real one, a set of streams to be counted is finite.

**Only model-checked.** Everything temporal under fairness: `HandshakeEnds`,
`LossReleasesRun`, `DeliveryEnds`, `HandlersReturn`, `EndNoticed`, `FillsEnd`,
`TornDown`, `EndingReleases`, `AnsweredCallsReturn`. The provers have neither liveness
under fairness nor `ENABLED`. Of the invariants of the
passing runs all are theorems but `SharersRouted`, which is model-checked with three
subscriptions: it is about where `append` and `remove` leave the elements of shared
arrays.

## Where code and documentation part

Three divergences are shown by violation runs: an update handled while Accept is
between its copy of the parameters and the subscription it creates is lost
(`subscription_state`); a subscriber that ends its half before Accept leaves a
subscription whose updates channel nobody closes (`subscription_end`); and a response
that was reset ends in `ErrFetchComplete` (`fetch_end`). The following were met while the
modules were written. Where a property excepts the situation, it is named. Where a
comment can be stated as a formula, the module has it among "what the comments of the
code say"; TLC refutes it in the instance given, a variation of a run's.

Sessions and delivery

* `session.go:266-270`: a session that fails itself during the handshake (a
  malformed stream, `Close`) does not release `Run`, which waits until the
  caller's context ends. `LossReleasesRun` therefore speaks of a lost connection
  only, as the comment at lines 260-264 does.
* `remote_track.go:295-297` says that the caller of `deliver` is a data stream's
  reader goroutine. For a datagram it is the loop that reads every datagram of the
  session (`session.go:809`), so one subscription that is not read holds up all. When
  the delivery to one of several tracks fails, the tracks after it get nothing.
* `remote_track.go:492-503`: the grace period cuts off streams that have arrived and are
  still being read, and the application is told what it is told after a complete
  delivery (lines 465, 504 and 511 cancel with the same cause), against
  `remote_track.go:266-269`. `FinishedIsComplete` of `RemoteTrack`, refuted with one
  subscription and one stream of one object. `ObjectDelivery` excepts it (`expired`).
* When the delivery to one of several subscriptions of an alias fails, the others get no
  more of the stream, and count it (`remote_track.go:541-547`). `CountedIsComplete`,
  refuted with two subscriptions of one track, `Reuse`, and one stream of one object.
* `remote_track.go:179-181`: the tracks of the namespaces ("x", "y") and ("x/y") have one
  `fullName`, and `add` lets them under one alias. `AliasNamesOneTrack`, refuted with two
  subscriptions to two tracks, `Reuse`, and `NameOf <- JoinedNames`.
* `remote_track.go:972-975`: the copy is made after the lock is released, of an array that
  `remove` shifts in place (line 943). A subscription that leaves its alias in between
  puts another in the copy twice, which is given each object twice. `EachOnce`, refuted
  with two subscriptions of one track, `Reuse`, and one stream.
* `subgroup.go:105` and `fetch.go:352`: the state of the encoder has moved on when
  `stream.Write` fails. Harmless as long as a stream whose write failed takes no
  further object.

Subscriptions and fills

* `subscribe.go:317-323`: a request that ends before Accept has registered the
  subscription leaves it registered for good. `RangeTerminates` is about subscriptions
  accepted in time (`inTime`).
* A REQUEST_UPDATE and a PUBLISH_STATE_NOTIFY that cross leave the two ends with
  different pauses or filters, each with the other's word, for good
  (`remote_track.go:235`, `publish_state.go:76-77`).
* `publish_state.go:83-99`: the state is set under the lock and the notification written
  after it. Two concurrent calls may be written in the other order than their states were
  set, and the subscriber keeps what was said first. `LastNoticeStands` of `Fill`, refuted
  with two notifications and no update.
* `remote_track.go:375-377` says that a failed write leaves the stream, and with it the
  subscription, unusable. A write that fails before it reaches the stream, as it does for
  a filter that cannot be encoded, leaves it usable and the ends with different views, and
  so does one of `NotifyState`. `FailedWriteIsFinal`, refuted with one update.
  `ViewsAgree` and `StreamAsExpected` except these three (`apart`).
* `fill.go:378` says that the Largest Object a fill is resolved against is the one the
  subscriber was told. It is read after the answer is written, and an object, a
  notification or an update may come between. A pause handled there leaves a
  subscriber waiting for a stream that is never opened. At the other end `expect`
  uses the pause and the filter of any later update, answered or not, even one whose
  write failed. `StreamAsExpected` excepts these fills (`disturbed`).
* `fill.go:444-459`: a fill opened while Close is at work may be registered after
  `resetFills`, and stays open after PUBLISH_DONE, against `subscribe.go:643`. A
  `Refill` after `finishDelivery` has copied the list is not ended either. `FillsEnd`
  excepts both (`late`).
* `fill.go:125-129` says that `ReadObject` returns an error if the subscription ended
  first. When the session ends while the handler of an attached fill is in `deliver`, the
  handler returns without completing the fill (`fetch.go:970-983`), which
  `finishDelivery` skips as attached (`fill.go:527-533`): nobody ends it.
  `ReadersOfFillsReturn`, refuted under fairness with one fill of one object. `FillsEnd`
  excepts it (`abandoned`).

Fetches and filters

* `fetch.go:536`: between `close(responseDone)` and the cancel that follows it,
  `ReadObject` can return neither an object nor an error.
* `fetch.go:980`: a data stream whose fetch has ended is left unread, not stopped.
* `fetch.go:280-287`: a REQUEST_UPDATE on a FETCH is refused, and the response
  stream is not reset although the comment says so.
* `fetch.go:722`: what `FetchRelative` retrieves is contiguous with what the subscription
  delivers only if the subscription starts at the next object. `JoinIsSeamless` is
  about those. A publisher that reported no Largest Object fails the fetch.
* `filter.go:36-37` says that an end before start fails to send. Within one group it
  passes.
* With INCLUDE_PROPERTIES 0 on a SUBSCRIBE the subscriber does not learn a default
  group order of the track (`subscribe.go:220`), and reads a descending fill as an
  ascending one.

Answers and parameters

* A TRACK_STATUS or SUBSCRIBE whose Accept is refused by the parameter check is
  claimed but never answered (`track_status.go:100`). `AnsweredCallsReturn` excepts it.
* A sender checks neither duplicate parameters, nor the scope of properties, nor the
  lengths its reader enforces: a reason phrase of 1024 bytes
  (`request_error_v22.go:44`), a namespace or a prefix of 32 fields (`subscribe_v22.go:45`,
  `parameters.go:410`). The receiver closes the session over them. `ScopesAgree` says that
  of parameters and messages nothing else gets that far.
* `namespace.go:110`, `namespace.go:301`, `fetch.go:277` and `subscribe.go:343`
  answer a REQUEST_UPDATE on the reader goroutine, possibly before the application
  has answered the request itself.
* `namespace.go:369-371` says that every namespace still available when the
  subscription ends is reported as unavailable. The closing events are dropped when
  the channel is full (lines 444-451, as the comment there admits), and a
  NAMESPACE_DONE that `emit` has recorded is lost when the request ends before it is
  sent (line 508); the closing loop then no longer knows of it. `ViewFollows` holds
  except for events given up in these two ways.

## Plan

Done: the core (sessions, IDs, both halves of a subscription, fetches, namespaces),
fills at both ends, the wire, and a theorem for every invariant. What is left, in
order:

1. The request stream as a module of its own, with flow control at the transport:
   `write` holds the mutex that `cancel` and the reset need (`request_stream.go:177`).
2. The loop that delivers datagrams, with several subscriptions (`session.go:809`).
3. The refinement of an abstract specification of the state `Fill`'s two ends share,
   which `EndsAgree` is the invariant of.
4. The mapping of priorities.

## Not modelled

The adapters to QUIC and WebTransport, qlog, the generator and the generated
field-by-field message codecs, error texts and the examples: I/O and layout, with no
state of their own. The priority mapping is a function of two numbers. GOAWAY has no
behaviour in this code (`session.go:767-768`). The datagram loop and a blocked
transport write are in the plan; the hazards they carry are listed without a
property. Quantities that grow over the life of a session, such as the holes that
failed requests leave in the peer's memory of IDs (`request_id.go:43`), are bounded
away in every instance.
