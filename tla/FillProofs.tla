----------------------------- MODULE FillProofs -----------------------------
(***************************************************************************)
(* Theorems about Fill: for any number of updates and notifications, any   *)
(* parameters and any Locations.                                           *)
(*                                                                         *)
(* What the two ends share is on its way somewhere.  The invariant says,   *)
(* for each place it can be in, what the ends will have once it arrives:   *)
(* the slots (InOrder, SlotsInv); the views, which are told by the updates *)
(* on their way or by the notifications, never both unless something has   *)
(* put them apart (Views); and each fill, from the update that asks for it *)
(* to its answer (Expected: OnItsWay, Applied, AnswerOnItsWay, Concluded). *)
(***************************************************************************)
EXTENDS Fill, SequenceTheorems, TLAPS

USE MaxIDAssumption, FillAssumption

Messages == [type : {"Ok", "UpdateOk", "Notify", "Done"}, update : Fills, largest : Largests,
             paused : Parameters(BOOLEAN), filter : Parameters(Filters)]
Reasons == {"crossed", "overtaken", "unsaid", "unsent"}

FillTypeOK ==
  /\ request \in [Fills -> Requests]
  /\ made \in Nat /\ made <= MaxUpdates
  /\ up \in Seq(Updates) /\ down \in Seq(Messages)
  /\ pub \in [largest : Largests, joining : Largests, forward : BOOLEAN, filter : Filters]
  /\ acceptor \in {"asked", "answered", "returned"}
  /\ reader \in {<<>>} \cup {<<x>> : x \in [update : Updates, at : {"merged", "answered"}]}
  /\ session \in BOOLEAN /\ notice \in Seq(Messages)
  /\ opened \in [Fills -> {"unasked", "nothing", "handed", "refused", "opening", "open", "fin", "reset"}]
  /\ ending \in {"no", "resetting", "written", "cancelled", "ended"}
  /\ sub \in [largest : Largests, paused : BOOLEAN, filter : Filters]
  /\ established \in BOOLEAN
  /\ pending \in Seq(Updates) /\ writing \subseteq Updates
  /\ outcome \in [Fills -> {"open", "complete", "failed"}]
  /\ apart \in SUBSET Reasons

------------------------------------------------------------------------------
(* Slots.                                                                   *)

Increasing(s) == \A i, j \in DOMAIN s : i < j => s[i] < s[j]
Members(s) == {s[i] : i \in DOMAIN s}
Slots == Members(pending)
Reading == {reader[i].update : i \in DOMAIN reader}
OksInOrder ==
  \A i, j \in DOMAIN down : down[i].type = "UpdateOk" /\ down[j].type = "UpdateOk" /\ i < j =>
    down[i].update < down[j].update

\* The stream in the order of the updates: answers, the one being applied, those
\* on their way, the one being written.
InOrder ==
  /\ Increasing(pending) /\ Increasing(up) /\ OksInOrder
  /\ writing \subseteq {made} /\ Slots \subseteq 1 .. made
  /\ writing # {} => made \in Slots
  /\ \A u \in Reading \cup UpdateOks, v \in Members(up) : u < v
  /\ \A u \in Reading \cup UpdateOks \cup Members(up) : u <= made /\ (writing # {} => u < made)
  /\ \A u \in UpdateOks : (\A v \in Merged : u < v) /\ (\A v \in Reading : u <= v)

\* What is answered has the first slots.
SlotsInv ==
  delivery = "on" =>
    /\ UpdateOks \subseteq Slots
    /\ \A u \in UpdateOks, v \in Slots : v < u => v \in UpdateOks
    /\ ~SendDone => Slots = UpdateOks \cup Merged \cup Updating

------------------------------------------------------------------------------
(* Beginnings.                                                              *)

Beginning ==
  /\ acceptor = "asked" =>
       /\ up = <<>> /\ down = <<>> /\ reader = <<>> /\ notice = <<>> /\ ~established
       /\ ending = "no"
       /\ sub = [largest |-> NoLocation, paused |-> ~Given(request[0].forward, TRUE),
                 filter |-> Given(request[0].filter, NoFilter)]
  /\ ~established => made = 0
  /\ \A i \in DOMAIN down : down[i].type = "Ok" => i = 1 /\ ~established
  /\ \A i \in DOMAIN down :
       /\ down[i].type # "Notify" => down[i].paused = <<>> /\ down[i].filter = <<>>
       /\ down[i].type = "Ok" => down[i].update = 0
       /\ down[i].type = "UpdateOk" => down[i].update # 0
  /\ \A i \in DOMAIN notice : notice[i].type = "Notify"

\* Delivery does not outlive the session.
Connected == delivery = "on" => session

Known ==
  acceptor # "asked" =>
    /\ NotAfter(sub.largest, pub.largest)
    /\ \A i \in DOMAIN down : NotAfter(down[i].largest, pub.largest)
    /\ \A i \in DOMAIN notice : NotAfter(notice[i].largest, pub.largest)

------------------------------------------------------------------------------
(* The views.                                                               *)

\* v is what base becomes by the changes given, in order of their numbers.
LastOf(S, given, base, v) ==
  \/ v = base /\ \A n \in S : given[n] = <<>>
  \/ \E n \in S : given[n] = <<v>> /\ \A m \in S : m > n => given[m] = <<>>

Forwards(asked) == [u \in Fills |-> asked[u].forward]
FiltersAsked(asked) == [u \in Fills |-> asked[u].filter]
PausedIn(d) == [i \in DOMAIN d |-> d[i].paused]
FiltersIn(d) == [i \in DOMAIN d |-> d[i].filter]

\* The updates S make the publisher's view p the subscriber's, s.
Tell(S, asked, p, s) == /\ LastOf(S, Forwards(asked), p.forward, ~s.paused)
                        /\ LastOf(S, FiltersAsked(asked), p.filter, s.filter)

\* What is on its way, d, and the notifications before their writes, n, make
\* the subscriber's view the publisher's.
Told(d, n, p, s) ==
  /\ \E v : /\ LastOf(DOMAIN d, PausedIn(d), s.paused, v)
            /\ LastOf(DOMAIN n, PausedIn(n), v, ~p.forward)
  /\ \E v : /\ LastOf(DOMAIN d, FiltersIn(d), s.filter, v)
            /\ LastOf(DOMAIN n, FiltersIn(n), v, p.filter)

UpdatesTell == Tell(Updating, request, pub, sub)
NoticesTell == Told(down, notice, pub, sub)

Views ==
  /\ apart = {} => ~(InFlight /\ NoticeUnread)
  /\ apart = {} /\ acceptor # "asked" /\ delivery = "on" /\ ~SendDone =>
       /\ ~NoticeUnread => UpdatesTell
       /\ ~InFlight => NoticesTell

------------------------------------------------------------------------------
(* Fills.                                                                   *)

PublisherNone(f) == ~pub.forward \/ FetchRange(FillFilter(f, pub.filter), pub.largest) = NoRange
SubscriberNone(f, l) == sub.paused \/ FetchRange(FillFilter(f, sub.filter), l) = NoRange

\* What startFill has decided, or will if nothing is published or changed before.
WillBeNothing(f) == IF opened[f] = "unasked" THEN PublisherNone(f) ELSE opened[f] = "nothing"

IsAnswerTo(m, f) == m.type \in {"Ok", "UpdateOk"} /\ m.update = f
IsRead(f) == IF f = 0 THEN established ELSE f <= made /\ f \notin Slots
Answering == (IF acceptor = "answered" THEN {0} ELSE {})
               \cup {reader[i].update : i \in {k \in DOMAIN reader : reader[k].at = "answered"}}

AnswersFills == \A i \in DOMAIN reader : reader[i].at = "answered" => HasFill(reader[i].update)
Stages ==
  /\ \A f \in Fills : f # 0 /\ f > made => ~HasFill(f)
  /\ \A f \in Fills : ~HasFill(f) => opened[f] = "unasked"
  /\ \A f \in Updating \cup Reading : opened[f] = "unasked"
  /\ acceptor # "returned" => opened[0] = "unasked"
  /\ acceptor = "returned" /\ HasFill(0) => opened[0] # "unasked"
  /\ AnswersFills
  /\ fills \subseteq {f \in Fills : HasFill(f)}
  /\ attached \subseteq {f \in Fills : opened[f] # "unasked"}
  /\ \A f \in Fills : outcome[f] = "complete" /\ f \notin attached => IsRead(f)
  /\ \A f \in Fills :
       /\ HasFill(f) /\ opened[f] = "unasked"
       /\ (\E i \in DOMAIN down : IsAnswerTo(down[i], f)) \/ (IsRead(f) /\ outcome[f] # "failed")
       => f \in Answering

\* A fill both ends resolve with the same knowledge, at each stage of its update:
\* on its way; applied; answered, the answer unread; answered and read.
OnItsWay(f) ==
  f \in Updating /\ delivery = "on" /\ ~SendDone =>
    \A v \in Updating : v > f => request[v].forward = <<>> /\ request[v].filter = <<>>
Applied(f) ==
  f \in Merged /\ delivery = "on" /\ ~SendDone =>
    sub.paused = ~pub.forward /\ sub.filter = pub.filter /\ ~NoticeUnread
AnswerOnItsWay(f) ==
  delivery = "on" =>
    \A i \in DOMAIN down : IsAnswerTo(down[i], f) =>
      /\ \A j \in DOMAIN down : j < i =>
           down[j].type # "Notify" /\ NotAfter(down[j].largest, down[i].largest)
      /\ NotAfter(sub.largest, down[i].largest)
      /\ SubscriberNone(f, down[i].largest) <=> WillBeNothing(f)
Concluded(f) ==
  IsRead(f) =>
    /\ outcome[f] = "complete" => WillBeNothing(f)
    /\ outcome[f] = "open" => ~WillBeNothing(f)
Expected ==
  apart = {} => \A f \in Fills \ (disturbed \cup attached) : HasFill(f) =>
    OnItsWay(f) /\ Applied(f) /\ AnswerOnItsWay(f) /\ Concluded(f)

------------------------------------------------------------------------------
(* The SUBSCRIBE's range.                                                   *)

RangeInv ==
  /\ acceptor # "returned" => range = NoRange
  /\ acceptor = "answered" => pub.largest = pub.joining
  /\ HasFill(0) /\ request[0].fill[1] # <<>> /\ ~HasEndGroup(FillFilter(0, NoFilter)) /\ range # NoRange =>
       /\ pub.joining \in Locations
       /\ range.end = pub.joining /\ ~range.open

FillIInv == /\ FillTypeOK /\ Beginning /\ Connected /\ InOrder /\ SlotsInv /\ Known /\ Views /\ Stages /\ Expected
            /\ RangeInv

\* NotAfter orders Locations, NoLocation first, and Later is its maximum.
LEMMA LocationFacts ==
  /\ NoLocation \in Largests
  /\ \A l \in Largests : NotAfter(l, l) /\ NotAfter(NoLocation, l)
  /\ \A l, m, n \in Largests : NotAfter(l, m) /\ NotAfter(m, n) => NotAfter(l, n)
  /\ \A l, m \in Largests : Before(l, m) => NotAfter(l, m)
  /\ \A l, m \in Largests : Later(l, m) \in Largests
  /\ \A l, m \in Largests : NotAfter(l, m) => Later(l, m) = m
  /\ \A l, m, n \in Largests : NotAfter(l, n) /\ NotAfter(m, n) => NotAfter(Later(l, m), n)
BY DEF NoLocation, Largests, Locations, IDs, At, NotAfter, Before, Later

\* The two filters the library makes up are filters.
LEMMA FilterFacts ==
  /\ NoFilter \in Filters
  /\ NextObject \in Filters
BY DEF NoFilter, NextObject, NewFilter, Filters, Types, At, Locations, IDs

\* A parameter given stands for itself, one not given for the default.
LEMMA GivenFacts ==
  ASSUME NEW S, NEW p \in Parameters(S), NEW d \in S
  PROVE  /\ Given(p, d) \in S
         /\ p # <<>> => p = <<Given(p, d)>>
         /\ p = <<>> => Given(p, d) = d
BY DEF Given, Parameters

\* What an update asks for, parameter by parameter.
LEMMA Requested ==
  ASSUME FillTypeOK, NEW u \in Fills
  PROVE  /\ request[u].forward \in Parameters(BOOLEAN)
         /\ request[u].filter \in Parameters(Filters)
         /\ request[u].fill \in Parameters(Parameters(Filters))
BY DEF FillTypeOK, Requests

\* Sequences, by their places.
LEMMA Indexed ==
  ASSUME NEW S, NEW s \in Seq(S)
  PROVE  /\ s \in [1 .. Len(s) -> S] /\ Len(s) \in Nat /\ DOMAIN s = 1 .. Len(s)
         /\ s = <<>> <=> Len(s) = 0
BY LenProperties, EmptySeq

LEMMA Appended ==
  ASSUME NEW S, NEW s \in Seq(S), NEW e \in S
  PROVE  /\ Append(s, e) \in Seq(S) /\ Len(Append(s, e)) = Len(s) + 1
         /\ DOMAIN Append(s, e) = DOMAIN s \cup {Len(s) + 1} /\ Append(s, e) # <<>>
         /\ Append(s, e)[Len(s) + 1] = e
         /\ \A i \in DOMAIN s : Append(s, e)[i] = s[i] /\ i < Len(s) + 1
BY AppendProperties, LenProperties

LEMMA Popped ==
  ASSUME NEW S, NEW s \in Seq(S), s # <<>>
  PROVE  /\ Tail(s) \in Seq(S) /\ Head(s) = s[1] /\ s[1] \in S /\ 1 \in DOMAIN s
         /\ Len(Tail(s)) = Len(s) - 1 /\ DOMAIN s \subseteq Nat /\ Len(s) \in Nat
         /\ \A i \in DOMAIN Tail(s) : i + 1 \in DOMAIN s /\ Tail(s)[i] = s[i + 1] /\ i \in Nat /\ i # 0
         /\ \A i \in DOMAIN s : i # 1 => i - 1 \in DOMAIN Tail(s) /\ Tail(s)[i - 1] = s[i]
BY HeadTailProperties, LenProperties, EmptySeq

LEMMA Shortened ==
  ASSUME NEW S, NEW s \in Seq(S), s # <<>>
  PROVE  LET t == SubSeq(s, 1, Len(s) - 1)
         IN /\ t \in Seq(S) /\ DOMAIN t = 1 .. Len(s) - 1 /\ DOMAIN s = 1 .. Len(s) /\ Len(s) \in Nat \ {0}
            /\ \A i \in DOMAIN t : t[i] = s[i] /\ i \in DOMAIN s
BY SubSeqProperties, LenProperties, EmptySeq

\* A sequence without one of its members, the first one or another.
LEMMA TakenOut ==
  ASSUME NEW S, NEW s \in Seq(S), NEW i \in DOMAIN s
  PROVE  /\ RemoveAt(s, i) \in Seq(S)
         /\ \A j \in DOMAIN RemoveAt(s, i) : \E k \in DOMAIN s : RemoveAt(s, i)[j] = s[k]
         /\ i = 1 => RemoveAt(s, i) = Tail(s) /\ s # <<>>
<1>1. /\ s \in [1 .. Len(s) -> S] /\ Len(s) \in Nat /\ DOMAIN s = 1 .. Len(s) /\ i \in 1 .. Len(s)
  BY Indexed
<1>2. /\ SubSeq(s, 1, i - 1) \in Seq(S) /\ Len(SubSeq(s, 1, i - 1)) = i - 1
      /\ \A j \in 1 .. i - 1 : SubSeq(s, 1, i - 1)[j] = s[j]
  BY <1>1, SubSeqProperties, i - 1 \in 0 .. Len(s)
<1>3. /\ SubSeq(s, i + 1, Len(s)) \in Seq(S) /\ Len(SubSeq(s, i + 1, Len(s))) = Len(s) - i
      /\ \A j \in 1 .. Len(s) - i : SubSeq(s, i + 1, Len(s))[j] = s[i + j]
  BY <1>1, SubSeqProperties
<1>4. /\ RemoveAt(s, i) \in Seq(S) /\ Len(RemoveAt(s, i)) = Len(s) - 1
      /\ \A j \in 1 .. Len(s) - 1 : RemoveAt(s, i)[j] = IF j < i THEN s[j] ELSE s[j + 1]
  <2> DEFINE a == SubSeq(s, 1, i - 1)
             b == SubSeq(s, i + 1, Len(s))
  <2>1. a \in Seq(S) /\ b \in Seq(S) /\ Len(a) = i - 1 /\ Len(b) = Len(s) - i
    BY <1>2, <1>3
  <2>2. /\ a \o b \in Seq(S) /\ Len(a \o b) = Len(a) + Len(b)
        /\ \A j \in 1 .. Len(a) + Len(b) : (a \o b)[j] = IF j <= Len(a) THEN a[j] ELSE b[j - Len(a)]
    BY <2>1, ConcatProperties
  <2>3. RemoveAt(s, i) = a \o b
    BY DEF RemoveAt
  <2>4. Len(a) + Len(b) = Len(s) - 1
    BY <1>1, <2>1
  <2>5. ASSUME NEW j \in 1 .. Len(s) - 1 PROVE (a \o b)[j] = IF j < i THEN s[j] ELSE s[j + 1]
    <3>1. CASE j < i
      <4>1. j \in 1 .. i - 1 /\ j <= Len(a)
        BY <1>1, <2>1, <3>1
      <4>2. (a \o b)[j] = a[j]
        BY <2>2, <2>4, <4>1
      <4> QED BY <1>2, <3>1, <4>1, <4>2
    <3>2. CASE ~(j < i)
      <4>1. j - (i - 1) \in 1 .. Len(s) - i /\ ~(j <= Len(a)) /\ i + (j - (i - 1)) = j + 1
        BY <1>1, <2>1, <3>2
      <4>2. (a \o b)[j] = b[j - (i - 1)]
        BY <2>1, <2>2, <2>4, <4>1
      <4>3. b[j - (i - 1)] = s[i + (j - (i - 1))]
        BY <1>3, <4>1
      <4> QED BY <3>2, <4>1, <4>2, <4>3
    <3> QED BY <3>1, <3>2
  <2> HIDE DEF a, b
  <2> QED BY <2>2, <2>3, <2>4, <2>5
<1>5. DOMAIN RemoveAt(s, i) = 1 .. Len(s) - 1
  BY <1>1, <1>4, Indexed
<1>6. \A j \in 1 .. Len(s) - 1 : j \in 1 .. Len(s) /\ j + 1 \in 1 .. Len(s)
  BY <1>1
<1>7. ASSUME i = 1 PROVE RemoveAt(s, i) = Tail(s) /\ s # <<>>
  <2>1. s # <<>>
    BY <1>1, Indexed
  <2>2. Tail(s) \in Seq(S) /\ Len(Tail(s)) = Len(s) - 1 /\ \A j \in 1 .. Len(s) - 1 : Tail(s)[j] = s[j + 1]
    BY <1>1, <2>1, HeadTailProperties
  <2>3. \A j \in 1 .. Len(s) - 1 : RemoveAt(s, i)[j] = Tail(s)[j]
    BY <1>1, <1>4, <1>7, <2>2
  <2> QED BY <1>4, <2>1, <2>2, <2>3, SeqEqual
<1> QED BY <1>1, <1>4, <1>5, <1>6, <1>7

\* The invariant holds to begin with.
LEMMA InitFill == Init => FillIInv
<1> SUFFICES ASSUME Init PROVE FillIInv
  OBVIOUS
<1>1. PICK form \in Forms : request = [u \in Fills |-> IF u = 0 THEN form ELSE Ask(<<>>, <<>>, <<>>)]
  BY DEF Init
<1>2. request \in [Fills -> Requests] /\ 0 \in Fills /\ (\A u \in Fills : u # 0 => ~HasFill(u))
  <2>1. Ask(<<>>, <<>>, <<>>) \in Requests /\ Ask(<<>>, <<>>, <<>>).fill = <<>>
    BY DEF Ask, Requests, Parameters
  <2>2. form \in Requests
    OBVIOUS
  <2>3. 0 \in Fills
    BY DEF Fills
  <2> QED BY <1>1, <2>1, <2>2, <2>3 DEF HasFill
<1>3. FillTypeOK
  <2>1. pub \in [largest : Largests, joining : Largests, forward : BOOLEAN, filter : Filters]
    BY LocationFacts, FilterFacts DEF Init
  <2>2. Given(request[0].forward, TRUE) \in BOOLEAN /\ Given(request[0].filter, NoFilter) \in Filters
    BY <1>2, GivenFacts, FilterFacts DEF Requests
  <2>3. sub \in [largest : Largests, paused : BOOLEAN, filter : Filters]
    BY <2>2, LocationFacts DEF Init
  <2> QED BY <1>2, <2>1, <2>3 DEF Init, FillTypeOK
<1>4. Beginning /\ Known /\ Connected
  BY DEF Init, Beginning, Known, Connected
<1>5. InOrder /\ SlotsInv
  BY DEF Init, InOrder, SlotsInv, Increasing, Slots, Members, OksInOrder, UpdateOks, Merged, Reading, Updating
<1>6. Views
  BY DEF Init, Views, InFlight, NoticeUnread
<1>7. Stages
  <2>1. \A f \in Fills : opened[f] = "unasked" /\ outcome[f] = "open"
    BY DEF Init
  <2>2. Updating = {} /\ Reading = {} /\ reader = <<>> /\ down = <<>> /\ acceptor = "asked"
        /\ attached = {} /\ made = 0 /\ ~established
    BY DEF Init, Updating, Reading
  <2>3. fills \subseteq {f \in Fills : HasFill(f)}
    BY <1>2 DEF Init
  <2>4. \A f \in Fills : IsRead(f) => f \notin Fills \/ (f # 0 /\ f <= 0)
    BY <2>2 DEF IsRead
  <2>5. \A f \in Fills : ~(f # 0 /\ f <= 0)
    BY DEF Fills
  <2> QED BY <1>2, <2>1, <2>2, <2>3, <2>4, <2>5 DEF Stages, AnswersFills
<1>8. Expected
  <2>1. \A f \in Fills : ~IsRead(f)
    BY DEF Init, IsRead, Fills
  <2>2. \A f \in Fills : f \notin Updating /\ f \notin Merged
    BY DEF Init, Updating, Merged
  <2>3. down = <<>>
    BY DEF Init
  <2> QED BY <2>1, <2>2, <2>3 DEF Expected, OnItsWay, Applied, AnswerOnItsWay, Concluded
<1>9. RangeInv
  BY DEF Init, RangeInv
<1> QED BY <1>3, <1>4, <1>5, <1>6, <1>7, <1>8, <1>9 DEF FillIInv

------------------------------------------------------------------------------
(* Steps.                                                                   *)

\* The stream still takes what is sent to the subscriber.
Carries == delivery # "closed" /\ session

\* What Send and ReadsNext do to what is on the way to the subscriber.
LEMMA Sends ==
  ASSUME down \in Seq(Messages), NEW m \in Messages, Send(m)
  PROVE  /\ down' \in Seq(Messages) /\ Len(down) \in Nat /\ DOMAIN down = 1 .. Len(down)
         /\ DOMAIN down \subseteq DOMAIN down'
         /\ \A i \in DOMAIN down : down'[i] = down[i] /\ i < Len(down) + 1
         /\ \A i \in DOMAIN down' : i \in DOMAIN down \/ (i = Len(down) + 1 /\ down'[i] = m /\ Carries)
         /\ Carries => Len(down) + 1 \in DOMAIN down' /\ down'[Len(down) + 1] = m
         /\ ~Carries => down' = down
<1>1. Len(down) \in Nat /\ DOMAIN down = 1 .. Len(down)
  BY Indexed
<1>2. CASE ~Carries
  <2>1. down' = down
    BY <1>2, Zenon DEF Send, Carries
  <2>2. \A i \in DOMAIN down : i < Len(down) + 1
    BY <1>1
  <2> QED BY <1>1, <1>2, <2>1, <2>2
<1>3. CASE Carries
  <2>1. down' = Append(down, m)
    BY <1>3 DEF Send, Carries
  <2>2. DOMAIN Append(down, m) = DOMAIN down \cup {Len(down) + 1} /\ Append(down, m) \in Seq(Messages)
    BY Appended
  <2>3. Append(down, m)[Len(down) + 1] = m /\ \A i \in DOMAIN down : Append(down, m)[i] = down[i] /\ i < Len(down) + 1
    BY Appended
  <2> QED BY <1>1, <1>3, <2>1, <2>2, <2>3
<1> QED BY <1>2, <1>3

\* What a step may be.
LEMMA Actions ==
  ASSUME [Next]_vars
  PROVE  \/ \E l \in Places \cup {NoLocation} : AcceptAnswers(l)
         \/ AcceptReturns
         \/ \E l \in Places : Publish(l)
         \/ MergeUpdate \/ AnswerUpdate \/ ReaderStartsFill
         \/ \E change \in Changes : NotifyState(change)
         \/ \E i \in 1 .. MaxNotices : WriteNotice(i)
         \/ \E f \in Fills : OpenFill(f) \/ RegisterFill(f) \/ EndFill(f, "fin") \/ EndFill(f, "reset")
         \/ CloseResetsFills \/ CloseWrites \/ CloseCancels \/ StreamEnded
         \/ \E ask \in Asks : MakeUpdate(ask)
         \/ \E u \in Updates : WriteUpdate(u)
         \/ \E u \in Updates : WriteFails(u)
         \/ ReadOk \/ ReadUpdateOk \/ ReadNotify \/ ReadDone \/ FinishDelivery \/ Close
         \/ \E f \in Fills : AttachStream(f)
         \/ \E f \in Fills : FinishFill(f) \/ StreamEnds(f) \/ HandlerFails(f) \/ DeliverFails(f)
         \/ SessionEnds
         \/ UNCHANGED vars
BY DEF Next, LibraryStep, ApplicationStep

LEMMA Reads ==
  ASSUME down \in Seq(Messages), NEW type, ReadsNext(type)
  PROVE  /\ down' \in Seq(Messages) /\ delivery = "on" /\ 1 \in DOMAIN down /\ down[1].type = type
         /\ Head(down) = down[1] /\ down[1] \in Messages /\ DOMAIN down \subseteq Nat \ {0} /\ DOMAIN down' \subseteq Nat \ {0}
         /\ \A i \in DOMAIN down' : i + 1 \in DOMAIN down /\ down'[i] = down[i + 1]
         /\ \A i \in DOMAIN down : i # 1 => i - 1 \in DOMAIN down' /\ down'[i - 1] = down[i]
         /\ \A i \in DOMAIN down : i # 1 => i > 1
<1>1. down # <<>> /\ Head(down).type = type /\ down' = Tail(down) /\ delivery = "on"
  BY DEF ReadsNext
<1>2. DOMAIN down = 1 .. Len(down) /\ Len(down) \in Nat
  BY Indexed
<1>3. DOMAIN down' \subseteq Nat \ {0}
  BY <1>1, Popped
<1> QED BY <1>1, <1>2, <1>3, Popped

\* What the publisher sends is a message.
LEMMA SentMessages ==
  ASSUME FillTypeOK
  PROVE  /\ \A l \in Largests : Message("Ok", 0, l, <<>>, <<>>) \in Messages
         /\ \A u \in Updates, l \in Largests : Message("UpdateOk", u, l, <<>>, <<>>) \in Messages
         /\ Message("Done", 0, NoLocation, <<>>, <<>>) \in Messages
         /\ \A change \in Changes, l \in Largests :
              Message("Notify", 0, l, change.paused, change.filter) \in Messages
         /\ pub.largest \in Largests /\ Updates \subseteq Fills /\ 0 \in Fills /\ Fills \subseteq Nat
<1>1. Updates \subseteq Fills /\ 0 \in Fills /\ Fills \subseteq Nat
  BY DEF Updates, Fills
<1>2. \A p : <<>> \in Parameters(p)
  BY DEF Parameters
<1>3. \A change \in Changes : change.paused \in Parameters(BOOLEAN) /\ change.filter \in Parameters(Filters)
  OBVIOUS
<1>4. pub.largest \in Largests /\ NoLocation \in Largests
  BY LocationFacts DEF FillTypeOK
<1> QED BY <1>1, <1>2, <1>3, <1>4 DEF Message, Messages

\* startFill leaves a fill in one of its states.
LEMMA StartFillKeepsType ==
  ASSUME FillTypeOK, NEW f \in Fills, StartFill(f)
  PROVE  opened' \in [Fills -> {"unasked", "nothing", "handed", "refused", "opening", "open", "fin", "reset"}]
BY DEF StartFill, FillTypeOK

\* finish: the first outcome wins, and no other fill is touched.
LEMMA FinishedOutcome ==
  ASSUME FillTypeOK, NEW f \in Fills, NEW how \in {"complete", "failed"}
  PROVE  /\ Finished(f, how) \in [Fills -> {"open", "complete", "failed"}]
         /\ \A g \in Fills : g # f => Finished(f, how)[g] = outcome[g]
         /\ Finished(f, how)[f] = (IF outcome[f] = "open" THEN how ELSE outcome[f])
BY DEF FillTypeOK, Finished

\* expect leaves outcomes.
LEMMA ExpectOutcome ==
  ASSUME FillTypeOK, NEW f \in Fills, NEW state, Expect(f, state)
  PROVE  outcome' \in [Fills -> {"open", "complete", "failed"}]
<1>1. Finished(f, "complete") \in [Fills -> {"open", "complete", "failed"}]
  BY FinishedOutcome
<1> QED BY <1>1 DEF Expect, FillTypeOK

\* NotifyState's second step: one notification leaves the list, and is sent or
\* not.
LEMMA NoticeWritten ==
  ASSUME FillTypeOK, NEW n, WriteNotice(n)
  PROVE  /\ notice' \in Seq(Messages) /\ notice[n] \in Messages /\ n \in DOMAIN notice /\ notice # <<>>
         /\ \A i \in DOMAIN notice' : \E k \in DOMAIN notice : notice'[i] = notice[k]
         /\ down' = down \/ Send(notice[n])
         /\ apart \subseteq apart' /\ (apart' = {} => n = 1)
         /\ apart' = {} /\ ~SendDone => Send(notice[n])
         /\ n = 1 => notice' = Tail(notice)
<1>1. n \in DOMAIN notice /\ notice' = RemoveAt(notice, n) /\ notice \in Seq(Messages)
  BY DEF WriteNotice, FillTypeOK
<1>2. notice[n] \in Messages /\ notice # <<>>
  BY <1>1, Indexed
<1>3. /\ down' = down \/ Send(notice[n])
      /\ apart \subseteq apart' /\ (apart' = {} => n = 1)
      /\ apart' = {} /\ ~SendDone => Send(notice[n])
  <2> DEFINE fails == notice[n].filter # <<>> /\ ~Valid(notice[n].filter[1])
  <2>1. /\ IF fails \/ SendDone THEN UNCHANGED down ELSE Send(notice[n])
        /\ apart' = apart \cup (IF fails THEN {"unsaid"} ELSE IF n # 1 THEN {"overtaken"} ELSE {})
    BY DEF WriteNotice
  <2> HIDE DEF fails
  <2> QED BY <2>1
<1> QED BY <1>1, <1>2, <1>3, TakenOut

\* Types.
LEMMA TypeStep == FillTypeOK /\ [Next]_vars => FillTypeOK'
<1> SUFFICES ASSUME FillTypeOK, [Next]_vars PROVE FillTypeOK'
  OBVIOUS
<1>m. Updates \subseteq Fills /\ 0 \in Fills
  BY SentMessages
<1>1. ASSUME NEW l \in Places \cup {NoLocation}, AcceptAnswers(l) PROVE FillTypeOK'
  <2>1. l \in Largests
    BY LocationFacts DEF Largests
  <2>2. down' \in Seq(Messages)
    <3>1. Message("Ok", 0, l, <<>>, <<>>) \in Messages
      BY <2>1, SentMessages
    <3> QED BY <1>1, <3>1, Sends DEF AcceptAnswers, FillTypeOK
  <2>3. Given(request[0].forward, TRUE) \in BOOLEAN /\ Given(request[0].filter, NoFilter) \in Filters
    BY <1>m, Requested, GivenFacts, FilterFacts
  <2>4. pub' \in [largest : Largests, joining : Largests, forward : BOOLEAN, filter : Filters]
    BY <1>1, <2>1, <2>3 DEF AcceptAnswers
  <2> QED BY <1>1, <2>2, <2>4 DEF AcceptAnswers, FillTypeOK, subscriber, history
<1>2. CASE AcceptReturns
  <2>1. opened' \in [Fills -> {"unasked", "nothing", "handed", "refused", "opening", "open", "fin", "reset"}]
    BY <1>2, <1>m, StartFillKeepsType DEF AcceptReturns, FillTypeOK
  <2> QED BY <1>2, <2>1 DEF AcceptReturns, FillTypeOK, subscriber, history, wire
<1>3. ASSUME NEW l \in Places, Publish(l) PROVE FillTypeOK'
  <2>1. l \in Largests
    BY DEF Largests
  <2> QED BY <1>3, <2>1 DEF Publish, FillTypeOK, subscriber, wire
<1>4. CASE MergeUpdate
  <2>1. up' \in Seq(Updates) /\ Head(up) \in Updates
    BY <1>4, Popped DEF MergeUpdate, FillTypeOK
  <2>2. PICK u \in Updates : u = Head(up)
    BY <2>1
  <2>3. /\ Given(request[u].forward, pub.forward) \in BOOLEAN
        /\ MergedFilter(request[u].filter, pub.filter) \in Filters
    BY <1>m, Requested, GivenFacts DEF FillTypeOK, MergedFilter
  <2>4. pub' \in [largest : Largests, joining : Largests, forward : BOOLEAN, filter : Filters]
    BY <1>4, <2>2, <2>3 DEF MergeUpdate, FillTypeOK
  <2>5. reader' \in {<<x>> : x \in [update : Updates, at : {"merged", "answered"}]}
    BY <1>4, <2>2 DEF MergeUpdate
  <2> QED BY <1>4, <2>1, <2>4, <2>5 DEF MergeUpdate, FillTypeOK, subscriber
<1>5. CASE AnswerUpdate
  <2>1. PICK x \in [update : Updates, at : {"merged", "answered"}] : reader = <<x>>
    BY <1>5 DEF AnswerUpdate, FillTypeOK
  <2>2. down' \in Seq(Messages)
    <3>1. Message("UpdateOk", x.update, pub.largest, <<>>, <<>>) \in Messages
      BY SentMessages
    <3>2. down' = down \/ Send(Message("UpdateOk", x.update, pub.largest, <<>>, <<>>))
      BY <1>5, <2>1 DEF AnswerUpdate
    <3> QED BY <3>1, <3>2, Sends DEF FillTypeOK
  <2>3. reader' \in {<<>>} \cup {<<y>> : y \in [update : Updates, at : {"merged", "answered"}]}
    <3>1. [x EXCEPT !.at = "answered"] \in [update : Updates, at : {"merged", "answered"}]
      OBVIOUS
    <3>2. reader' = <<>> \/ reader' = <<[x EXCEPT !.at = "answered"]>>
      BY <1>5, <2>1 DEF AnswerUpdate
    <3> QED BY <3>1, <3>2
  <2> QED BY <1>5, <2>2, <2>3 DEF AnswerUpdate, FillTypeOK, subscriber, history
<1>6. CASE ReaderStartsFill
  <2>1. reader[1].update \in Updates
    BY <1>6 DEF ReaderStartsFill, FillTypeOK
  <2>2. opened' \in [Fills -> {"unasked", "nothing", "handed", "refused", "opening", "open", "fin", "reset"}]
    BY <1>6, <1>m, <2>1, StartFillKeepsType DEF ReaderStartsFill
  <2> QED BY <1>6, <2>2 DEF ReaderStartsFill, FillTypeOK, subscriber, history, wire
<1>7. ASSUME NEW change \in Changes, NotifyState(change) PROVE FillTypeOK'
  <2>1. Message("Notify", 0, pub.largest, change.paused, change.filter) \in Messages
    BY SentMessages
  <2>2. Given(change.paused, ~pub.forward) \in BOOLEAN /\ Given(change.filter, pub.filter) \in Filters
    BY GivenFacts DEF FillTypeOK
  <2>3. pub' \in [largest : Largests, joining : Largests, forward : BOOLEAN, filter : Filters]
    BY <1>7, <2>2 DEF NotifyState, FillTypeOK
  <2>4. apart' \in SUBSET Reasons
    BY <1>7 DEF NotifyState, FillTypeOK, Reasons
  <2>5. notice' \in Seq(Messages)
    BY <1>7, <2>1, Appended DEF NotifyState, FillTypeOK
  <2> QED BY <1>7, <2>3, <2>4, <2>5 DEF NotifyState, FillTypeOK, subscriber, wire
<1>8. ASSUME NEW i \in 1 .. MaxNotices, WriteNotice(i) PROVE FillTypeOK'
  <2>1. notice' \in Seq(Messages) /\ (down' = down \/ Send(notice[i])) /\ notice[i] \in Messages
    BY <1>8, NoticeWritten
  <2>2. down' \in Seq(Messages)
    BY <2>1, Sends DEF FillTypeOK
  <2>3. apart' \in SUBSET Reasons
    BY <1>8 DEF WriteNotice, FillTypeOK, Reasons
  <2> QED BY <1>8, <2>1, <2>2, <2>3 DEF WriteNotice, FillTypeOK, subscriber
<1>9. CASE (\E f \in Fills : OpenFill(f) \/ RegisterFill(f) \/ EndFill(f, "fin") \/ EndFill(f, "reset"))
           \/ CloseResetsFills
  BY <1>9 DEF OpenFill, RegisterFill, EndFill, CloseResetsFills, AfterReset, FillTypeOK, subscriber, history, wire
<1>10. CASE CloseWrites
  <2>1. down' \in Seq(Messages)
    BY <1>10, SentMessages, Sends DEF CloseWrites, FillTypeOK
  <2> QED BY <1>10, <2>1 DEF CloseWrites, FillTypeOK, subscriber, history
<1>11. CASE CloseCancels
  BY <1>11 DEF CloseCancels, FillTypeOK, subscriber, history, wire
<1>12. CASE StreamEnded
  BY <1>12 DEF StreamEnded, AfterReset, FillTypeOK, subscriber, history
<1>13. ASSUME NEW ask \in Asks, MakeUpdate(ask) PROVE FillTypeOK'
  <2>1. made + 1 \in Updates /\ made' = made + 1
    BY <1>13 DEF MakeUpdate, FillTypeOK, Updates
  <2>2. request' \in [Fills -> Requests]
    BY <1>13, <1>m, <2>1 DEF MakeUpdate, FillTypeOK
  <2>3. pending' \in Seq(Updates)
    BY <1>13, <2>1, Appended DEF MakeUpdate, FillTypeOK
  <2>4. writing' \subseteq Updates
    BY <1>13, <2>1 DEF MakeUpdate, FillTypeOK
  <2>5. Given(ask.forward, ~sub.paused) \in BOOLEAN /\ Given(ask.filter, sub.filter) \in Filters
    BY GivenFacts DEF FillTypeOK, Requests
  <2>6. sub' \in [largest : Largests, paused : BOOLEAN, filter : Filters]
    BY <1>13, <2>5 DEF MakeUpdate, FillTypeOK
  <2>7. apart' \in SUBSET Reasons /\ made' \in Nat /\ made' <= MaxUpdates
    BY <1>13 DEF MakeUpdate, FillTypeOK, Reasons
  <2>8. UNCHANGED <<session, up, down, pub, acceptor, reader, notice, opened, ending, established, outcome>>
    BY <1>13 DEF MakeUpdate, wire, publisher
  <2> QED BY <2>2, <2>3, <2>4, <2>6, <2>7, <2>8 DEF FillTypeOK
<1>14. ASSUME NEW u \in Updates, WriteUpdate(u) PROVE FillTypeOK'
  <2>1. up' \in Seq(Updates)
    BY <1>14, Appended DEF WriteUpdate, FillTypeOK
  <2> QED BY <1>14, <2>1 DEF WriteUpdate, FillTypeOK, publisher, history
<1>15. ASSUME NEW u \in Updates, WriteFails(u) PROVE FillTypeOK'
  <2>1. pending' \in Seq(Updates)
    <3>1. CASE pending = <<>>
      <4>1. SubSeq(pending, 1, Len(pending) - 1) = <<>>
        BY <3>1
      <4> QED BY <1>15, <3>1, <4>1 DEF WriteFails, FillTypeOK
    <3>2. CASE pending # <<>>
      BY <1>15, <3>2, Shortened DEF WriteFails, FillTypeOK
    <3> QED BY <3>1, <3>2
  <2>2. outcome' \in [Fills -> {"open", "complete", "failed"}]
    BY <1>15, <1>m, FinishedOutcome DEF WriteFails, FillTypeOK
  <2>3. apart' \in SUBSET Reasons
    BY <1>15 DEF WriteFails, FillTypeOK, Reasons
  <2> QED BY <1>15, <2>1, <2>2, <2>3 DEF WriteFails, FillTypeOK, publisher, wire
<1>16. CASE ReadOk
  <2>1. down' \in Seq(Messages) /\ Head(down) \in Messages
    BY <1>16, Reads DEF ReadOk, FillTypeOK
  <2>2. outcome' \in [Fills -> {"open", "complete", "failed"}]
    BY <1>16, <1>m, ExpectOutcome DEF ReadOk, FillTypeOK
  <2>3. sub' \in [largest : Largests, paused : BOOLEAN, filter : Filters]
    BY <1>16, <2>1 DEF ReadOk, FillTypeOK, Messages
  <2> QED BY <1>16, <2>1, <2>2, <2>3 DEF ReadOk, FillTypeOK, publisher
<1>17. CASE ReadUpdateOk
  <2>1. down' \in Seq(Messages) /\ Head(down) \in Messages
    BY <1>17, Reads DEF ReadUpdateOk, FillTypeOK
  <2>2. pending' \in Seq(Updates) /\ Head(pending) \in Updates
    BY <1>17, Popped DEF ReadUpdateOk, FillTypeOK
  <2>3. outcome' \in [Fills -> {"open", "complete", "failed"}]
    <3>1. Head(pending) \in Fills
      BY <1>m, <2>2
    <3>2. ASSUME Expect(Head(pending), sub') PROVE outcome' \in [Fills -> {"open", "complete", "failed"}]
      BY <3>1, <3>2, ExpectOutcome
    <3> QED BY <1>17, <3>2 DEF ReadUpdateOk, FillTypeOK
  <2>4. Later(sub.largest, Head(down).largest) \in Largests
    <3>1. sub.largest \in Largests /\ Head(down).largest \in Largests
      BY <2>1 DEF FillTypeOK, Messages
    <3> QED BY <3>1, LocationFacts
  <2>5. sub' \in [largest : Largests, paused : BOOLEAN, filter : Filters]
    BY <1>17, <2>4 DEF ReadUpdateOk, FillTypeOK
  <2> QED BY <1>17, <2>1, <2>2, <2>3, <2>5 DEF ReadUpdateOk, FillTypeOK, publisher
<1>18. CASE ReadNotify
  <2>1. down' \in Seq(Messages) /\ Head(down) \in Messages
    BY <1>18, Reads DEF ReadNotify, FillTypeOK
  <2>2. PICK m \in Messages : m = Head(down)
    BY <2>1
  <2>4. Later(sub.largest, m.largest) \in Largests
    <3>1. sub.largest \in Largests /\ m.largest \in Largests
      BY DEF FillTypeOK, Messages
    <3> QED BY <3>1, LocationFacts
  <2>5. Given(m.paused, sub.paused) \in BOOLEAN /\ Given(m.filter, sub.filter) \in Filters
    BY GivenFacts DEF FillTypeOK, Messages
  <2>6. sub' \in [largest : Largests, paused : BOOLEAN, filter : Filters]
    BY <1>18, <2>2, <2>4, <2>5 DEF ReadNotify, FillTypeOK
  <2> QED BY <1>18, <2>1, <2>6 DEF ReadNotify, FillTypeOK, publisher, history
<1>19. CASE ReadDone
  <2>1. down' \in Seq(Messages)
    BY <1>19, Reads DEF ReadDone, FillTypeOK
  <2> QED BY <1>19, <2>1 DEF ReadDone, FillTypeOK, publisher, history
<1>20. CASE FinishDelivery \/ Close \/ SessionEnds \/ (\E f \in Fills : AttachStream(f))
  <2>1. <<>> \in Seq(Messages) /\ <<>> \in Seq(Updates)
    OBVIOUS
  <2>2. down' \in Seq(Messages) /\ up' \in Seq(Updates) /\ session' \in BOOLEAN
    BY <1>20, <2>1 DEF FinishDelivery, Close, SessionEnds, AttachStream, FillTypeOK, wire
  <2>3. UNCHANGED <<request, made, publisher, sub, established, pending, writing, outcome, history>>
    BY <1>20 DEF FinishDelivery, Close, SessionEnds, AttachStream, wire
  <2> QED BY <2>2, <2>3 DEF FillTypeOK, publisher, history
<1>21. ASSUME NEW f \in Fills, FinishFill(f) \/ StreamEnds(f) \/ HandlerFails(f) \/ DeliverFails(f) PROVE FillTypeOK'
  <2>1. outcome' \in [Fills -> {"open", "complete", "failed"}]
    BY <1>21, FinishedOutcome DEF FinishFill, StreamEnds, HandlerFails, DeliverFails, FillTypeOK
  <2> QED BY <1>21, <2>1 DEF FinishFill, StreamEnds, HandlerFails, DeliverFails, FillTypeOK, publisher, history, wire
<1>22. CASE UNCHANGED vars
  BY <1>22 DEF vars, FillTypeOK, publisher, subscriber, history, wire
<1> QED BY <1>1, <1>2, <1>3, <1>4, <1>5, <1>6, <1>7, <1>8, <1>9, <1>10, <1>11, <1>12, <1>13, <1>14, <1>15,
           <1>16, <1>17, <1>18, <1>19, <1>20, <1>21, <1>22, Actions, Zenon

------------------------------------------------------------------------------
(* Beginnings.                                                              *)

\* Before SUBSCRIBE_OK is read there are no updates; before Accept there is
\* nothing at all.
LEMMA Unestablished ==
  ASSUME FillTypeOK, Beginning, InOrder
  PROVE  /\ ~established => made = 0 /\ writing = {} /\ Slots = {}
         /\ acceptor = "asked" => down = <<>> /\ up = <<>> /\ reader = <<>> /\ ~established
<1>1. ASSUME ~established PROVE made = 0 /\ writing = {} /\ Slots = {}
  <2>1. made = 0 /\ 1 .. 0 = {}
    BY <1>1 DEF Beginning
  <2>2. writing \subseteq {0} /\ Slots \subseteq {}
    BY <2>1 DEF InOrder
  <2> QED BY <2>1, <2>2 DEF FillTypeOK, Updates
<1> QED BY <1>1 DEF Beginning

\* The session ends, and does not come back.
LEMMA ConnectedStep == Connected /\ [Next]_vars => Connected' /\ (session' = session \/ SessionEnds)
<1> SUFFICES ASSUME Connected, [Next]_vars PROVE Connected' /\ (session' = session \/ SessionEnds)
  OBVIOUS
<1>1. CASE SessionEnds
  BY <1>1 DEF SessionEnds, Connected
<1>2. CASE UNCHANGED vars
  BY <1>2 DEF vars, subscriber, wire, Connected
<1>3. CASE LibraryStep
  <2>1. session' = session /\ (delivery' = "on" => delivery = "on")
    BY <1>3 DEF LibraryStep, AcceptReturns, MergeUpdate, AnswerUpdate, ReaderStartsFill, WriteNotice,
      CloseWrites, CloseCancels, StreamEnded, ReadOk, ReadUpdateOk, ReadNotify, ReadDone, ReadsNext, FinishDelivery,
      WriteUpdate, WriteFails, RegisterFill, FinishFill, AttachStream, StreamEnds, HandlerFails, DeliverFails,
      subscriber, wire
  <2> QED BY <2>1 DEF Connected
<1>4. CASE ApplicationStep
  <2>1. session' = session /\ (delivery' = "on" => delivery = "on")
    BY <1>4 DEF ApplicationStep, AcceptAnswers, Publish, NotifyState, OpenFill, EndFill, CloseResetsFills, Close,
      MakeUpdate, subscriber, wire
  <2> QED BY <2>1 DEF Connected
<1> QED BY <1>1, <1>2, <1>3, <1>4 DEF Next

\* SUBSCRIBE_OK comes first and once, and only notifications change a view on
\* reading.
LEMMA BeginningStep == FillTypeOK /\ Beginning /\ InOrder /\ [Next]_vars => Beginning'
<1> SUFFICES ASSUME FillTypeOK, Beginning, InOrder, [Next]_vars PROVE Beginning'
  OBVIOUS
<1>m. Updates \subseteq Nat \ {0}
  BY DEF Updates
<1>s. down \in Seq(Messages) /\ DOMAIN down = 1 .. Len(down) /\ Len(down) \in Nat
  BY Indexed DEF FillTypeOK
<1>q. ASSUME UNCHANGED <<up, down, notice, established, made, request, sub>>, acceptor' # "asked" PROVE Beginning'
  BY <1>q DEF Beginning, wire
<1>p. ASSUME UNCHANGED <<up, down, reader, notice, established, made, request, sub, acceptor, ending>>
      PROVE  Beginning'
  BY <1>p DEF Beginning
\* A message that is not the first one.
<1>t. ASSUME NEW m \in Messages, Send(m), m.type # "Ok", m.type # "Notify" => m.paused = <<>> /\ m.filter = <<>>,
             m.type = "UpdateOk" => m.update # 0, acceptor # "asked", UNCHANGED <<acceptor, established, made>>,
             \A i \in DOMAIN notice' : \E k \in DOMAIN notice : notice'[i] = notice[k]
      PROVE  Beginning'
  <2>1. \A i \in DOMAIN down' : (i \in DOMAIN down /\ down'[i] = down[i]) \/ down'[i] = m
    BY <1>s, <1>t, Sends
  <2>2. \A i \in DOMAIN down' : down'[i].type = "Ok" => i = 1 /\ ~established'
    BY <1>t, <2>1 DEF Beginning
  <2>3. \A i \in DOMAIN down' : /\ down'[i].type # "Notify" => down'[i].paused = <<>> /\ down'[i].filter = <<>>
                                /\ down'[i].type = "Ok" => down'[i].update = 0
                                /\ down'[i].type = "UpdateOk" => down'[i].update # 0
    BY <1>t, <2>1 DEF Beginning
  <2>4. \A i \in DOMAIN notice' : notice'[i].type = "Notify"
    BY <1>t DEF Beginning
  <2>5. ~established' => made' = 0
    BY <1>t DEF Beginning
  <2> QED BY <1>t, <2>2, <2>3, <2>4, <2>5 DEF Beginning
<1>r. ASSUME NEW type, ReadsNext(type), acceptor # "asked", UNCHANGED <<acceptor, notice, made>>,
             established' = established \/ (type = "Ok" /\ established' = TRUE)
      PROVE  Beginning'
  <2>0. /\ 1 \in DOMAIN down /\ down[1].type = type
        /\ \A i \in DOMAIN down' : i + 1 \in DOMAIN down /\ down'[i] = down[i + 1] /\ i \in Nat \ {0}
    BY <1>s, <1>r, Reads
  <2>1. \A i \in DOMAIN down' : down'[i].type # "Ok"
    <3> SUFFICES ASSUME NEW i \in DOMAIN down', down'[i].type = "Ok" PROVE FALSE
      OBVIOUS
    <3>1. i + 1 = 1
      BY <2>0 DEF Beginning
    <3> QED BY <2>0, <3>1
  <2>2. ~established' => ~established
    BY <1>r
  <2>3. \A i \in DOMAIN down' : /\ down'[i].type # "Notify" => down'[i].paused = <<>> /\ down'[i].filter = <<>>
                                /\ down'[i].type = "Ok" => down'[i].update = 0
                                /\ down'[i].type = "UpdateOk" => down'[i].update # 0
    BY <2>0 DEF Beginning
  <2>4. \A i \in DOMAIN notice' : notice'[i].type = "Notify"
    BY <1>r DEF Beginning
  <2>5. ~established' => made' = 0
    BY <1>r, <2>2 DEF Beginning
  <2> QED BY <1>r, <2>1, <2>3, <2>4, <2>5 DEF Beginning
<1>1. ASSUME NEW l \in Places \cup {NoLocation}, AcceptAnswers(l) PROVE Beginning'
  <2>1. l \in Largests
    BY LocationFacts DEF Largests
  <2>2. down = <<>> /\ notice = <<>> /\ ~established
    BY <1>1 DEF AcceptAnswers, Beginning, wire
  <2>3. PICK m \in Messages : m = Message("Ok", 0, l, <<>>, <<>>)
    BY <2>1, SentMessages
  <2>4. \A i \in DOMAIN down' : i = 1 /\ down'[i] = m
    <3>1. Send(m)
      BY <1>1, <2>3 DEF AcceptAnswers
    <3>2. Len(down) = 0
      BY <1>s, <2>2
    <3> QED BY <1>s, <3>1, <3>2, Sends
  <2>5. m.type = "Ok" /\ m.update = 0 /\ m.paused = <<>> /\ m.filter = <<>>
    BY <2>3 DEF Message
  <2>6. acceptor' # "asked" /\ UNCHANGED <<established, made, notice>>
    BY <1>1 DEF AcceptAnswers, subscriber
  <2> QED BY <2>2, <2>4, <2>5, <2>6 DEF Beginning
<1>2. CASE AcceptReturns \/ (\E l \in Places : Publish(l)) \/ ReaderStartsFill \/ CloseResetsFills
  <2>1. UNCHANGED <<up, down, notice, established, made, request, sub>>
    BY <1>2 DEF AcceptReturns, Publish, ReaderStartsFill, CloseResetsFills, wire, subscriber
  <2>2. acceptor' # "asked"
    BY <1>2 DEF AcceptReturns, Publish, ReaderStartsFill, CloseResetsFills, MayPublish, Beginning
  <2> QED BY <1>q, <2>1, <2>2
<1>3. CASE MergeUpdate
  <2>1. acceptor' # "asked" /\ UNCHANGED <<down, notice, established, made>>
    BY <1>3 DEF MergeUpdate, subscriber
  <2> QED BY <2>1 DEF Beginning
<1>4. CASE AnswerUpdate
  <2>1. PICK x \in [update : Updates, at : {"merged", "answered"}] : reader = <<x>>
    BY <1>4 DEF AnswerUpdate, FillTypeOK
  <2>2. acceptor # "asked" /\ UNCHANGED <<acceptor, notice, established, made>>
    BY <1>4, <2>1 DEF AnswerUpdate, subscriber, Beginning
  <2>3. PICK m \in Messages : m = Message("UpdateOk", x.update, pub.largest, <<>>, <<>>)
    BY SentMessages
  <2>4. m.type = "UpdateOk" /\ m.update # 0 /\ m.paused = <<>> /\ m.filter = <<>>
    BY <1>m, <2>3 DEF Message
  <2>5. CASE Send(m)
    BY <1>t, <2>2, <2>4, <2>5
  <2>6. CASE down' = down
    BY <2>2, <2>6 DEF Beginning
  <2> QED BY <1>4, <2>1, <2>3, <2>5, <2>6 DEF AnswerUpdate
<1>5. ASSUME NEW change \in Changes, NotifyState(change) PROVE Beginning'
  <2>1. \A i \in DOMAIN notice' : notice'[i].type = "Notify"
    <3>1. PICK m \in Messages : m = Message("Notify", 0, pub.largest, change.paused, change.filter)
      BY SentMessages
    <3>2. m.type = "Notify" /\ notice' = Append(notice, m)
      BY <1>5, <3>1 DEF NotifyState, Message
    <3> QED BY <3>2, Appended DEF FillTypeOK, Beginning
  <2>2. acceptor' # "asked" /\ UNCHANGED <<down, established, made>>
    BY <1>5 DEF NotifyState, MayPublish, subscriber, wire
  <2> QED BY <2>1, <2>2 DEF Beginning
<1>6. ASSUME NEW n \in 1 .. MaxNotices, WriteNotice(n) PROVE Beginning'
  <2>1. /\ notice[n] \in Messages /\ n \in DOMAIN notice
        /\ \A i \in DOMAIN notice' : \E k \in DOMAIN notice : notice'[i] = notice[k]
        /\ down' = down \/ Send(notice[n])
    BY <1>6, NoticeWritten
  <2>2. PICK m \in Messages : m = notice[n]
    BY <2>1
  <2>3. m.type = "Notify" /\ notice # <<>>
    BY <2>1, <2>2 DEF Beginning
  <2>4. acceptor # "asked" /\ UNCHANGED <<acceptor, established, made>>
    BY <1>6, <2>3 DEF WriteNotice, subscriber, Beginning
  <2>5. CASE Send(m)
    BY <1>t, <2>1, <2>3, <2>4, <2>5
  <2>6. CASE down' = down
    <3>1. \A i \in DOMAIN notice' : notice'[i].type = "Notify"
      BY <2>1 DEF Beginning
    <3> QED BY <2>4, <2>6, <3>1 DEF Beginning
  <2> QED BY <2>1, <2>2, <2>5, <2>6
<1>7. CASE \E f \in Fills : OpenFill(f) \/ RegisterFill(f) \/ EndFill(f, "fin") \/ EndFill(f, "reset")
  <2>1. UNCHANGED <<up, down, reader, notice, established, made, request, sub, acceptor, ending>>
    BY <1>7 DEF OpenFill, RegisterFill, EndFill, wire, subscriber
  <2> QED BY <1>p, <2>1
<1>8. CASE CloseWrites
  <2>1. PICK m \in Messages : m = Message("Done", 0, NoLocation, <<>>, <<>>)
    BY SentMessages
  <2>2. m.type = "Done" /\ m.paused = <<>> /\ m.filter = <<>>
    BY <2>1 DEF Message
  <2>3. acceptor # "asked" /\ Send(m) /\ UNCHANGED <<acceptor, established, made, notice>>
    BY <1>8, <2>1 DEF CloseWrites, subscriber, Beginning
  <2> QED BY <1>t, <2>2, <2>3
<1>9. CASE CloseCancels
  <2>1. acceptor' # "asked" /\ UNCHANGED <<up, down, notice, established, made, request, sub>>
    BY <1>9 DEF CloseCancels, subscriber, Beginning, wire
  <2> QED BY <1>q, <2>1
<1>10. CASE StreamEnded
  <2>1. acceptor' # "asked" /\ UNCHANGED <<down, notice, established, made>>
    BY <1>10 DEF StreamEnded, subscriber
  <2> QED BY <2>1 DEF Beginning
<1>11. ASSUME NEW ask \in Asks, MakeUpdate(ask) PROVE Beginning'
  <2>1. acceptor' # "asked" /\ UNCHANGED <<down, notice, established>> /\ established
    BY <1>11 DEF MakeUpdate, publisher, wire, Beginning
  <2> QED BY <2>1 DEF Beginning
<1>12. ASSUME NEW u \in Updates, WriteUpdate(u) PROVE Beginning'
  <2>1. UNCHANGED <<acceptor, down, notice, established, made>>
    BY <1>12 DEF WriteUpdate, publisher
  <2>2. acceptor # "asked"
    BY <1>12, Unestablished DEF WriteUpdate
  <2> QED BY <2>1, <2>2 DEF Beginning
<1>13. CASE \E u \in Updates : WriteFails(u)
  BY <1>p, <1>13 DEF WriteFails, publisher, wire
<1>14. CASE ReadOk
  <2>1. ReadsNext("Ok") /\ established' = TRUE /\ UNCHANGED <<acceptor, notice, made>>
    BY <1>14 DEF ReadOk, publisher
  <2>2. acceptor # "asked"
    BY <2>1 DEF ReadsNext, Beginning, wire
  <2> QED BY <1>r, <2>1, <2>2
<1>15. CASE ReadUpdateOk
  <2>1. ReadsNext("UpdateOk") /\ established' = established /\ UNCHANGED <<acceptor, notice, made>>
    BY <1>15 DEF ReadUpdateOk, publisher
  <2>2. acceptor # "asked"
    BY <2>1 DEF ReadsNext, Beginning, wire
  <2> QED BY <1>r, <2>1, <2>2
<1>16. CASE ReadNotify
  <2>1. ReadsNext("Notify") /\ established' = established /\ UNCHANGED <<acceptor, notice, made>>
    BY <1>16 DEF ReadNotify, publisher
  <2>2. acceptor # "asked"
    BY <2>1 DEF ReadsNext, Beginning, wire
  <2> QED BY <1>r, <2>1, <2>2
<1>17. CASE ReadDone
  <2>1. ReadsNext("Done") /\ established' = established /\ UNCHANGED <<acceptor, notice, made>>
    BY <1>17 DEF ReadDone, publisher
  <2>2. acceptor # "asked"
    BY <2>1 DEF ReadsNext, Beginning, wire
  <2> QED BY <1>r, <2>1, <2>2
<1>18. CASE FinishDelivery
  BY <1>p, <1>18 DEF FinishDelivery, publisher, wire
<1>19. CASE Close
  <2>1. acceptor' # "asked" /\ UNCHANGED <<notice, established, made>> /\ down' = <<>>
    BY <1>19 DEF Close, publisher, Beginning
  <2>2. \A i \in DOMAIN down' : FALSE
    BY <2>1
  <2> QED BY <2>1, <2>2 DEF Beginning
<1>20. CASE \/ \E f \in Fills : AttachStream(f)
            \/ \E f \in Fills : FinishFill(f) \/ StreamEnds(f) \/ HandlerFails(f) \/ DeliverFails(f)
  <2>1. UNCHANGED <<up, down, reader, notice, established, made, request, sub, acceptor, ending>>
    BY <1>20 DEF AttachStream, FinishFill, StreamEnds, HandlerFails, DeliverFails, publisher, wire
  <2> QED BY <1>p, <2>1
<1>22. CASE SessionEnds
  <2>1. up' = <<>> /\ down' = <<>> /\ UNCHANGED <<reader, notice, established, made, request, sub, acceptor, ending>>
    BY <1>22 DEF SessionEnds, publisher
  <2>2. \A i \in DOMAIN down' : FALSE
    BY <2>1
  <2> QED BY <2>1, <2>2 DEF Beginning
<1>21. CASE UNCHANGED vars
  BY <1>p, <1>21 DEF vars, publisher, subscriber, wire
<1> QED BY <1>1, <1>2, <1>3, <1>4, <1>5, <1>6, <1>7, <1>8, <1>9, <1>10, <1>11, <1>12, <1>13, <1>14, <1>15,
           <1>16, <1>17, <1>18, <1>19, <1>20, <1>21, <1>22, Actions

------------------------------------------------------------------------------
(* The SUBSCRIBE's range.                                                   *)

\* The SUBSCRIBE itself does not change.
LEMMA RequestKept ==
  ASSUME FillTypeOK, [Next]_vars
  PROVE  /\ request'[0] = request[0]
         /\ \A u \in Fills : u <= made => request'[u] = request[u]
         /\ \A u \in Fills : request'[u] = request[u] \/ (u = made + 1 /\ made' = made + 1)
<1>1. ASSUME NEW ask \in Asks, MakeUpdate(ask)
      PROVE  /\ request'[0] = request[0]
             /\ \A u \in Fills : u # made + 1 => request'[u] = request[u]
             /\ made' = made + 1
  <2>1. request' = [request EXCEPT ![made + 1] = ask] /\ made' = made + 1
    BY <1>1 DEF MakeUpdate
  <2>2. 0 \in Fills /\ 0 # made + 1
    BY DEF Fills, FillTypeOK
  <2> QED BY <2>1, <2>2 DEF FillTypeOK
<1>2. ASSUME ~\E ask \in Asks : MakeUpdate(ask) PROVE request' = request
  <2>1. CASE UNCHANGED vars
    BY <2>1 DEF vars
  <2>2. CASE LibraryStep
    BY <2>2 DEF LibraryStep, AcceptReturns, MergeUpdate, AnswerUpdate, ReaderStartsFill, WriteNotice,
      CloseWrites, CloseCancels, StreamEnded, ReadOk, ReadUpdateOk, ReadNotify, ReadDone, FinishDelivery,
      WriteUpdate, WriteFails, RegisterFill, FinishFill, AttachStream, StreamEnds, HandlerFails,
      DeliverFails
  <2>4. CASE SessionEnds
    BY <2>4 DEF SessionEnds
  <2>3. CASE ApplicationStep
    BY <1>2, <2>3 DEF ApplicationStep, AcceptAnswers, Publish, NotifyState, OpenFill, EndFill, CloseResetsFills, Close
  <2> QED BY <2>1, <2>2, <2>3, <2>4 DEF Next
<1>3. \A u \in Fills : u <= made => u # made + 1
  BY DEF Fills, FillTypeOK
<1> QED BY <1>1, <1>2, <1>3

\* The SUBSCRIBE's range is resolved against the Largest Object of
\* SUBSCRIBE_OK.
LEMMA RangeStep == FillTypeOK /\ Beginning /\ RangeInv /\ [Next]_vars => RangeInv'
<1> SUFFICES ASSUME FillTypeOK, Beginning, RangeInv, [Next]_vars PROVE RangeInv'
  OBVIOUS
<1>m. Updates \subseteq Nat \ {0} /\ 0 \in Fills
  BY DEF Updates, Fills
<1>r. request'[0] = request[0]
  BY RequestKept
<1>f. ASSUME HasFill(0), request[0].fill[1] # <<>>
      PROVE  \E own \in Filters : \A filter : FillFilter(0, filter) = own
  <2>1. request[0].fill \in Parameters(Parameters(Filters))
    BY <1>m, Requested
  <2>2. PICK p \in Parameters(Filters) : request[0].fill = <<p>>
    BY <1>f, <2>1 DEF HasFill, Parameters
  <2>3. PICK own \in Filters : p = <<own>>
    BY <1>f, <2>2 DEF Parameters
  <2>4. \A filter : Given(p, filter) = own
    BY <2>3 DEF Given
  <2> QED BY <2>2, <2>4 DEF FillFilter
<1>k. ASSUME range' = range \/ range' = NoRange, pub'.joining = pub.joining,
             acceptor' # "returned" => range' = NoRange, acceptor' = "answered" => pub'.largest = pub'.joining
      PROVE  RangeInv'
  BY <1>k, <1>r DEF RangeInv, HasFill, FillFilter
<1>1. ASSUME NEW l \in Places \cup {NoLocation}, AcceptAnswers(l) PROVE RangeInv'
  <2>1. range' = NoRange /\ pub'.largest = pub'.joining
    BY <1>1 DEF AcceptAnswers, RangeInv
  <2> QED BY <2>1 DEF RangeInv
<1>2. CASE AcceptReturns
  <2>1. acceptor' = "returned" /\ acceptor = "answered" /\ pub' = pub
    BY <1>2 DEF AcceptReturns
  <2>2. range = NoRange /\ pub.largest = pub.joining
    BY <2>1 DEF RangeInv
  <2>3. ASSUME HasFill(0)', request'[0].fill[1] # <<>>, ~HasEndGroup(FillFilter(0, NoFilter))', range' # NoRange
        PROVE  pub'.joining \in Locations /\ range'.end = pub'.joining /\ ~range'.open
    <3>1. HasFill(0) /\ request[0].fill[1] # <<>> /\ ~HasEndGroup(FillFilter(0, NoFilter))
      BY <1>r, <2>3 DEF HasFill, FillFilter
    <3>2. PICK own \in Filters : \A filter : FillFilter(0, filter) = own
      BY <1>f, <3>1
    <3>3. ~HasEndGroup(own)
      BY <3>1, <3>2
    <3>4. range' = FetchRange(own, pub.largest)
      BY <1>2, <2>2, <2>3, <3>1, <3>2 DEF AcceptReturns, StartFill
    <3>5. pub.largest \in Largests
      BY DEF FillTypeOK
    <3> QED BY <2>1, <2>2, <2>3, <3>3, <3>4, <3>5 DEF FetchRange, Largests
  <2> QED BY <2>1, <2>3 DEF RangeInv
<1>3. CASE ReaderStartsFill
  <2>1. reader[1].update \in Updates
    BY <1>3 DEF ReaderStartsFill, FillTypeOK
  <2>2. range' = range /\ UNCHANGED <<pub, acceptor>>
    BY <1>3, <1>m, <2>1 DEF ReaderStartsFill, StartFill
  <2> QED BY <1>k, <2>2 DEF RangeInv
<1>4. CASE \E l \in Places : Publish(l)
  <2>1. UNCHANGED <<range, acceptor>> /\ acceptor = "returned" /\ pub'.joining = pub.joining
    BY <1>4 DEF Publish, MayPublish, FillTypeOK
  <2> QED BY <1>k, <2>1
<1>5. CASE MergeUpdate \/ (\E change \in Changes : NotifyState(change))
  <2>1. UNCHANGED <<range, acceptor>> /\ pub'.joining = pub.joining /\ pub'.largest = pub.largest
    BY <1>5 DEF MergeUpdate, NotifyState, FillTypeOK
  <2> QED BY <1>k, <2>1 DEF RangeInv
<1>6. ASSUME UNCHANGED <<range, pub, acceptor>> PROVE RangeInv'
  BY <1>k, <1>6 DEF RangeInv
<1>7. CASE \/ AnswerUpdate \/ (\E i \in 1 .. MaxNotices : WriteNotice(i)) \/ CloseResetsFills \/ CloseWrites \/ CloseCancels \/ StreamEnded
           \/ \E f \in Fills : OpenFill(f) \/ RegisterFill(f) \/ EndFill(f, "fin") \/ EndFill(f, "reset")
  <2>1. UNCHANGED <<range, pub, acceptor>>
    BY <1>7 DEF AnswerUpdate, WriteNotice, CloseResetsFills, CloseWrites, CloseCancels, StreamEnded,
      OpenFill, RegisterFill, EndFill
  <2> QED BY <1>6, <2>1
<1>8. CASE \/ \E ask \in Asks : MakeUpdate(ask)
           \/ \E u \in Updates : WriteUpdate(u)
           \/ \E u \in Updates : WriteFails(u)
           \/ ReadOk \/ ReadUpdateOk \/ ReadNotify \/ ReadDone \/ FinishDelivery \/ Close \/ SessionEnds
           \/ \E f \in Fills : AttachStream(f)
           \/ \E f \in Fills : FinishFill(f) \/ StreamEnds(f) \/ HandlerFails(f) \/ DeliverFails(f)
  <2>1. UNCHANGED publisher
    BY <1>8 DEF SessionEnds, MakeUpdate, WriteUpdate, WriteFails, ReadOk, ReadUpdateOk, ReadNotify, ReadDone, FinishDelivery,
      Close, AttachStream, FinishFill, StreamEnds, HandlerFails, DeliverFails
  <2> QED BY <1>6, <2>1 DEF publisher
<1>9. CASE UNCHANGED vars
  BY <1>6, <1>9 DEF vars, publisher
<1> QED BY <1>1, <1>2, <1>3, <1>4, <1>5, <1>7, <1>8, <1>9, Actions

\* Up to a Location, or from the one after it on.
LEMMA Meets ==
  ASSUME NEW joining \in Locations, joining # At(MaxID, MaxID), NEW l \in Locations
  PROVE  NotAfter(l, joining) # NotAfter(NextAfter(joining), l)
BY DEF NotAfter, Before, NextAfter, At, Locations, IDs, NoLocation

\* A fill up to the Largest Object meets a subscription from the next Object
\* on.
LEMMA RangeMeets == FillTypeOK /\ RangeInv => FillMeetsSubscription
<1> SUFFICES ASSUME FillTypeOK, RangeInv, request[0].filter = <<NextObject>>, HasFill(0), request[0].fill[1] # <<>>,
                    ~HasEndGroup(FillFilter(0, NoFilter)), range # NoRange, pub.joining # At(MaxID, MaxID),
                    NEW l \in Locations, NotAfter(range.start, l)
             PROVE  InRange(range, l) # InRange(SubscriptionRange(NextObject, pub.joining), l)
  BY DEF FillMeetsSubscription
<1>1. PICK joining \in Locations : pub.joining = joining
  BY DEF RangeInv
<1>2. range.end = joining /\ ~range.open
  BY <1>1 DEF RangeInv
<1>3. InRange(range, l) = NotAfter(l, joining)
  BY <1>2 DEF InRange, NotAfter
<1>4. SubscriptionRange(NextObject, joining) = [start |-> NextAfter(joining), end |-> NoLocation, open |-> TRUE]
  <2>1. ~HasEndGroup(NextObject) /\ NextObject.type = "NextObject"
    BY DEF HasEndGroup, NextObject, NewFilter
  <2>2. Start(NextObject, joining) = NextAfter(joining)
    BY <2>1 DEF Start
  <2> QED BY <2>1, <2>2 DEF SubscriptionRange
<1>5. InRange(SubscriptionRange(NextObject, joining), l) = NotAfter(NextAfter(joining), l)
  BY <1>4 DEF InRange, NotAfter
<1> QED BY <1>1, <1>3, <1>5, Meets

------------------------------------------------------------------------------
(* Members of sequences.                                                    *)

\* A sequence of updates and its members: one more, the first gone, the last
\* gone.
LEMMA MembersAppended ==
  ASSUME NEW s \in Seq(Updates), NEW e \in Updates
  PROVE  /\ Members(Append(s, e)) = Members(s) \cup {e}
         /\ Increasing(s) /\ (\A u \in Members(s) : u < e) => Increasing(Append(s, e))
<1>1. /\ DOMAIN Append(s, e) = DOMAIN s \cup {Len(s) + 1} /\ Append(s, e)[Len(s) + 1] = e
      /\ \A i \in DOMAIN s : Append(s, e)[i] = s[i] /\ i < Len(s) + 1
  BY Appended
<1>2. DOMAIN s \subseteq Nat /\ Len(s) \in Nat
  BY Indexed
<1>3. Members(Append(s, e)) = Members(s) \cup {e}
  BY <1>1 DEF Members
<1>4. ASSUME Increasing(s), \A u \in Members(s) : u < e, NEW i \in DOMAIN Append(s, e),
             NEW j \in DOMAIN Append(s, e), i < j
      PROVE  Append(s, e)[i] < Append(s, e)[j]
  <2>1. i \in DOMAIN s
    BY <1>1, <1>2, <1>4
  <2>2. CASE j \in DOMAIN s
    BY <1>1, <1>4, <2>1, <2>2 DEF Increasing
  <2>3. CASE j = Len(s) + 1
    BY <1>1, <1>4, <2>1, <2>3 DEF Members
  <2> QED BY <1>1, <2>2, <2>3
<1> QED BY <1>3, <1>4 DEF Increasing

LEMMA MembersPopped ==
  ASSUME NEW s \in Seq(Updates), s # <<>>, Increasing(s)
  PROVE  /\ Head(s) \in Members(s) /\ Members(Tail(s)) = Members(s) \ {Head(s)}
         /\ Increasing(Tail(s)) /\ \A v \in Members(s) : v # Head(s) => Head(s) < v
<1>1. /\ Head(s) = s[1] /\ s[1] \in Updates /\ 1 \in DOMAIN s /\ DOMAIN s \subseteq Nat
      /\ \A i \in DOMAIN Tail(s) : i + 1 \in DOMAIN s /\ Tail(s)[i] = s[i + 1] /\ i \in Nat /\ i # 0
      /\ \A i \in DOMAIN s : i # 1 => i - 1 \in DOMAIN Tail(s) /\ Tail(s)[i - 1] = s[i]
  BY Popped
<1>2. DOMAIN s = 1 .. Len(s) /\ Len(s) \in Nat /\ \A i \in DOMAIN s : s[i] \in Updates
  BY Indexed
<1>3. \A i \in DOMAIN s : i # 1 => s[1] < s[i]
  BY <1>1, <1>2 DEF Increasing
<1>4. \A i \in DOMAIN Tail(s) : Tail(s)[i] \in Members(s) \ {Head(s)}
  <2> TAKE i \in DOMAIN Tail(s)
  <2>1. i + 1 \in DOMAIN s /\ i + 1 # 1 /\ Tail(s)[i] = s[i + 1]
    BY <1>1
  <2>2. s[1] < s[i + 1] /\ s[1] \in Nat /\ s[i + 1] \in Nat
    BY <1>1, <1>2, <1>3, <2>1 DEF Updates
  <2> QED BY <1>1, <2>1, <2>2 DEF Members
<1>5. \A v \in Members(s) \ {Head(s)} : v \in Members(Tail(s))
  <2> TAKE v \in Members(s) \ {Head(s)}
  <2>1. PICK i \in DOMAIN s : v = s[i]
    BY DEF Members
  <2>2. i - 1 \in DOMAIN Tail(s) /\ Tail(s)[i - 1] = v
    BY <1>1, <2>1
  <2> QED BY <2>2 DEF Members
<1>6. Members(Tail(s)) = Members(s) \ {Head(s)}
  BY <1>4, <1>5 DEF Members
<1>7. Increasing(Tail(s))
  BY <1>1 DEF Increasing
<1>8. Head(s) \in Members(s) /\ \A v \in Members(s) : v # Head(s) => Head(s) < v
  BY <1>1, <1>3 DEF Members
<1> QED BY <1>6, <1>7, <1>8

LEMMA MembersShortened ==
  ASSUME NEW s \in Seq(Updates), Increasing(s), NEW e \in Members(s), \A v \in Members(s) : v <= e
  PROVE  LET t == SubSeq(s, 1, Len(s) - 1)
         IN Members(t) = Members(s) \ {e} /\ Increasing(t)
<1> DEFINE t == SubSeq(s, 1, Len(s) - 1)
<1>1. DOMAIN s = 1 .. Len(s) /\ Len(s) \in Nat /\ \A i \in DOMAIN s : s[i] \in Updates
  BY Indexed
<1>2. s # <<>> /\ Len(s) # 0
  BY <1>1, Indexed DEF Members
<1>3. /\ DOMAIN t = 1 .. Len(s) - 1
      /\ \A i \in DOMAIN t : t[i] = s[i] /\ i \in DOMAIN s
  BY <1>2, Shortened
<1>4. s[Len(s)] = e
  <2>1. Len(s) \in DOMAIN s /\ s[Len(s)] <= e /\ s[Len(s)] \in Nat
    BY <1>1, <1>2 DEF Members, Updates
  <2>2. PICK i \in DOMAIN s : s[i] = e
    BY DEF Members
  <2>3. i # Len(s) => e < s[Len(s)]
    BY <1>1, <2>1, <2>2 DEF Increasing
  <2>4. e \in Nat
    BY <1>1, <2>2 DEF Updates
  <2> QED BY <2>1, <2>2, <2>3, <2>4
<1>5. \A i \in DOMAIN t : s[i] # e
  <2> TAKE i \in DOMAIN t
  <2>1. i < Len(s) /\ i \in DOMAIN s /\ Len(s) \in DOMAIN s
    BY <1>1, <1>2, <1>3
  <2>2. s[i] < s[Len(s)] /\ s[i] \in Nat
    BY <1>1, <2>1 DEF Increasing, Updates
  <2> QED BY <1>4, <2>2
<1>6. \A i \in DOMAIN s : s[i] # e => i \in DOMAIN t
  BY <1>1, <1>3, <1>4
<1>7. Members(t) = Members(s) \ {e}
  BY <1>3, <1>5, <1>6 DEF Members
<1>8. Increasing(t)
  BY <1>3 DEF Increasing
<1> HIDE DEF t
<1> QED BY <1>7, <1>8 DEF t

\* Answers on their way stay in order when one is sent, or the first read.
LEMMA OksSent ==
  ASSUME FillTypeOK, OksInOrder, NEW m \in Messages, Send(m), m.type = "UpdateOk" => \A u \in UpdateOks : u < m.update
  PROVE  /\ OksInOrder'
         /\ UpdateOks' = IF m.type = "UpdateOk" /\ Carries THEN UpdateOks \cup {m.update} ELSE UpdateOks
<1>1. /\ Len(down) \in Nat /\ DOMAIN down = 1 .. Len(down) /\ DOMAIN down \subseteq DOMAIN down'
      /\ \A i \in DOMAIN down : down'[i] = down[i] /\ i < Len(down) + 1
      /\ \A i \in DOMAIN down' : i \in DOMAIN down \/ (i = Len(down) + 1 /\ down'[i] = m /\ Carries)
      /\ Carries => Len(down) + 1 \in DOMAIN down' /\ down'[Len(down) + 1] = m
  BY Sends DEF FillTypeOK
<1>2. OksInOrder'
  <2> SUFFICES ASSUME NEW i \in DOMAIN down', NEW j \in DOMAIN down', i < j,
                      down'[i].type = "UpdateOk", down'[j].type = "UpdateOk"
               PROVE  down'[i].update < down'[j].update
    BY DEF OksInOrder
  <2>1. i \in DOMAIN down
    BY <1>1
  <2>2. CASE j \in DOMAIN down
    BY <1>1, <2>1, <2>2 DEF OksInOrder
  <2>3. CASE down'[j] = m
    BY <1>1, <2>1, <2>3 DEF UpdateOks
  <2> QED BY <1>1, <2>2, <2>3
<1>3. UpdateOks' \subseteq UpdateOks \cup (IF m.type = "UpdateOk" /\ Carries THEN {m.update} ELSE {})
  BY <1>1 DEF UpdateOks
<1>4. UpdateOks \subseteq UpdateOks'
  BY <1>1 DEF UpdateOks
<1>5. m.type = "UpdateOk" /\ Carries => m.update \in UpdateOks'
  BY <1>1 DEF UpdateOks
<1> QED BY <1>2, <1>3, <1>4, <1>5

LEMMA OksRead ==
  ASSUME FillTypeOK, OksInOrder, NEW type, ReadsNext(type)
  PROVE  /\ OksInOrder'
         /\ UpdateOks' = IF type = "UpdateOk" THEN UpdateOks \ {down[1].update} ELSE UpdateOks
         /\ type = "UpdateOk" => down[1].update \in UpdateOks
         /\ type = "UpdateOk" => \A u \in UpdateOks : u # down[1].update => down[1].update < u
<1>1. /\ 1 \in DOMAIN down /\ down[1].type = type /\ DOMAIN down \subseteq Nat \ {0} /\ DOMAIN down' \subseteq Nat \ {0}
      /\ \A i \in DOMAIN down' : i + 1 \in DOMAIN down /\ down'[i] = down[i + 1]
      /\ \A i \in DOMAIN down : i # 1 => i - 1 \in DOMAIN down' /\ down'[i - 1] = down[i]
      /\ \A i \in DOMAIN down : i # 1 => i > 1
  BY Reads DEF FillTypeOK
<1>2. OksInOrder'
  BY <1>1 DEF OksInOrder
<1>3. \A i \in DOMAIN down : down[i].update \in Nat
  <2>1. \A i \in DOMAIN down : down[i] \in Messages
    BY Indexed DEF FillTypeOK
  <2> QED BY <2>1 DEF Messages, Fills
<1>4. type = "UpdateOk" => \A i \in DOMAIN down : i # 1 /\ down[i].type = "UpdateOk" => down[1].update < down[i].update
  BY <1>1 DEF OksInOrder
<1>5. UpdateOks' \subseteq UpdateOks
  BY <1>1 DEF UpdateOks
<1>6. type # "UpdateOk" => UpdateOks \subseteq UpdateOks'
  BY <1>1 DEF UpdateOks
<1>7. type = "UpdateOk" => down[1].update \in UpdateOks /\ down[1].update \notin UpdateOks'
  <2> SUFFICES ASSUME type = "UpdateOk" PROVE down[1].update \in UpdateOks /\ down[1].update \notin UpdateOks'
    OBVIOUS
  <2>1. \A i \in DOMAIN down' : down'[i].type = "UpdateOk" => down[1].update # down'[i].update
    <3> TAKE i \in DOMAIN down'
    <3> HAVE down'[i].type = "UpdateOk"
    <3>1. i + 1 \in DOMAIN down /\ i + 1 # 1 /\ down'[i] = down[i + 1]
      BY <1>1
    <3>2. down[1].update < down[i + 1].update /\ down[1].update \in Nat /\ down[i + 1].update \in Nat
      BY <1>1, <1>3, <1>4, <3>1
    <3> QED BY <3>1, <3>2
  <2> QED BY <1>1, <2>1 DEF UpdateOks
<1>8. type = "UpdateOk" => \A u \in UpdateOks : u # down[1].update => down[1].update < u
  BY <1>1, <1>4 DEF UpdateOks
<1>9. type = "UpdateOk" => UpdateOks \ {down[1].update} \subseteq UpdateOks'
  <2> SUFFICES ASSUME NEW i \in DOMAIN down, down[i].type = "UpdateOk", i # 1 PROVE down[i].update \in UpdateOks'
    BY DEF UpdateOks
  <2> QED BY <1>1 DEF UpdateOks
<1> QED BY <1>2, <1>5, <1>6, <1>7, <1>8, <1>9

\* The answer read is the answer to the update of the first slot.
LEMMA FirstSlot ==
  ASSUME FillTypeOK, InOrder, SlotsInv, delivery = "on", down # <<>>, Head(down).type = "UpdateOk"
  PROVE  pending # <<>> /\ Head(pending) = down[1].update
<1>1. down[1].update \in UpdateOks /\ \A u \in UpdateOks : u # down[1].update => down[1].update < u
  <2>1. Head(down) = down[1] /\ 1 \in DOMAIN down
    BY Popped DEF FillTypeOK
  <2>2. \A i \in DOMAIN down : i # 1 => 1 < i
    BY Indexed DEF FillTypeOK
  <2> QED BY <2>1, <2>2 DEF InOrder, OksInOrder, UpdateOks
<1>2. delivery = "on"
  OBVIOUS
<1>3. down[1].update \in Slots
  BY <1>1, <1>2 DEF SlotsInv
<1>4. pending # <<>>
  BY <1>3 DEF Slots, Members
<1>5. Head(pending) \in Slots /\ \A v \in Slots : v # Head(pending) => Head(pending) < v
  BY <1>4, MembersPopped DEF FillTypeOK, InOrder, Slots
<1>6. Slots \subseteq Nat
  BY DEF InOrder
<1>7. ASSUME Head(pending) # down[1].update PROVE FALSE
  <2>1. Head(pending) < down[1].update
    BY <1>3, <1>5, <1>7
  <2>2. Head(pending) \in UpdateOks
    BY <1>1, <1>2, <1>3, <1>5, <2>1 DEF SlotsInv
  <2>3. down[1].update < Head(pending)
    BY <1>1, <1>7, <2>2
  <2>4. Head(pending) \in Nat /\ down[1].update \in Nat
    BY <1>3, <1>5, <1>6
  <2> QED BY <2>1, <2>3, <2>4
<1> QED BY <1>4, <1>7

------------------------------------------------------------------------------
(* Slots.                                                                   *)

\* The reader is at one update or at none.
LEMMA OneReader ==
  ASSUME NEW x
  PROVE  /\ {<<x>>[i].update : i \in DOMAIN <<x>>} = {x.update}
         /\ {<<x>>[i].update : i \in {k \in DOMAIN <<x>> : <<x>>[k].at = "merged"}}
              = IF x.at = "merged" THEN {x.update} ELSE {}
         /\ {<<x>>[i].update : i \in {k \in DOMAIN <<x>> : <<x>>[k].at = "answered"}}
              = IF x.at = "answered" THEN {x.update} ELSE {}
<1>1. DOMAIN <<x>> = {1} /\ <<x>>[1] = x
  OBVIOUS
<1> QED BY <1>1

LEMMA NoReader ==
  /\ {<<>>[i].update : i \in DOMAIN <<>>} = {}
  /\ \A at : {<<>>[i].update : i \in {k \in DOMAIN <<>> : <<>>[k].at = at}} = {}
OBVIOUS

\* The sets of updates the slots are made of.
LEMMA SlotTypes ==
  ASSUME FillTypeOK, InOrder
  PROVE  /\ Slots \subseteq Nat /\ writing \subseteq Nat /\ UpdateOks \subseteq Nat /\ Reading \subseteq Updates
         /\ Merged \subseteq Reading /\ Members(up) \subseteq Updates /\ made \in Nat /\ Slots \subseteq Updates
<1>1. Slots \subseteq Updates /\ Members(up) \subseteq Updates
  BY Indexed DEF FillTypeOK, Slots, Members
<1>2. UpdateOks \subseteq Fills
  <2>1. \A i \in DOMAIN down : down[i] \in Messages
    BY Indexed DEF FillTypeOK
  <2> QED BY <2>1 DEF Messages, UpdateOks
<1>3. Reading \subseteq Updates /\ Merged \subseteq Reading
  <2>1. CASE reader = <<>>
    BY <2>1 DEF Reading, Merged
  <2>2. CASE reader # <<>>
    <3>1. PICK x \in [update : Updates, at : {"merged", "answered"}] : reader = <<x>>
      BY <2>2 DEF FillTypeOK
    <3> QED BY <3>1, OneReader DEF Reading, Merged
  <2> QED BY <2>1, <2>2
<1> QED BY <1>1, <1>2, <1>3 DEF FillTypeOK, Updates, Fills

\* Each step keeps the updates in order and the slots theirs.
LEMMA SlotsStep == FillTypeOK /\ Beginning /\ Connected /\ InOrder /\ SlotsInv /\ [Next]_vars => InOrder' /\ SlotsInv'
<1> SUFFICES ASSUME FillTypeOK, Beginning, Connected, InOrder, SlotsInv, [Next]_vars PROVE InOrder' /\ SlotsInv'
  OBVIOUS
<1>m. Updates \subseteq Nat \ {0}
  BY DEF Updates
<1>n. /\ Slots \subseteq Nat /\ writing \subseteq Nat /\ UpdateOks \subseteq Nat /\ Reading \subseteq Updates
      /\ Merged \subseteq Reading /\ Members(up) \subseteq Updates /\ made \in Nat
  BY SlotTypes
<1>u. Updating = writing \cup Members(up) /\ (Updating = writing \cup Members(up))'
  BY DEF Updating, Members
\* Steps that have nothing to do with updates.
<1>q. ASSUME UNCHANGED <<pending, up, writing, made, reader>>, OksInOrder', UpdateOks' = UpdateOks,
             delivery' = "on" => delivery = "on", SendDone => SendDone'
      PROVE  InOrder' /\ SlotsInv'
  <2>1. UNCHANGED <<Slots, Members(up), Reading, Merged, Updating>>
    BY <1>q DEF Slots, Members, Reading, Merged, Updating
  <2>2. InOrder'
    BY <1>q, <2>1 DEF InOrder
  <2>3. SlotsInv'
    BY <1>q, <2>1 DEF SlotsInv
  <2> QED BY <2>2, <2>3
<1>p. ASSUME UNCHANGED <<pending, up, writing, made, reader, down>>, delivery' = "on" => delivery = "on",
             SendDone => SendDone'
      PROVE  InOrder' /\ SlotsInv'
  <2>1. OksInOrder' /\ UpdateOks' = UpdateOks
    BY <1>p DEF InOrder, OksInOrder, UpdateOks
  <2> QED BY <1>p, <1>q, <2>1
<1>t. ASSUME NEW m \in Messages, Send(m), m.type # "UpdateOk",
             UNCHANGED <<pending, up, writing, made, reader, delivery>>,
             SendDone => SendDone'
      PROVE  InOrder' /\ SlotsInv'
  <2>1. OksInOrder' /\ UpdateOks' = UpdateOks
    BY <1>t, OksSent DEF InOrder
  <2> QED BY <1>t, <1>q, <2>1
<1>r. ASSUME NEW type, ReadsNext(type), type # "UpdateOk", UNCHANGED <<pending, up, writing, made, reader, ending>>
      PROVE  InOrder' /\ SlotsInv'
  <2>1. OksInOrder' /\ UpdateOks' = UpdateOks
    BY <1>r, OksRead DEF InOrder
  <2>2. delivery = "on" /\ (SendDone => SendDone')
    BY <1>r DEF ReadsNext, SendDone
  <2> QED BY <1>r, <1>q, <2>1, <2>2
<1>1. ASSUME NEW l \in Places \cup {NoLocation}, AcceptAnswers(l) PROVE InOrder' /\ SlotsInv'
  <2>1. l \in Largests
    BY LocationFacts DEF Largests
  <2>2. PICK m \in Messages : m = Message("Ok", 0, l, <<>>, <<>>)
    BY <2>1, SentMessages
  <2>3. m.type # "UpdateOk"
    BY <2>2 DEF Message
  <2>4. Send(m) /\ UNCHANGED <<pending, up, writing, made, reader, delivery>> /\ (SendDone => SendDone')
    BY <1>1, <2>2 DEF AcceptAnswers, subscriber, SendDone
  <2> QED BY <1>t, <2>3, <2>4
<1>2. CASE AcceptReturns \/ (\E l \in Places : Publish(l)) \/ (\E change \in Changes : NotifyState(change))
           \/ (\E f \in Fills : OpenFill(f) \/ RegisterFill(f) \/ EndFill(f, "fin") \/ EndFill(f, "reset"))
  <2>1. UNCHANGED <<pending, up, writing, made, reader, down, delivery, ending>>
    BY <1>2 DEF AcceptReturns, Publish, NotifyState, OpenFill, RegisterFill, EndFill, wire, subscriber
  <2> QED BY <1>p, <2>1 DEF SendDone
<1>3. CASE MergeUpdate
  <2>1. PICK u \in Updates : u = Head(up)
    BY <1>3, Popped DEF MergeUpdate, FillTypeOK
  <2>2. up # <<>> /\ up' = Tail(up) /\ reader' = <<[update |-> u, at |-> "merged"]>> /\ reader = <<>>
        /\ UNCHANGED <<pending, writing, made, down, delivery, ending>>
    BY <1>3, <2>1 DEF MergeUpdate, subscriber
  <2>3. UNCHANGED <<Slots, UpdateOks, SendDone>> /\ OksInOrder' /\ Increasing(pending')
    BY <2>2 DEF Slots, UpdateOks, InOrder, OksInOrder, SendDone
  <2>4. /\ u \in Members(up) /\ Members(up') = Members(up) \ {u} /\ Increasing(up')
        /\ \A v \in Members(up) : v # u => u < v
    BY <2>1, <2>2, MembersPopped DEF FillTypeOK, InOrder
  <2>5. Reading = {} /\ Merged = {} /\ Reading' = {u} /\ Merged' = {u}
    <3>1. [update |-> u, at |-> "merged"].update = u /\ [update |-> u, at |-> "merged"].at = "merged"
      OBVIOUS
    <3> QED BY <2>2, <3>1, OneReader, NoReader DEF Reading, Merged
  <2>6. InOrder'
    <3>1. \A v \in UpdateOks : v < u /\ v <= u
      BY <1>m, <1>n, <2>4 DEF InOrder
    <3>2. \A v \in Reading' \cup UpdateOks', w \in Members(up') : v < w
      BY <2>3, <2>4, <2>5 DEF InOrder
    <3>3. \A v \in Reading' \cup UpdateOks' \cup Members(up') : v <= made' /\ (writing' # {} => v < made')
      BY <2>2, <2>3, <2>4, <2>5 DEF InOrder
    <3>4. \A v \in UpdateOks' : (\A w \in Merged' : v < w) /\ (\A w \in Reading' : v <= w)
      BY <2>3, <2>5, <3>1
    <3>5. writing' \subseteq {made'} /\ Slots' \subseteq 1 .. made' /\ (writing' # {} => made' \in Slots')
      BY <2>2, <2>3 DEF InOrder
    <3> QED BY <2>3, <2>4, <3>2, <3>3, <3>4, <3>5 DEF InOrder
  <2>7. SlotsInv'
    BY <1>u, <2>2, <2>3, <2>4, <2>5 DEF SlotsInv
  <2> QED BY <2>6, <2>7
<1>4. CASE AnswerUpdate
  <2>1. PICK x \in [update : Updates, at : {"merged", "answered"}] : reader = <<x>>
    BY <1>4 DEF AnswerUpdate, FillTypeOK
  <2>2. PICK u \in Updates : u = x.update
    BY <2>1
  <2>3. Reading = {u} /\ Merged = {u}
    BY <1>4, <2>1, <2>2, OneReader DEF AnswerUpdate, Reading, Merged
  <2>4. UNCHANGED <<pending, up, writing, made, delivery, ending>>
    BY <1>4 DEF AnswerUpdate, subscriber
  <2>5. UNCHANGED <<Slots, Members(up), SendDone>> /\ Increasing(pending') /\ Increasing(up')
    BY <2>4 DEF Slots, SendDone, InOrder
  <2>6. CASE SendDone \/ ~session
    <3>1. reader' = <<>> /\ down' = down
      BY <1>4, <2>6 DEF AnswerUpdate
    <3>2. Reading' = {} /\ Merged' = {} /\ UpdateOks' = UpdateOks /\ OksInOrder'
      BY <3>1, NoReader DEF Reading, Merged, UpdateOks, InOrder, OksInOrder
    <3>3. InOrder'
      BY <1>n, <2>4, <2>5, <3>2 DEF InOrder
    <3>4. SlotsInv'
      BY <2>4, <2>5, <2>6, <3>2 DEF SlotsInv, Connected
    <3> QED BY <3>3, <3>4
  <2>7. CASE ~SendDone /\ session
    <3>1. PICK m \in Messages : m = Message("UpdateOk", u, pub.largest, <<>>, <<>>)
      BY SentMessages
    <3>2. m.type = "UpdateOk" /\ m.update = u
      BY <3>1 DEF Message
    <3>3. Send(m)
      BY <1>4, <2>1, <2>2, <2>7, <3>1 DEF AnswerUpdate
    <3>4. \A v \in UpdateOks : v < u
      BY <2>3 DEF InOrder
    <3>5. OksInOrder' /\ UpdateOks' = IF Carries THEN UpdateOks \cup {u} ELSE UpdateOks
      BY <3>2, <3>3, <3>4, OksSent DEF InOrder
    <3>6. Merged' = {} /\ Reading' \subseteq {u}
      <4>1. CASE reader' = <<>>
        BY <4>1, NoReader DEF Reading, Merged
      <4>2. CASE reader' # <<>>
        <5>1. reader' = <<[x EXCEPT !.at = "answered"]>>
          BY <1>4, <2>1, <2>7, <4>2 DEF AnswerUpdate
        <5>2. [x EXCEPT !.at = "answered"].update = u /\ [x EXCEPT !.at = "answered"].at = "answered"
          BY <2>2
        <5> QED BY <5>1, <5>2, OneReader DEF Reading, Merged
      <4> QED BY <4>1, <4>2
    <3>7. InOrder'
      BY <1>n, <1>m, <2>3, <2>4, <2>5, <3>5, <3>6 DEF InOrder
    <3>8. SlotsInv'
      <4>1. SUFFICES ASSUME delivery = "on" PROVE SlotsInv'
        BY <2>4 DEF SlotsInv
      <4>2. Slots = UpdateOks \cup {u} \cup Updating /\ UpdateOks' = UpdateOks \cup {u} /\ Updating' = Updating
        BY <1>u, <2>3, <2>4, <2>5, <2>7, <3>5, <4>1 DEF SlotsInv, Carries
      <4>3. \A v \in Updating : u < v
        BY <1>u, <2>3, <4>1 DEF InOrder
      <4>4. \A v \in Slots' : v < u => v \in UpdateOks'
        BY <1>m, <1>n, <2>5, <4>2, <4>3
      <4>5. \A w \in UpdateOks, v \in Slots' : v < w => v \in UpdateOks'
        BY <2>5, <4>1, <4>2 DEF SlotsInv
      <4> QED BY <2>5, <3>6, <4>2, <4>4, <4>5 DEF SlotsInv
    <3> QED BY <3>7, <3>8
  <2> QED BY <2>6, <2>7
<1>5. CASE ReaderStartsFill
  <2>1. PICK x \in [update : Updates, at : {"merged", "answered"}] : reader = <<x>>
    BY <1>5 DEF ReaderStartsFill, FillTypeOK
  <2>2. x.at = "answered" /\ reader' = <<>> /\ UNCHANGED <<pending, up, writing, made, delivery, ending, down>>
    BY <1>5, <2>1 DEF ReaderStartsFill, subscriber, wire
  <2>3. Merged = {} /\ Merged' = {} /\ Reading' = {}
    BY <2>1, <2>2, OneReader, NoReader DEF Merged, Reading
  <2>4. UNCHANGED <<Slots, Members(up), Updating, UpdateOks, SendDone>> /\ OksInOrder'
    BY <2>2 DEF Slots, Updating, UpdateOks, SendDone, InOrder, OksInOrder
  <2>5. InOrder'
    BY <2>2, <2>3, <2>4 DEF InOrder
  <2>6. SlotsInv'
    BY <2>2, <2>3, <2>4 DEF SlotsInv
  <2> QED BY <2>5, <2>6
<1>6. ASSUME NEW n \in 1 .. MaxNotices, WriteNotice(n) PROVE InOrder' /\ SlotsInv'
  <2>1. notice[n] \in Messages /\ n \in DOMAIN notice /\ (down' = down \/ Send(notice[n]))
    BY <1>6, NoticeWritten
  <2>2. PICK m \in Messages : m = notice[n]
    BY <2>1
  <2>3. m.type = "Notify"
    BY <2>1, <2>2 DEF Beginning
  <2>4. UNCHANGED <<pending, up, writing, made, reader, delivery, ending>>
    BY <1>6 DEF WriteNotice, subscriber
  <2>5. CASE Send(m)
    BY <1>t, <2>3, <2>4, <2>5 DEF SendDone
  <2>6. CASE down' = down
    BY <1>p, <2>4, <2>6 DEF SendDone
  <2> QED BY <2>1, <2>2, <2>5, <2>6
<1>7. CASE CloseResetsFills \/ CloseCancels
  <2>1. UNCHANGED <<pending, up, writing, made, reader, down, delivery>> /\ (SendDone => SendDone')
    BY <1>7 DEF CloseResetsFills, CloseCancels, MayPublish, wire, subscriber, SendDone
  <2> QED BY <1>p, <2>1
<1>8. CASE CloseWrites
  <2>1. PICK m \in Messages : m = Message("Done", 0, NoLocation, <<>>, <<>>)
    BY SentMessages
  <2>2. m.type # "UpdateOk"
    BY <2>1 DEF Message
  <2>3. Send(m) /\ UNCHANGED <<pending, up, writing, made, reader, delivery>> /\ (SendDone => SendDone')
    BY <1>8, <2>1 DEF CloseWrites, subscriber, SendDone
  <2> QED BY <1>t, <2>2, <2>3
<1>9. CASE StreamEnded
  <2>1. up' = <<>> /\ SendDone' /\ UNCHANGED <<pending, writing, made, reader, delivery, down>>
    BY <1>9 DEF StreamEnded, subscriber, SendDone
  <2>2. UNCHANGED <<Slots, UpdateOks, Reading, Merged>> /\ OksInOrder'
    BY <2>1 DEF Slots, UpdateOks, InOrder, OksInOrder, Reading, Merged
  <2>3. Members(up') = {} /\ Increasing(up')
    BY <2>1 DEF Members, Increasing
  <2>4. InOrder'
    BY <2>1, <2>2, <2>3 DEF InOrder
  <2>5. SlotsInv'
    BY <2>1, <2>2 DEF SlotsInv
  <2> QED BY <2>4, <2>5
<1>10. ASSUME NEW ask \in Asks, MakeUpdate(ask) PROVE InOrder' /\ SlotsInv'
  <2>1. PICK u \in Updates : u = made + 1
    BY <1>10 DEF MakeUpdate, FillTypeOK, Updates
  <2>2. /\ made' = u /\ pending' = Append(pending, u) /\ writing' = writing \cup {u} /\ writing = {}
        /\ UNCHANGED <<up, down, reader, delivery, ending>>
    BY <1>10, <2>1 DEF MakeUpdate, MayUpdate, publisher, wire
  <2>3. \A v \in Slots : v < u
    BY <1>n, <2>1 DEF InOrder
  <2>4. Slots' = Slots \cup {u} /\ Increasing(pending')
    BY <2>2, <2>3, MembersAppended DEF FillTypeOK, InOrder, Slots
  <2>5. UNCHANGED <<Members(up), Reading, Merged, UpdateOks, SendDone>> /\ OksInOrder' /\ Increasing(up')
    BY <2>2 DEF Reading, Merged, UpdateOks, SendDone, InOrder, OksInOrder
  <2>6. InOrder'
    <3>1. \A v \in Reading \cup UpdateOks \cup Members(up) : v < u
      BY <1>n, <1>m, <2>1 DEF InOrder
    <3>2. Slots' \subseteq 1 .. u
      BY <1>n, <1>m, <2>1, <2>4 DEF InOrder
    <3>3. \A v \in Reading \cup UpdateOks \cup Members(up) : v <= u
      BY <1>n, <1>m, <3>1
    <3>4. writing' = {u}
      BY <2>2
    <3> QED BY <2>2, <2>4, <2>5, <3>1, <3>2, <3>3, <3>4 DEF InOrder
  <2>7. SlotsInv'
    <3>1. SUFFICES ASSUME delivery = "on" PROVE SlotsInv'
      BY <2>2 DEF SlotsInv
    <3>2. \A w \in UpdateOks : w < u
      BY <1>n, <1>m, <2>1 DEF InOrder
    <3>3. \A w \in UpdateOks, v \in Slots' : v < w => v \in UpdateOks'
      BY <1>n, <1>m, <2>4, <2>5, <3>1, <3>2 DEF SlotsInv
    <3>4. ~SendDone => Slots' = UpdateOks \cup Merged \cup Updating'
      BY <1>u, <2>2, <2>4, <2>5, <3>1 DEF SlotsInv
    <3> QED BY <2>4, <2>5, <3>1, <3>3, <3>4 DEF SlotsInv
  <2> QED BY <2>6, <2>7
<1>11. ASSUME NEW u \in Updates, WriteUpdate(u) PROVE InOrder' /\ SlotsInv'
  <2>1. /\ u \in writing /\ writing' = writing \ {u}
        /\ UNCHANGED <<pending, down, reader, made, delivery, ending>>
        /\ up' = (IF ending \in {"cancelled", "ended"} THEN up ELSE Append(up, u))
    BY <1>11 DEF WriteUpdate, publisher
  <2>2. writing = {u} /\ made = u /\ writing' = {}
    BY <2>1 DEF InOrder
  <2>3. UNCHANGED <<Slots, Reading, Merged, UpdateOks, SendDone>> /\ OksInOrder' /\ Increasing(pending')
    BY <2>1 DEF Slots, Reading, Merged, UpdateOks, SendDone, InOrder, OksInOrder
  <2>4. CASE ending \in {"cancelled", "ended"}
    <3>1. up' = up /\ SendDone
      BY <2>1, <2>4 DEF SendDone
    <3>2. InOrder'
      BY <2>1, <2>2, <2>3, <3>1 DEF InOrder
    <3>3. SlotsInv'
      BY <2>1, <2>3, <3>1 DEF SlotsInv
    <3> QED BY <3>2, <3>3
  <2>5. CASE ending \notin {"cancelled", "ended"}
    <3>1. \A v \in Members(up) : v < u
      BY <2>2 DEF InOrder
    <3>2. Members(up') = Members(up) \cup {u} /\ Increasing(up')
      BY <2>1, <2>5, <3>1, MembersAppended DEF FillTypeOK, InOrder
    <3>3. Updating' = Updating
      BY <1>u, <2>2, <3>2
    <3>4. InOrder'
      BY <1>n, <1>m, <2>1, <2>2, <2>3, <3>2 DEF InOrder
    <3>5. SlotsInv'
      BY <2>1, <2>3, <3>3 DEF SlotsInv
    <3> QED BY <3>4, <3>5
  <2> QED BY <2>4, <2>5
<1>12. ASSUME NEW u \in Updates, WriteFails(u) PROVE InOrder' /\ SlotsInv'
  <2>1. /\ u \in writing /\ writing' = writing \ {u} /\ pending' = SubSeq(pending, 1, Len(pending) - 1)
        /\ UNCHANGED <<up, down, reader, made, delivery, ending>>
    BY <1>12 DEF WriteFails, publisher, wire
  <2>2. writing = {u} /\ made = u /\ writing' = {} /\ u \in Slots
    BY <2>1 DEF InOrder
  <2>3. Slots' = Slots \ {u} /\ Increasing(pending')
    <3>1. \A v \in Slots : v <= u
      BY <2>2 DEF InOrder
    <3> QED BY <2>1, <2>2, <3>1, MembersShortened DEF FillTypeOK, InOrder, Slots
  <2>4. UNCHANGED <<Members(up), Reading, Merged, UpdateOks, SendDone>> /\ OksInOrder' /\ Increasing(up')
    BY <2>1 DEF Reading, Merged, UpdateOks, SendDone, InOrder, OksInOrder
  <2>5. InOrder'
    BY <2>1, <2>2, <2>3, <2>4 DEF InOrder
  <2>6. SlotsInv'
    <3>1. SUFFICES ASSUME delivery = "on" PROVE SlotsInv'
      BY <2>1 DEF SlotsInv
    <3>2. u \notin UpdateOks \cup Merged \cup Members(up)
      BY <1>n, <1>m, <2>2 DEF InOrder
    <3>3. ~SendDone => Slots' = UpdateOks \cup Merged \cup Updating'
      BY <1>u, <2>2, <2>3, <2>4, <3>1, <3>2 DEF SlotsInv
    <3> QED BY <2>3, <2>4, <3>1, <3>2, <3>3 DEF SlotsInv
  <2> QED BY <2>5, <2>6
<1>13. CASE ReadOk
  <2>1. ReadsNext("Ok") /\ UNCHANGED <<pending, up, writing, made, reader, ending>>
    BY <1>13 DEF ReadOk, publisher
  <2> QED BY <1>r, <2>1
<1>14. CASE ReadUpdateOk
  <2>1. ReadsNext("UpdateOk") /\ pending' = Tail(pending) /\ UNCHANGED <<up, writing, made, reader, ending, delivery>>
    BY <1>14 DEF ReadUpdateOk, publisher
  <2>2. PICK u : u = down[1].update
    OBVIOUS
  <2>3. pending # <<>> /\ Head(pending) = u
    BY <2>1, <2>2, FirstSlot DEF ReadsNext
  <2>4. OksInOrder' /\ UpdateOks' = UpdateOks \ {u} /\ u \in UpdateOks /\ \A v \in UpdateOks : v # u => u < v
    BY <2>1, <2>2, OksRead DEF InOrder
  <2>5. Slots' = Slots \ {u} /\ u \in Slots /\ Increasing(pending')
    BY <2>1, <2>3, MembersPopped DEF FillTypeOK, InOrder, Slots
  <2>6. UNCHANGED <<Members(up), Reading, Merged, Updating, SendDone>> /\ Increasing(up')
    BY <2>1 DEF Reading, Merged, Updating, SendDone, InOrder
  <2>7. InOrder'
    BY <1>n, <2>1, <2>4, <2>5, <2>6 DEF InOrder
  <2>8. SlotsInv'
    <3>1. u \notin Merged \cup Updating
      BY <1>u, <1>n, <2>4 DEF InOrder
    <3> QED BY <2>1, <2>4, <2>5, <2>6, <3>1 DEF SlotsInv, ReadsNext
  <2> QED BY <2>7, <2>8
<1>15. CASE ReadNotify
  <2>1. ReadsNext("Notify") /\ UNCHANGED <<pending, up, writing, made, reader, ending>>
    BY <1>15 DEF ReadNotify, publisher
  <2> QED BY <1>r, <2>1
<1>16. CASE ReadDone
  <2>1. ReadsNext("Done") /\ UNCHANGED <<pending, up, writing, made, reader, ending>>
    BY <1>16 DEF ReadDone, publisher
  <2> QED BY <1>r, <2>1
<1>17. CASE FinishDelivery \/ (\E f \in Fills : AttachStream(f)) \/ (\E f \in Fills : FinishFill(f) \/ StreamEnds(f) \/ HandlerFails(f) \/ DeliverFails(f))
  <2>1. UNCHANGED <<pending, up, writing, made, reader, down, ending>> /\ (delivery' = "on" => delivery = "on")
    BY <1>17 DEF FinishDelivery, AttachStream, FinishFill, StreamEnds, HandlerFails, DeliverFails, publisher, wire
  <2> QED BY <1>p, <2>1 DEF SendDone
<1>18. CASE Close
  <2>1. UNCHANGED <<pending, up, writing, made, reader, ending>> /\ delivery' = "closed" /\ down' = <<>>
    BY <1>18 DEF Close, publisher
  <2>2. UpdateOks' = {} /\ OksInOrder'
    BY <2>1 DEF UpdateOks, OksInOrder
  <2>3. UNCHANGED <<Slots, Members(up), Reading, Merged>>
    BY <2>1 DEF Slots, Reading, Merged
  <2>4. InOrder'
    BY <2>1, <2>2, <2>3 DEF InOrder
  <2> QED BY <2>1, <2>4 DEF SlotsInv
<1>20. CASE SessionEnds
  <2>1. /\ UNCHANGED <<pending, writing, made, reader, ending>> /\ delivery' # "on"
        /\ up' = <<>> /\ down' = <<>>
    BY <1>20 DEF SessionEnds, publisher
  <2>2. UpdateOks' = {} /\ OksInOrder' /\ Members(up') = {} /\ Increasing(up')
    BY <2>1 DEF UpdateOks, OksInOrder, Members, Increasing
  <2>3. UNCHANGED <<Slots, Reading, Merged>>
    BY <2>1 DEF Slots, Reading, Merged
  <2>4. InOrder'
    BY <2>1, <2>2, <2>3 DEF InOrder
  <2> QED BY <2>1, <2>4 DEF SlotsInv
<1>19. CASE UNCHANGED vars
  <2>1. UNCHANGED <<pending, up, writing, made, reader, down, delivery, ending>>
    BY <1>19 DEF vars, publisher, subscriber, wire
  <2> QED BY <1>p, <2>1 DEF SendDone
<1> QED BY <1>1, <1>2, <1>3, <1>4, <1>5, <1>6, <1>7, <1>8, <1>9, <1>10, <1>11, <1>12, <1>13, <1>14, <1>15,
           <1>16, <1>17, <1>18, <1>19, <1>20, Actions

\* An answer frees its own slot.
LEMMA SlotsHold == FillTypeOK /\ InOrder /\ SlotsInv => SlotsInOrder
<1> SUFFICES ASSUME FillTypeOK, InOrder, SlotsInv, delivery = "on" PROVE SlotsInOrder
  BY DEF SlotsInOrder
<1>1. ~SendDone => {pending[i] : i \in DOMAIN pending} = UpdateOks \cup Merged \cup Updating
  BY DEF SlotsInv, Slots, Members
<1>2. ASSUME down # <<>>, Head(down).type = "UpdateOk" PROVE pending # <<>> /\ Head(pending) = Head(down).update
  <2>1. Head(down) = down[1]
    BY <1>2, Popped DEF FillTypeOK
  <2> QED BY <1>2, <2>1, FirstSlot
<1> QED BY <1>1, <1>2 DEF SlotsInOrder

------------------------------------------------------------------------------
(* The Largest Object.                                                      *)

\* Largest Objects, wherever they are kept.
LEMMA KnownTypes ==
  ASSUME FillTypeOK
  PROVE  /\ pub.largest \in Largests /\ sub.largest \in Largests
         /\ \A i \in DOMAIN down : down[i] \in Messages /\ down[i].largest \in Largests
         /\ \A i \in DOMAIN notice : notice[i] \in Messages /\ notice[i].largest \in Largests
<1>1. \A i \in DOMAIN down : down[i] \in Messages
  BY Indexed DEF FillTypeOK
<1>2. \A i \in DOMAIN notice : notice[i] \in Messages
  BY Indexed DEF FillTypeOK
<1> QED BY <1>1, <1>2 DEF FillTypeOK, Messages

\* The subscriber is told of no Object the publisher does not have.
LEMMA KnownStep == FillTypeOK /\ Beginning /\ Known /\ [Next]_vars => Known'
<1> SUFFICES ASSUME FillTypeOK, Beginning, Known, [Next]_vars PROVE Known'
  OBVIOUS
<1>k. /\ pub.largest \in Largests /\ sub.largest \in Largests /\ pub'.largest \in Largests /\ sub'.largest \in Largests
      /\ \A i \in DOMAIN down : down[i] \in Messages /\ down[i].largest \in Largests
      /\ \A i \in DOMAIN notice : notice[i] \in Messages /\ notice[i].largest \in Largests
  <2>1. FillTypeOK'
    BY TypeStep
  <2>2. pub'.largest \in Largests /\ sub'.largest \in Largests
    BY <2>1 DEF FillTypeOK
  <2> QED BY <2>2, KnownTypes
<1>q. ASSUME acceptor # "asked", UNCHANGED <<sub, down, notice>>, NotAfter(pub.largest, pub'.largest) PROVE Known'
  <2>1. \A l \in Largests : NotAfter(l, pub.largest) => NotAfter(l, pub'.largest)
    BY <1>k, <1>q, LocationFacts
  <2> QED BY <1>k, <1>q, <2>1 DEF Known
<1>p. ASSUME UNCHANGED <<sub, down, notice, acceptor, pub>> PROVE Known'
  BY <1>p DEF Known
<1>t. ASSUME NEW m \in Messages, Send(m), acceptor # "asked", NotAfter(m.largest, pub.largest),
             UNCHANGED <<sub, pub>>, \A i \in DOMAIN notice' : \E k \in DOMAIN notice : notice'[i] = notice[k]
      PROVE  Known'
  <2>1. \A i \in DOMAIN down' : (i \in DOMAIN down /\ down'[i] = down[i]) \/ down'[i] = m
    BY <1>t, Sends DEF FillTypeOK
  <2>2. \A i \in DOMAIN down' : NotAfter(down'[i].largest, pub.largest)
    BY <1>t, <2>1 DEF Known
  <2>3. \A i \in DOMAIN notice' : NotAfter(notice'[i].largest, pub.largest)
    BY <1>t DEF Known
  <2> QED BY <1>t, <2>2, <2>3 DEF Known
<1>r. ASSUME NEW type, ReadsNext(type), UNCHANGED <<pub, notice>>,
             sub'.largest \in {sub.largest, down[1].largest, Later(sub.largest, down[1].largest)}
      PROVE  Known'
  <2>1. /\ 1 \in DOMAIN down
        /\ \A i \in DOMAIN down' : i + 1 \in DOMAIN down /\ down'[i] = down[i + 1]
    BY <1>r, Reads DEF FillTypeOK
  <2>2. acceptor # "asked"
    BY <1>r DEF ReadsNext, Beginning, wire
  <2>3. NotAfter(sub.largest, pub.largest) /\ NotAfter(down[1].largest, pub.largest)
    BY <2>1, <2>2 DEF Known
  <2>4. NotAfter(sub'.largest, pub.largest)
    <3>1. NotAfter(Later(sub.largest, down[1].largest), pub.largest)
      BY <1>k, <2>1, <2>3, LocationFacts
    <3> QED BY <1>r, <2>3, <3>1
  <2> QED BY <1>r, <2>1, <2>2, <2>4 DEF Known
<1>1. ASSUME NEW l \in Places \cup {NoLocation}, AcceptAnswers(l) PROVE Known'
  <2>1. l \in Largests
    BY LocationFacts DEF Largests
  <2>2. PICK m \in Messages : m = Message("Ok", 0, l, <<>>, <<>>)
    BY <2>1, SentMessages
  <2>3. pub'.largest = l /\ m.largest = l /\ Send(m) /\ UNCHANGED <<sub, notice>>
    BY <1>1, <2>2 DEF AcceptAnswers, Message, subscriber
  <2>4. down = <<>> /\ notice = <<>> /\ sub.largest = NoLocation
    BY <1>1 DEF AcceptAnswers, Beginning, wire
  <2>5. \A i \in DOMAIN down' : down'[i] = m
    BY <2>3, <2>4, Sends DEF FillTypeOK
  <2>6. NotAfter(l, l) /\ NotAfter(NoLocation, l)
    BY <2>1, LocationFacts
  <2>7. \A i \in DOMAIN notice' : FALSE
    BY <2>3, <2>4
  <2> QED BY <2>3, <2>4, <2>5, <2>6, <2>7 DEF Known
<1>2. ASSUME NEW l \in Places, Publish(l) PROVE Known'
  <2>1. NotAfter(pub.largest, pub'.largest)
    <3>1. pub'.largest = l /\ Before(pub.largest, l)
      BY <1>2 DEF Publish, FillTypeOK
    <3>2. l \in Largests
      BY DEF Largests
    <3> QED BY <1>k, <3>1, <3>2, LocationFacts
  <2> QED BY <1>2, <1>q, <2>1 DEF Publish, MayPublish, wire, subscriber
<1>3. CASE AcceptReturns \/ MergeUpdate
  <2>1. pub'.largest = pub.largest /\ acceptor # "asked" /\ UNCHANGED <<sub, down, notice>>
    BY <1>3 DEF AcceptReturns, MergeUpdate, FillTypeOK, subscriber, wire
  <2> QED BY <1>k, <1>q, <2>1, LocationFacts
<1>4. CASE AnswerUpdate
  <2>1. PICK x \in [update : Updates, at : {"merged", "answered"}] : reader = <<x>>
    BY <1>4 DEF AnswerUpdate, FillTypeOK
  <2>2. PICK m \in Messages : m = Message("UpdateOk", x.update, pub.largest, <<>>, <<>>)
    BY SentMessages
  <2>3. NotAfter(m.largest, pub.largest)
    BY <1>k, <2>2, LocationFacts DEF Message
  <2>4. acceptor # "asked" /\ UNCHANGED <<sub, pub, notice>>
    BY <1>4 DEF AnswerUpdate, Beginning, subscriber
  <2>5. CASE Send(m)
    BY <1>t, <2>3, <2>4, <2>5
  <2>6. CASE down' = down
    BY <1>k, <1>q, <2>4, <2>6, LocationFacts
  <2> QED BY <1>4, <2>1, <2>2, <2>5, <2>6 DEF AnswerUpdate
<1>5. ASSUME NEW change \in Changes, NotifyState(change) PROVE Known'
  <2>1. acceptor # "asked" /\ UNCHANGED <<sub, down>> /\ pub'.largest = pub.largest
        /\ acceptor' = acceptor
    BY <1>5 DEF NotifyState, MayPublish, FillTypeOK, subscriber, wire
  <2>2. PICK m \in Messages : m = Message("Notify", 0, pub.largest, change.paused, change.filter)
    BY SentMessages
  <2>3. notice' = Append(notice, m) /\ m.largest = pub.largest
    BY <1>5, <2>2 DEF NotifyState, Message
  <2>4. \A i \in DOMAIN notice' : (i \in DOMAIN notice /\ notice'[i] = notice[i]) \/ notice'[i] = m
    BY <2>3, Appended DEF FillTypeOK
  <2>5. NotAfter(pub.largest, pub.largest)
    BY <1>k, LocationFacts
  <2>6. \A i \in DOMAIN notice' : NotAfter(notice'[i].largest, pub.largest)
    BY <2>1, <2>3, <2>4, <2>5 DEF Known
  <2> QED BY <2>1, <2>6 DEF Known
<1>6. ASSUME NEW n \in 1 .. MaxNotices, WriteNotice(n) PROVE Known'
  <2>1. /\ notice[n] \in Messages /\ n \in DOMAIN notice /\ notice # <<>>
        /\ \A i \in DOMAIN notice' : \E k \in DOMAIN notice : notice'[i] = notice[k]
        /\ down' = down \/ Send(notice[n])
    BY <1>6, NoticeWritten
  <2>2. PICK m \in Messages : m = notice[n]
    BY <2>1
  <2>3. acceptor # "asked" /\ UNCHANGED <<sub, pub, acceptor>>
    BY <1>6, <2>1 DEF WriteNotice, subscriber, Beginning
  <2>4. NotAfter(m.largest, pub.largest)
    BY <2>1, <2>2, <2>3 DEF Known
  <2>5. CASE Send(m)
    BY <1>t, <2>1, <2>3, <2>4, <2>5
  <2>6. CASE down' = down
    <3>1. \A i \in DOMAIN notice' : NotAfter(notice'[i].largest, pub.largest)
      BY <2>1, <2>3 DEF Known
    <3> QED BY <2>3, <2>6, <3>1 DEF Known
  <2> QED BY <2>1, <2>2, <2>5, <2>6
<1>7. CASE CloseWrites
  <2>1. PICK m \in Messages : m = Message("Done", 0, NoLocation, <<>>, <<>>)
    BY SentMessages
  <2>2. NotAfter(m.largest, pub.largest)
    BY <1>k, <2>1, LocationFacts DEF Message
  <2>3. Send(m) /\ acceptor # "asked" /\ UNCHANGED <<sub, pub, notice>>
    BY <1>7, <2>1 DEF CloseWrites, subscriber, Beginning
  <2> QED BY <1>t, <2>2, <2>3
<1>8. CASE ReaderStartsFill \/ CloseResetsFills \/ CloseCancels \/ StreamEnded
           \/ (\E f \in Fills : OpenFill(f) \/ RegisterFill(f) \/ EndFill(f, "fin") \/ EndFill(f, "reset"))
  <2>1. UNCHANGED <<sub, down, notice, acceptor, pub>>
    BY <1>8 DEF ReaderStartsFill, CloseResetsFills, CloseCancels, StreamEnded, OpenFill, RegisterFill, EndFill,
      subscriber, wire
  <2> QED BY <1>p, <2>1
<1>9. ASSUME NEW ask \in Asks, MakeUpdate(ask) PROVE Known'
  <2>1. sub'.largest = sub.largest /\ UNCHANGED <<down, notice, acceptor, pub>>
    BY <1>9 DEF MakeUpdate, FillTypeOK, publisher, wire
  <2> QED BY <2>1 DEF Known
<1>10. CASE ReadOk
  <2>1. ReadsNext("Ok") /\ UNCHANGED <<pub, notice>>
    BY <1>10 DEF ReadOk, publisher
  <2>2. sub'.largest = down[1].largest
    BY <1>10, <2>1, Reads DEF ReadOk, FillTypeOK
  <2> QED BY <1>r, <2>1, <2>2
<1>11. CASE ReadUpdateOk
  <2>1. ReadsNext("UpdateOk") /\ UNCHANGED <<pub, notice>>
    BY <1>11 DEF ReadUpdateOk, publisher
  <2>2. sub'.largest = Later(sub.largest, down[1].largest)
    BY <1>11, <2>1, Reads DEF ReadUpdateOk, FillTypeOK
  <2> QED BY <1>r, <2>1, <2>2
<1>12. CASE ReadNotify
  <2>1. ReadsNext("Notify") /\ UNCHANGED <<pub, notice>>
    BY <1>12 DEF ReadNotify, publisher
  <2>2. sub'.largest = Later(sub.largest, down[1].largest)
    BY <1>12, <2>1, Reads DEF ReadNotify, FillTypeOK
  <2> QED BY <1>r, <2>1, <2>2
<1>13. CASE ReadDone
  <2>1. ReadsNext("Done") /\ UNCHANGED <<pub, notice, sub>>
    BY <1>13 DEF ReadDone, publisher
  <2> QED BY <1>r, <2>1
<1>14. CASE Close \/ SessionEnds
  <2>1. UNCHANGED <<sub, notice, acceptor, pub>> /\ down' = <<>>
    BY <1>14 DEF Close, SessionEnds, publisher
  <2>2. \A i \in DOMAIN down' : FALSE
    BY <2>1
  <2> QED BY <2>1, <2>2 DEF Known
<1>15. CASE \/ FinishDelivery
            \/ \E u \in Updates : WriteUpdate(u)
            \/ \E u \in Updates : WriteFails(u)
            \/ \E f \in Fills : AttachStream(f)
            \/ \E f \in Fills : FinishFill(f) \/ StreamEnds(f) \/ HandlerFails(f) \/ DeliverFails(f)
  <2>1. UNCHANGED <<sub, down, notice, acceptor, pub>>
    BY <1>15 DEF FinishDelivery, WriteUpdate, WriteFails, AttachStream, FinishFill, StreamEnds, HandlerFails, DeliverFails, publisher, wire
  <2> QED BY <1>p, <2>1
<1>16. CASE UNCHANGED vars
  <2>1. UNCHANGED <<sub, down, notice, acceptor, pub>>
    BY <1>16 DEF vars, publisher, subscriber, wire
  <2> QED BY <1>p, <2>1
<1> QED BY <1>1, <1>2, <1>3, <1>4, <1>5, <1>6, <1>7, <1>8, <1>9, <1>10, <1>11, <1>12, <1>13, <1>14, <1>15,
           <1>16, Actions

------------------------------------------------------------------------------
(* Views: what is told, and in which order.                                 *)

Publishers == [largest : Largests, joining : Largests, forward : BOOLEAN, filter : Filters]
Subscribers == [largest : Largests, paused : BOOLEAN, filter : Filters]
Agree(p, s) == s.paused = ~p.forward /\ s.filter = p.filter

\* LastOf over a set that gives nothing; over one more, above all the others;
\* without the lowest, once it is the base; shifted by one.
LEMMA LastNone ==
  ASSUME NEW S, NEW g, \A n \in S : g[n] = <<>>, NEW b, NEW v
  PROVE  LastOf(S, g, b, v) <=> v = b
<1>1. \A n \in S : g[n] # <<v>>
  OBVIOUS
<1> QED BY <1>1 DEF LastOf

LEMMA LastAdded ==
  ASSUME NEW S \in SUBSET Nat, NEW n \in Nat, \A m \in S : m < n, NEW V, NEW g, NEW h, \A m \in S : h[m] = g[m],
         h[n] \in Parameters(V), NEW b, NEW v, LastOf(S, g, b, v)
  PROVE  LastOf(S \cup {n}, h, b, Given(h[n], v))
<1>1. \A m \in S \cup {n} : m > n => FALSE
  OBVIOUS
<1>2. CASE h[n] = <<>>
  <2>1. Given(h[n], v) = v
    BY <1>2 DEF Given
  <2>2. CASE v = b /\ \A m \in S : g[m] = <<>>
    BY <1>2, <2>1, <2>2 DEF LastOf
  <2>3. CASE \E k \in S : g[k] = <<v>> /\ \A m \in S : m > k => g[m] = <<>>
    <3>1. PICK k \in S : g[k] = <<v>> /\ \A m \in S : m > k => g[m] = <<>>
      BY <2>3
    <3>2. \A m \in S \cup {n} : m > k => h[m] = <<>>
      BY <1>2, <3>1
    <3> QED BY <2>1, <3>1, <3>2 DEF LastOf
  <2> QED BY <2>2, <2>3 DEF LastOf
<1>3. CASE h[n] # <<>>
  <2>1. h[n] = <<Given(h[n], v)>>
    BY <1>3 DEF Given, Parameters
  <2> QED BY <1>1, <2>1 DEF LastOf
<1> QED BY <1>2, <1>3

LEMMA LastRemoved ==
  ASSUME NEW S \in SUBSET Nat, NEW n \in S, \A m \in S \ {n} : n < m, NEW V, NEW g,
         g[n] \in Parameters(V), NEW b, NEW v, LastOf(S, g, b, v)
  PROVE  LastOf(S \ {n}, g, Given(g[n], b), v)
<1>1. CASE v = b /\ \A m \in S : g[m] = <<>>
  <2>1. Given(g[n], b) = b
    BY <1>1 DEF Given
  <2> QED BY <1>1, <2>1 DEF LastOf
<1>2. ASSUME NEW k \in S, g[k] = <<v>>, \A m \in S : m > k => g[m] = <<>>
      PROVE  LastOf(S \ {n}, g, Given(g[n], b), v)
  <2>1. CASE k = n
    <3>1. Given(g[n], b) = v
      BY <1>2, <2>1 DEF Given
    <3>2. \A m \in S \ {n} : g[m] = <<>>
      BY <1>2, <2>1
    <3> QED BY <3>1, <3>2 DEF LastOf
  <2>2. CASE k # n
    BY <1>2, <2>2 DEF LastOf
  <2> QED BY <2>1, <2>2
<1> QED BY <1>1, <1>2 DEF LastOf

LEMMA LastShifted ==
  ASSUME NEW S \in SUBSET Nat, NEW T \in SUBSET Nat, NEW g, NEW h, \A i \in T : i + 1 \in S /\ h[i] = g[i + 1],
         \A i \in S : i - 1 \in T, NEW b, NEW v, LastOf(S, g, b, v)
  PROVE  LastOf(T, h, b, v)
<1>1. CASE v = b /\ \A m \in S : g[m] = <<>>
  BY <1>1 DEF LastOf
<1>2. ASSUME NEW k \in S, g[k] = <<v>>, \A m \in S : m > k => g[m] = <<>>
      PROVE  LastOf(T, h, b, v)
  <2>1. k - 1 \in T /\ h[k - 1] = g[k]
    <3>1. k - 1 \in T /\ h[k - 1] = g[(k - 1) + 1]
      BY <1>2
    <3>2. (k - 1) + 1 = k
      BY <1>2
    <3> QED BY <3>1, <3>2
  <2>2. \A m \in T : m > k - 1 => h[m] = <<>>
    BY <1>2
  <2> QED BY <1>2, <2>1, <2>2 DEF LastOf
<1> QED BY <1>1, <1>2 DEF LastOf

\* Without one that gives nothing.
LEMMA LastBlank ==
  ASSUME NEW S, NEW n \in S, NEW g, g[n] = <<>>, NEW b, NEW v, LastOf(S, g, b, v)
  PROVE  LastOf(S \ {n}, g, b, v)
<1>1. CASE v = b /\ \A m \in S : g[m] = <<>>
  BY <1>1 DEF LastOf
<1>2. ASSUME NEW k \in S, g[k] = <<v>>, \A m \in S : m > k => g[m] = <<>>
      PROVE  LastOf(S \ {n}, g, b, v)
  <2>1. k # n
    BY <1>2
  <2> QED BY <1>2, <2>1 DEF LastOf
<1> QED BY <1>1, <1>2 DEF LastOf

\* With nothing on its way, to be told is to agree.
LEMMA TellNone ==
  ASSUME NEW asked, NEW p \in Publishers, NEW s \in Subscribers
  PROVE  Tell({}, asked, p, s) <=> Agree(p, s)
<1>1. p.forward \in BOOLEAN /\ s.paused \in BOOLEAN
  BY DEF Publishers, Subscribers
<1>2. LastOf({}, Forwards(asked), p.forward, ~s.paused) <=> (~s.paused) = p.forward
  BY LastNone, Zenon
<1>3. LastOf({}, FiltersAsked(asked), p.filter, s.filter) <=> s.filter = p.filter
  BY LastNone, Zenon
<1> QED BY <1>1, <1>2, <1>3 DEF Tell, Agree

LEMMA ToldNone ==
  ASSUME NEW d, \A i \in DOMAIN d : d[i].paused = <<>> /\ d[i].filter = <<>>,
         NEW p \in Publishers, NEW s \in Subscribers
  PROVE  Told(d, <<>>, p, s) <=> Agree(p, s)
<1>1. p.forward \in BOOLEAN /\ s.paused \in BOOLEAN
  BY DEF Publishers, Subscribers
<1>2. \A v : LastOf(DOMAIN d, PausedIn(d), s.paused, v) <=> v = s.paused
  <2>1. \A n \in DOMAIN d : PausedIn(d)[n] = <<>>
    BY DEF PausedIn
  <2> QED BY <2>1, LastNone
<1>3. \A v : LastOf(DOMAIN d, FiltersIn(d), s.filter, v) <=> v = s.filter
  <2>1. \A n \in DOMAIN d : FiltersIn(d)[n] = <<>>
    BY DEF FiltersIn
  <2> QED BY <2>1, LastNone
<1>4. \A u, v, g : LastOf(DOMAIN <<>>, g, u, v) <=> v = u
  <2>1. DOMAIN <<>> = {}
    OBVIOUS
  <2>2. \A n \in {} : FALSE
    OBVIOUS
  <2> QED BY <2>1, <2>2 DEF LastOf
<1> QED BY <1>1, <1>2, <1>3, <1>4 DEF Told, Agree

\* An update made, and one applied.
LEMMA TellAdded ==
  ASSUME NEW S \in SUBSET Fills, NEW u \in Fills, \A m \in S : m < u, NEW asked, NEW r \in [Fills -> Requests],
         \A m \in S : r[m] = asked[m], NEW p, NEW s \in Subscribers, NEW t \in Subscribers,
         t.paused = ~Given(r[u].forward, ~s.paused), t.filter = Given(r[u].filter, s.filter), Tell(S, asked, p, s)
  PROVE  Tell(S \cup {u}, r, p, t)
<1>1. S \in SUBSET Nat /\ u \in Nat
  BY DEF Fills
<1>2. r[u].forward \in Parameters(BOOLEAN) /\ r[u].filter \in Parameters(Filters)
  BY DEF Requests
<1>3. Given(r[u].forward, ~s.paused) \in BOOLEAN
  BY <1>2, GivenFacts
<1>4. LastOf(S \cup {u}, Forwards(r), p.forward, Given(Forwards(r)[u], ~s.paused))
  <2>1. PICK g : g = Forwards(asked)
    OBVIOUS
  <2>2. PICK h : h = Forwards(r)
    OBVIOUS
  <2>3. (\A m \in S : h[m] = g[m]) /\ h[u] \in Parameters(BOOLEAN)
    BY <1>2, <2>1, <2>2 DEF Forwards
  <2>4. LastOf(S, g, p.forward, ~s.paused)
    BY <2>1 DEF Tell
  <2>5. LastOf(S \cup {u}, h, p.forward, Given(h[u], ~s.paused))
    BY <1>1, <2>3, <2>4, LastAdded
  <2> QED BY <2>2, <2>5
<1>5. LastOf(S \cup {u}, FiltersAsked(r), p.filter, Given(FiltersAsked(r)[u], s.filter))
  <2>1. PICK g : g = FiltersAsked(asked)
    OBVIOUS
  <2>2. PICK h : h = FiltersAsked(r)
    OBVIOUS
  <2>3. (\A m \in S : h[m] = g[m]) /\ h[u] \in Parameters(Filters)
    BY <1>2, <2>1, <2>2 DEF FiltersAsked
  <2>4. LastOf(S, g, p.filter, s.filter)
    BY <2>1 DEF Tell
  <2>5. LastOf(S \cup {u}, h, p.filter, Given(h[u], s.filter))
    BY <1>1, <2>3, <2>4, LastAdded
  <2> QED BY <2>2, <2>5
<1>6. Forwards(r)[u] = r[u].forward /\ FiltersAsked(r)[u] = r[u].filter
  BY DEF Forwards, FiltersAsked
<1>7. (~t.paused) = Given(r[u].forward, ~s.paused)
  BY <1>3
<1> QED BY <1>4, <1>5, <1>6, <1>7 DEF Tell

LEMMA TellRemoved ==
  ASSUME NEW S \in SUBSET Fills, NEW u \in S, \A m \in S \ {u} : u < m, NEW asked \in [Fills -> Requests],
         NEW p, NEW q, NEW s, q.forward = Given(asked[u].forward, p.forward),
         q.filter = Given(asked[u].filter, p.filter),
         Tell(S, asked, p, s)
  PROVE  Tell(S \ {u}, asked, q, s)
<1>1. S \in SUBSET Nat /\ u \in Fills
  BY DEF Fills
<1>2. asked[u].forward \in Parameters(BOOLEAN) /\ asked[u].filter \in Parameters(Filters)
  BY <1>1 DEF Requests
<1>3. Forwards(asked)[u] = asked[u].forward /\ FiltersAsked(asked)[u] = asked[u].filter
  BY <1>1 DEF Forwards, FiltersAsked
<1>4. LastOf(S \ {u}, Forwards(asked), q.forward, ~s.paused)
  <2>1. PICK g : g = Forwards(asked)
    OBVIOUS
  <2>2. LastOf(S \ {u}, g, Given(g[u], p.forward), ~s.paused)
    <3>1. LastOf(S, g, p.forward, ~s.paused) /\ g[u] \in Parameters(BOOLEAN)
      BY <1>2, <1>3, <2>1 DEF Tell
    <3> QED BY <1>1, <3>1, LastRemoved
  <2> QED BY <1>3, <2>1, <2>2
<1>5. LastOf(S \ {u}, FiltersAsked(asked), q.filter, s.filter)
  <2>1. PICK g : g = FiltersAsked(asked)
    OBVIOUS
  <2>2. LastOf(S \ {u}, g, Given(g[u], p.filter), s.filter)
    <3>1. LastOf(S, g, p.filter, s.filter) /\ g[u] \in Parameters(Filters)
      BY <1>2, <1>3, <2>1 DEF Tell
    <3> QED BY <1>1, <3>1, LastRemoved
  <2> QED BY <1>3, <2>1, <2>2
<1> QED BY <1>4, <1>5 DEF Tell

LEMMA TellBlank ==
  ASSUME NEW S \in SUBSET Fills, NEW u \in S, NEW asked, asked[u].forward = <<>>, asked[u].filter = <<>>,
         NEW p, NEW s, Tell(S, asked, p, s)
  PROVE  Tell(S \ {u}, asked, p, s)
<1>1. Forwards(asked)[u] = <<>> /\ FiltersAsked(asked)[u] = <<>>
  BY DEF Forwards, FiltersAsked
<1>2. LastOf(S \ {u}, Forwards(asked), p.forward, ~s.paused)
  <2>1. LastOf(S, Forwards(asked), p.forward, ~s.paused)
    BY DEF Tell
  <2> QED BY <1>1, <2>1, LastBlank, Zenon
<1>3. LastOf(S \ {u}, FiltersAsked(asked), p.filter, s.filter)
  <2>1. LastOf(S, FiltersAsked(asked), p.filter, s.filter)
    BY DEF Tell
  <2> QED BY <1>1, <2>1, LastBlank, Zenon
<1> QED BY <1>2, <1>3 DEF Tell

\* What messages give, when one is sent and when one is read.
LEMMA LastSent ==
  ASSUME NEW d \in Seq(Messages), NEW m \in Messages, NEW b, NEW v
  PROVE  /\ LastOf(DOMAIN d, PausedIn(d), b, v) =>
              LastOf(DOMAIN Append(d, m), PausedIn(Append(d, m)), b, Given(m.paused, v))
         /\ LastOf(DOMAIN d, FiltersIn(d), b, v) =>
              LastOf(DOMAIN Append(d, m), FiltersIn(Append(d, m)), b, Given(m.filter, v))
<1>1. PICK n : n = Len(d) + 1
  OBVIOUS
<1>2. PICK S : S = DOMAIN d
  OBVIOUS
<1>3. S \in SUBSET Nat /\ n \in Nat /\ \A i \in S : i < n
  BY <1>1, <1>2, Indexed
<1>4. DOMAIN Append(d, m) = S \cup {n} /\ Append(d, m)[n] = m /\ \A i \in S : Append(d, m)[i] = d[i]
  BY <1>1, <1>2, Appended
<1>5. m.paused \in Parameters(BOOLEAN) /\ m.filter \in Parameters(Filters)
  BY DEF Messages
<1>6. ASSUME LastOf(S, PausedIn(d), b, v) PROVE LastOf(S \cup {n}, PausedIn(Append(d, m)), b, Given(m.paused, v))
  <2>1. PICK g : g = PausedIn(d)
    OBVIOUS
  <2>2. PICK h : h = PausedIn(Append(d, m))
    OBVIOUS
  <2>3. (\A i \in S : h[i] = g[i]) /\ h[n] = m.paused
    BY <1>2, <1>4, <2>1, <2>2 DEF PausedIn
  <2>4. LastOf(S \cup {n}, h, b, Given(h[n], v))
    BY <1>3, <1>5, <1>6, <2>1, <2>3, LastAdded
  <2> QED BY <2>2, <2>3, <2>4
<1>7. ASSUME LastOf(S, FiltersIn(d), b, v) PROVE LastOf(S \cup {n}, FiltersIn(Append(d, m)), b, Given(m.filter, v))
  <2>1. PICK g : g = FiltersIn(d)
    OBVIOUS
  <2>2. PICK h : h = FiltersIn(Append(d, m))
    OBVIOUS
  <2>3. (\A i \in S : h[i] = g[i]) /\ h[n] = m.filter
    BY <1>2, <1>4, <2>1, <2>2 DEF FiltersIn
  <2>4. LastOf(S \cup {n}, h, b, Given(h[n], v))
    BY <1>3, <1>5, <1>7, <2>1, <2>3, LastAdded
  <2> QED BY <2>2, <2>3, <2>4
<1> QED BY <1>2, <1>4, <1>6, <1>7

LEMMA LastRead ==
  ASSUME NEW d \in Seq(Messages), d # <<>>, NEW b, NEW v
  PROVE  /\ LastOf(DOMAIN d, PausedIn(d), b, v) =>
              LastOf(DOMAIN Tail(d), PausedIn(Tail(d)), Given(d[1].paused, b), v)
         /\ LastOf(DOMAIN d, FiltersIn(d), b, v) =>
              LastOf(DOMAIN Tail(d), FiltersIn(Tail(d)), Given(d[1].filter, b), v)
<1>1. PICK S : S = DOMAIN d
  OBVIOUS
<1>2. PICK T : T = DOMAIN Tail(d)
  OBVIOUS
<1>3. S \in SUBSET Nat /\ 1 \in S /\ (\A i \in S \ {1} : 1 < i) /\ d[1] \in Messages
  BY <1>1, Indexed, Popped
<1>4. /\ T \in SUBSET Nat
      /\ \A i \in T : i + 1 \in S \ {1} /\ Tail(d)[i] = d[i + 1]
      /\ \A i \in S \ {1} : i - 1 \in T
  BY <1>1, <1>2, Popped
<1>5. d[1].paused \in Parameters(BOOLEAN) /\ d[1].filter \in Parameters(Filters)
  BY <1>3 DEF Messages
<1>6. ASSUME LastOf(S, PausedIn(d), b, v) PROVE LastOf(T, PausedIn(Tail(d)), Given(d[1].paused, b), v)
  <2>1. PICK g : g = PausedIn(d)
    OBVIOUS
  <2>2. PICK h : h = PausedIn(Tail(d))
    OBVIOUS
  <2>3. (\A i \in T : h[i] = g[i + 1]) /\ g[1] = d[1].paused
    BY <1>1, <1>2, <1>3, <1>4, <2>1, <2>2 DEF PausedIn
  <2>4. LastOf(S \ {1}, g, Given(g[1], b), v)
    BY <1>3, <1>5, <1>6, <2>1, <2>3, LastRemoved
  <2>5. PICK R \in SUBSET Nat : R = S \ {1}
    BY <1>3
  <2>6. PICK c : c = Given(g[1], b)
    OBVIOUS
  <2>7. LastOf(T, h, c, v)
    BY <1>4, <2>3, <2>4, <2>5, <2>6, LastShifted
  <2> QED BY <2>2, <2>3, <2>6, <2>7
<1>7. ASSUME LastOf(S, FiltersIn(d), b, v) PROVE LastOf(T, FiltersIn(Tail(d)), Given(d[1].filter, b), v)
  <2>1. PICK g : g = FiltersIn(d)
    OBVIOUS
  <2>2. PICK h : h = FiltersIn(Tail(d))
    OBVIOUS
  <2>3. (\A i \in T : h[i] = g[i + 1]) /\ g[1] = d[1].filter
    BY <1>1, <1>2, <1>3, <1>4, <2>1, <2>2 DEF FiltersIn
  <2>4. LastOf(S \ {1}, g, Given(g[1], b), v)
    BY <1>3, <1>5, <1>7, <2>1, <2>3, LastRemoved
  <2>5. PICK R \in SUBSET Nat : R = S \ {1}
    BY <1>3
  <2>6. PICK c : c = Given(g[1], b)
    OBVIOUS
  <2>7. LastOf(T, h, c, v)
    BY <1>4, <2>3, <2>4, <2>5, <2>6, LastShifted
  <2> QED BY <2>2, <2>3, <2>6, <2>7
<1> QED BY <1>1, <1>2, <1>6, <1>7

\* A message sent that gives nothing, a notification written, one made, a
\* message read.
LEMMA ToldSent ==
  ASSUME NEW d \in Seq(Messages), NEW m \in Messages, m.paused = <<>>, m.filter = <<>>,
         NEW n, NEW p, NEW s, Told(d, n, p, s)
  PROVE  Told(Append(d, m), n, p, s)
<1>1. \A v : Given(m.paused, v) = v /\ Given(m.filter, v) = v
  BY DEF Given
<1> QED BY <1>1, LastSent DEF Told

LEMMA ToldWritten ==
  ASSUME NEW d \in Seq(Messages), NEW n \in Seq(Messages), n # <<>>, n[1] \in Messages, NEW p, NEW s,
         Told(d, n, p, s)
  PROVE  Told(Append(d, n[1]), Tail(n), p, s)
<1>1. \E v : /\ LastOf(DOMAIN Append(d, n[1]), PausedIn(Append(d, n[1])), s.paused, v)
           /\ LastOf(DOMAIN Tail(n), PausedIn(Tail(n)), v, ~p.forward)
  <2>1. PICK v : /\ LastOf(DOMAIN d, PausedIn(d), s.paused, v)
                 /\ LastOf(DOMAIN n, PausedIn(n), v, ~p.forward)
    BY DEF Told
  <2>2. LastOf(DOMAIN Append(d, n[1]), PausedIn(Append(d, n[1])), s.paused, Given(n[1].paused, v))
    BY <2>1, LastSent
  <2>3. LastOf(DOMAIN Tail(n), PausedIn(Tail(n)), Given(n[1].paused, v), ~p.forward)
    BY <2>1, LastRead
  <2> QED BY <2>2, <2>3
<1>2. \E v : /\ LastOf(DOMAIN Append(d, n[1]), FiltersIn(Append(d, n[1])), s.filter, v)
           /\ LastOf(DOMAIN Tail(n), FiltersIn(Tail(n)), v, p.filter)
  <2>1. PICK v : /\ LastOf(DOMAIN d, FiltersIn(d), s.filter, v)
                 /\ LastOf(DOMAIN n, FiltersIn(n), v, p.filter)
    BY DEF Told
  <2>2. LastOf(DOMAIN Append(d, n[1]), FiltersIn(Append(d, n[1])), s.filter, Given(n[1].filter, v))
    BY <2>1, LastSent
  <2>3. LastOf(DOMAIN Tail(n), FiltersIn(Tail(n)), Given(n[1].filter, v), p.filter)
    BY <2>1, LastRead
  <2> QED BY <2>2, <2>3
<1> QED BY <1>1, <1>2 DEF Told

LEMMA ToldNoted ==
  ASSUME NEW d, NEW n \in Seq(Messages), NEW m \in Messages, NEW p \in Publishers, NEW q \in Publishers, NEW s,
         q.forward = ~Given(m.paused, ~p.forward), q.filter = Given(m.filter, p.filter), Told(d, n, p, s)
  PROVE  Told(d, Append(n, m), q, s)
<1>1. Given(m.paused, ~p.forward) \in BOOLEAN
  BY GivenFacts DEF Messages, Publishers
<1>2. (~q.forward) = Given(m.paused, ~p.forward)
  BY <1>1
<1>3. \E v : /\ LastOf(DOMAIN d, PausedIn(d), s.paused, v)
           /\ LastOf(DOMAIN Append(n, m), PausedIn(Append(n, m)), v, ~q.forward)
  <2>1. PICK v : /\ LastOf(DOMAIN d, PausedIn(d), s.paused, v)
                 /\ LastOf(DOMAIN n, PausedIn(n), v, ~p.forward)
    BY DEF Told
  <2>2. LastOf(DOMAIN Append(n, m), PausedIn(Append(n, m)), v, Given(m.paused, ~p.forward))
    BY <2>1, LastSent
  <2> QED BY <1>2, <2>1, <2>2
<1>4. \E v : /\ LastOf(DOMAIN d, FiltersIn(d), s.filter, v)
           /\ LastOf(DOMAIN Append(n, m), FiltersIn(Append(n, m)), v, q.filter)
  <2>1. PICK v : /\ LastOf(DOMAIN d, FiltersIn(d), s.filter, v)
                 /\ LastOf(DOMAIN n, FiltersIn(n), v, p.filter)
    BY DEF Told
  <2>2. LastOf(DOMAIN Append(n, m), FiltersIn(Append(n, m)), v, Given(m.filter, p.filter))
    BY <2>1, LastSent
  <2> QED BY <2>1, <2>2
<1> QED BY <1>3, <1>4 DEF Told

LEMMA ToldRead ==
  ASSUME NEW d \in Seq(Messages), d # <<>>, NEW n, NEW p, NEW s, NEW t,
         t.paused = Given(d[1].paused, s.paused), t.filter = Given(d[1].filter, s.filter), Told(d, n, p, s)
  PROVE  Told(Tail(d), n, p, t)
BY LastRead DEF Told

------------------------------------------------------------------------------
(* Views.                                                                   *)

\* Only a notification carries parameters.
LEMMA Told1 ==
  ASSUME Beginning, ~NoticeUnread
  PROVE  notice = <<>> /\ \A i \in DOMAIN down : down[i].paused = <<>> /\ down[i].filter = <<>>
BY DEF Beginning, NoticeUnread

\* A sequence of updates is empty when it has no members.
LEMMA MembersOf ==
  ASSUME NEW s \in Seq(Updates)
  PROVE  Members(s) \subseteq Updates /\ (Members(s) = {} <=> s = <<>>)
<1>1. DOMAIN s = 1 .. Len(s) /\ Len(s) \in Nat /\ (s = <<>> <=> Len(s) = 0) /\ \A i \in DOMAIN s : s[i] \in Updates
  BY Indexed
<1>2. s # <<>> => 1 \in DOMAIN s
  BY <1>1
<1>3. Members(s) \subseteq Updates
  BY <1>1 DEF Members
<1>4. s # <<>> => Members(s) # {}
  BY <1>2 DEF Members
<1>5. s = <<>> => Members(s) = {}
  BY DEF Members
<1> QED BY <1>3, <1>4, <1>5

\* The update the publisher reads next is the lowest on its way.
LEMMA UpdatingSets ==
  ASSUME FillTypeOK, InOrder
  PROVE  /\ Updating \in SUBSET Fills /\ (Updating = {} <=> ~InFlight)
         /\ up # <<>> => /\ Head(up) \in Updates /\ Head(up) \in Updating
                         /\ \A m \in Updating \ {Head(up)} : Head(up) < m
                         /\ writing \cup Members(Tail(up)) = Updating \ {Head(up)}
<1>1. Members(up) \subseteq Updates /\ Updates \subseteq Fills /\ Updating = writing \cup Members(up)
  BY SlotTypes DEF Updates, Fills, Updating, Members
<1>2. up # <<>> => Members(up) # {}
  BY Popped DEF FillTypeOK, Members
<1>3. Updating = {} <=> ~InFlight
  <2>1. up = <<>> => Members(up) = {}
    BY DEF Members
  <2> QED BY <1>1, <1>2, <2>1 DEF InFlight
<1>4. ASSUME up # <<>>
      PROVE  /\ Head(up) \in Updates /\ Head(up) \in Updating
             /\ \A m \in Updating \ {Head(up)} : Head(up) < m
             /\ writing \cup Members(Tail(up)) = Updating \ {Head(up)}
  <2>1. /\ Head(up) \in Members(up) /\ Members(Tail(up)) = Members(up) \ {Head(up)}
        /\ \A v \in Members(up) : v # Head(up) => Head(up) < v
    BY <1>4, MembersPopped DEF FillTypeOK, InOrder
  <2>2. \A v \in writing : Head(up) < v
    BY <2>1 DEF InOrder
  <2>3. Head(up) \in Nat
    BY <1>1, <2>1 DEF Updates
  <2>4. Head(up) \notin writing
    BY <2>2, <2>3
  <2> QED BY <1>1, <2>1, <2>2, <2>4
<1> QED BY <1>1, <1>3, <1>4 DEF FillTypeOK

\* Each step keeps the views told, by what is on its way in one direction.
LEMMA ViewsStep ==
  FillTypeOK /\ Beginning /\ Connected /\ InOrder /\ SlotsInv /\ Views /\ [Next]_vars => Views'
<1> SUFFICES ASSUME FillTypeOK, Beginning, Connected, InOrder, SlotsInv, Views, [Next]_vars PROVE Views'
  OBVIOUS
<1>i. FillTypeOK' /\ Beginning' /\ InOrder'
  BY TypeStep, BeginningStep, SlotsStep
<1>p. pub \in Publishers /\ pub' \in Publishers /\ sub \in Subscribers /\ sub' \in Subscribers
  BY <1>i DEF FillTypeOK, Publishers, Subscribers
<1>u. /\ Updating \in SUBSET Fills /\ (Updating = {} <=> ~InFlight)
      /\ Updating' \in SUBSET Fills /\ (Updating' = {} <=> ~InFlight')
  <2>1. Updating \in SUBSET Fills /\ (Updating = {} <=> ~InFlight)
    BY UpdatingSets
  <2>2. writing' \subseteq Updates /\ up' \in Seq(Updates)
    BY <1>i DEF FillTypeOK
  <2>3. Members(up') \subseteq Updates /\ (Members(up') = {} <=> up' = <<>>)
    BY <2>2, MembersOf
  <2>4. Updates \subseteq Fills
    BY DEF Updates, Fills
  <2> QED BY <2>1, <2>2, <2>3, <2>4 DEF Updating, Members, InFlight
\* With nothing on its way, either direction says that the two agree.
<1>a. /\ Updating = {} => (UpdatesTell <=> Agree(pub, sub))
      /\ Updating' = {} => (UpdatesTell' <=> Agree(pub', sub'))
  BY <1>p, TellNone DEF UpdatesTell
<1>b. /\ ~NoticeUnread => (NoticesTell <=> Agree(pub, sub))
      /\ ~NoticeUnread' => (NoticesTell' <=> Agree(pub', sub'))
  <2>1. ~NoticeUnread => (NoticesTell <=> Agree(pub, sub))
    BY <1>p, Told1, ToldNone DEF NoticesTell
  <2>2. (~NoticeUnread => notice = <<>> /\ \A i \in DOMAIN down : down[i].paused = <<>> /\ down[i].filter = <<>>)'
    BY <1>i DEF Beginning, NoticeUnread
  <2>3. ~NoticeUnread' => (NoticesTell' <=> Agree(pub', sub'))
    BY <1>p, <2>2, ToldNone DEF NoticesTell
  <2> QED BY <2>1, <2>3
<1>c. ASSUME apart' = {}, apart' = apart, acceptor' # "asked" => acceptor # "asked",
             delivery' = "on" => delivery = "on", SendDone => SendDone', acceptor' # "asked", delivery' = "on",
             ~SendDone'
      PROVE  /\ apart = {} /\ acceptor # "asked" /\ delivery = "on" /\ ~SendDone
             /\ ~NoticeUnread => UpdatesTell
             /\ ~InFlight => NoticesTell
             /\ ~(InFlight /\ NoticeUnread)
  BY <1>c DEF Views
<1>q. ASSUME UNCHANGED <<writing, up, request, down, notice, apart>>, acceptor' # "asked" => acceptor # "asked",
             pub'.forward = pub.forward, pub'.filter = pub.filter, sub'.paused = sub.paused, sub'.filter = sub.filter,
             delivery' = "on" => delivery = "on", SendDone => SendDone'
      PROVE  Views'
  <2>1. UNCHANGED <<InFlight, NoticeUnread, Updating>>
    BY <1>q DEF InFlight, NoticeUnread, Updating
  <2>2. UpdatesTell' <=> UpdatesTell
    BY <1>q, <2>1 DEF UpdatesTell, Tell
  <2>3. NoticesTell' <=> NoticesTell
    BY <1>q DEF NoticesTell, Told
  <2> QED BY <1>q, <2>1, <2>2, <2>3 DEF Views
<1>t. ASSUME NEW m \in Messages, Send(m), m.type # "Notify", m.paused = <<>>, m.filter = <<>>,
             UNCHANGED <<writing, up, request, notice, apart, pub, sub, acceptor, delivery>>, SendDone => SendDone'
      PROVE  Views'
  <2>1. UNCHANGED <<InFlight, Updating, UpdatesTell>>
    BY <1>t DEF InFlight, Updating, UpdatesTell
  <2>2. NoticeUnread' <=> NoticeUnread
    <3>1. /\ \A i \in DOMAIN down : i \in DOMAIN down' /\ down'[i] = down[i]
          /\ \A i \in DOMAIN down' : i \in DOMAIN down \/ down'[i] = m
      BY <1>t, Sends DEF FillTypeOK
    <3> QED BY <1>t, <3>1 DEF NoticeUnread
  <2>3. delivery = "on" /\ NoticesTell => NoticesTell'
    <3>1. SUFFICES ASSUME delivery = "on", NoticesTell PROVE NoticesTell'
      OBVIOUS
    <3>2. down' = Append(down, m)
      BY <1>t, <3>1 DEF Send, Connected
    <3>3. Told(Append(down, m), notice, pub, sub)
      BY <1>t, <3>1, ToldSent DEF FillTypeOK, NoticesTell
    <3> QED BY <1>t, <3>2, <3>3 DEF NoticesTell
  <2> QED BY <1>t, <2>1, <2>2, <2>3 DEF Views
<1>r. ASSUME NEW type, ReadsNext(type), UNCHANGED <<writing, up, request, notice, apart, pub, acceptor, ending>>,
             sub'.paused = Given(down[1].paused, sub.paused), sub'.filter = Given(down[1].filter, sub.filter)
      PROVE  Views'
  <2>1. UNCHANGED <<InFlight, Updating, SendDone>>
    BY <1>r DEF InFlight, Updating, SendDone
  <2>2. /\ 1 \in DOMAIN down /\ down[1].type = type /\ delivery = "on" /\ down' = Tail(down) /\ down # <<>>
        /\ \A i \in DOMAIN down' : i + 1 \in DOMAIN down /\ down'[i] = down[i + 1]
        /\ \A i \in DOMAIN down : i # 1 => i - 1 \in DOMAIN down' /\ down'[i - 1] = down[i]
    BY <1>r, Reads DEF FillTypeOK, ReadsNext
  <2>3. NoticeUnread' => NoticeUnread
    BY <1>r, <2>2 DEF NoticeUnread
  <2>4. NoticesTell => NoticesTell'
    BY <1>r, <2>2, ToldRead DEF FillTypeOK, NoticesTell
  <2>5. ASSUME apart' = {}, acceptor' # "asked", delivery' = "on", ~SendDone', ~NoticeUnread' PROVE UpdatesTell'
    <3>1. CASE type = "Notify"
      <4>1. NoticeUnread
        BY <2>2, <3>1 DEF NoticeUnread
      <4>2. ~InFlight /\ NoticesTell'
        BY <1>r, <2>1, <2>2, <2>4, <2>5, <4>1 DEF Views
      <4> QED BY <1>a, <1>b, <1>u, <2>1, <2>5, <4>2
    <3>2. CASE type # "Notify"
      <4>1. ~NoticeUnread
        <5>1. \A i \in DOMAIN down : down[i].type # "Notify"
          <6> TAKE i \in DOMAIN down
          <6>1. i # 1 => down[i].type # "Notify"
            BY <2>2, <2>5 DEF NoticeUnread
          <6> QED BY <2>2, <3>2, <6>1
        <5> QED BY <1>r, <2>5, <5>1 DEF NoticeUnread
      <4>2. UpdatesTell
        BY <1>r, <2>1, <2>2, <2>5, <4>1 DEF Views
      <4>3. sub'.paused = sub.paused /\ sub'.filter = sub.filter
        BY <1>r, <2>2, <4>1, Told1 DEF Given
      <4> QED BY <1>r, <2>1, <4>2, <4>3 DEF UpdatesTell, Tell
    <3> QED BY <3>1, <3>2
  <2> QED BY <1>r, <2>1, <2>2, <2>3, <2>4, <2>5 DEF Views
<1>1. ASSUME NEW l \in Places \cup {NoLocation}, AcceptAnswers(l) PROVE Views'
  <2>1. up = <<>> /\ notice = <<>> /\ down = <<>> /\ writing = {} /\ UNCHANGED <<up, notice, sub, writing>>
    BY <1>1, Unestablished DEF AcceptAnswers, Beginning, wire, subscriber
  <2>2. ~NoticeUnread'
    <3>1. l \in Largests
      BY LocationFacts DEF Largests
    <3>2. PICK m \in Messages : m = Message("Ok", 0, l, <<>>, <<>>)
      BY <3>1, SentMessages
    <3>3. m.type # "Notify" /\ Send(m)
      BY <1>1, <3>2 DEF Message, AcceptAnswers
    <3>4. \A i \in DOMAIN down' : down'[i] = m
      BY <2>1, <3>3, Sends DEF FillTypeOK
    <3> QED BY <2>1, <3>3, <3>4 DEF NoticeUnread
  <2>3. Updating' = {}
    BY <1>u, <2>1 DEF InFlight
  <2>4. Agree(pub', sub')
    <3>1. pub'.forward = Given(request[0].forward, TRUE) /\ pub'.filter = Given(request[0].filter, NoFilter)
      BY <1>1 DEF AcceptAnswers
    <3>2. sub.paused = ~Given(request[0].forward, TRUE) /\ sub.filter = Given(request[0].filter, NoFilter)
      <4>1. acceptor = "asked"
        BY <1>1 DEF AcceptAnswers
      <4>2. sub = [largest |-> NoLocation, paused |-> ~Given(request[0].forward, TRUE),
                   filter |-> Given(request[0].filter, NoFilter)]
        BY <4>1 DEF Beginning
      <4> QED BY <4>2
    <3> QED BY <2>1, <3>1, <3>2 DEF Agree
  <2> QED BY <1>a, <1>b, <1>u, <2>2, <2>3, <2>4 DEF Views
<1>2. CASE \/ AcceptReturns \/ ReaderStartsFill \/ CloseResetsFills \/ CloseCancels
           \/ \E l \in Places : Publish(l)
           \/ \E f \in Fills : OpenFill(f) \/ RegisterFill(f) \/ EndFill(f, "fin") \/ EndFill(f, "reset")
  <2>1. UNCHANGED <<writing, up, request, down, notice, apart, sub, delivery>> /\ (SendDone => SendDone')
    BY <1>2 DEF AcceptReturns, ReaderStartsFill, CloseResetsFills, CloseCancels, Publish, OpenFill, RegisterFill,
       EndFill,
      MayPublish, wire, subscriber, history, SendDone
  <2>2. pub'.forward = pub.forward /\ pub'.filter = pub.filter /\ (acceptor' # "asked" => acceptor # "asked")
    BY <1>2 DEF AcceptReturns, ReaderStartsFill, CloseResetsFills, CloseCancels, Publish, OpenFill, RegisterFill,
       EndFill,
      FillTypeOK
  <2> QED BY <1>q, <2>1, <2>2
<1>3. CASE MergeUpdate
  <2>1. PICK u \in Updates : u = Head(up)
    BY <1>3, Popped DEF MergeUpdate, FillTypeOK
  <2>2. /\ up # <<>> /\ up' = Tail(up) /\ acceptor # "asked"
        /\ UNCHANGED <<request, down, acceptor, notice, apart, sub, writing, delivery, ending>>
    BY <1>3 DEF MergeUpdate, subscriber
  <2>3. pub'.forward = Given(request[u].forward, pub.forward) /\ pub'.filter = Given(request[u].filter, pub.filter)
    BY <1>3, <2>1 DEF MergeUpdate, MergedFilter, FillTypeOK
  <2>4. u \in Updating /\ (\A m \in Updating \ {u} : u < m) /\ Updating' = Updating \ {u}
    BY <2>1, <2>2, UpdatingSets DEF Updating, Members
  <2>5. InFlight /\ NoticeUnread' = NoticeUnread /\ SendDone' = SendDone
    BY <2>2 DEF InFlight, NoticeUnread, SendDone
  <2>6. UpdatesTell => UpdatesTell'
    BY <1>u, <2>2, <2>3, <2>4, TellRemoved DEF UpdatesTell, FillTypeOK
  <2>7. ASSUME apart' = {}, acceptor' # "asked", delivery' = "on", ~SendDone' PROVE UpdatesTell' /\ ~NoticeUnread'
    BY <2>2, <2>5, <2>6, <2>7 DEF Views
  <2>8. apart' = {} => ~NoticeUnread'
    BY <2>2, <2>5 DEF Views
  <2> QED BY <1>a, <1>b, <1>u, <2>7, <2>8 DEF Views
<1>4. CASE AnswerUpdate
  <2>1. PICK x \in [update : Updates, at : {"merged", "answered"}] : reader = <<x>>
    BY <1>4 DEF AnswerUpdate, FillTypeOK
  <2>2. PICK m \in Messages : m = Message("UpdateOk", x.update, pub.largest, <<>>, <<>>)
    BY SentMessages
  <2>3. m.type # "Notify" /\ m.paused = <<>> /\ m.filter = <<>>
    BY <2>2 DEF Message
  <2>4. UNCHANGED <<writing, up, request, notice, apart, pub, sub, acceptor, delivery, ending>>
    BY <1>4 DEF AnswerUpdate, subscriber, history
  <2>5. CASE Send(m)
    BY <1>t, <2>3, <2>4, <2>5 DEF SendDone
  <2>6. CASE down' = down
    BY <1>q, <2>4, <2>6 DEF SendDone
  <2> QED BY <1>4, <2>1, <2>2, <2>5, <2>6 DEF AnswerUpdate
<1>5. ASSUME NEW change \in Changes, NotifyState(change) PROVE Views'
  <2>1. PICK m \in Messages : m = Message("Notify", 0, pub.largest, change.paused, change.filter)
    BY SentMessages
  <2>2. m.paused = change.paused /\ m.filter = change.filter
    BY <2>1 DEF Message
  <2>3. /\ notice' = Append(notice, m) /\ apart' = (IF InFlight THEN apart \cup {"crossed"} ELSE apart) /\ acceptor # "asked"
        /\ UNCHANGED <<request, up, down, acceptor, sub, writing, delivery, ending>>
    BY <1>5, <2>1 DEF NotifyState, MayPublish, wire, subscriber
  <2>4. pub'.forward = ~Given(m.paused, ~pub.forward) /\ pub'.filter = Given(m.filter, pub.filter)
    BY <1>5, <2>2 DEF NotifyState, FillTypeOK
  <2>5. UNCHANGED <<InFlight, SendDone>> /\ NoticeUnread'
    <3>1. notice' # <<>>
      BY <2>3, Appended DEF FillTypeOK
    <3> QED BY <2>3, <3>1 DEF InFlight, SendDone, NoticeUnread
  <2>6. NoticesTell => NoticesTell'
    BY <1>p, <2>3, <2>4, ToldNoted DEF NoticesTell, FillTypeOK
  <2> QED BY <2>3, <2>5, <2>6 DEF Views
<1>6. ASSUME NEW n \in 1 .. MaxNotices, WriteNotice(n) PROVE Views'
  <2>1. /\ notice' \in Seq(Messages) /\ notice[n] \in Messages /\ n \in DOMAIN notice /\ notice # <<>>
        /\ apart \subseteq apart' /\ (apart' = {} => n = 1)
        /\ apart' = {} /\ ~SendDone => Send(notice[n])
        /\ n = 1 => notice' = Tail(notice)
    BY <1>6, NoticeWritten
  <2>2. notice[n].type = "Notify" /\ NoticeUnread
    BY <2>1 DEF Beginning, NoticeUnread
  <2>3. UNCHANGED <<writing, up, request, pub, sub, acceptor, delivery, ending>>
    BY <1>6 DEF WriteNotice, subscriber
  <2>4. UNCHANGED <<InFlight, Updating, UpdatesTell, SendDone>>
    BY <2>3 DEF InFlight, Updating, UpdatesTell, SendDone
  <2>5. ASSUME apart' = {}, delivery = "on", ~SendDone PROVE NoticeUnread' /\ (NoticesTell => NoticesTell')
    <3>1. PICK m \in Messages : m = notice[1]
      BY <2>1, <2>5
    <3>2. down' = Append(down, m) /\ notice' = Tail(notice) /\ m.type = "Notify"
      BY <2>1, <2>2, <2>5, <3>1 DEF Send, Connected
    <3>3. Len(down) + 1 \in DOMAIN down' /\ down'[Len(down) + 1] = m
      BY <3>2, Appended DEF FillTypeOK
    <3>4. NoticesTell => NoticesTell'
      BY <2>1, <2>3, <2>5, <3>1, <3>2, ToldWritten DEF NoticesTell, FillTypeOK
    <3> QED BY <3>2, <3>3, <3>4 DEF NoticeUnread
  <2>6. apart' = {} => ~(InFlight' /\ NoticeUnread') /\ apart = {}
    BY <2>1, <2>2, <2>4 DEF Views
  <2> QED BY <2>3, <2>4, <2>5, <2>6 DEF Views
<1>7. CASE CloseWrites
  <2>1. SendDone' /\ UNCHANGED <<writing, up, notice, apart>>
    BY <1>7 DEF CloseWrites, subscriber, history, SendDone
  <2>2. NoticeUnread' => NoticeUnread
    <3>1. PICK m \in Messages : m = Message("Done", 0, NoLocation, <<>>, <<>>)
      BY SentMessages
    <3>2. m.type # "Notify" /\ Send(m)
      BY <1>7, <3>1 DEF Message, CloseWrites
    <3>3. \A i \in DOMAIN down' : (i \in DOMAIN down /\ down'[i] = down[i]) \/ down'[i] = m
      BY <3>2, Sends DEF FillTypeOK
    <3> QED BY <2>1, <3>2, <3>3 DEF NoticeUnread
  <2>3. InFlight' = InFlight
    BY <2>1 DEF InFlight
  <2> QED BY <2>1, <2>2, <2>3 DEF Views
<1>8. CASE StreamEnded
  <2>1. SendDone' /\ up' = <<>> /\ UNCHANGED <<writing, notice, apart, down>>
    BY <1>8 DEF StreamEnded, subscriber, history, SendDone
  <2>2. (InFlight' => InFlight) /\ NoticeUnread' = NoticeUnread
    BY <2>1 DEF InFlight, NoticeUnread
  <2> QED BY <2>1, <2>2 DEF Views
<1>9. ASSUME NEW ask \in Asks, MakeUpdate(ask) PROVE Views'
  <2>1. PICK u \in Updates : u = made + 1
    BY <1>9 DEF MakeUpdate, FillTypeOK, Updates
  <2>2. /\ request' = [request EXCEPT ![u] = ask] /\ writing' = writing \cup {u} /\ apart' = (IF NoticeUnread THEN apart \cup {"crossed"} ELSE apart)
        /\ UNCHANGED <<up, down, notice, pub, acceptor, ending, delivery>>
    BY <1>9, <2>1 DEF MakeUpdate, wire, publisher
  <2>3. u \in Fills /\ request' \in [Fills -> Requests] /\ request'[u] = ask /\ \A m \in Fills : m # u => request'[m] = request[m]
    BY <1>i, <2>2, SentMessages DEF FillTypeOK
  <2>4. sub'.paused = ~Given(ask.forward, ~sub.paused) /\ sub'.filter = Given(ask.filter, sub.filter)
    BY <1>9 DEF MakeUpdate, FillTypeOK
  <2>5. Updating' = Updating \cup {u} /\ \A m \in Updating : m < u
    <3>1. Updating = writing \cup Members(up)
      BY DEF Updating, Members
    <3>2. writing = {}
      BY <1>9 DEF MakeUpdate, MayUpdate
    <3>3. \A m \in Members(up) : m < u
      BY <2>1, SlotTypes DEF InOrder, Updates
    <3> QED BY <2>2, <3>1, <3>2, <3>3 DEF Updating
  <2>6. UpdatesTell => UpdatesTell'
    <3>1. \A m \in Updating : request'[m] = request[m]
      BY <1>u, <2>3, <2>5, SentMessages
    <3>2. PICK S \in SUBSET Fills : S = Updating
      BY <1>u
    <3>3. PICK r \in [Fills -> Requests] : r = request'
      BY <2>3
    <3>4. UpdatesTell => Tell(S \cup {u}, r, pub, sub')
      BY <1>p, <2>3, <2>4, <2>5, <3>1, <3>2, <3>3, TellAdded DEF UpdatesTell
    <3> QED BY <2>2, <2>5, <3>2, <3>3, <3>4 DEF UpdatesTell
  <2>7. InFlight' /\ NoticeUnread' = NoticeUnread /\ SendDone' = SendDone
    BY <2>2 DEF InFlight, NoticeUnread, SendDone
  <2> QED BY <2>2, <2>6, <2>7 DEF Views
<1>10. ASSUME NEW u \in Updates, WriteUpdate(u) PROVE Views'
  <2>1. /\ u \in writing /\ writing' = writing \ {u}
        /\ UNCHANGED <<request, down, notice, apart, pub, sub, acceptor, delivery, ending>>
        /\ up' = (IF ending \in {"cancelled", "ended"} THEN up ELSE Append(up, u))
    BY <1>10 DEF WriteUpdate, publisher, history
  <2>2. InFlight /\ NoticeUnread' = NoticeUnread /\ SendDone' = SendDone
    BY <2>1 DEF InFlight, NoticeUnread, SendDone
  <2>3. apart' = {} => ~NoticeUnread'
    BY <2>1, <2>2 DEF Views
  <2>4. CASE ending \in {"cancelled", "ended"}
    BY <2>2, <2>1, <2>3, <2>4 DEF Views, SendDone
  <2>5. CASE ending \notin {"cancelled", "ended"}
    <3>1. writing = {u}
      BY <2>1 DEF InOrder
    <3>2. Members(up') = Members(up) \cup {u}
      <4>1. up' = Append(up, u)
        BY <2>1, <2>5
      <4> QED BY <4>1, MembersAppended DEF FillTypeOK
    <3>3. Updating' = Updating
      BY <2>1, <3>1, <3>2 DEF Updating, Members
    <3>4. UpdatesTell' = UpdatesTell /\ InFlight'
      BY <1>u, <2>1, <2>2, <3>3 DEF UpdatesTell
    <3> QED BY <2>1, <2>2, <2>3, <3>4 DEF Views
  <2> QED BY <2>4, <2>5
<1>11. ASSUME NEW u \in Updates, WriteFails(u) PROVE Views'
  <2>1. /\ u \in writing /\ writing' = writing \ {u} /\ UNCHANGED <<request, up, down, notice, pub, sub, acceptor, delivery, ending>>
        /\ apart \subseteq apart'
    BY <1>11 DEF WriteFails, wire, publisher
  <2>2. (InFlight' => InFlight) /\ InFlight /\ NoticeUnread' = NoticeUnread /\ SendDone' = SendDone
    BY <2>1 DEF InFlight, NoticeUnread, SendDone
  <2>3. apart' = {} => apart = {} /\ ~NoticeUnread'
    BY <2>1, <2>2 DEF Views
  <2>4. ASSUME apart' = {}, acceptor' # "asked", delivery' = "on", ~SendDone' PROVE UpdatesTell'
    <3>1. ~Encodable(request[u]) /\ request[u].forward = <<>> /\ request[u].filter = <<>>
      BY <1>11, <2>1, <2>2, <2>4 DEF WriteFails, Connected, SendDone
    <3>2. UpdatesTell
      BY <2>1, <2>2, <2>3, <2>4 DEF Views
    <3>3. u \in Updating /\ Updating' = Updating \ {u}
      <4>1. writing = {u} /\ \A v \in Members(up) : v < made
        BY <2>1 DEF InOrder
      <4>2. made = u /\ Members(up) \subseteq Nat /\ made \in Nat
        BY <2>1, SlotTypes DEF InOrder, Updates
      <4>3. u \notin Members(up)
        BY <4>1, <4>2
      <4> QED BY <2>1, <4>1, <4>3 DEF Updating, Members
    <3>4. Tell(Updating \ {u}, request, pub, sub)
      BY <1>u, <3>1, <3>2, <3>3, TellBlank DEF UpdatesTell
    <3> QED BY <2>1, <3>3, <3>4 DEF UpdatesTell
  <2> QED BY <1>a, <1>b, <1>u, <2>3, <2>4 DEF Views
<1>12. CASE ReadOk
  <2>1. ReadsNext("Ok") /\ UNCHANGED <<writing, up, request, notice, apart, pub, acceptor, ending>>
    BY <1>12 DEF ReadOk, publisher
  <2>2. sub'.paused = sub.paused /\ sub'.filter = sub.filter
    BY <1>12 DEF ReadOk, FillTypeOK
  <2>3. 1 \in DOMAIN down /\ down[1].type = "Ok"
    BY <2>1, Reads DEF FillTypeOK
  <2>4. down[1].paused = <<>> /\ down[1].filter = <<>>
    BY <2>3 DEF Beginning
  <2> QED BY <1>r, <2>1, <2>2, <2>4 DEF Given
<1>13. CASE ReadUpdateOk
  <2>1. ReadsNext("UpdateOk") /\ UNCHANGED <<writing, up, request, notice, apart, pub, acceptor, ending>>
    BY <1>13 DEF ReadUpdateOk, publisher
  <2>2. sub'.paused = sub.paused /\ sub'.filter = sub.filter
    BY <1>13 DEF ReadUpdateOk, FillTypeOK
  <2>3. 1 \in DOMAIN down /\ down[1].type = "UpdateOk"
    BY <2>1, Reads DEF FillTypeOK
  <2>4. down[1].paused = <<>> /\ down[1].filter = <<>>
    BY <2>3 DEF Beginning
  <2> QED BY <1>r, <2>1, <2>2, <2>4 DEF Given
<1>14. CASE ReadNotify
  <2>1. ReadsNext("Notify") /\ UNCHANGED <<writing, up, request, notice, apart, pub, acceptor, ending>>
    BY <1>14 DEF ReadNotify, publisher, history
  <2>2. Head(down) = down[1]
    BY <2>1, Reads DEF FillTypeOK
  <2>3. sub'.paused = Given(down[1].paused, sub.paused) /\ sub'.filter = Given(down[1].filter, sub.filter)
    BY <1>14, <2>2 DEF ReadNotify
  <2> QED BY <1>r, <2>1, <2>3
<1>15. CASE ReadDone
  <2>1. ReadsNext("Done") /\ UNCHANGED <<writing, up, request, notice, apart, pub, sub, acceptor, ending>>
    BY <1>15 DEF ReadDone, publisher, history
  <2>3. 1 \in DOMAIN down /\ down[1].type = "Done"
    BY <2>1, Reads DEF FillTypeOK
  <2>4. down[1].paused = <<>> /\ down[1].filter = <<>>
    BY <2>3 DEF Beginning
  <2> QED BY <1>r, <2>1, <2>4 DEF Given
<1>16. CASE \/ FinishDelivery
            \/ \E f \in Fills : AttachStream(f)
            \/ \E f \in Fills : FinishFill(f) \/ StreamEnds(f) \/ HandlerFails(f) \/ DeliverFails(f)
  <2>1. UNCHANGED <<writing, up, request, down, notice, apart, pub, sub, acceptor, ending>>
        /\ (delivery' = "on" => delivery = "on")
    BY <1>16 DEF FinishDelivery, AttachStream, FinishFill, StreamEnds, HandlerFails, DeliverFails, publisher, wire, history
  <2> QED BY <1>q, <2>1 DEF SendDone
<1>17. CASE Close \/ SessionEnds
  <2>1. delivery' # "on" /\ down' = <<>> /\ UNCHANGED <<writing, notice, apart>> /\ (up' = up \/ up' = <<>>)
    BY <1>17 DEF Close, SessionEnds, publisher, history
  <2>2. (InFlight' => InFlight) /\ (NoticeUnread' => NoticeUnread)
    <3>1. \A i \in DOMAIN down' : FALSE
      BY <2>1
    <3> QED BY <2>1, <3>1 DEF InFlight, NoticeUnread
  <2> QED BY <2>1, <2>2 DEF Views
<1>18. CASE UNCHANGED vars
  <2>1. UNCHANGED <<writing, up, request, down, notice, apart, pub, sub, acceptor, ending, delivery>>
    BY <1>18 DEF vars, publisher, subscriber, wire, history
  <2> QED BY <1>q, <2>1 DEF SendDone
<1> QED BY <1>1, <1>2, <1>3, <1>4, <1>5, <1>6, <1>7, <1>8, <1>9, <1>10, <1>11, <1>12, <1>13, <1>14, <1>15,
           <1>16, <1>17, <1>18, Actions

------------------------------------------------------------------------------
(* Stages of a fill.                                                        *)

AnswerIn(d, f) == \E i \in DOMAIN d : IsAnswerTo(d[i], f)

\* Answers on their way, when a message is sent and when one is read.
LEMMA AnswerSent ==
  ASSUME FillTypeOK, NEW m \in Messages, Send(m), NEW f
  PROVE  /\ AnswerIn(down', f) => AnswerIn(down, f) \/ IsAnswerTo(m, f)
         /\ AnswerIn(down, f) => AnswerIn(down', f)
<1>1. /\ \A i \in DOMAIN down : i \in DOMAIN down' /\ down'[i] = down[i]
      /\ \A i \in DOMAIN down' : i \in DOMAIN down \/ down'[i] = m
  BY Sends DEF FillTypeOK
<1> QED BY <1>1 DEF AnswerIn

LEMMA AnswerRead ==
  ASSUME FillTypeOK, NEW type, ReadsNext(type), NEW f
  PROVE  /\ AnswerIn(down', f) => AnswerIn(down, f)
         /\ AnswerIn(down, f) => AnswerIn(down', f) \/ IsAnswerTo(down[1], f)
         /\ IsAnswerTo(down[1], f) => AnswerIn(down, f)
<1>1. /\ 1 \in DOMAIN down
      /\ \A i \in DOMAIN down' : i + 1 \in DOMAIN down /\ down'[i] = down[i + 1]
      /\ \A i \in DOMAIN down : i # 1 => i - 1 \in DOMAIN down' /\ down'[i - 1] = down[i]
  BY Reads DEF FillTypeOK
<1>2. AnswerIn(down', f) => AnswerIn(down, f)
  BY <1>1 DEF AnswerIn
<1>3. ASSUME NEW i \in DOMAIN down, IsAnswerTo(down[i], f), i # 1 PROVE AnswerIn(down', f)
  BY <1>1, <1>3 DEF AnswerIn
<1>4. IsAnswerTo(down[1], f) => AnswerIn(down, f)
  BY <1>1 DEF AnswerIn
<1> QED BY <1>2, <1>3, <1>4 DEF AnswerIn

\* Only an answer sent to it answers an update.
LEMMA AnswersAre ==
  ASSUME Beginning, NEW f
  PROVE  /\ AnswerIn(down, f) => f = 0 \/ f \in UpdateOks
         /\ AnswerIn(down, 0) => ~established
BY DEF Beginning, AnswerIn, IsAnswerTo, UpdateOks

\* The sets the reader is in.
LEMMA ReaderHas ==
  ASSUME NEW x, reader = <<x>>
  PROVE  /\ Reading = {x.update} /\ Merged = (IF x.at = "merged" THEN {x.update} ELSE {})
         /\ Answering = (IF acceptor = "answered" THEN {0} ELSE {}) \cup (IF x.at = "answered" THEN {x.update} ELSE {})
<1>1. DOMAIN reader = {1} /\ reader[1] = x
  OBVIOUS
<1> QED BY <1>1 DEF Reading, Merged, Answering

\* An outcome, once there, stays.
LEMMA FinishedSteps ==
  ASSUME FillTypeOK, NEW f \in Fills, NEW how \in {"complete", "failed"}, outcome' = Finished(f, how), NEW g \in Fills
  PROVE  /\ outcome[g] # "open" => outcome'[g] = outcome[g]
         /\ g # f => outcome'[g] = outcome[g]
         /\ outcome'[f] # "open"
         /\ outcome[f] = "open" => outcome'[f] = how
BY DEF FillTypeOK, Finished

\* A fill is resolved after its answer, attached after it is resolved, and
\* complete without a stream only once answered.
LEMMA StagesStep ==
  FillTypeOK /\ Beginning /\ Connected /\ InOrder /\ SlotsInv /\ Stages /\ [Next]_vars => Stages'
<1> SUFFICES ASSUME FillTypeOK, Beginning, Connected, InOrder, SlotsInv, Stages, [Next]_vars PROVE Stages'
  OBVIOUS
<1>i. FillTypeOK' /\ Beginning' /\ InOrder'
  BY TypeStep, BeginningStep, SlotsStep
<1>m. Updates \subseteq Fills /\ 0 \in Fills /\ Updates \subseteq Nat \ {0} /\ Fills \subseteq Nat /\ 0 \notin Updates
      /\ Updating \subseteq Updates /\ Reading \subseteq Updates /\ made \in Nat
  <2>1. Updates \subseteq Fills /\ 0 \in Fills /\ Updates \subseteq Nat \ {0} /\ Fills \subseteq Nat /\ 0 \notin Updates
    BY DEF Updates, Fills
  <2>2. Updating \subseteq Updates /\ Reading \subseteq Updates
    BY SlotTypes DEF FillTypeOK, Updating, Members
  <2> QED BY <2>1, <2>2 DEF FillTypeOK
<1>s. \A f \in Fills :
       /\ HasFill(f) /\ opened[f] = "unasked" /\ (AnswerIn(down, f) \/ (IsRead(f) /\ outcome[f] # "failed"))
       => f \in Answering
  BY DEF Stages, AnswerIn
<1>q. ASSUME UNCHANGED <<request, made, acceptor, reader, established>>, Updating' \subseteq Updating,
             fills' \subseteq fills,
             \A f \in Fills : opened'[f] = "unasked" <=> opened[f] = "unasked",
             attached \subseteq attached', \A f \in attached' : f \in attached \/ (f \in Fills /\ opened[f] # "unasked"),
             \A f \in Fills : outcome'[f] = "complete" => outcome[f] = "complete" \/ f \in attached,
             \A f \in Fills : outcome'[f] # "failed" => outcome[f] # "failed",
             Slots' = Slots, \A f \in Fills : AnswerIn(down', f) => AnswerIn(down, f)
      PROVE  Stages'
  <2>1. UNCHANGED <<Reading, Answering>> /\ (\A f \in Fills : HasFill(f)' <=> HasFill(f)) /\ \A f \in Fills : IsRead(f)' <=> IsRead(f)
    BY <1>q DEF Reading, Answering, HasFill, IsRead
  <2>2. \A f \in Fills :
       /\ HasFill(f)' /\ opened'[f] = "unasked" /\ (AnswerIn(down', f) \/ (IsRead(f)' /\ outcome'[f] # "failed"))
       => f \in Answering'
    BY <1>q, <1>s, <2>1
  <2>3. \A f \in Fills : outcome'[f] = "complete" /\ f \notin attached' => IsRead(f)'
    BY <1>q, <2>1 DEF Stages
  <2>4. \A f \in Updating' \cup Reading' : opened'[f] = "unasked"
    BY <1>q, <1>m, <2>1 DEF Stages
  <2>5. attached' \subseteq {f \in Fills : opened'[f] # "unasked"}
    BY <1>q DEF Stages
  <2>6. fills' \subseteq {f \in Fills : HasFill(f)'}
    BY <1>q, <2>1 DEF Stages
  <2>7. \A f \in Fills : (f # 0 /\ f > made' => ~HasFill(f)') /\ (~HasFill(f)' => opened'[f] = "unasked")
    BY <1>q, <2>1 DEF Stages
  <2>8. (acceptor' # "returned" => opened'[0] = "unasked") /\ (acceptor' = "returned" /\ HasFill(0)' => opened'[0] # "unasked")
    BY <1>q, <1>m, <2>1 DEF Stages
  <2>9. AnswersFills'
    BY <1>q DEF Stages, AnswersFills, HasFill
  <2> QED BY <2>2, <2>3, <2>4, <2>5, <2>6, <2>7, <2>8, <2>9 DEF Stages, AnswerIn
<1>o. ASSUME UNCHANGED <<request, made, acceptor, reader, established, writing, up, fills, attached, outcome,
             pending>>,
             \A f \in Fills : opened'[f] = "unasked" <=> opened[f] = "unasked",
             \A f \in Fills : AnswerIn(down', f) => AnswerIn(down, f)
      PROVE  Stages'
  BY <1>o, <1>q DEF Updating, Slots
<1>1. ASSUME NEW l \in Places \cup {NoLocation}, AcceptAnswers(l) PROVE Stages'
  <2>1. acceptor = "asked" /\ acceptor' = "answered"
        /\ UNCHANGED <<request, made, reader, established, writing, up, fills, attached, outcome, pending, opened>>
    BY <1>1 DEF AcceptAnswers, subscriber
  <2>2. PICK m \in Messages : m = Message("Ok", 0, l, <<>>, <<>>)
    <3>1. l \in Largests
      BY LocationFacts DEF Largests
    <3> QED BY <3>1, SentMessages
  <2>3. \A f : AnswerIn(down', f) => AnswerIn(down, f) \/ f = 0
    <3>1. Send(m) /\ m.update = 0
      BY <1>1, <2>2 DEF AcceptAnswers, Message
    <3> QED BY <3>1, AnswerSent DEF IsAnswerTo
  <2>4. Answering' = Answering \cup {0}
    BY <2>1 DEF Answering
  <2>5. UNCHANGED <<Reading, Updating>> /\ (\A f \in Fills : HasFill(f)' <=> HasFill(f)) /\ \A f \in Fills : IsRead(f)' <=> IsRead(f)
    BY <2>1 DEF Reading, Updating, HasFill, IsRead, Slots
  <2>6. \A f \in Fills :
       /\ HasFill(f)' /\ opened'[f] = "unasked" /\ (AnswerIn(down', f) \/ (IsRead(f)' /\ outcome'[f] # "failed"))
       => f \in Answering'
    BY <1>s, <2>1, <2>3, <2>4, <2>5
  <2>7. opened'[0] = "unasked"
    BY <2>1 DEF Stages
  <2> QED BY <2>1, <2>5, <2>6, <2>7 DEF Stages, AnswersFills, AnswerIn, HasFill
<1>2. CASE AcceptReturns
  <2>1. acceptor = "answered" /\ acceptor' = "returned"
        /\ UNCHANGED <<request, made, reader, established, writing, up, fills, attached, outcome, pending, down>>
    BY <1>2 DEF AcceptReturns, subscriber, wire
  <2>2. \A f \in Fills : f # 0 => opened'[f] = opened[f]
    BY <1>2, <1>m DEF AcceptReturns, StartFill, FillTypeOK
  <2>3. IF HasFill(0) THEN opened'[0] # "unasked" ELSE opened'[0] = opened[0]
    BY <1>2, <1>m DEF AcceptReturns, StartFill, FillTypeOK
  <2>4. Answering = Answering' \cup {0}
    BY <2>1 DEF Answering
  <2>5. UNCHANGED <<Reading, Updating>> /\ (\A f \in Fills : HasFill(f)' <=> HasFill(f)) /\ \A f \in Fills : IsRead(f)' <=> IsRead(f)
    BY <2>1 DEF Reading, Updating, HasFill, IsRead, Slots
  <2>6. \A f \in Fills :
       /\ HasFill(f)' /\ opened'[f] = "unasked" /\ (AnswerIn(down', f) \/ (IsRead(f)' /\ outcome'[f] # "failed"))
       => f \in Answering'
    BY <1>s, <2>1, <2>2, <2>3, <2>4, <2>5
  <2>7. attached' \subseteq {f \in Fills : opened'[f] # "unasked"}
    BY <2>1, <2>2, <2>3 DEF Stages
  <2>8. \A f \in Updating' \cup Reading' : opened'[f] = "unasked"
    BY <1>m, <2>2, <2>5 DEF Stages
  <2>9. \A f \in Fills : ~HasFill(f)' => opened'[f] = "unasked"
    BY <2>2, <2>3, <2>5 DEF Stages
  <2> QED BY <1>m, <2>1, <2>3, <2>5, <2>6, <2>7, <2>8, <2>9 DEF Stages, AnswersFills, AnswerIn, HasFill
<1>3. CASE MergeUpdate
  <2>1. PICK u \in Updates : u = Head(up) /\ u \in Updating
    BY <1>3, UpdatingSets DEF MergeUpdate
  <2>2. /\ up # <<>> /\ up' = Tail(up) /\ reader = <<>> /\ reader' = <<[update |-> u, at |-> "merged"]>>
        /\ UNCHANGED <<request, made, acceptor, established, writing, fills, attached, outcome, pending, opened,
           down>>
    BY <1>3, <2>1 DEF MergeUpdate, subscriber
  <2>3. Updating' \subseteq Updating
    BY <2>2, UpdatingSets DEF Updating, Members
  <2>4. Reading' = {u} /\ Answering' = Answering
    <3>1. [update |-> u, at |-> "merged"].update = u /\ [update |-> u, at |-> "merged"].at = "merged"
      OBVIOUS
    <3> QED BY <2>2, <3>1, OneReader, NoReader DEF Reading, Answering
  <2>5. (\A f \in Fills : HasFill(f)' <=> HasFill(f)) /\ \A f \in Fills : IsRead(f)' <=> IsRead(f)
    BY <2>2 DEF HasFill, IsRead, Slots
  <2>6. \A f \in Fills :
       /\ HasFill(f)' /\ opened'[f] = "unasked" /\ (AnswerIn(down', f) \/ (IsRead(f)' /\ outcome'[f] # "failed"))
       => f \in Answering'
    BY <1>s, <2>2, <2>4, <2>5
  <2>7. \A i \in DOMAIN reader' : reader'[i].at # "answered"
    BY <2>2
  <2>8. \A f \in Updating' \cup Reading' : opened'[f] = "unasked"
    BY <2>1, <2>2, <2>3, <2>4 DEF Stages
  <2> QED BY <2>2, <2>5, <2>6, <2>7, <2>8 DEF Stages, AnswersFills, AnswerIn, HasFill
<1>4. CASE AnswerUpdate
  <2>1. PICK x \in [update : Updates, at : {"merged", "answered"}] : reader = <<x>>
    BY <1>4 DEF AnswerUpdate, FillTypeOK
  <2>2. /\ x.at = "merged"
        /\ UNCHANGED <<request, made, acceptor, established, up, writing, fills, attached, outcome, pending, opened>>
    BY <1>4, <2>1 DEF AnswerUpdate, subscriber
  <2>3. UNCHANGED Updating /\ (\A f \in Fills : HasFill(f)' <=> HasFill(f)) /\ \A f \in Fills : IsRead(f)' <=> IsRead(f)
    BY <2>2 DEF HasFill, IsRead, Slots, Updating
  <2>4. Reading = {x.update} /\ Answering = IF acceptor = "answered" THEN {0} ELSE {}
    BY <2>1, <2>2, ReaderHas
  <2>5. CASE reader' = <<>>
    <3>1. \A f \in Fills : HasFill(f) => (AnswerIn(down', f) => AnswerIn(down, f))
      <4>1. CASE down' = down
        BY <4>1
      <4>2. CASE ~(SendDone \/ ~session)
        <5>1. PICK m \in Messages : m = Message("UpdateOk", x.update, pub.largest, <<>>, <<>>)
          BY SentMessages
        <5>2. Send(m) /\ m.update = x.update /\ ~HasFill(x.update)
          BY <1>4, <2>1, <2>5, <4>2, <5>1 DEF AnswerUpdate, Message
        <5> QED BY <5>2, AnswerSent DEF IsAnswerTo
      <4> QED BY <1>4, <4>1, <4>2 DEF AnswerUpdate
    <3>2. Reading' = {} /\ Answering' = Answering
      BY <2>2, <2>4, <2>5, NoReader DEF Reading, Answering
    <3>3. \A f \in Fills :
       /\ HasFill(f)' /\ opened'[f] = "unasked" /\ (AnswerIn(down', f) \/ (IsRead(f)' /\ outcome'[f] # "failed"))
       => f \in Answering'
      BY <1>s, <2>2, <2>3, <3>1, <3>2
    <3>4. \A i \in DOMAIN reader' : FALSE
      BY <2>5
    <3>5. \A f \in Updating' \cup Reading' : opened'[f] = "unasked"
      BY <2>2, <2>3, <3>2 DEF Stages
    <3> QED BY <2>2, <2>3, <3>3, <3>4, <3>5 DEF Stages, AnswersFills, AnswerIn, HasFill
  <2>6. CASE reader' # <<>>
    <3>1. PICK y \in [update : Updates, at : {"merged", "answered"}] : y = [x EXCEPT !.at = "answered"]
      OBVIOUS
    <3>2. reader' = <<y>> /\ y.update = x.update /\ y.at = "answered" /\ HasFill(x.update)
      BY <1>4, <2>1, <2>6, <3>1 DEF AnswerUpdate
    <3>3. Reading' = {x.update} /\ Answering' = Answering \cup {x.update}
      BY <2>2, <2>4, <3>2, OneReader DEF Reading, Answering
    <3>4. \A f \in Fills : AnswerIn(down', f) => AnswerIn(down, f) \/ f = x.update
      <4>1. PICK m \in Messages : m = Message("UpdateOk", x.update, pub.largest, <<>>, <<>>)
        BY SentMessages
      <4>2. Send(m) /\ m.update = x.update
        BY <1>4, <2>1, <2>6, <4>1 DEF AnswerUpdate, Message
      <4> QED BY <4>2, AnswerSent DEF IsAnswerTo
    <3>5. \A f \in Fills :
       /\ HasFill(f)' /\ opened'[f] = "unasked" /\ (AnswerIn(down', f) \/ (IsRead(f)' /\ outcome'[f] # "failed"))
       => f \in Answering'
      BY <1>s, <2>2, <2>3, <3>3, <3>4
    <3>6. AnswersFills'
      BY <2>2, <3>2 DEF AnswersFills, HasFill
    <3>7. \A f \in Updating' \cup Reading' : opened'[f] = "unasked"
      BY <2>2, <2>3, <2>4, <3>3 DEF Stages
    <3> QED BY <2>2, <2>3, <3>5, <3>6, <3>7 DEF Stages, AnswersFills, AnswerIn, HasFill
  <2> QED BY <2>5, <2>6
<1>5. CASE ReaderStartsFill
  <2>1. PICK x \in [update : Updates, at : {"merged", "answered"}] : reader = <<x>>
    BY <1>5 DEF ReaderStartsFill, FillTypeOK
  <2>2. /\ x.at = "answered" /\ reader' = <<>> /\ StartFill(x.update)
        /\ UNCHANGED <<request, made, acceptor, established, up, writing, fills, attached, outcome, pending, down>>
    BY <1>5, <2>1 DEF ReaderStartsFill, subscriber, wire
  <2>3. /\ \A f \in Fills : f # x.update => opened'[f] = opened[f]
        /\ opened'[x.update] # "unasked" /\ HasFill(x.update)
    <3>1. x.update \in Fills /\ HasFill(x.update)
      <4>1. 1 \in DOMAIN reader /\ reader[1] = x
        BY <2>1
      <4>2. HasFill(reader[1].update)
        BY <2>2, <4>1 DEF Stages, AnswersFills
      <4> QED BY <1>m, <4>1, <4>2
    <3> QED BY <2>2, <3>1 DEF StartFill, FillTypeOK
  <2>4. Reading = {x.update} /\ Answering = Answering' \cup {x.update} /\ Reading' = {}
    BY <2>1, <2>2, ReaderHas, NoReader DEF Reading, Answering
  <2>5. UNCHANGED Updating /\ (\A f \in Fills : HasFill(f)' <=> HasFill(f)) /\ \A f \in Fills : IsRead(f)' <=> IsRead(f)
    BY <2>2 DEF HasFill, IsRead, Slots, Updating
  <2>6. \A f \in Fills :
       /\ HasFill(f)' /\ opened'[f] = "unasked" /\ (AnswerIn(down', f) \/ (IsRead(f)' /\ outcome'[f] # "failed"))
       => f \in Answering'
    BY <1>s, <2>2, <2>3, <2>4, <2>5
  <2>7. x.update \notin Updating
    <3>1. Updating = writing \cup Members(up)
      BY DEF Updating, Members
    <3>2. x.update \in Nat /\ Updating \subseteq Nat
      BY <1>m
    <3>3. \A v \in Members(up) : x.update < v
      BY <2>4 DEF InOrder
    <3>4. \A v \in writing : x.update < v
      BY <2>4 DEF InOrder
    <3> QED BY <3>1, <3>2, <3>3, <3>4
  <2>8. \A f \in Updating' \cup Reading' : opened'[f] = "unasked"
    BY <1>m, <2>3, <2>4, <2>5, <2>7 DEF Stages
  <2>9. attached' \subseteq {f \in Fills : opened'[f] # "unasked"}
    BY <2>2, <2>3 DEF Stages
  <2>10. \A f \in Fills : ~HasFill(f)' => opened'[f] = "unasked"
    BY <2>3, <2>5 DEF Stages
  <2>11. opened'[0] = opened[0]
    BY <1>m, <2>3
  <2>12. \A i \in DOMAIN reader' : FALSE
    BY <2>2
  <2> QED BY <2>2, <2>5, <2>6, <2>8, <2>9, <2>10, <2>11, <2>12 DEF Stages, AnswersFills, AnswerIn, HasFill
<1>6. CASE (\E l \in Places : Publish(l)) \/ (\E change \in Changes : NotifyState(change)) \/ CloseCancels
  <2>1. UNCHANGED <<request, made, acceptor, reader, established, writing, up, fills, attached, outcome, pending,
        down, opened>>
    BY <1>6 DEF Publish, NotifyState, CloseCancels, subscriber, wire
  <2> QED BY <1>o, <2>1
<1>7. ASSUME NEW n \in 1 .. MaxNotices, WriteNotice(n) PROVE Stages'
  <2>1. UNCHANGED <<request, made, acceptor, reader, established, writing, up, fills, attached, outcome, pending,
        opened>>
    BY <1>7 DEF WriteNotice, subscriber
  <2>2. notice[n] \in Messages /\ n \in DOMAIN notice /\ (down' = down \/ Send(notice[n]))
    BY <1>7, NoticeWritten
  <2>3. PICK m \in Messages : m = notice[n] /\ m.type = "Notify"
    BY <2>2 DEF Beginning
  <2>4. \A f \in Fills : AnswerIn(down', f) => AnswerIn(down, f)
    <3>1. CASE Send(m)
      BY <2>3, <3>1, AnswerSent DEF IsAnswerTo
    <3> QED BY <2>2, <2>3, <3>1
  <2> QED BY <1>o, <2>1, <2>4
<1>8. CASE CloseResetsFills \/ (\E f \in Fills : OpenFill(f) \/ RegisterFill(f) \/ EndFill(f, "fin") \/ EndFill(f, "reset"))
  <2>1. UNCHANGED <<request, made, acceptor, reader, established, writing, up, fills, attached, outcome, pending,
        down>>
    BY <1>8 DEF CloseResetsFills, OpenFill, RegisterFill, EndFill, subscriber, wire
  <2>2. \A f \in Fills : opened'[f] = "unasked" <=> opened[f] = "unasked"
    BY <1>8 DEF CloseResetsFills, AfterReset, OpenFill, RegisterFill, EndFill, FillTypeOK
  <2> QED BY <1>o, <2>1, <2>2
<1>9. CASE CloseWrites
  <2>1. UNCHANGED <<request, made, acceptor, reader, established, writing, up, fills, attached, outcome, pending,
        opened>>
    BY <1>9 DEF CloseWrites, subscriber
  <2>2. PICK m \in Messages : m = Message("Done", 0, NoLocation, <<>>, <<>>)
    BY SentMessages
  <2>3. m.type = "Done" /\ Send(m)
    BY <1>9, <2>2 DEF CloseWrites, Message
  <2>4. \A f \in Fills : AnswerIn(down', f) => AnswerIn(down, f)
    BY <2>3, AnswerSent DEF IsAnswerTo
  <2> QED BY <1>o, <2>1, <2>4
<1>10. CASE StreamEnded
  <2>1. UNCHANGED <<request, made, acceptor, reader, established, writing, fills, attached, outcome, pending,
        down>> /\ up' = <<>>
    BY <1>10 DEF StreamEnded, subscriber
  <2>2. \A f \in Fills : opened'[f] = "unasked" <=> opened[f] = "unasked"
    BY <1>10 DEF StreamEnded, AfterReset, FillTypeOK
  <2>3. Updating' \subseteq Updating /\ Slots' = Slots
    BY <2>1 DEF Updating, Slots
  <2> QED BY <1>q, <2>1, <2>2, <2>3
<1>11. ASSUME NEW ask \in Asks, MakeUpdate(ask) PROVE Stages'
  <2>1. PICK u \in Updates : u = made + 1
    BY <1>11 DEF MakeUpdate, FillTypeOK, Updates
  <2>2. /\ request' = [request EXCEPT ![u] = ask] /\ made' = u /\ pending' = Append(pending, u) /\ writing' = writing \cup {u}
        /\ fills' = (IF ask.fill # <<>> THEN fills \cup {u} ELSE fills)
        /\ UNCHANGED <<up, down, acceptor, reader, established, attached, outcome, opened>>
    BY <1>11, <2>1 DEF MakeUpdate, wire, publisher
  <2>3. (\A f \in Fills : f # u => (HasFill(f)' <=> HasFill(f))) /\ (HasFill(u)' <=> ask.fill # <<>>) /\ ~HasFill(u) /\ opened[u] = "unasked"
    <3>1. ~HasFill(u) /\ opened[u] = "unasked"
      BY <1>m, <2>1 DEF Stages
    <3> QED BY <1>m, <2>2, <3>1 DEF HasFill, FillTypeOK
  <2>4. Slots' = Slots \cup {u}
    BY <2>2, MembersAppended DEF FillTypeOK, Slots
  <2>5. \A f \in Fills : f # u => (IsRead(f)' <=> IsRead(f) \/ (f # 0 /\ f > made /\ f <= made' /\ f \notin Slots))
    <3> SUFFICES ASSUME NEW f \in Fills, f # u
                 PROVE  IsRead(f)' <=> IsRead(f) \/ (f # 0 /\ f > made /\ f <= made' /\ f \notin Slots)
      OBVIOUS
    <3>1. f \in Slots' <=> f \in Slots
      BY <2>4
    <3>2. f <= made' <=> f <= made \/ (f > made /\ f <= made')
      BY <1>m, <2>1, <2>2
    <3> QED BY <2>2, <3>1, <3>2 DEF IsRead
  <2>6. \A f \in Fills : f # u => (IsRead(f)' <=> IsRead(f))
    <3>1. \A f \in Fills : f # u => ~(f > made /\ f <= made')
      BY <1>m, <2>1, <2>2
    <3> QED BY <2>5, <3>1
  <2>7. ~IsRead(u)' /\ ~AnswerIn(down, u) /\ outcome[u] # "complete"
    <3>1. ~IsRead(u)'
      BY <1>m, <2>4 DEF IsRead
    <3>2. ~AnswerIn(down, u)
      <4>1. u \notin UpdateOks /\ u # 0
        BY <1>m, <2>1, SlotTypes DEF InOrder
      <4> QED BY <4>1, AnswersAre
    <3>3. outcome[u] # "complete"
      <4>1. ~IsRead(u) /\ u \notin attached
        BY <1>m, <2>1, <2>3 DEF IsRead, Stages
      <4> QED BY <1>m, <4>1 DEF Stages
    <3> QED BY <3>1, <3>2, <3>3
  <2>8. UNCHANGED <<Reading, Answering>> /\ Updating' = Updating \cup {u}
    BY <2>2 DEF Reading, Answering, Updating
  <2>9. \A f \in Fills :
       /\ HasFill(f)' /\ opened'[f] = "unasked" /\ (AnswerIn(down', f) \/ (IsRead(f)' /\ outcome'[f] # "failed"))
       => f \in Answering'
    BY <1>s, <2>2, <2>3, <2>6, <2>7, <2>8
  <2>10. \A f \in Fills : outcome'[f] = "complete" /\ f \notin attached' => IsRead(f)'
    BY <2>2, <2>6, <2>7 DEF Stages
  <2>11. \A f \in Fills : f # 0 /\ f > made' => ~HasFill(f)'
    BY <1>m, <2>1, <2>2, <2>3 DEF Stages
  <2>12. \A f \in Fills : ~HasFill(f)' => opened'[f] = "unasked"
    BY <2>2, <2>3 DEF Stages
  <2>13. \A f \in Updating' \cup Reading' : opened'[f] = "unasked"
    BY <2>2, <2>3, <2>8 DEF Stages
  <2>14. fills' \subseteq {f \in Fills : HasFill(f)'}
    BY <1>m, <2>2, <2>3 DEF Stages
  <2>15. HasFill(0)' <=> HasFill(0)
    BY <1>m, <2>3
  <2>16. AnswersFills'
    <3>1. \A v \in Reading : v # u /\ v \in Fills
      <4>1. \A v \in Reading : v <= made /\ v \in Nat /\ v \in Fills
        BY <1>m DEF InOrder
      <4> QED BY <1>m, <2>1, <4>1
    <3>2. \A v \in Reading : HasFill(v) => HasFill(v)'
      BY <2>3, <3>1
    <3>3. \A i \in DOMAIN reader : reader[i].at = "answered" => request'[reader[i].update].fill # <<>>
      BY <3>2 DEF Stages, AnswersFills, Reading, HasFill
    <3> QED BY <2>2, <3>3 DEF AnswersFills, HasFill
  <2> QED BY <2>2, <2>9, <2>10, <2>11, <2>12, <2>13, <2>14, <2>15, <2>16 DEF Stages, AnswerIn
<1>12. ASSUME NEW u \in Updates, WriteUpdate(u) PROVE Stages'
  <2>1. /\ u \in writing /\ writing' = writing \ {u}
        /\ UNCHANGED <<request, made, acceptor, reader, established, fills, attached, outcome, pending, opened, down>>
        /\ up' = (IF ending \in {"cancelled", "ended"} THEN up ELSE Append(up, u))
    BY <1>12 DEF WriteUpdate, publisher
  <2>2. Members(up') \subseteq Members(up) \cup {u}
    BY <2>1, MembersAppended DEF FillTypeOK
  <2>3. Updating' \subseteq Updating /\ Slots' = Slots
    BY <2>1, <2>2 DEF Updating, Members, Slots
  <2> QED BY <1>q, <2>1, <2>3
<1>13. ASSUME NEW u \in Updates, WriteFails(u) PROVE Stages'
  <2>1. /\ u \in writing /\ writing' = writing \ {u} /\ pending' = SubSeq(pending, 1, Len(pending) - 1)
        /\ fills' = fills \ {u} /\ outcome' = (IF HasFill(u) THEN Finished(u, "failed") ELSE outcome)
        /\ UNCHANGED <<request, made, acceptor, reader, established, attached, opened, down, up>>
    BY <1>13 DEF WriteFails, publisher, wire
  <2>2. writing = {u} /\ made = u /\ u \in Slots
    BY <2>1 DEF InOrder
  <2>3. Slots' = Slots \ {u}
    <3>1. \A v \in Slots : v <= u
      BY <2>2 DEF InOrder
    <3> QED BY <2>1, <2>2, <3>1, MembersShortened DEF FillTypeOK, InOrder, Slots
  <2>4. UNCHANGED <<Reading, Answering>> /\ (\A f \in Fills : HasFill(f)' <=> HasFill(f)) /\ Updating' \subseteq Updating
    BY <2>1 DEF Reading, Answering, HasFill, Updating
  <2>5. \A f \in Fills : (IsRead(f) => IsRead(f)') /\ (IsRead(f)' => IsRead(f) \/ f = u)
    BY <2>1, <2>3 DEF IsRead
  <2>6. /\ \A f \in Fills : f # u => outcome'[f] = outcome[f]
        /\ HasFill(u) => outcome'[u] = "failed"
        /\ outcome[u] # "complete"
    <3>1. u \in Fills /\ ~IsRead(u) /\ opened[u] = "unasked" /\ u \notin attached
      BY <1>m, <2>2 DEF IsRead, Stages, Updating
    <3>2. outcome[u] # "complete"
      BY <3>1 DEF Stages
    <3>3. outcome[u] \in {"open", "failed"}
      BY <3>1, <3>2 DEF FillTypeOK
    <3>4. CASE HasFill(u)
      BY <2>1, <3>1, <3>2, <3>3, <3>4, FinishedSteps
    <3> QED BY <2>1, <3>2, <3>4
  <2>7. \A f \in Fills :
       /\ HasFill(f)' /\ opened'[f] = "unasked" /\ (AnswerIn(down', f) \/ (IsRead(f)' /\ outcome'[f] # "failed"))
       => f \in Answering'
    <3>1. \A f \in Fills : AnswerIn(down', f) => AnswerIn(down, f)
      BY <2>1
    <3> QED BY <1>s, <2>1, <2>4, <2>5, <2>6, <3>1
  <2>8. \A f \in Fills : outcome'[f] = "complete" /\ f \notin attached' => IsRead(f)'
    <3>1. outcome'[u] # "complete"
      BY <2>1, <2>6
    <3> QED BY <2>1, <2>5, <2>6, <3>1 DEF Stages
  <2>9. fills' \subseteq {f \in Fills : HasFill(f)'}
    BY <2>1, <2>4 DEF Stages
  <2>10. \A f \in Updating' \cup Reading' : opened'[f] = "unasked"
    BY <2>1, <2>4 DEF Stages
  <2>11. AnswersFills'
    BY <2>1 DEF Stages, AnswersFills, HasFill
  <2> QED BY <1>m, <2>1, <2>4, <2>7, <2>8, <2>9, <2>10, <2>11 DEF Stages, AnswerIn
<1>r. ASSUME UNCHANGED <<request, made, acceptor, reader, writing, up, fills, attached, opened>>, NEW f \in Fills,
             NEW type,
             ReadsNext(type), IsAnswerTo(down[1], f), ~IsRead(f), IsRead(f)',
             \A g \in Fills : g # f => (IsRead(g)' <=> IsRead(g)),
             \A g \in Fills : outcome'[g] = outcome[g] \/ (g = f /\ outcome'[g] = "complete")
      PROVE  Stages'
  <2>1. UNCHANGED <<Reading, Answering, Updating>> /\ (\A g \in Fills : HasFill(g)' <=> HasFill(g))
    BY <1>r DEF Reading, Answering, HasFill, Updating
  <2>2. AnswerIn(down, f) /\ \A g \in Fills : AnswerIn(down', g) => AnswerIn(down, g)
    BY <1>r, AnswerRead
  <2>3. \A g \in Fills :
       /\ HasFill(g)' /\ opened'[g] = "unasked" /\ (AnswerIn(down', g) \/ (IsRead(g)' /\ outcome'[g] # "failed"))
       => g \in Answering'
    BY <1>s, <1>r, <2>1, <2>2
  <2>4. \A g \in Fills : outcome'[g] = "complete" /\ g \notin attached' => IsRead(g)'
    BY <1>r DEF Stages
  <2>5. AnswersFills'
    BY <1>r DEF Stages, AnswersFills, HasFill
  <2> QED BY <1>m, <1>r, <2>1, <2>3, <2>4, <2>5 DEF Stages, AnswerIn
<1>14. CASE ReadOk
  <2>1. /\ ReadsNext("Ok") /\ UNCHANGED <<request, made, acceptor, reader, writing, up, fills, attached, opened,
           pending>>
        /\ established' = TRUE
    BY <1>14 DEF ReadOk, publisher
  <2>2. IsAnswerTo(down[1], 0) /\ ~established
    BY <2>1, Reads DEF FillTypeOK, Beginning, IsAnswerTo
  <2>3. \A g \in Fills : g # 0 => (IsRead(g)' <=> IsRead(g))
    BY <2>1 DEF IsRead, Slots
  <2>4. \A g \in Fills : outcome'[g] = outcome[g] \/ (g = 0 /\ outcome'[g] = "complete")
    BY <1>14, <1>m DEF ReadOk, Expect, Finished, FillTypeOK
  <2>5. ~IsRead(0) /\ IsRead(0)'
    BY <2>1, <2>2 DEF IsRead
  <2> QED BY <1>m, <1>r, <2>1, <2>2, <2>3, <2>4, <2>5
<1>15. CASE ReadUpdateOk
  <2>1. /\ ReadsNext("UpdateOk") /\ pending # <<>> /\ pending' = Tail(pending)
        /\ UNCHANGED <<request, made, acceptor, reader, writing, up, fills, attached, opened, established>>
    BY <1>15 DEF ReadUpdateOk, publisher
  <2>2. PICK u \in Updates : u = Head(pending)
    BY <2>1, Popped DEF FillTypeOK
  <2>3. IsAnswerTo(down[1], u)
    <3>1. down[1].update = u
      BY <2>1, <2>2, FirstSlot DEF ReadsNext
    <3> QED BY <2>1, <3>1, Reads DEF FillTypeOK, IsAnswerTo
  <2>4. u \in Slots /\ Slots' = Slots \ {u}
    BY <2>1, <2>2, MembersPopped DEF FillTypeOK, InOrder, Slots
  <2>5. \A g \in Fills : g # u => (IsRead(g)' <=> IsRead(g))
    BY <2>1, <2>4 DEF IsRead
  <2>6. ~IsRead(u) /\ IsRead(u)'
    BY <1>m, <2>1, <2>4 DEF IsRead, InOrder
  <2>7. \A g \in Fills : outcome'[g] = outcome[g] \/ (g = u /\ outcome'[g] = "complete")
    BY <1>15, <1>m, <2>2 DEF ReadUpdateOk, Expect, Finished, FillTypeOK
  <2> QED BY <1>m, <1>r, <2>1, <2>3, <2>5, <2>6, <2>7
<1>16. CASE ReadNotify \/ ReadDone
  <2>1. UNCHANGED <<request, made, acceptor, reader, established, writing, up, fills, attached, outcome, pending,
        opened>>
        /\ \E type : ReadsNext(type)
    BY <1>16 DEF ReadNotify, ReadDone, publisher
  <2>2. \A f \in Fills : AnswerIn(down', f) => AnswerIn(down, f)
    BY <2>1, AnswerRead
  <2> QED BY <1>o, <2>1, <2>2
<1>17. CASE FinishDelivery
  <2>1. UNCHANGED <<request, made, acceptor, reader, established, writing, up, fills, attached, outcome, pending,
        opened, down>>
    BY <1>17 DEF FinishDelivery, publisher, wire
  <2> QED BY <1>o, <2>1
<1>18. CASE Close
  <2>1. UNCHANGED <<request, made, acceptor, reader, established, writing, up, fills, attached, outcome, pending,
        opened>>
        /\ down' = <<>>
    BY <1>18 DEF Close, publisher
  <2>2. \A f \in Fills : ~AnswerIn(down', f)
    BY <2>1 DEF AnswerIn
  <2> QED BY <1>o, <2>1, <2>2
<1>19. ASSUME NEW f \in Fills, AttachStream(f) PROVE Stages'
  <2>1. UNCHANGED <<request, made, acceptor, reader, established, writing, up, fills, outcome, pending, opened, down>>
        /\ attached' = attached \cup {f} /\ opened[f] # "unasked"
    BY <1>19 DEF AttachStream, publisher, wire
  <2>2. Updating' \subseteq Updating /\ Slots' = Slots
    BY <2>1 DEF Updating, Slots
  <2> QED BY <1>q, <2>1, <2>2
<1>20. ASSUME NEW f \in Fills, FinishFill(f) \/ StreamEnds(f) \/ HandlerFails(f) \/ DeliverFails(f) PROVE Stages'
  <2>1. UNCHANGED <<request, made, acceptor, reader, established, writing, up, fills, attached, pending, opened,
        down>>
    BY <1>20 DEF FinishFill, StreamEnds, HandlerFails, DeliverFails, publisher, wire
  <2>2. Updating' \subseteq Updating /\ Slots' = Slots
    BY <2>1 DEF Updating, Slots
  <2>3. \A g \in Fills : outcome'[g] # "failed" => outcome[g] # "failed"
    BY <1>20 DEF FinishFill, StreamEnds, HandlerFails, DeliverFails, Finished, FillTypeOK
  <2>4. \A g \in Fills : outcome'[g] = "complete" => outcome[g] = "complete" \/ g \in attached
    BY <1>20 DEF FinishFill, StreamEnds, HandlerFails, DeliverFails, Finished, FillTypeOK
  <2> QED BY <1>q, <2>1, <2>2, <2>3, <2>4
<1>22. CASE SessionEnds
  <2>1. UNCHANGED <<request, made, acceptor, reader, established, writing, fills, attached, outcome, pending,
        opened>>
        /\ down' = <<>> /\ up' = <<>>
    BY <1>22 DEF SessionEnds, publisher
  <2>2. (\A f \in Fills : ~AnswerIn(down', f)) /\ Updating' \subseteq Updating /\ Slots' = Slots
    BY <2>1 DEF AnswerIn, Updating, Slots
  <2> QED BY <1>q, <2>1, <2>2
<1>21. CASE UNCHANGED vars
  <2>1. UNCHANGED <<request, made, acceptor, reader, established, writing, up, fills, attached, outcome, pending,
        opened, down>>
    BY <1>21 DEF vars, publisher, subscriber, wire
  <2> QED BY <1>o, <2>1
<1> QED BY <1>1, <1>2, <1>3, <1>4, <1>5, <1>6, <1>7, <1>8, <1>9, <1>10, <1>11, <1>12, <1>13, <1>14, <1>15,
           <1>16, <1>17, <1>18, <1>19, <1>20, <1>21, <1>22, Actions

------------------------------------------------------------------------------
(* What each end expects.                                                   *)

\* What has crossed or been disturbed stays so, and an attached stream
\* attached.
LEMMA HistoryGrows ==
  ASSUME FillTypeOK, [Next]_vars
  PROVE  apart \subseteq apart' /\ disturbed \subseteq disturbed' /\ attached \subseteq attached'
<1>1. CASE UNCHANGED vars
  BY <1>1 DEF vars, history, subscriber
<1>2. CASE \/ \E l \in Places \cup {NoLocation} : AcceptAnswers(l)
           \/ AcceptReturns \/ AnswerUpdate \/ ReaderStartsFill
           \/ CloseResetsFills \/ CloseWrites \/ CloseCancels \/ StreamEnded
           \/ \E f \in Fills : OpenFill(f) \/ RegisterFill(f) \/ EndFill(f, "fin") \/ EndFill(f, "reset")
  <2>1. UNCHANGED <<subscriber, disturbed, apart>>
    BY <1>2 DEF AcceptAnswers, AcceptReturns, AnswerUpdate, ReaderStartsFill, CloseResetsFills,
       CloseWrites,
      CloseCancels, StreamEnded, OpenFill, RegisterFill, EndFill, history
  <2> QED BY <2>1 DEF subscriber
<1>3. CASE (\E l \in Places : Publish(l)) \/ MergeUpdate \/ (\E change \in Changes : NotifyState(change))
  <2>1. CASE MergeUpdate
    BY <2>1 DEF MergeUpdate, subscriber
  <2>2. ASSUME NEW l \in Places, Publish(l) PROVE UNCHANGED subscriber /\ apart \subseteq apart' /\ disturbed \subseteq disturbed'
    BY <2>2 DEF Publish
  <2>3. ASSUME NEW change \in Changes, NotifyState(change)
        PROVE  UNCHANGED subscriber /\ apart \subseteq apart' /\ disturbed \subseteq disturbed'
    BY <2>3 DEF NotifyState
  <2> QED BY <1>3, <2>1, <2>2, <2>3 DEF subscriber
<1>4. CASE \E ask \in Asks : MakeUpdate(ask)
  BY <1>4 DEF MakeUpdate
<1>6. ASSUME NEW u \in Updates, WriteFails(u) PROVE UNCHANGED <<disturbed, attached>> /\ apart \subseteq apart'
  BY <1>6 DEF WriteFails
<1>7. ASSUME NEW i \in 1 .. MaxNotices, WriteNotice(i) PROVE UNCHANGED <<disturbed, attached>> /\ apart \subseteq apart'
  BY <1>7 DEF WriteNotice, subscriber
<1>5. CASE \/ \E u \in Updates : WriteUpdate(u)
           \/ SessionEnds
           \/ ReadOk \/ ReadUpdateOk \/ ReadNotify \/ ReadDone \/ FinishDelivery \/ Close
           \/ \E f \in Fills : AttachStream(f)
           \/ \E f \in Fills : FinishFill(f) \/ StreamEnds(f) \/ HandlerFails(f) \/ DeliverFails(f)
  BY <1>5 DEF WriteUpdate, SessionEnds, ReadOk, ReadUpdateOk, ReadNotify, ReadDone, FinishDelivery, Close,
     AttachStream,
    FinishFill, StreamEnds, HandlerFails, DeliverFails, history
<1> QED BY <1>1, <1>2, <1>3, <1>4, <1>5, <1>6, <1>7, Actions

\* startFill decides what it would have decided.
LEMMA StartsAsItWould ==
  ASSUME FillTypeOK, NEW f \in Fills, opened[f] = "unasked", StartFill(f)
  PROVE  opened'[f] # "unasked" /\ (opened'[f] = "nothing" <=> WillBeNothing(f))
BY DEF StartFill, WillBeNothing, PublisherNone, FillTypeOK

\* A view is its fields.
LEMMA SameFields ==
  ASSUME NEW s \in Subscribers, NEW t \in Subscribers, s.largest = t.largest, s.paused = t.paused, s.filter = t.filter
  PROVE  s = t
<1>1. \A r \in Subscribers : r = [largest |-> r.largest, paused |-> r.paused, filter |-> r.filter]
  BY DEF Subscribers
<1> QED BY <1>1

Part(f) == OnItsWay(f) /\ Applied(f) /\ AnswerOnItsWay(f) /\ Concluded(f)

\* A fill that both ends resolve with the same knowledge is resolved to the
\* same, wherever its update is.
LEMMA ExpectedStep ==
  /\ FillTypeOK /\ Beginning /\ Connected /\ InOrder /\ SlotsInv /\ Known /\ Views /\ Stages /\ Expected /\ [Next]_vars
  => Expected'
<1> SUFFICES ASSUME FillTypeOK, Beginning, Connected, InOrder, SlotsInv, Known, Views, Stages, Expected, [Next]_vars,
                    apart' = {}, NEW f \in Fills, f \notin disturbed' \cup attached', HasFill(f)'
             PROVE  Part(f)'
  BY DEF Expected, Part
<1>i. FillTypeOK' /\ Beginning' /\ InOrder' /\ SlotsInv' /\ Views'
  BY TypeStep, BeginningStep, SlotsStep, ViewsStep
<1>m. /\ Updates \subseteq Fills /\ 0 \in Fills /\ Updates \subseteq Nat \ {0} /\ Fills \subseteq Nat /\ 0 \notin Updates
      /\ made \in Nat
  BY DEF Updates, Fills, FillTypeOK
<1>h. apart = {} /\ f \notin disturbed \cup attached
  BY HistoryGrows
<1>e. HasFill(f) => OnItsWay(f) /\ Applied(f) /\ AnswerOnItsWay(f) /\ Concluded(f)
  BY <1>h DEF Expected
<1>s. HasFill(f) /\ opened[f] = "unasked" /\ (AnswerIn(down, f) \/ (IsRead(f) /\ outcome[f] # "failed")) => f \in Answering
  BY DEF Stages, AnswerIn
<1>a. f \in Answering /\ HasFill(f) => f \in Resolving
  BY DEF Answering, Resolving
<1>b. /\ DOMAIN down = 1 .. Len(down) /\ Len(down) \in Nat /\ DOMAIN down' = 1 .. Len(down') /\ Len(down') \in Nat
      /\ \A i \in DOMAIN down : down[i] \in Messages /\ down[i].largest \in Largests
      /\ pub.largest \in Largests /\ sub.largest \in Largests /\ pub.forward \in BOOLEAN
  <2>1. \A i \in DOMAIN down : down[i] \in Messages
    BY Indexed DEF FillTypeOK
  <2> QED BY <1>i, <2>1, Indexed DEF FillTypeOK, Messages
\* What keeps each part.
<1>w. ASSUME HasFill(f), request' = request, Updating' \subseteq Updating, SendDone => SendDone',
             delivery' = "on" => delivery = "on"
      PROVE  OnItsWay(f)'
  BY <1>e, <1>w DEF OnItsWay
<1>p. ASSUME HasFill(f), Merged' \subseteq Merged, SendDone => SendDone', delivery' = "on" => delivery = "on",
             pub'.forward = pub.forward, pub'.filter = pub.filter, sub'.paused = sub.paused, sub'.filter = sub.filter,
             NoticeUnread' => NoticeUnread
      PROVE  Applied(f)'
  BY <1>e, <1>p DEF Applied
<1>o. ASSUME HasFill(f), request'[f] = request[f], sub' = sub, delivery' = "on" => delivery = "on",
             \A i \in DOMAIN down' : IsAnswerTo(down'[i], f) => i \in DOMAIN down,
             \A i \in DOMAIN down : i \in DOMAIN down' => down'[i] = down[i],
             AnswerIn(down, f) => (WillBeNothing(f)' <=> WillBeNothing(f))
      PROVE  AnswerOnItsWay(f)'
  <2> SUFFICES ASSUME delivery' = "on", NEW i \in DOMAIN down', IsAnswerTo(down'[i], f)
               PROVE  /\ \A j \in DOMAIN down' : j < i =>
                           down'[j].type # "Notify" /\ NotAfter(down'[j].largest, down'[i].largest)
                      /\ NotAfter(sub'.largest, down'[i].largest)
                      /\ (sub'.paused \/ FetchRange(FillFilter(f, sub.filter)',
                         down'[i].largest) = NoRange) <=> WillBeNothing(f)'
    BY DEF AnswerOnItsWay, SubscriberNone
  <2>1. i \in DOMAIN down /\ down'[i] = down[i] /\ AnswerIn(down, f) /\ IsAnswerTo(down[i], f)
    BY <1>o DEF AnswerIn
  <2>2. \A j \in DOMAIN down' : j < i => j \in DOMAIN down /\ down'[j] = down[j]
    BY <1>b, <1>o, <2>1
  <2>3. /\ \A j \in DOMAIN down : j < i => down[j].type # "Notify" /\ NotAfter(down[j].largest, down[i].largest)
        /\ NotAfter(sub.largest, down[i].largest)
        /\ SubscriberNone(f, down[i].largest) <=> WillBeNothing(f)
    BY <1>e, <1>o, <2>1 DEF AnswerOnItsWay
  <2>4. (sub'.paused \/ FetchRange(FillFilter(f, sub.filter)',
        down'[i].largest) = NoRange) <=> SubscriberNone(f, down[i].largest)
    BY <1>o, <2>1 DEF SubscriberNone, FillFilter
  <2> QED BY <1>o, <2>1, <2>2, <2>3, <2>4
<1>c. ASSUME HasFill(f), IsRead(f)' => IsRead(f), outcome'[f] = "complete" => outcome[f] = "complete",
             outcome'[f] = "open" => outcome[f] = "open",
             IsRead(f) /\ outcome[f] # "failed" => (WillBeNothing(f)' <=> WillBeNothing(f))
      PROVE  Concluded(f)'
  BY <1>c, <1>e DEF Concluded
\* What a fill will come to.
<1>n. ASSUME request'[f] = request[f], pub' = pub, opened'[f] = "unasked" <=> opened[f] = "unasked",
             opened'[f] = "nothing" <=> opened[f] = "nothing"
      PROVE  WillBeNothing(f)' <=> WillBeNothing(f)
  BY <1>n DEF WillBeNothing, PublisherNone, FillFilter
<1>d. ASSUME HasFill(f), f \notin Resolving, opened'[f] = opened[f],
             AnswerIn(down, f) \/ (IsRead(f) /\ outcome[f] # "failed")
      PROVE  WillBeNothing(f)' <=> WillBeNothing(f)
  <2>1. opened[f] # "unasked"
    BY <1>d, <1>s, <1>a
  <2> QED BY <1>d, <2>1 DEF WillBeNothing
\* A step of the publisher that sends nothing of the kind looked at.
<1>k. ASSUME UNCHANGED <<request, made, sub, established, pending, delivery>>,
             outcome'[f] = "complete" => outcome[f] = "complete", outcome'[f] = "open" => outcome[f] = "open",
             Updating' \subseteq Updating, Merged' \subseteq Merged, pub'.forward = pub.forward,
             pub'.filter = pub.filter,
             SendDone => SendDone', NoticeUnread' => NoticeUnread,
             \A i \in DOMAIN down' : IsAnswerTo(down'[i], f) => i \in DOMAIN down,
             \A i \in DOMAIN down : i \in DOMAIN down' => down'[i] = down[i],
             HasFill(f) /\ (AnswerIn(down, f) \/ (IsRead(f) /\ outcome[f] # "failed")) => (WillBeNothing(f)' <=> WillBeNothing(f))
      PROVE  Part(f)'
  <2>1. HasFill(f) /\ IsRead(f)' = IsRead(f)
    BY <1>k DEF HasFill, IsRead, Slots
  <2> QED BY <1>c, <1>k, <1>o, <1>p, <1>w, <2>1 DEF Part
<1>1. ASSUME NEW l \in Places \cup {NoLocation}, AcceptAnswers(l) PROVE Part(f)'
  <2>1. /\ acceptor = "asked" /\ l \in Largests
        /\ UNCHANGED <<request, made, up, reader, notice, opened, sub, writing, established, pending, outcome>>
    BY <1>1, LocationFacts DEF AcceptAnswers, subscriber, Largests
  <2>2. down = <<>> /\ up = <<>> /\ reader = <<>> /\ ~established /\ made = 0 /\ writing = {} /\ delivery' = delivery
    BY <1>1, <2>1, Unestablished DEF Beginning, AcceptAnswers, subscriber
  <2>3. f = 0 /\ HasFill(0)
    BY <1>m, <2>1, <2>2 DEF Stages, HasFill
  <2>4. PICK m \in Messages : m = Message("Ok", 0, l, <<>>, <<>>)
    BY <2>1, SentMessages
  <2>5. (delivery = "on" => down' = Append(down, m)) /\ m.largest = l
    BY <1>1, <2>2, <2>4 DEF AcceptAnswers, Send, Message
  <2>6. delivery = "on" => DOMAIN down' = {1} /\ down'[1] = m
    BY <2>2, <2>5
  <2>7. Updating' = {} /\ Merged' = {} /\ ~IsRead(f)'
    BY <2>1, <2>2, <2>3 DEF Updating, Merged, IsRead
  <2>8. /\ pub'.largest = l /\ pub'.forward = Given(request[0].forward, TRUE)
        /\ pub'.filter = Given(request[0].filter, NoFilter)
    BY <1>1 DEF AcceptAnswers
  <2>9. /\ sub'.largest = NoLocation /\ sub'.paused = ~Given(request[0].forward, TRUE)
        /\ sub'.filter = Given(request[0].filter, NoFilter)
    <3>1. sub = [largest |-> NoLocation, paused |-> ~Given(request[0].forward, TRUE),
                 filter |-> Given(request[0].filter, NoFilter)]
      BY <2>1 DEF Beginning
    <3> QED BY <2>1, <3>1
  <2>10. opened'[f] = "unasked"
    BY <2>1, <2>3 DEF Stages
  <2>11. (sub'.paused \/ FetchRange(FillFilter(f, sub.filter)', l) = NoRange) <=> WillBeNothing(f)'
    BY <2>8, <2>9, <2>10 DEF WillBeNothing, PublisherNone, FillFilter
  <2>12. AnswerOnItsWay(f)'
    <3>1. SUFFICES ASSUME delivery = "on", NEW i \in DOMAIN down'
                   PROVE  /\ \A j \in DOMAIN down' : j < i =>
                               down'[j].type # "Notify" /\ NotAfter(down'[j].largest, down'[i].largest)
                          /\ NotAfter(sub'.largest, down'[i].largest)
                          /\ (sub'.paused \/ FetchRange(FillFilter(f, sub.filter)',
                             down'[i].largest) = NoRange) <=> WillBeNothing(f)'
      BY <2>2 DEF AnswerOnItsWay, SubscriberNone
    <3>2. i = 1 /\ down'[i].largest = l /\ \A j \in DOMAIN down' : ~(j < i)
      BY <2>5, <2>6, <3>1
    <3> QED BY <2>1, <2>9, <2>11, <3>2, LocationFacts
  <2> QED BY <2>7, <2>12 DEF Part, OnItsWay, Applied, Concluded
<1>2. ASSUME NEW g \in Fills, opened[g] = "unasked", StartFill(g) \/ UNCHANGED opened, reader' \in {reader, <<>>},
             UNCHANGED <<request, made, wire, pub, notice, ending, subscriber>>
      PROVE  Part(f)'
  <2>1. UNCHANGED <<request, made, up, down, pub, notice, ending, sub, established, pending, writing, delivery,
        outcome>>
    BY <1>2 DEF wire, subscriber
  <2>2. Updating' = Updating /\ Merged' \subseteq Merged /\ SendDone' = SendDone /\ NoticeUnread' = NoticeUnread
    BY <1>2, <2>1 DEF Updating, Merged, SendDone, NoticeUnread
  <2>3. WillBeNothing(f)' <=> WillBeNothing(f)
    <3>1. CASE StartFill(g) /\ f = g
      BY <1>2, <3>1, StartsAsItWould DEF WillBeNothing
    <3>2. CASE f # g \/ UNCHANGED opened
      <4>1. opened'[f] = opened[f]
        BY <1>2, <3>2 DEF StartFill, FillTypeOK
      <4> QED BY <1>n, <2>1, <4>1
    <3> QED BY <1>2, <3>1, <3>2
  <2> QED BY <1>k, <2>1, <2>2, <2>3
<1>3. CASE AcceptReturns
  <2>1. opened[0] = "unasked" /\ (StartFill(0) \/ UNCHANGED opened)
    BY <1>3 DEF AcceptReturns, Stages
  <2> QED BY <1>2, <1>3, <1>m, <2>1 DEF AcceptReturns
<1>4. CASE ReaderStartsFill
  <2>1. PICK x \in [update : Updates, at : {"merged", "answered"}] : reader = <<x>>
    BY <1>4 DEF ReaderStartsFill, FillTypeOK
  <2>2. x.update \in Fills /\ opened[x.update] = "unasked" /\ StartFill(x.update)
    <3>1. x.update \in Reading /\ reader[1] = x
      BY <2>1, ReaderHas
    <3> QED BY <1>4, <1>m, <3>1 DEF ReaderStartsFill, Stages
  <2> QED BY <1>2, <1>4, <2>2 DEF ReaderStartsFill
<1>5. ASSUME NEW l \in Places, Publish(l) PROVE Part(f)'
  <2>1. /\ UNCHANGED <<request, made, up, down, notice, reader, ending, sub, established, pending, writing, delivery,
           outcome, opened>>
        /\ f \notin Resolving
    BY <1>5 DEF wire, subscriber, Publish
  <2>2. Updating' = Updating /\ Merged' = Merged /\ SendDone' = SendDone /\ NoticeUnread' = NoticeUnread
    BY <2>1 DEF Updating, Merged, SendDone, NoticeUnread
  <2>3. pub'.forward = pub.forward /\ pub'.filter = pub.filter
    BY <1>5 DEF Publish, FillTypeOK
  <2> QED BY <1>d, <1>k, <2>1, <2>2, <2>3
<1>6. ASSUME NEW change \in Changes, NotifyState(change) PROVE Part(f)'
  <2>1. /\ UNCHANGED <<request, made, up, down, reader, ending, sub, established, pending, writing, delivery,
           outcome, opened>>
        /\ f \notin Resolving /\ ~InFlight
    BY <1>6 DEF wire, subscriber, NotifyState
  <2>2. f \notin Merged'
    BY <2>1 DEF Merged, Resolving
  <2>3. Updating' = Updating /\ SendDone' = SendDone /\ (IsRead(f)' <=> IsRead(f)) /\ HasFill(f)
    BY <2>1 DEF Updating, SendDone, IsRead, Slots, HasFill
  <2>4. Applied(f)'
    BY <2>2 DEF Applied
  <2> QED BY <1>c, <1>d, <1>o, <1>w, <2>1, <2>3, <2>4 DEF Part
<1>7. CASE MergeUpdate
  <2>1. PICK u \in Updates : u = Head(up)
    BY <1>7, Popped DEF MergeUpdate, FillTypeOK
  <2>2. /\ up # <<>> /\ up' = Tail(up) /\ acceptor # "asked" /\ reader' = <<[update |-> u, at |-> "merged"]>>
        /\ UNCHANGED <<request, made, down, acceptor, notice, apart, sub, established, pending, outcome, opened,
           writing, delivery, ending>>
    BY <1>7, <2>1 DEF MergeUpdate, subscriber
  <2>3. pub' = pub \/ f \notin Resolving
    BY <1>7 DEF MergeUpdate
  <2>4. u \in Updating /\ (\A m \in Updating \ {u} : u < m) /\ Updating' = Updating \ {u} /\ u \in Fills
    BY <1>m, <2>1, <2>2, UpdatingSets DEF Updating, Members
  <2>5. InFlight /\ NoticeUnread' = NoticeUnread /\ SendDone' = SendDone /\ Merged' = {u} /\ HasFill(f)
    BY <2>2, OneReader DEF InFlight, NoticeUnread, SendDone, Merged, HasFill
  <2>6. OnItsWay(f)' /\ (IsRead(f)' <=> IsRead(f))
    BY <1>w, <2>2, <2>4, <2>5 DEF IsRead, Slots
  <2>7. AnswerIn(down, f) \/ (IsRead(f) /\ outcome[f] # "failed") => (WillBeNothing(f)' <=> WillBeNothing(f))
    BY <1>d, <1>n, <2>2, <2>3, <2>5
  <2>8. Applied(f)'
    <3>1. SUFFICES ASSUME f = u, delivery' = "on", ~SendDone'
                   PROVE  sub'.paused = ~pub'.forward /\ sub'.filter = pub'.filter /\ ~NoticeUnread'
      BY <2>5 DEF Applied
    <3>2. ~NoticeUnread' /\ UpdatesTell'
      BY <1>h, <1>i, <2>2, <2>5, <3>1 DEF Views
    <3>3. \A v \in Updating' : request[v].forward = <<>> /\ request[v].filter = <<>>
      BY <1>e, <2>2, <2>4, <2>5, <3>1 DEF OnItsWay
    <3>4. PICK S \in SUBSET Fills : S = Updating'
      BY <2>4, UpdatingSets
    <3>5. LastOf(S, Forwards(request), pub'.forward, ~sub'.paused) /\ LastOf(S, FiltersAsked(request), pub'.filter,
          sub'.filter)
      BY <2>2, <3>2, <3>4 DEF UpdatesTell, Tell
    <3>6. \A v \in S : Forwards(request)[v] = <<>> /\ FiltersAsked(request)[v] = <<>>
      BY <3>3, <3>4 DEF Forwards, FiltersAsked
    <3>7. (~sub'.paused) = pub'.forward
      BY <3>5, <3>6, LastNone, Zenon
    <3>8. sub'.filter = pub'.filter
      <4>1. PICK g : g = FiltersAsked(request)
        OBVIOUS
      <4>2. \A b, v : LastOf(S, g, b, v) <=> v = b
        BY <3>6, <4>1, LastNone, Zenon
      <4> QED BY <3>5, <4>1, <4>2
    <3>9. sub'.paused \in BOOLEAN
      BY <1>i DEF FillTypeOK
    <3> QED BY <3>2, <3>7, <3>8, <3>9
  <2> QED BY <1>c, <1>o, <2>2, <2>5, <2>6, <2>7, <2>8 DEF Part
<1>8. CASE AnswerUpdate
  <2>1. PICK x \in [update : Updates, at : {"merged", "answered"}] : reader = <<x>> /\ x.at = "merged"
    BY <1>8 DEF AnswerUpdate, FillTypeOK
  <2>2. PICK m \in Messages : m = Message("UpdateOk", x.update, pub.largest, <<>>, <<>>)
    BY <2>1, SentMessages
  <2>3. UNCHANGED <<request, made, up, pub, acceptor, notice, ending, sub, established, pending, writing, delivery,
        outcome, opened>>
    BY <1>8 DEF AnswerUpdate, subscriber, history
  <2>4. Merged' = {} /\ Updating' = Updating /\ SendDone' = SendDone /\ Merged = {x.update} /\ Reading = {x.update}
    <3>1. reader' = <<>> \/ \E y : reader' = <<y>> /\ y.at # "merged"
      <4>1. reader[1] = x /\ [x EXCEPT !.at = "answered"].at = "answered"
        BY <2>1
      <4>2. reader' = <<>> \/ reader' = <<[x EXCEPT !.at = "answered"]>>
        BY <1>8, <4>1 DEF AnswerUpdate
      <4> QED BY <4>1, <4>2
    <3>2. Merged' = {}
      BY <3>1, OneReader, NoReader DEF Merged
    <3> QED BY <2>1, <2>3, <3>2, ReaderHas DEF Updating, SendDone
  <2>5. HasFill(f) /\ (WillBeNothing(f)' <=> WillBeNothing(f)) /\ (IsRead(f)' <=> IsRead(f))
    BY <1>n, <2>3 DEF HasFill, IsRead, Slots
  <2>6. CASE down' = down
    <3>1. NoticeUnread' = NoticeUnread
      BY <2>3, <2>6 DEF NoticeUnread
    <3> QED BY <1>k, <2>3, <2>4, <2>5, <2>6, <3>1
  <2>7. CASE Send(m) /\ ~SendDone
    <3>1. /\ \A i \in DOMAIN down : i \in DOMAIN down' /\ down'[i] = down[i] /\ i < Len(down) + 1
          /\ \A i \in DOMAIN down' : i \in DOMAIN down \/ (i = Len(down) + 1 /\ down'[i] = m)
      BY <2>7, Sends DEF FillTypeOK
    <3>2. m.type = "UpdateOk" /\ m.update = x.update /\ m.largest = pub.largest
      BY <2>2 DEF Message
    <3>3. NoticeUnread' = NoticeUnread
      BY <2>3, <3>1, <3>2 DEF NoticeUnread
    <3>4. CASE f # x.update
      <4>1. \A i \in DOMAIN down' : IsAnswerTo(down'[i], f) => i \in DOMAIN down
        BY <3>1, <3>2, <3>4 DEF IsAnswerTo
      <4> QED BY <1>k, <2>3, <2>4, <2>5, <3>1, <3>3, <4>1
    <3>5. CASE f = x.update
      <4>1. OnItsWay(f)' /\ Applied(f)' /\ Concluded(f)'
        BY <1>c, <1>w, <2>3, <2>4, <2>5 DEF Applied
      <4>2. ~AnswerIn(down, f)
        <5>1. f # 0 /\ f \in Nat
          BY <1>m, <3>5
        <5>2. f \notin UpdateOks
          BY <2>4, <3>5, <5>1 DEF InOrder
        <5> QED BY <5>1, <5>2, AnswersAre
      <4>3. AnswerOnItsWay(f)'
        <5>1. SUFFICES ASSUME delivery = "on", NEW i \in DOMAIN down', IsAnswerTo(down'[i], f)
                       PROVE  /\ \A j \in DOMAIN down' : j < i =>
                                   down'[j].type # "Notify" /\ NotAfter(down'[j].largest, down'[i].largest)
                              /\ NotAfter(sub'.largest, down'[i].largest)
                              /\ (sub'.paused \/ FetchRange(FillFilter(f, sub.filter)',
                                 down'[i].largest) = NoRange) <=> WillBeNothing(f)'
          BY <2>3 DEF AnswerOnItsWay, SubscriberNone
        <5>2. i = Len(down) + 1 /\ down'[i] = m
          BY <3>1, <4>2, <5>1 DEF AnswerIn
        <5>3. sub.paused = ~pub.forward /\ sub.filter = pub.filter /\ ~NoticeUnread
          BY <1>e, <2>4, <2>5, <2>7, <3>5, <5>1 DEF Applied
        <5>4. acceptor # "asked"
          BY <2>1, Unestablished
        <5>5. \A j \in DOMAIN down' : j < i => j \in DOMAIN down /\ down'[j] = down[j]
          BY <1>b, <3>1, <5>2
        <5>6. \A j \in DOMAIN down' : j < i => down'[j].type # "Notify" /\ NotAfter(down'[j].largest, down'[i].largest)
          BY <3>2, <5>2, <5>3, <5>4, <5>5 DEF Known, NoticeUnread
        <5>7. NotAfter(sub'.largest, down'[i].largest)
          BY <2>3, <3>2, <5>2, <5>4 DEF Known
        <5>8. opened[f] = "unasked"
          BY <2>4, <3>5 DEF Stages
        <5>9. (sub'.paused \/ FetchRange(FillFilter(f, sub.filter)', down'[i].largest) = NoRange) <=> WillBeNothing(f)
          BY <2>3, <3>2, <5>2, <5>3, <5>8 DEF WillBeNothing, PublisherNone, FillFilter
        <5> QED BY <2>5, <5>6, <5>7, <5>9
      <4> QED BY <4>1, <4>3 DEF Part
    <3> QED BY <3>4, <3>5
  <2> QED BY <1>8, <2>1, <2>2, <2>6, <2>7 DEF AnswerUpdate
\* A message that answers nothing; and the steps that leave the two ends' state.
<1>9. ASSUME NEW m \in Messages, ~IsAnswerTo(m, f), m.type = "Notify" => NoticeUnread, Send(m) \/ down' = down,
             UNCHANGED <<request, made, up, pub, reader, ending, opened, subscriber>> \/ CloseWrites,
             notice' # <<>> => NoticeUnread
      PROVE  Part(f)'
  <2>1. UNCHANGED <<request, made, up, pub, reader, opened, sub, established, pending, writing, delivery, outcome>>
        /\ (SendDone => SendDone')
    BY <1>9 DEF CloseWrites, subscriber, SendDone
  <2>2. /\ \A i \in DOMAIN down : i \in DOMAIN down' /\ down'[i] = down[i]
        /\ \A i \in DOMAIN down' : i \in DOMAIN down \/ down'[i] = m
    BY <1>9, Sends DEF FillTypeOK
  <2>3. Updating' = Updating /\ Merged' = Merged /\ (NoticeUnread' => NoticeUnread)
    BY <1>9, <2>1, <2>2 DEF Updating, Merged, NoticeUnread
  <2> QED BY <1>9, <1>k, <1>n, <2>1, <2>2, <2>3
<1>10. ASSUME NEW n \in 1 .. MaxNotices, WriteNotice(n) PROVE Part(f)'
  <2>1. notice[n] \in Messages /\ n \in DOMAIN notice /\ notice # <<>> /\ (down' = down \/ Send(notice[n]))
    BY <1>10, NoticeWritten
  <2>2. PICK m \in Messages : m = notice[n] /\ m.type = "Notify"
    BY <2>1 DEF Beginning
  <2>3. NoticeUnread /\ ~IsAnswerTo(m, f) /\ (Send(m) \/ down' = down)
    BY <2>1, <2>2 DEF NoticeUnread, IsAnswerTo
  <2>4. UNCHANGED <<request, made, up, pub, reader, ending, opened, subscriber>>
    BY <1>10 DEF WriteNotice
  <2> QED BY <1>9, <2>3, <2>4
<1>11. CASE CloseWrites
  <2>1. PICK m \in Messages : m = Message("Done", 0, NoLocation, <<>>, <<>>)
    BY SentMessages
  <2> QED BY <1>9, <1>11, <2>1 DEF CloseWrites, IsAnswerTo, Message, NoticeUnread
<1>12. CASE \/ CloseResetsFills \/ CloseCancels \/ StreamEnded
            \/ \E g \in Fills : OpenFill(g) \/ RegisterFill(g) \/ EndFill(g, "fin") \/ EndFill(g, "reset")
  <2>1. /\ UNCHANGED <<request, made, down, pub, notice, sub, established, pending, writing, delivery, outcome>>
        /\ up' \in {up, <<>>} /\ reader' = reader /\ (SendDone => SendDone')
    BY <1>12 DEF CloseResetsFills, CloseCancels, StreamEnded, OpenFill, RegisterFill, EndFill, MayPublish,
      wire, subscriber, SendDone
  <2>2. Updating' \subseteq Updating /\ Merged' = Merged /\ NoticeUnread' = NoticeUnread
    BY <2>1 DEF Updating, Merged, NoticeUnread
  <2>3. (opened'[f] = "unasked" <=> opened[f] = "unasked") /\ (opened'[f] = "nothing" <=> opened[f] = "nothing")
    BY <1>12 DEF CloseResetsFills, CloseCancels, StreamEnded, OpenFill, RegisterFill, EndFill, AfterReset, FillTypeOK
  <2> QED BY <1>k, <1>n, <2>1, <2>2, <2>3
<1>13. ASSUME NEW ask \in Asks, MakeUpdate(ask) PROVE Part(f)'
  <2>1. PICK u \in Updates : u = made + 1
    BY <1>13 DEF MakeUpdate, FillTypeOK, Updates
  <2>2. /\ request' = [request EXCEPT ![u] = ask] /\ writing' = writing \cup {u} /\ made' = u /\ established
        /\ pending' = Append(pending, u) /\ writing = {} /\ apart' = (IF NoticeUnread THEN apart \cup {"crossed"} ELSE apart)
        /\ UNCHANGED <<up, down, notice, pub, opened, reader, ending, delivery, established, outcome>>
    BY <1>13, <2>1 DEF MakeUpdate, MayUpdate, wire, publisher
  <2>3. u \in Fills /\ request'[u] = ask /\ \A g \in Fills : g # u => request'[g] = request[g]
    BY <1>m, <2>2 DEF FillTypeOK
  <2>4. Slots' = Slots \cup {u}
    BY <2>2, MembersAppended DEF FillTypeOK, Slots
  <2>5. Updating' = Updating \cup {u} /\ Merged' = Merged /\ SendDone' = SendDone /\ NoticeUnread' = NoticeUnread
    BY <2>2 DEF Updating, Merged, SendDone, NoticeUnread
  <2>6. \A g \in Updating \cup Merged \cup UpdateOks : g \in Nat /\ g < u
    <3>1. Updating = writing \cup Members(up) /\ Merged \subseteq Reading
      BY SlotTypes DEF Updating, Members
    <3>2. \A g \in Updating \cup Merged \cup UpdateOks : g \in Nat /\ g <= made
      BY <1>m, <2>2, <3>1, SlotTypes DEF InOrder
    <3> QED BY <1>m, <2>1, <3>2
  <2>7. ~AnswerIn(down, 0)
    BY <2>2, AnswersAre
  <2>8. sub'.largest = sub.largest /\ sub'.paused = ~Given(ask.forward, ~sub.paused) /\ sub'.filter = Given(ask.filter, sub.filter)
    BY <1>13 DEF MakeUpdate, FillTypeOK
  <2>9. CASE f = u
    <3>1. ~AnswerIn(down, f) /\ f \notin Merged
      <4>1. f # 0 /\ f \in Nat
        BY <1>m, <2>9
      <4>2. f \notin UpdateOks /\ f \notin Merged
        BY <2>6, <2>9, <4>1
      <4> QED BY <4>1, <4>2, AnswersAre
    <3>2. OnItsWay(f)'
      <4>1. \A v \in Updating' : ~(v > f)
        BY <1>m, <2>5, <2>6, <2>9
      <4> QED BY <4>1 DEF OnItsWay
    <3>3. Applied(f)'
      BY <2>5, <3>1 DEF Applied
    <3>4. AnswerOnItsWay(f)'
      BY <2>2, <3>1 DEF AnswerOnItsWay, AnswerIn
    <3>5. ~IsRead(f)'
      BY <1>m, <2>4, <2>9 DEF IsRead
    <3> QED BY <3>2, <3>3, <3>4, <3>5 DEF Part, Concluded
  <2>10. CASE f # u
    <3>1. request'[f] = request[f] /\ HasFill(f) /\ (IsRead(f)' => IsRead(f))
      <4>1. request'[f] = request[f]
        BY <2>3, <2>10
      <4>2. f # 0 /\ f <= made' /\ f # u => f <= made
        BY <1>m, <2>1, <2>2
      <4> QED BY <2>2, <2>4, <2>10, <4>1, <4>2 DEF HasFill, IsRead
    <3>2. WillBeNothing(f)' <=> WillBeNothing(f)
      BY <1>n, <2>2, <3>1
    <3>3. Concluded(f)'
      BY <1>c, <2>2, <3>1, <3>2
    <3>4. CASE ask.forward = <<>> /\ ask.filter = <<>>
      <4>1. sub' = sub
        <5>1. sub'.paused = sub.paused /\ sub'.filter = sub.filter
          BY <2>8, <3>4 DEF Given, FillTypeOK
        <5>2. sub \in Subscribers /\ sub' \in Subscribers
          BY <1>i DEF FillTypeOK, Subscribers
        <5> QED BY <2>8, <5>1, <5>2, SameFields
      <4>2. OnItsWay(f)'
        <5>1. SUFFICES ASSUME f \in Updating, delivery = "on", ~SendDone, NEW v \in Updating', v > f
                       PROVE  request'[v].forward = <<>> /\ request'[v].filter = <<>>
          BY <2>2, <2>5, <2>10 DEF OnItsWay
        <5>2. CASE v = u
          BY <2>3, <3>4, <5>2
        <5>3. CASE v # u
          <6>1. v \in Updating /\ v \in Fills
            BY <2>5, <5>3, UpdatingSets
          <6> QED BY <1>e, <2>3, <3>1, <5>1, <5>3, <6>1 DEF OnItsWay
        <5> QED BY <5>2, <5>3
      <4>3. Applied(f)'
        BY <1>p, <2>2, <2>5, <3>1, <4>1
      <4>4. AnswerOnItsWay(f)'
        BY <1>o, <2>2, <3>1, <3>2, <4>1
      <4> QED BY <3>3, <4>2, <4>3, <4>4 DEF Part
    <3>5. CASE ~(ask.forward = <<>> /\ ask.filter = <<>>)
      <4>1. f \notin Slots
        BY <1>13, <3>5 DEF MakeUpdate, Slots, Members
      <4>2. delivery = "on" /\ ~SendDone => f \notin Updating /\ f \notin Merged
        BY <4>1 DEF SlotsInv
      <4>3. OnItsWay(f)' /\ Applied(f)'
        BY <2>2, <2>5, <2>10, <4>2 DEF OnItsWay, Applied
      <4>4. delivery = "on" => ~AnswerIn(down, f)
        BY <2>7, <4>1, AnswersAre DEF SlotsInv
      <4>5. AnswerOnItsWay(f)'
        BY <2>2, <4>4 DEF AnswerOnItsWay, AnswerIn
      <4> QED BY <3>3, <4>3, <4>5 DEF Part
    <3> QED BY <3>4, <3>5
  <2> QED BY <2>9, <2>10
<1>14. ASSUME NEW u \in Updates, WriteUpdate(u) PROVE Part(f)'
  <2>1. /\ u \in writing /\ writing' = writing \ {u} /\ up' \in {up, Append(up, u)}
        /\ UNCHANGED <<request, made, down, pub, notice, reader, ending, opened, sub, established, pending, delivery,
           outcome>>
    BY <1>14 DEF WriteUpdate, publisher
  <2>2. Updating' \subseteq Updating
    <3>1. Members(up') \subseteq Members(up) \cup {u}
      BY <2>1, MembersAppended DEF FillTypeOK
    <3> QED BY <2>1, <3>1 DEF Updating, Members
  <2>3. Merged' = Merged /\ SendDone' = SendDone /\ NoticeUnread' = NoticeUnread
    BY <2>1 DEF Merged, SendDone, NoticeUnread
  <2> QED BY <1>k, <1>n, <2>1, <2>2, <2>3
<1>15. ASSUME NEW u \in Updates, WriteFails(u) PROVE Part(f)'
  <2>1. /\ u \in writing /\ writing' = writing \ {u} /\ pending' = SubSeq(pending, 1, Len(pending) - 1)
        /\ outcome' = (IF HasFill(u) THEN Finished(u, "failed") ELSE outcome)
        /\ UNCHANGED <<request, made, down, up, pub, notice, reader, ending, opened, sub, established, attached,
           delivery>>
    BY <1>15 DEF WriteFails, publisher, wire
  <2>2. writing = {u} /\ made = u /\ u \in Slots
    BY <2>1 DEF InOrder
  <2>3. Slots' = Slots \ {u}
    <3>1. \A v \in Slots : v <= u
      BY <2>2 DEF InOrder
    <3> QED BY <2>1, <2>2, <3>1, MembersShortened DEF FillTypeOK, InOrder, Slots
  <2>4. HasFill(f) /\ (IsRead(f)' => IsRead(f) \/ f = u) /\ (WillBeNothing(f)' <=> WillBeNothing(f))
    BY <1>n, <2>1, <2>3 DEF HasFill, IsRead
  <2>5. OnItsWay(f)' /\ Applied(f)'
    <3>1. Updating' \subseteq Updating /\ Merged' = Merged /\ SendDone' = SendDone /\ NoticeUnread' = NoticeUnread
      BY <2>1 DEF Updating, Merged, SendDone, NoticeUnread
    <3> QED BY <1>p, <1>w, <2>1, <2>4, <3>1
  <2>6. AnswerOnItsWay(f)'
    BY <1>o, <2>1, <2>4
  <2>7. Concluded(f)'
    <3>1. CASE f # u
      <4>1. outcome'[f] = outcome[f]
        BY <1>m, <2>1, <3>1, FinishedSteps
      <4> QED BY <1>c, <2>4, <3>1, <4>1
    <3>2. CASE f = u
      <4>1. ~IsRead(f) /\ f \notin attached
        BY <1>h, <1>m, <2>2, <3>2 DEF IsRead
      <4>2. outcome[f] # "complete"
        BY <4>1 DEF Stages
      <4>3. outcome'[f] = "failed"
        <5>1. outcome' = Finished(f, "failed") /\ outcome[f] \in {"open", "failed"}
          BY <2>1, <2>4, <3>2, <4>2 DEF FillTypeOK
        <5> QED BY <5>1, FinishedSteps
      <4> QED BY <4>3 DEF Concluded
    <3> QED BY <3>1, <3>2
  <2> QED BY <2>5, <2>6, <2>7 DEF Part
\* Reading: what is read first moves the rest up.
<1>r. ASSUME NEW type, ReadsNext(type),
             UNCHANGED <<request, made, up, pub, notice, reader, ending, opened, writing, attached>>,
             sub'.paused = sub.paused, sub'.filter = sub.filter,
             sub'.largest \in {sub.largest, Later(sub.largest, down[1].largest)}, type # "Notify"
      PROVE  OnItsWay(f)' /\ Applied(f)' /\ AnswerOnItsWay(f)'
  <2>1. /\ delivery = "on" /\ 1 \in DOMAIN down /\ down[1].type = type
        /\ DOMAIN down \subseteq Nat \ {0} /\ DOMAIN down' \subseteq Nat \ {0}
        /\ \A i \in DOMAIN down' : i + 1 \in DOMAIN down /\ down'[i] = down[i + 1]
        /\ \A i \in DOMAIN down : i # 1 => i > 1
    BY <1>r, Reads DEF FillTypeOK
  <2>2. HasFill(f) /\ Updating' = Updating /\ Merged' = Merged /\ SendDone' = SendDone /\ (NoticeUnread' => NoticeUnread)
    BY <1>r, <2>1 DEF HasFill, Updating, Merged, SendDone, NoticeUnread
  <2>3. OnItsWay(f)' /\ Applied(f)'
    BY <1>p, <1>r, <1>w, <2>1, <2>2
  <2>4. ASSUME NEW i \in DOMAIN down', IsAnswerTo(down'[i], f)
        PROVE  /\ \A j \in DOMAIN down' : j < i =>
                    down'[j].type # "Notify" /\ NotAfter(down'[j].largest, down'[i].largest)
               /\ NotAfter(sub'.largest, down'[i].largest)
               /\ (sub'.paused \/ FetchRange(FillFilter(f, sub.filter)',
                  down'[i].largest) = NoRange) <=> WillBeNothing(f)'
    <3>1. /\ \A j \in DOMAIN down : j < i + 1 => down[j].type # "Notify" /\ NotAfter(down[j].largest, down[i + 1].largest)
          /\ NotAfter(sub.largest, down[i + 1].largest)
          /\ SubscriberNone(f, down[i + 1].largest) <=> WillBeNothing(f)
      BY <1>e, <2>1, <2>2, <2>4 DEF AnswerOnItsWay
    <3>2. \A j \in DOMAIN down' : j < i => j + 1 \in DOMAIN down /\ down'[j] = down[j + 1] /\ j + 1 < i + 1
      BY <2>1
    <3>3. 1 < i + 1
      BY <2>1
    <3>4. NotAfter(down[1].largest, down[i + 1].largest)
      BY <2>1, <3>1, <3>3
    <3>5. NotAfter(sub'.largest, down[i + 1].largest)
      <4>1. down[1].largest \in Largests /\ down[i + 1].largest \in Largests /\ sub.largest \in Largests
        BY <1>b, <2>1
      <4>2. PICK k \in Largests, l \in Largests, n \in Largests : k = sub.largest /\ l = down[1].largest /\ n = down[i + 1].largest
        BY <4>1
      <4>3. NotAfter(k, n) /\ NotAfter(l, n)
        BY <3>1, <3>4, <4>2
      <4>4. NotAfter(Later(k, l), n)
        BY <4>3, LocationFacts, Zenon
      <4>5. sub'.largest = k \/ sub'.largest = Later(k, l)
        BY <1>r, <4>2
      <4> QED BY <4>2, <4>3, <4>4, <4>5
    <3>6. WillBeNothing(f)' <=> WillBeNothing(f)
      BY <1>n, <1>r
    <3>7. (sub'.paused \/ FetchRange(FillFilter(f, sub.filter)',
          down'[i].largest) = NoRange) <=> SubscriberNone(f, down[i + 1].largest)
      BY <1>r, <2>1 DEF SubscriberNone, FillFilter
    <3> QED BY <2>1, <3>1, <3>2, <3>5, <3>6, <3>7
  <2>5. AnswerOnItsWay(f)'
    BY <2>4 DEF AnswerOnItsWay, SubscriberNone
  <2> QED BY <2>3, <2>5
\* An answer read concludes the fill the way the publisher does.
<1>x. ASSUME delivery = "on", 1 \in DOMAIN down, IsAnswerTo(down[1], f), ~IsRead(f), HasFill(f),
             UNCHANGED <<request, pub, opened>>, Expect(f, sub'), sub'.largest = down[1].largest,
             sub'.paused = sub.paused, sub'.filter = sub.filter
      PROVE  Concluded(f)'
  <2>1. SubscriberNone(f, down[1].largest) <=> WillBeNothing(f)
    BY <1>e, <1>x DEF AnswerOnItsWay
  <2>2. WillBeNothing(f)' <=> WillBeNothing(f)
    BY <1>n, <1>x
  <2>3. outcome[f] \in {"open", "failed"}
    BY <1>h, <1>x DEF Stages, FillTypeOK
  <2>4. outcome' = IF SubscriberNone(f, down[1].largest) THEN Finished(f, "complete") ELSE outcome
    BY <1>h, <1>x DEF Expect, ExpectedRange, SubscriberNone, FillFilter
  <2>5. CASE SubscriberNone(f, down[1].largest)
    <3>1. outcome'[f] # "open"
      BY <2>4, <2>5, FinishedSteps
    <3> QED BY <2>1, <2>2, <2>5, <3>1 DEF Concluded
  <2>6. CASE ~SubscriberNone(f, down[1].largest)
    BY <2>1, <2>2, <2>3, <2>4, <2>6 DEF Concluded
  <2> QED BY <2>5, <2>6
<1>16. CASE ReadOk
  <2>1. /\ ReadsNext("Ok") /\ sub' = [sub EXCEPT !.largest = Head(down).largest]
        /\ IF HasFill(0) THEN Expect(0, sub') ELSE UNCHANGED outcome
        /\ UNCHANGED <<request, made, up, pub, notice, reader, ending, opened, writing, attached>>
    BY <1>16 DEF ReadOk, publisher
  <2>2. delivery = "on" /\ 1 \in DOMAIN down /\ down[1].type = "Ok" /\ Head(down) = down[1]
    BY <2>1, Reads DEF FillTypeOK
  <2>3. ~established /\ down[1].update = 0 /\ made = 0
    BY <2>2, Unestablished DEF Beginning
  <2>4. f = 0 /\ HasFill(f)
    BY <1>m, <2>1, <2>3 DEF Stages, HasFill
  <2>5. IsAnswerTo(down[1], f) /\ ~IsRead(f)
    BY <2>2, <2>3, <2>4 DEF IsAnswerTo, IsRead
  <2>6. sub'.largest = down[1].largest /\ sub'.paused = sub.paused /\ sub'.filter = sub.filter
    BY <2>1, <2>2 DEF FillTypeOK
  <2>7. NotAfter(sub.largest, down[1].largest)
    BY <1>e, <2>2, <2>4, <2>5 DEF AnswerOnItsWay
  <2>8. sub'.largest = Later(sub.largest, down[1].largest)
    BY <1>b, <2>2, <2>6, <2>7, LocationFacts
  <2>9. OnItsWay(f)' /\ Applied(f)' /\ AnswerOnItsWay(f)'
    BY <1>r, <2>1, <2>6, <2>8
  <2> QED BY <1>x, <2>1, <2>2, <2>4, <2>5, <2>6, <2>9 DEF Part
<1>17. CASE ReadUpdateOk
  <2>1. /\ ReadsNext("UpdateOk") /\ sub' = [sub EXCEPT !.largest = Later(@, Head(down).largest)]
        /\ pending # <<>> /\ pending' = Tail(pending)
        /\ IF HasFill(Head(pending)) THEN Expect(Head(pending), sub') ELSE UNCHANGED outcome
        /\ UNCHANGED <<request, made, up, pub, notice, reader, ending, opened, writing, attached, established>>
    BY <1>17 DEF ReadUpdateOk, publisher
  <2>2. delivery = "on" /\ 1 \in DOMAIN down /\ down[1].type = "UpdateOk" /\ Head(down) = down[1] /\ down # <<>>
    BY <2>1, Reads DEF FillTypeOK, ReadsNext
  <2>3. PICK u : u = Head(pending)
    OBVIOUS
  <2>4. u = down[1].update
    BY <2>2, <2>3, FirstSlot
  <2>5. Slots' = Slots \ {u} /\ u \in Slots
    BY <2>1, <2>3, MembersPopped DEF FillTypeOK, InOrder, Slots
  <2>6. u \in Updates /\ u \in Fills /\ u # 0
    BY <1>m, <2>5, SlotTypes
  <2>7. sub'.largest = Later(sub.largest, down[1].largest) /\ sub'.paused = sub.paused /\ sub'.filter = sub.filter
    BY <2>1, <2>2 DEF FillTypeOK
  <2>8. OnItsWay(f)' /\ Applied(f)' /\ AnswerOnItsWay(f)' /\ HasFill(f)
    BY <1>r, <2>1, <2>7 DEF HasFill
  <2>9. CASE f # u
    <3>1. outcome'[f] = outcome[f]
      <4>1. outcome' = outcome \/ outcome' = Finished(u, "complete")
        BY <2>1, <2>3 DEF Expect
      <4> QED BY <2>6, <2>9, <4>1, FinishedSteps
    <3>2. IsRead(f)' => IsRead(f)
      BY <2>1, <2>5, <2>9 DEF IsRead
    <3>3. Concluded(f)'
      BY <1>c, <1>n, <2>1, <2>8, <3>1, <3>2
    <3> QED BY <2>8, <3>3 DEF Part
  <2>10. CASE f = u
    <3>1. IsAnswerTo(down[1], f) /\ ~IsRead(f)
      BY <2>2, <2>4, <2>5, <2>6, <2>10 DEF IsAnswerTo, IsRead
    <3>2. NotAfter(sub.largest, down[1].largest)
      BY <1>e, <2>2, <2>8, <3>1 DEF AnswerOnItsWay
    <3>3. sub'.largest = down[1].largest
      <4>1. PICK k \in Largests, l \in Largests : k = sub.largest /\ l = down[1].largest
        BY <1>b, <2>2
      <4>2. Later(k, l) = l
        BY <3>2, <4>1, LocationFacts
      <4> QED BY <2>7, <4>1, <4>2
    <3>4. Concluded(f)'
      BY <1>x, <2>1, <2>2, <2>3, <2>7, <2>8, <2>10, <3>1, <3>3
    <3> QED BY <2>8, <3>4 DEF Part
  <2> QED BY <2>9, <2>10
<1>18. CASE ReadNotify
  <2>1. /\ ReadsNext("Notify")
        /\ UNCHANGED <<request, made, up, pub, notice, reader, ending, opened, writing, pending, established,
           outcome>>
    BY <1>18 DEF ReadNotify, publisher
  <2>2. /\ delivery = "on" /\ 1 \in DOMAIN down /\ down[1].type = "Notify"
        /\ DOMAIN down' \subseteq Nat \ {0}
        /\ \A i \in DOMAIN down' : i + 1 \in DOMAIN down /\ down'[i] = down[i + 1]
    BY <2>1, Reads DEF FillTypeOK
  <2>3. HasFill(f) /\ Updating' = Updating /\ Merged' = Merged /\ SendDone' = SendDone /\ NoticeUnread
    BY <2>1, <2>2 DEF HasFill, Updating, Merged, SendDone, NoticeUnread
  <2>4. OnItsWay(f)'
    BY <1>w, <2>1, <2>2, <2>3
  <2>5. Applied(f)'
    BY <1>e, <2>2, <2>3 DEF Applied
  <2>6. \A i \in DOMAIN down' : ~IsAnswerTo(down'[i], f)
    <3>1. SUFFICES ASSUME NEW i \in DOMAIN down', IsAnswerTo(down'[i], f) PROVE FALSE
      OBVIOUS
    <3>2. 1 < i + 1 /\ i + 1 \in DOMAIN down /\ IsAnswerTo(down[i + 1], f)
      BY <2>2, <3>1
    <3> QED BY <1>e, <2>2, <2>3, <3>2 DEF AnswerOnItsWay
  <2>7. AnswerOnItsWay(f)'
    BY <2>6 DEF AnswerOnItsWay
  <2>8. Concluded(f)'
    BY <1>c, <1>n, <2>1, <2>3 DEF IsRead, Slots
  <2> QED BY <2>4, <2>5, <2>7, <2>8 DEF Part
\* The ends of delivery, and of fills.
<1>19. CASE ReadDone \/ FinishDelivery \/ Close \/ SessionEnds
  <2>1. delivery' # "on" /\ UNCHANGED <<request, made, pub, opened, pending, established, outcome>>
    BY <1>19 DEF ReadDone, FinishDelivery, Close, SessionEnds, publisher
  <2>2. HasFill(f) /\ (IsRead(f)' <=> IsRead(f))
    BY <2>1 DEF HasFill, IsRead, Slots
  <2>3. Concluded(f)'
    BY <1>c, <1>n, <2>1, <2>2
  <2> QED BY <2>1, <2>3 DEF Part, OnItsWay, Applied, AnswerOnItsWay
<1>20. CASE (\E g \in Fills : AttachStream(g)) \/ UNCHANGED vars
           \/ (\E g \in Fills : FinishFill(g) \/ StreamEnds(g) \/ HandlerFails(g) \/ DeliverFails(g))
  <2>1. /\ UNCHANGED <<request, made, up, down, pub, notice, reader, ending, opened, sub, established, pending,
           writing, delivery>>
    BY <1>20 DEF AttachStream, FinishFill, StreamEnds, HandlerFails, DeliverFails, vars, publisher, subscriber, wire
  <2>2. Updating' = Updating /\ Merged' = Merged /\ SendDone' = SendDone /\ NoticeUnread' = NoticeUnread
    BY <2>1 DEF Updating, Merged, SendDone, NoticeUnread
  <2>3. (outcome'[f] = "complete" => outcome[f] = "complete") /\ (outcome'[f] = "open" => outcome[f] = "open")
    <3>1. CASE outcome' = outcome
      BY <3>1
    <3>2. ASSUME NEW g \in Fills, outcome' = Finished(g, "failed")
          PROVE  (outcome'[f] = "complete" => outcome[f] = "complete") /\ (outcome'[f] = "open" => outcome[f] = "open")
      BY <3>2, FinishedSteps DEF FillTypeOK
    <3>3. ASSUME NEW g \in Fills, StreamEnds(g) PROVE outcome'[f] = outcome[f]
      <4>1. g # f /\ \E how \in {"complete", "failed"} : outcome' = Finished(g, how)
        BY <1>h, <3>3 DEF StreamEnds
      <4> QED BY <4>1, FinishedSteps
    <3> QED BY <1>20, <3>1, <3>2, <3>3 DEF AttachStream, FinishFill, HandlerFails, DeliverFails, vars, subscriber
  <2> QED BY <1>k, <1>n, <2>1, <2>2, <2>3
<1> QED BY <1>1, <1>3, <1>4, <1>5, <1>6, <1>7, <1>8, <1>10, <1>11, <1>12, <1>13, <1>14, <1>15, <1>16, <1>17, <1>18,
    <1>19,
           <1>20, Actions

------------------------------------------------------------------------------
(* Theorems.                                                                *)

\* Each step keeps the invariant.
LEMMA NextFill == FillIInv /\ [Next]_vars => FillIInv'
BY TypeStep, BeginningStep, ConnectedStep, SlotsStep, KnownStep, ViewsStep, StagesStep, ExpectedStep, RangeStep DEF FillIInv

\* What is true of the two ends of a subscription with fills, whatever is asked
\* for and however many updates there are.
THEOREM Inductive == Spec => []FillIInv
BY InitFill, NextFill, PTL DEF Spec

\* update, write and ReadUpdateOk: an answer has no ID and yet frees the slot of
\* the update it answers, for any number of updates on their way.
THEOREM AnswersFreeTheirSlots == Spec => []SlotsInOrder
<1>1. FillIInv => SlotsInOrder
  BY SlotsHold DEF FillIInv
<1> QED BY <1>1, Inductive, PTL

\* mergeUpdate, NotifyState, update and stateNotified: whatever is changed at
\* either end, and however often, the two ends agree once nothing is under way,
\* unless an update and a notification crossed, a notification overtook another,
\* or one could not be encoded (apart).
THEOREM EndsAgree == Spec => []ViewsAgree
<1>1. ASSUME FillIInv PROVE ViewsAgree
  <2> SUFFICES ASSUME Quiet, apart = {}
               PROVE  sub.paused = ~pub.forward /\ sub.filter = pub.filter /\ NotAfter(sub.largest, pub.largest)
    BY DEF ViewsAgree, AgreeUnless
  <2>1. /\ up = <<>> /\ down = <<>> /\ notice = <<>> /\ writing = {} /\ acceptor # "asked" /\ delivery = "on" /\ ~SendDone
    BY DEF Quiet, wire, SendDone
  <2>2. ~NoticeUnread /\ Updating = {}
    BY <2>1 DEF NoticeUnread, Updating
  <2>3. Tell({}, request, pub, sub)
    BY <1>1, <2>1, <2>2 DEF FillIInv, Views, UpdatesTell
  <2>4. pub \in Publishers /\ sub \in Subscribers
    BY <1>1 DEF FillIInv, FillTypeOK, Publishers, Subscribers
  <2>5. Agree(pub, sub)
    BY <2>3, <2>4, TellNone
  <2> QED BY <1>1, <2>1, <2>5 DEF FillIInv, Known, Agree
<1> QED BY <1>1, Inductive, PTL

\* startFill and expect: for any fills, Objects and changes, a subscriber that
\* concludes no stream is coming is right, and one that waits is not left without,
\* but for the fills the two ends resolved with different knowledge.
THEOREM StreamsComeAsExpected == Spec => []StreamAsExpected
<1>1. ASSUME FillIInv PROVE StreamAsExpected
  <2> SUFFICES ASSUME apart = {}, NEW f \in Fills \ (disturbed \cup attached)
               PROVE  /\ outcome[f] = "complete" => opened[f] \in {"unasked", "nothing"}
                      /\ Answered(f) /\ outcome[f] = "open" => opened[f] # "nothing"
    BY DEF StreamAsExpected
  <2>1. HasFill(f) => Concluded(f)
    BY <1>1 DEF FillIInv, Expected
  <2>2. outcome[f] = "complete" => opened[f] \in {"unasked", "nothing"}
    BY <1>1, <2>1 DEF FillIInv, Stages, Concluded, WillBeNothing
  <2>3. ASSUME Answered(f), outcome[f] = "open" PROVE opened[f] # "nothing"
    <3>1. HasFill(f)
      BY <1>1, <2>3 DEF Answered, FillIInv, Stages
    <3>2. f # 0 => f <= made
      <4>1. f \in Nat /\ made \in Nat
        BY <1>1 DEF Fills, FillIInv, FillTypeOK
      <4> QED BY <1>1, <3>1, <4>1 DEF FillIInv, Stages
    <3>3. IsRead(f)
      BY <2>3, <3>2 DEF IsRead, Answered, Slots, Members
    <3> QED BY <2>1, <2>3, <3>1, <3>3 DEF Concluded, WillBeNothing
  <2> QED BY <2>2, <2>3
<1> QED BY <1>1, Inductive, PTL

\* startFill resolves the SUBSCRIBE's fill after SUBSCRIBE_OK: whatever Largest
\* Object is reported, the fill and a subscription from the next Object on share
\* no Object and miss none.
THEOREM FillAndSubscriptionMeet == Spec => []FillMeetsSubscription
<1>1. FillIInv => FillMeetsSubscription
  BY RangeMeets DEF FillIInv
<1> QED BY <1>1, Inductive, PTL
=============================================================================
