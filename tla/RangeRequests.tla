---------------------------- MODULE RangeRequests ----------------------------
(***************************************************************************)
(* What a subscriber asks for and what the publisher takes it to have      *)
(* asked for: the filter of a SUBSCRIBE, the range of a FETCH and of a     *)
(* draft-18 Joining FETCH, and the End Location FETCH_OK tells it, through *)
(* the forms the two drafts give them (location_filter.go, fetch.go,       *)
(* parameters.go).                                                         *)
(*                                                                         *)
(* The two ends never exchange a filter as such: each has its own reading  *)
(* of the same fields.  The publisher's Largest Object moves between the   *)
(* requests, and a Joining FETCH refers to where it was at SUBSCRIBE_OK.   *)
(***************************************************************************)
EXTENDS LocationFilters

CONSTANT Versions

ASSUME VersionsAssumption == Versions \subseteq {18, 22}

VARIABLES
  version,   \* the session's draft
  largest,   \* the publisher's Largest Object
  sub,       \* the SUBSCRIBE: the filter asked, the one the publisher parsed,
             \* what SUBSCRIBE_OK reported, forward
  fetch      \* the FETCH under way: the filter asked and parsed, how it was
             \* answered, the range and the End Location told

rangeVars == <<version, largest, sub, fetch>>

\* Session.Subscribe's filter on the wire and back.
Sendable(f) == IF version = 18 THEN InDraft18(f) ELSE Valid(f)
Parsed(f) == IF version = 18 THEN Parse18(Append18(f)) ELSE ParsedFrom22(f)

RangeInit ==
  /\ version \in Versions
  /\ largest \in Largests
  /\ sub = <<>> /\ fetch = <<>>

\* An Object past the Largest one is written.
Publish ==
  /\ fetch = <<>>
  /\ \E l \in Locations : Before(largest, l) /\ largest' = l
  /\ UNCHANGED <<version, sub, fetch>>

\* Subscribe, and Accept with WithLargestObject.
Subscribe(f) ==
  /\ sub = <<>> /\ fetch = <<>> /\ Sendable(f)
  /\ sub' = <<[asked |-> f, parsed |-> Parsed(f), joining |-> largest, forward |-> TRUE]>>
  /\ UNCHANGED <<version, largest, fetch>>

\* A REQUEST_UPDATE pauses or resumes the subscription.
UpdateForward ==
  /\ sub # <<>> /\ fetch = <<>>
  /\ sub' = [sub EXCEPT ![1].forward = ~@]
  /\ UNCHANGED <<version, largest, fetch>>

\* Accept: the End Location, as encoded for the draft and decoded again by
\* handleMessage.
Told(end) == IF version = 18 THEN InclusiveFromV18End(V18EndLocation(end)) ELSE end

\* A handler that answers an empty range with an error, the others with Range.
Answer(asked, parsed) ==
  LET range == FetchRange(parsed, largest)
  IN <<[asked |-> asked, parsed |-> parsed,
        answer |-> IF range = NoRange THEN "empty" ELSE "ok",
        range |-> range, told |-> IF range = NoRange THEN NoLocation ELSE Told(range.end)]>>
Refuse(asked) ==
  <<[asked |-> asked, parsed |-> NoFilter, answer |-> "refused",
     range |-> NoRange, told |-> NoLocation]>>

\* Session.Fetch and newFetchRequest.
Fetch(f) ==
  /\ sub = <<>> /\ fetch = <<>>
  /\ IF version = 18 THEN HasV18FetchRange(f) ELSE Valid(f)
  /\ fetch' = IF version = 22 THEN Answer(f, ParsedFrom22(f))
              ELSE IF EndBeforeStart(V18FetchRange(f)) THEN Refuse(f)
              ELSE Answer(f, FetchFilterFromV18(V18FetchRange(f)))
  /\ UNCHANGED <<version, largest, sub>>

\* Variant of JoiningPoint: the publisher's Largest Object as it is now.
LargestNow == largest

\* JoiningLocation: what SUBSCRIBE_OK reported.
JoiningPoint == sub[1].joining

\* FetchRelative and FetchAbsolute; resolveJoiningFetch.
JoiningFetch(kind, start) ==
  /\ version = 18 /\ sub # <<>> /\ fetch = <<>>
  /\ fetch' = IF sub[1].forward /\ MayJoin(JoiningPoint, start)
              THEN LET f == JoiningFilter(kind, JoiningPoint, start) IN Answer(f, f)
              ELSE Refuse(NoFilter)
  /\ UNCHANGED <<version, largest, sub>>

\* The response is complete, or the FETCH was refused.
FetchEnds == fetch # <<>> /\ fetch' = <<>> /\ UNCHANGED <<version, largest, sub>>

RangeNext ==
  \/ Publish
  \/ \E f \in Filters : Subscribe(f) \/ Fetch(f)
  \/ UpdateForward
  \/ \E kind \in {"relative", "absolute"}, start \in IDs : JoiningFetch(kind, start)
  \/ FetchEnds

RangeSpec == RangeInit /\ [][RangeNext]_rangeVars

------------------------------------------------------------------------------
(* Properties                                                              *)

\* The publisher's reading of a filter admits exactly the Objects the
\* subscriber's does, whatever has been published: for a subscription at every
\* Largest Object, for a FETCH at the one it was resolved against.  No draft-18
\* form stands for a filter it cannot express (location_filter.go:205, "fail
\* here rather than being sent as something the subscriber did not ask for").
SameObjects ==
  /\ sub # <<>> =>
       \A at \in Largests, l \in Locations :
         InRange(SubscriptionRange(sub[1].asked, at), l)
           <=> InRange(SubscriptionRange(sub[1].parsed, at), l)
  /\ fetch # <<>> /\ fetch[1].answer # "refused" =>
       FetchRange(fetch[1].asked, largest) = fetch[1].range

\* FETCH_OK's End Location reaches the subscriber as the last Location of the
\* range, through draft 18's "plus one, or 0 for the whole Group"; and a FETCH
\* is refused for its range only when no Largest Object would give it one.
EndIsTold ==
  fetch # <<>> =>
    /\ fetch[1].answer = "ok" => fetch[1].told = fetch[1].range.end
    /\ fetch[1].answer = "refused" /\ sub = <<>> =>
         \A at \in Largests : FetchRange(fetch[1].asked, at) = NoRange

\* A range survives the wire in both directions: the filter to the publisher,
\* and the end of what a FETCH will be given back to the subscriber.
RangesSurvive == SameObjects /\ EndIsTold

\* A Joining FETCH of a subscription that starts at the Next Object covers its
\* Groups up to where the subscription starts: each Object from the FETCH's
\* start on is in one of the two and not in both, however much was published
\* between the two requests (fetch.go:722, "contiguous and do not overlap").
\* There is no Location after the last one to start at.
JoinIsSeamless ==
  sub # <<>> /\ fetch # <<>> /\ sub[1].parsed.type = "NextObject"
    /\ fetch[1].answer = "ok" /\ sub[1].joining # At(MaxID, MaxID) =>
      \A l \in Locations : NotAfter(fetch[1].range.start, l) =>
        InRange(fetch[1].range, l) # InRange(SubscriptionRange(sub[1].parsed, sub[1].joining), l)
=============================================================================
