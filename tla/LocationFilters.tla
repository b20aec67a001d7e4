--------------------------- MODULE LocationFilters ---------------------------
(***************************************************************************)
(* Location filters (internal/wire2/location_filter.go, filter.go): the    *)
(* Objects a subscription, a FETCH or a fill asks for, resolved against    *)
(* the publisher's Largest Object, and the two forms draft 18 gives them   *)
(* on the wire.                                                            *)
(*                                                                         *)
(* MaxID stands for 2^64-1.  Arithmetic on IDs is the code's: where it     *)
(* checks for overflow the check is here, and where it lets uint64 wrap    *)
(* (AbsoluteRange, EndGroup) the wrap is here.                             *)
(***************************************************************************)
EXTENDS Integers

CONSTANT MaxID

ASSUME MaxIDAssumption == MaxID \in Nat

IDs == 0 .. MaxID
Locations == [group : IDs, object : IDs]
At(g, o) == [group |-> g, object |-> o]

\* "hasLargest" false: nothing has been published.  Before every Location.
NoLocation == At(-1, -1)
Largests == Locations \cup {NoLocation}

\* Location.Compare: Group first, then Object.
Before(l, m) == l.group < m.group \/ (l.group = m.group /\ l.object < m.object)
NotAfter(l, m) == ~Before(m, l)

Types == {"None", "RelativeStart", "AbsoluteStart", "AbsoluteGroupEnd",
          "AbsoluteRange", "NextObject"}

\* The struct: start.group of a RelativeStart counts Groups back.
Filters == [type : Types, start : Locations, delta : IDs, object : IDs]
NewFilter(type, start, delta, object) ==
  [type |-> type, start |-> start, delta |-> delta, object |-> object]

HasEndGroup(f) == f.type \in {"AbsoluteGroupEnd", "AbsoluteRange"}

\* validate: an end Group past the last one is a PROTOCOL_VIOLATION.
Valid(f) == HasEndGroup(f) => f.delta <= MaxID - f.start.group

\* Of a filter that is not Valid the sum wraps.
EndGroup(f) == (f.start.group + f.delta) % (MaxID + 1)

\* The last Location of a filter that HasEndGroup.
End(f) == At(EndGroup(f), IF f.type = "AbsoluteRange" THEN f.object ELSE MaxID)

------------------------------------------------------------------------------
(* The constructors of filter.go.                                          *)

RelativeStart(back) == NewFilter("RelativeStart", At(back, 0), 0, 0)
NextGroup == RelativeStart(0)
NextObject == NewFilter("NextObject", At(0, 0), 0, 0)
NoFilter == NewFilter("None", At(0, 0), 0, 0)
AbsoluteStart(start) == NewFilter("AbsoluteStart", start, 0, 0)

\* The delta wraps when end is in an earlier Group; Valid then refuses it.
AbsoluteRange(start, end) ==
  LET delta == (end.group - start.group) % (MaxID + 1)
  IN IF end.object = MaxID THEN NewFilter("AbsoluteGroupEnd", start, delta, 0)
                           ELSE NewFilter("AbsoluteRange", start, delta, end.object)

------------------------------------------------------------------------------
(* Resolving a filter against the Largest Object.                          *)

NextAfter(largest) ==
  CASE largest = NoLocation -> At(0, 0)
    [] largest # NoLocation /\ largest.object < MaxID -> At(largest.group, largest.object + 1)
    [] largest.object = MaxID /\ largest.group < MaxID -> At(largest.group + 1, 0)
    [] largest = At(MaxID, MaxID) -> largest

RelativeStartGroup(largest, back) ==
  CASE largest = NoLocation -> 0
    [] largest.group = MaxID -> IF back = 0 THEN MaxID ELSE MaxID - (back - 1)
    [] largest # NoLocation /\ largest.group < MaxID ->
         IF back > largest.group + 1 THEN 0 ELSE largest.group + 1 - back

Start(f, largest) ==
  CASE f.type = "RelativeStart" -> At(RelativeStartGroup(largest, f.start.group), 0)
    [] f.type = "NextObject" -> NextAfter(largest)
    [] f.type = "None" -> At(0, 0)
    [] HasEndGroup(f) \/ f.type = "AbsoluteStart" -> f.start

\* LocationRange: start to end, both inclusive, or from start on when open.
\* A range that is not there ("false" beside it in the code) contains nothing.
Ranges == [start : Largests, end : Largests, open : BOOLEAN]
NoRange == [start |-> NoLocation, end |-> NoLocation, open |-> FALSE]
InRange(r, l) == NotAfter(r.start, l) /\ (r.open \/ NotAfter(l, r.end))

SubscriptionRange(f, largest) ==
  IF HasEndGroup(f) THEN [start |-> Start(f, largest), end |-> End(f), open |-> FALSE]
                    ELSE [start |-> Start(f, largest), end |-> NoLocation, open |-> TRUE]

FetchRange(f, largest) ==
  LET start == Start(f, largest)
      end == IF HasEndGroup(f) /\ Before(End(f), largest) THEN End(f) ELSE largest
  IN IF largest # NoLocation /\ NotAfter(start, end)
     THEN [start |-> start, end |-> end, open |-> FALSE]
     ELSE NoRange

------------------------------------------------------------------------------
(* Draft 22's LOCATION_FILTER: the fields of its type and no others, so    *)
(* that a filter arrives with the others zero.                             *)

ParsedFrom22(f) ==
  NewFilter(f.type,
            CASE f.type = "RelativeStart" -> At(f.start.group, 0)
              [] f.type = "AbsoluteStart" \/ HasEndGroup(f) -> f.start
              [] f.type \in {"None", "NextObject"} -> At(0, 0),
            IF HasEndGroup(f) THEN f.delta ELSE 0,
            IF f.type = "AbsoluteRange" THEN f.object ELSE 0)

------------------------------------------------------------------------------
(* Draft 18's SUBSCRIPTION_FILTER.  It has no "no filter", no start more   *)
(* than zero Groups back and no end inside a Group.                        *)

InDraft18(f) == /\ Valid(f)
                /\ f.type # "AbsoluteRange"
                /\ f.type = "RelativeStart" => f.start.group = 0

\* Variant of Append18: the two forms without fields are exchanged.
Append18Swapped(f) ==
  [type |-> CASE f.type \in {"None", "AbsoluteStart"} -> "AbsoluteStart18"
              [] f.type = "RelativeStart" -> "LargestObject18"
              [] f.type = "NextObject" -> "NextGroupStart18"
              [] f.type = "AbsoluteGroupEnd" -> "AbsoluteRange18",
   start |-> f.start, delta |-> f.delta]

\* append18: the body for a filter that is InDraft18.
Append18(f) ==
  CASE f.type = "None" -> [type |-> "AbsoluteStart18", start |-> At(0, 0), delta |-> 0]
    [] f.type = "RelativeStart" -> [type |-> "NextGroupStart18", start |-> At(0, 0), delta |-> 0]
    [] f.type = "NextObject" -> [type |-> "LargestObject18", start |-> At(0, 0), delta |-> 0]
    [] f.type = "AbsoluteStart" -> [type |-> "AbsoluteStart18", start |-> f.start, delta |-> 0]
    [] f.type = "AbsoluteGroupEnd" -> [type |-> "AbsoluteRange18", start |-> f.start, delta |-> f.delta]

Parse18(body) ==
  CASE body.type = "NextGroupStart18" -> NextGroup
    [] body.type = "LargestObject18" -> NextObject
    [] body.type = "AbsoluteStart18" -> AbsoluteStart(body.start)
    [] body.type = "AbsoluteRange18" -> NewFilter("AbsoluteGroupEnd", body.start, body.delta, 0)

------------------------------------------------------------------------------
(* Draft 18's FETCH: explicit Start and End Locations, the End being the   *)
(* last Object plus one, and Object 0 the whole Group.                     *)

\* Variant of V18EndLocation: the last Object itself, not one past it.
V18EndInclusive(last) == last

V18EndLocation(last) == IF last.object = MaxID THEN At(last.group, 0)
                                               ELSE At(last.group, last.object + 1)
InclusiveFromV18End(end) == IF end.object = 0 THEN At(end.group, MaxID)
                                              ELSE At(end.group, end.object - 1)

HasV18FetchRange(f) == Valid(f) /\ f.type \notin {"RelativeStart", "NextObject"}
V18FetchRange(f) ==
  CASE f.type = "None" -> [start |-> At(0, 0), end |-> At(MaxID, 0)]
    [] f.type = "AbsoluteStart" -> [start |-> f.start, end |-> At(MaxID, 0)]
    [] HasEndGroup(f) -> [start |-> f.start, end |-> V18EndLocation(End(f))]

\* FetchFilterFromV18 refuses an end before the start.
EndBeforeStart(r) ==
  \/ r.end.group < r.start.group
  \/ r.end.group = r.start.group /\ r.end.object > 0 /\ r.end.object - 1 < r.start.object

FetchFilterFromV18(r) ==
  LET delta == r.end.group - r.start.group
  IN IF r.end.object = 0
     THEN NewFilter("AbsoluteGroupEnd", r.start, delta, 0)
     ELSE NewFilter("AbsoluteRange", r.start, delta, r.end.object - 1)

------------------------------------------------------------------------------
(* A draft-18 Joining FETCH (resolveJoiningFetch, fetch.go): from a Group  *)
(* counted back from the Joining Location, or named, up to it.             *)

MayJoin(joining, start) == joining # NoLocation /\ start <= joining.group
JoiningFilter(kind, joining, start) ==
  AbsoluteRange(At(IF kind = "relative" THEN joining.group - start ELSE start, 0), joining)
=============================================================================
