----------------------------- MODULE WireProofs -----------------------------
(***************************************************************************)
(* Theorems about the parts of the wire (DataStreams, RangeRequests,       *)
(* Exchange), for every MaxID, MaxSent and set of drafts.                  *)
(***************************************************************************)
EXTENDS DataStreams, RangeRequests, Exchange,
        FiniteSetTheorems, SequenceTheorems, FunctionTheorems, TLAPS

USE MaxIDAssumption

-----------------------------------------------------------------------------
(* The block of TypeDeltas: what is read is what was given, by type.        *)

\* Induction, where a proof needs it: a counterexample would have a least one.
LEMMA LeastMember ==
  ASSUME NEW S \in SUBSET Nat, S # {}
  PROVE  \E m \in S : \A n \in S : m <= n
<1> DEFINE T == {1 .. n : n \in S}
<1>1. IsWellFoundedOn(StrictSubsetOrdering(Nat), FiniteSubsetsOf(Nat))
  BY FS_StrictSubsetOrderingWellFounded
<1>2. T \subseteq FiniteSubsetsOf(Nat) /\ T # {}
  <2>1. ASSUME NEW n \in S PROVE 1 .. n \in FiniteSubsetsOf(Nat)
    <3>1. IsFiniteSet(1 .. n) /\ 1 .. n \subseteq Nat
      BY FS_Interval
    <3> QED BY <3>1, Zenon DEF FiniteSubsetsOf
  <2> QED BY <2>1
<1>3. PICK x \in T : \A y \in T : ~(<<y, x>> \in StrictSubsetOrdering(Nat))
  <2> HIDE DEF T
  <2> QED BY <1>1, <1>2, WFMin
<1>4. PICK m \in S : x = 1 .. m
  BY DEF T
<1>5. ASSUME NEW n \in S, n < m PROVE FALSE
  <2>1. <<1 .. n, 1 .. m>> \notin StrictSubsetOrdering(Nat)
    BY <1>3, <1>4
  <2>2. 1 .. n \subseteq 1 .. m /\ m \in 1 .. m /\ m \notin 1 .. n
    BY <1>5
  <2> QED BY <2>1, <2>2 DEF StrictSubsetOrdering
<1> QED BY <1>5

LEMMA Indexed ==
  ASSUME NEW S, NEW s \in Seq(S)
  PROVE  s \in [1 .. Len(s) -> S] /\ Len(s) \in Nat
BY LenProperties

LEMMA ComesBeforeIsAnOrder ==
  ASSUME NEW V, NEW pp \in Seq([type : Nat, value : V])
  PROVE  /\ \A i \in DOMAIN pp : ~ComesBefore(pp, i, i)
         /\ \A i, j \in DOMAIN pp : i # j => ComesBefore(pp, i, j) \/ ComesBefore(pp, j, i)
         /\ \A i, j, k \in DOMAIN pp : ComesBefore(pp, i, j) /\ ComesBefore(pp, j, k) => ComesBefore(pp, i, k)
<1>1. pp \in [1 .. Len(pp) -> [type : Nat, value : V]]
  BY Indexed
<1>2. \A i \in DOMAIN pp : i \in Nat /\ pp[i].type \in Nat
  BY <1>1
<1> QED BY <1>2 DEF ComesBefore

LEMMA Places ==
  ASSUME NEW V, NEW pp \in Seq([type : Nat, value : V])
  PROVE  /\ \A i \in DOMAIN pp : Place(pp, i) \in DOMAIN pp
         /\ \A i, j \in DOMAIN pp : ComesBefore(pp, i, j) => Place(pp, i) < Place(pp, j)
<1> DEFINE n == Len(pp)
           Below(i) == {j \in DOMAIN pp : ComesBefore(pp, j, i)}
<1>1. DOMAIN pp = 1 .. n /\ n \in Nat
  OBVIOUS
<1>2. IsFiniteSet(DOMAIN pp) /\ Cardinality(DOMAIN pp) = n
  BY <1>1, FS_Interval
<1>3. \A i \in DOMAIN pp : IsFiniteSet(Below(i)) /\ Cardinality(Below(i)) \in Nat
  BY <1>2, FS_Subset, FS_CardinalityType
<1>4. \A i \in DOMAIN pp : Place(pp, i) = Cardinality(Below(i)) + 1
  BY DEF Place
<1>5. \A i \in DOMAIN pp : Below(i) \subseteq DOMAIN pp /\ i \notin Below(i)
  BY ComesBeforeIsAnOrder
<1>6. \A i, j \in DOMAIN pp :
        ComesBefore(pp, i, j) => i \in Below(j) /\ Below(i) \subseteq Below(j)
  BY ComesBeforeIsAnOrder
<1> HIDE DEF Below
<1>7. ASSUME NEW i \in DOMAIN pp PROVE Place(pp, i) \in DOMAIN pp
  <2>1. Cardinality(Below(i)) <= n /\ Cardinality(Below(i)) # n
    BY <1>2, <1>5, FS_Subset
  <2> QED BY <1>1, <1>3, <1>4, <2>1
<1>8. ASSUME NEW i \in DOMAIN pp, NEW j \in DOMAIN pp, ComesBefore(pp, i, j)
      PROVE  Place(pp, i) < Place(pp, j)
  <2>1. Cardinality(Below(i)) <= Cardinality(Below(j))
        /\ Cardinality(Below(i)) # Cardinality(Below(j))
    BY <1>3, <1>5, <1>6, <1>8, FS_Subset
  <2> QED BY <1>3, <1>4, <2>1
<1> QED BY <1>7, <1>8

LEMMA SortedOrder ==
  ASSUME NEW V, NEW pp \in Seq([type : Nat, value : V])
  PROVE  \E from \in Bijection(DOMAIN pp, DOMAIN pp) :
           /\ SortedByType(pp) = [k \in DOMAIN pp |-> pp[from[k]]]
           /\ \A k, l \in DOMAIN pp : k < l => ComesBefore(pp, from[k], from[l])
<1> DEFINE place == [i \in DOMAIN pp |-> Place(pp, i)]
           from == [k \in DOMAIN pp |-> CHOOSE i \in DOMAIN pp : Place(pp, i) = k]
<1>1. IsFiniteSet(DOMAIN pp) /\ DOMAIN pp \subseteq Nat
  <2>1. DOMAIN pp = 1 .. Len(pp) /\ Len(pp) \in Nat
    OBVIOUS
  <2> QED BY <2>1, FS_Interval
<1>2. \A i, j \in DOMAIN pp : i # j => ComesBefore(pp, i, j) \/ ComesBefore(pp, j, i)
  BY ComesBeforeIsAnOrder
<1>3. place \in Injection(DOMAIN pp, DOMAIN pp)
  <2>1. place \in [DOMAIN pp -> DOMAIN pp]
    BY Places
  <2>2. ASSUME NEW i \in DOMAIN pp, NEW j \in DOMAIN pp, place[i] = place[j], i # j PROVE FALSE
    <3>1. Place(pp, i) = Place(pp, j) /\ Place(pp, i) \in Nat
      BY <1>1, <2>2, Places
    <3>2. Place(pp, i) < Place(pp, j) \/ Place(pp, j) < Place(pp, i)
      BY <1>2, <2>2, Places
    <3> QED BY <3>1, <3>2
  <2> QED BY <2>1, <2>2 DEF Injection, IsInjective
<1>4. place \in Surjection(DOMAIN pp, DOMAIN pp)
  BY <1>1, <1>3, FS_Injection
<1>5. ASSUME NEW k \in DOMAIN pp PROVE from[k] \in DOMAIN pp /\ Place(pp, from[k]) = k
  <2>1. \E i \in DOMAIN pp : Place(pp, i) = k
    BY <1>4 DEF Surjection
  <2> QED BY <2>1
<1>6. from \in Bijection(DOMAIN pp, DOMAIN pp)
  <2>1. from \in [DOMAIN pp -> DOMAIN pp]
    BY <1>5
  <2>2. \A k, l \in DOMAIN pp : from[k] = from[l] => k = l
    BY <1>5
  <2>3. \A i \in DOMAIN pp : \E k \in DOMAIN pp : from[k] = i
    <3> SUFFICES ASSUME NEW i \in DOMAIN pp PROVE \E k \in DOMAIN pp : from[k] = i
      OBVIOUS
    <3>1. Place(pp, i) \in DOMAIN pp
      BY Places
    <3>2. place[from[Place(pp, i)]] = place[i] /\ from[Place(pp, i)] \in DOMAIN pp
      BY <3>1, <1>5
    <3> QED BY <1>3, <3>1, <3>2 DEF Injection, IsInjective
  <2> QED BY <2>1, <2>2, <2>3 DEF Bijection, Injection, Surjection, IsInjective
<1>7. ASSUME NEW k \in DOMAIN pp, NEW l \in DOMAIN pp, k < l PROVE ComesBefore(pp, from[k], from[l])
  <2>1. from[k] # from[l] /\ from[k] \in DOMAIN pp /\ from[l] \in DOMAIN pp /\ k \in Nat /\ l \in Nat
    BY <1>1, <1>5, <1>7
  <2>2. ~(Place(pp, from[l]) < Place(pp, from[k]))
    BY <1>5, <1>7, <2>1
  <2> HIDE DEF from
  <2> QED BY <1>2, <2>1, <2>2, Places
<1>8. SortedByType(pp) = [k \in DOMAIN pp |-> pp[from[k]]]
  BY DEF SortedByType
<1> HIDE DEF from
<1> QED BY <1>6, <1>7, <1>8

LEMMA RunningSum ==
  ASSUME NEW block, NEW n \in Nat, DOMAIN block = 1 .. n, Len(block) = n,
         \A i \in 1 .. n : block[i].delta \in Int,
         NEW t \in [0 .. n -> Int], t[0] = 0, \A i \in 1 .. n : t[i] = t[i - 1] + block[i].delta
  PROVE  FromDeltas(block) = [i \in DOMAIN block |-> [type |-> t[i], value |-> block[i].value]]
<1> DEFINE F(g) == [i \in 0 .. Len(block) |-> IF i = 0 THEN 0 ELSE g[i - 1] + block[i].delta]
           u == CHOOSE g : g = F(g)
<1>1. t = F(t)
  OBVIOUS
<1>2. u = F(u)
  BY <1>1
<1>3. ASSUME NEW k \in 0 .. n, u[k] # t[k] PROVE FALSE
  <2> DEFINE Wrong == {i \in 0 .. n : u[i] # t[i]}
  <2>1. PICK m \in Wrong : \A i \in Wrong : m <= i
    <3>1. Wrong \in SUBSET Nat /\ k \in Wrong
      <4> HIDE DEF u
      <4> QED BY <1>3
    <3> HIDE DEF Wrong
    <3> QED BY <3>1, LeastMember
  <2>2. u[m] = IF m = 0 THEN 0 ELSE u[m - 1] + block[m].delta
    BY <1>2
  <2>3. m # 0
    BY <2>2
  <2>4. m - 1 \in 0 .. n /\ m \in 1 .. n
    BY <2>3
  <2>5. u[m - 1] = t[m - 1]
    BY <2>1, <2>4
  <2>6. t[m] = t[m - 1] + block[m].delta
    BY <2>4
  <2> HIDE DEF u
  <2> QED BY <2>1, <2>2, <2>3, <2>5, <2>6
<1>4. u = t
  BY <1>2, <1>3
<1> QED BY <1>4 DEF FromDeltas

LEMMA DeltasRoundTrip ==
  ASSUME NEW V, NEW pp \in Seq([type : Nat, value : V])
  PROVE  FromDeltas(AsDeltas(pp)) = SortedByType(pp)
<1> DEFINE n == Len(pp)
           sorted == SortedByType(pp)
           t == [i \in 0 .. n |-> IF i = 0 THEN 0 ELSE sorted[i].type]
           block == AsDeltas(pp)
<1>1. DOMAIN pp = 1 .. n /\ n \in Nat
  OBVIOUS
<1>2. sorted \in [1 .. n -> [type : Nat, value : V]]
  <2>1. PICK from \in [DOMAIN pp -> DOMAIN pp] : sorted = [k \in DOMAIN pp |-> pp[from[k]]]
    BY SortedOrder DEF Bijection, Injection
  <2>2. pp \in [1 .. n -> [type : Nat, value : V]]
    BY Indexed
  <2> HIDE DEF sorted
  <2> QED BY <1>1, <2>1, <2>2
<1> HIDE DEF sorted
<1>3. block = [i \in 1 .. n |-> [delta |-> sorted[i].type - t[i - 1], value |-> sorted[i].value]]
  BY <1>1 DEF AsDeltas, sorted
<1>4. t \in [0 .. n -> Int] /\ t[0] = 0
  BY <1>2
<1>5. DOMAIN block = 1 .. n /\ Len(block) = n
  BY <1>3
<1>6. \A i \in 1 .. n : block[i].delta \in Int /\ t[i] = t[i - 1] + block[i].delta
  <2> SUFFICES ASSUME NEW i \in 1 .. n
               PROVE  block[i].delta \in Int /\ t[i] = t[i - 1] + block[i].delta
    OBVIOUS
  <2>1. block[i].delta = sorted[i].type - t[i - 1]
    BY <1>3
  <2>2. t[i] = sorted[i].type /\ i - 1 \in 0 .. n /\ i \in 0 .. n
    BY <1>1
  <2>3. t[i] \in Int /\ t[i - 1] \in Int
    BY <1>4, <2>2
  <2> HIDE DEF t, block
  <2> QED BY <2>1, <2>2, <2>3
<1>7. FromDeltas(block) = [i \in 1 .. n |-> [type |-> t[i], value |-> block[i].value]]
  <2>1. n \in Nat
    OBVIOUS
  <2>2. \A i \in 1 .. n : block[i].delta \in Int
    BY <1>6
  <2>3. \A i \in 1 .. n : t[i] = t[i - 1] + block[i].delta
    BY <1>6
  <2> HIDE DEF block, t, n
  <2>4. FromDeltas(block) = [i \in DOMAIN block |-> [type |-> t[i], value |-> block[i].value]]
    BY <1>4, <1>5, <2>1, <2>2, <2>3, RunningSum
  <2> QED BY <1>5, <2>4
<1>8. \A i \in 1 .. n : [type |-> t[i], value |-> block[i].value] = sorted[i]
  BY <1>2, <1>3
<1> QED BY <1>2, <1>7, <1>8 DEF sorted

-----------------------------------------------------------------------------
(* Ranges (RangeRequests).                                                  *)

LEMMA Smaller == \A x \in Nat, m \in Nat : x <= m => x % (m + 1) = x
  OBVIOUS

(* Pure facts about filters. *)

\* What validate lets through does not wrap.
LEMMA EndIsSum ==
  ASSUME NEW f \in Filters, HasEndGroup(f), Valid(f)
  PROVE  EndGroup(f) = f.start.group + f.delta
<1>1. f.start.group + f.delta \in Nat /\ f.start.group + f.delta <= MaxID
  BY DEF Filters, Valid, Locations, IDs
<1> QED BY <1>1, Smaller DEF EndGroup

LEMMA EndIsLocation ==
  ASSUME NEW f \in Filters, HasEndGroup(f), Valid(f)
  PROVE  End(f) \in Locations
BY DEF Filters, HasEndGroup, Valid, End, EndGroup, Locations, IDs, At, Types

\* Draft 22's fields of a type are all its meaning depends on.
LEMMA Same22 ==
  ASSUME NEW f \in Filters, NEW at \in Largests
  PROVE  /\ SubscriptionRange(ParsedFrom22(f), at) = SubscriptionRange(f, at)
         /\ FetchRange(ParsedFrom22(f), at) = FetchRange(f, at)
<1>1. /\ ParsedFrom22(f).type = f.type
      /\ f.type = "RelativeStart" => ParsedFrom22(f).start.group = f.start.group
      /\ f.type = "AbsoluteStart" \/ HasEndGroup(f) => ParsedFrom22(f).start = f.start
      /\ HasEndGroup(f) => ParsedFrom22(f).delta = f.delta
      /\ f.type = "AbsoluteRange" => ParsedFrom22(f).object = f.object
  BY DEF ParsedFrom22, NewFilter, Filters, Types, HasEndGroup, At
<1>2. Start(ParsedFrom22(f), at) = Start(f, at)
  BY <1>1 DEF Start, Filters, Types, HasEndGroup
<1>3. HasEndGroup(f) => End(ParsedFrom22(f)) = End(f)
  BY <1>1 DEF End, EndGroup, HasEndGroup
<1>4. QED
  BY <1>1, <1>2, <1>3 DEF SubscriptionRange, FetchRange, HasEndGroup

LEMMA Same18 ==
  ASSUME NEW f \in Filters, NEW at \in Largests, InDraft18(f)
  PROVE  SubscriptionRange(Parse18(Append18(f)), at) = SubscriptionRange(f, at)
<1>1. CASE f.type = "None"
  BY <1>1 DEF SubscriptionRange, Parse18, Append18, HasEndGroup, AbsoluteStart, NewFilter, Start, At
<1>2. CASE f.type = "RelativeStart"
  BY <1>2 DEF SubscriptionRange, Parse18, Append18, HasEndGroup, NextGroup, RelativeStart,
              NewFilter, Start, At, InDraft18
<1>3. CASE f.type = "NextObject"
  BY <1>3 DEF SubscriptionRange, Parse18, Append18, HasEndGroup, NextObject, NewFilter, Start, At
<1>4. CASE f.type = "AbsoluteStart"
  BY <1>4 DEF SubscriptionRange, Parse18, Append18, HasEndGroup, AbsoluteStart, NewFilter, Start, At
<1>5. CASE f.type = "AbsoluteGroupEnd"
  BY <1>5 DEF SubscriptionRange, Parse18, Append18, HasEndGroup, NewFilter, Start, At, End, EndGroup
<1>6. QED
  BY <1>1, <1>2, <1>3, <1>4, <1>5 DEF InDraft18, Filters, Types

\* Draft 18's explicit range of a FETCH, when it does not end before it starts.
LEMMA SameV18Fetch ==
  ASSUME NEW f \in Filters, NEW at \in Largests, HasV18FetchRange(f)
  PROVE  FetchRange(FetchFilterFromV18(V18FetchRange(f)), at) = FetchRange(f, at)
<1> DEFINE g == FetchFilterFromV18(V18FetchRange(f))
<1>1. CASE HasEndGroup(f)
  <2>1. End(f) \in Locations
    BY <1>1, EndIsLocation DEF HasV18FetchRange
  <2>2. HasEndGroup(g) /\ g.start = f.start
    BY <1>1 DEF FetchFilterFromV18, V18FetchRange, NewFilter, HasEndGroup
  <2>3. End(g) = End(f)
    <3>1. EndGroup(f) = f.start.group + f.delta
      BY <1>1, EndIsSum DEF HasV18FetchRange
    <3>2. g \in Filters /\ Valid(g)
      BY <1>1, <2>1, <3>1, MaxIDAssumption DEF FetchFilterFromV18, V18FetchRange, V18EndLocation, NewFilter, Valid, End,
                      HasEndGroup, At, Locations, IDs, Filters, Types
    <3>3. EndGroup(g) = g.start.group + g.delta
      BY <2>2, <3>2, EndIsSum
    <3> QED
      BY <1>1, <2>1, <3>1, <3>3 DEF FetchFilterFromV18, V18FetchRange, V18EndLocation, NewFilter, End,
                      HasEndGroup, At, Locations, IDs, Filters
  <2>4. Start(g, at) = Start(f, at)
    BY <1>1, <2>2 DEF Start, HasEndGroup
  <2>5. QED
    BY <1>1, <2>2, <2>3, <2>4 DEF FetchRange
<1>2. CASE ~HasEndGroup(f)
  <2>1. f.type \in {"None", "AbsoluteStart"}
    BY <1>2 DEF HasV18FetchRange, HasEndGroup, Filters, Types
  <2>2. f.start \in Locations
    BY DEF Filters
  <2>3. /\ g.type = "AbsoluteGroupEnd"
        /\ g.start = IF f.type = "None" THEN At(0, 0) ELSE f.start
        /\ End(g) = At(MaxID, MaxID)
    BY <2>1, <2>2 DEF FetchFilterFromV18, V18FetchRange, NewFilter, End, EndGroup, At, HasEndGroup,
                      Locations, IDs
  <2>4. Start(g, at) = Start(f, at)
    BY <2>1, <2>3 DEF Start, HasEndGroup
  <2>5. ~Before(End(g), at)
    BY <2>3 DEF Before, At, Largests, Locations, IDs, NoLocation
  <2>6. QED
    BY <1>2, <2>3, <2>4, <2>5 DEF FetchRange, HasEndGroup
<1>3. QED
  BY <1>1, <1>2

\* One that the publisher refuses asks for no Object, whatever is published.
LEMMA RefusedIsEmpty ==
  ASSUME NEW f \in Filters, NEW at \in Largests, HasV18FetchRange(f),
         EndBeforeStart(V18FetchRange(f))
  PROVE  FetchRange(f, at) = NoRange
<1>1. HasEndGroup(f)
  BY DEF HasV18FetchRange, V18FetchRange, EndBeforeStart, HasEndGroup, Filters, Types, Locations,
         IDs, At
<1>2. End(f) \in Locations /\ f.start \in Locations
  BY <1>1, EndIsLocation DEF HasV18FetchRange, Filters
<1>3. Before(End(f), f.start)
  BY <1>1, <1>2 DEF V18FetchRange, EndBeforeStart, V18EndLocation, Before, HasEndGroup, Locations,
                    IDs, At, HasV18FetchRange, Valid, End, EndGroup, Filters
<1>4. Start(f, at) = f.start
  BY <1>1 DEF Start, HasEndGroup
<1>5. ~NotAfter(f.start, IF Before(End(f), at) THEN End(f) ELSE at)
  BY <1>2, <1>3 DEF NotAfter, Before, Largests, Locations, IDs, NoLocation, At
<1>6. QED
  BY <1>1, <1>4, <1>5 DEF FetchRange

LEMMA RangeEnds ==
  ASSUME NEW f \in Filters, Valid(f), NEW at \in Largests, FetchRange(f, at) # NoRange
  PROVE  FetchRange(f, at).end \in Locations
<1>1. at \in Locations
  BY DEF FetchRange, Largests
<1>2. HasEndGroup(f) => End(f) \in Locations
  BY EndIsLocation
<1>3. QED
  BY <1>1, <1>2 DEF FetchRange

\* V18EndLocation and InclusiveFromV18End are inverse.
LEMMA EndRoundTrip ==
  ASSUME NEW l \in Locations
  PROVE  InclusiveFromV18End(V18EndLocation(l)) = l
BY DEF InclusiveFromV18End, V18EndLocation, At, Locations, IDs

\* The uint64 difference of AbsoluteRange is the difference when the end is in
\* no earlier Group.
LEMMA AbsoluteRangeEnds ==
  ASSUME NEW start \in Locations, NEW end \in Locations, start.group <= end.group
  PROVE  LET f == AbsoluteRange(start, end)
         IN f \in Filters /\ Valid(f) /\ HasEndGroup(f) /\ f.start = start /\ End(f) = end
<1> DEFINE delta == (end.group - start.group) % (MaxID + 1)
<1>1. delta = end.group - start.group
  <2>1. end.group - start.group \in Nat /\ end.group - start.group <= MaxID
    BY DEF Locations, IDs
  <2>2. QED
    BY <2>1, Smaller
<1>2. delta \in IDs
  BY <1>1 DEF Locations, IDs
<1> HIDE DEF delta
<1>3. /\ end = At(end.group, end.object) /\ end.group \in IDs /\ end.object \in IDs
      /\ start.group \in IDs
  BY DEF Locations, At
<1>4. CASE end.object = MaxID
  <2>1. AbsoluteRange(start, end) = NewFilter("AbsoluteGroupEnd", start, delta, 0)
    BY <1>4 DEF AbsoluteRange, delta
  <2>2. QED
    <3>1. LET f == AbsoluteRange(start, end)
          IN f \in Filters /\ Valid(f) /\ HasEndGroup(f) /\ f.start = start /\ f.start.group + f.delta = end.group
             /\ (IF f.type = "AbsoluteRange" THEN f.object ELSE MaxID) = end.object
      BY <1>1, <1>2, <1>3, <1>4, <2>1 DEF NewFilter, Filters, Types, Valid, HasEndGroup, IDs
    <3> QED BY <1>3, <3>1, EndIsSum DEF End
<1>5. CASE end.object # MaxID
  <2>1. AbsoluteRange(start, end) = NewFilter("AbsoluteRange", start, delta, end.object)
    BY <1>5 DEF AbsoluteRange, delta
  <2>2. QED
    <3>1. LET f == AbsoluteRange(start, end)
          IN f \in Filters /\ Valid(f) /\ HasEndGroup(f) /\ f.start = start /\ f.start.group + f.delta = end.group
             /\ (IF f.type = "AbsoluteRange" THEN f.object ELSE MaxID) = end.object
      BY <1>1, <1>2, <1>3, <2>1 DEF NewFilter, Filters, Types, Valid, HasEndGroup, IDs
    <3> QED BY <1>3, <3>1, EndIsSum DEF End
<1>6. QED
  BY <1>4, <1>5

\* A Joining FETCH covers its Groups up to the Joining Location.
LEMMA JoiningRange ==
  ASSUME NEW form \in {"relative", "absolute"}, NEW start \in IDs, NEW joining \in Largests,
         NEW at \in Largests, MayJoin(joining, start), NotAfter(joining, at)
  PROVE  LET f == JoiningFilter(form, joining, start)
         IN /\ f \in Filters /\ Valid(f)
            /\ FetchRange(f, at) # NoRange => FetchRange(f, at).end = joining /\ ~FetchRange(f, at).open
<1> DEFINE first == At(IF form = "relative" THEN joining.group - start ELSE start, 0)
           f == JoiningFilter(form, joining, start)
<1>1. joining \in Locations /\ at \in Locations
  BY DEF MayJoin, Largests, NotAfter, Before, NoLocation, At, Locations, IDs
<1>2. first \in Locations /\ first.group <= joining.group
  BY <1>1 DEF MayJoin, Locations, IDs, At
<1>3. f = AbsoluteRange(first, joining)
  BY DEF JoiningFilter
<1> HIDE DEF first, f
<1>4. f \in Filters /\ Valid(f) /\ HasEndGroup(f) /\ End(f) = joining
  BY <1>1, <1>2, <1>3, AbsoluteRangeEnds
<1>5. (IF Before(joining, at) THEN joining ELSE at) = joining
  BY <1>1 DEF NotAfter, Before, Locations, IDs
<1>6. QED
  BY <1>4, <1>5 DEF FetchRange, f

\* The Object after the Joining Location is the first the subscription sends.
LEMMA JoinMeets ==
  ASSUME NEW joining \in Locations, joining # At(MaxID, MaxID), NEW l \in Locations
  PROVE  NotAfter(l, joining) # NotAfter(NextAfter(joining), l)
BY DEF NotAfter, Before, NextAfter, At, Locations, IDs, NoLocation

-----------------------------------------------------------------------------
(* The requests.                                                            *)

RangeTypeOK == version \in Versions /\ largest \in Largests

\* The publisher has the subscriber's filter as parsed, and has published no
\* less than SUBSCRIBE_OK reported.
SubInv ==
  sub # <<>> =>
    \E f \in Filters, joining \in Largests, forward \in BOOLEAN :
      /\ sub = <<[asked |-> f, parsed |-> Parsed(f), joining |-> joining, forward |-> forward]>>
      /\ Sendable(f) /\ NotAfter(joining, largest)

\* A FETCH under way: its range is the one asked for at the Largest Object,
\* which does not move before it is over.
FetchInv ==
  fetch # <<>> =>
    /\ fetch[1].answer # "refused" => FetchRange(fetch[1].asked, largest) = fetch[1].range
    /\ fetch[1].answer = "ok" /\ sub # <<>> =>
         /\ sub[1].joining \in Locations
         /\ fetch[1].range.end = sub[1].joining /\ ~fetch[1].range.open

RangeIInv == RangeTypeOK /\ SubInv /\ FetchInv /\ EndIsTold

LEMMA InitRange == RangeInit => RangeIInv
BY DEF RangeInit, RangeIInv, RangeTypeOK, SubInv, FetchInv, EndIsTold

LEMMA StutterRange == RangeIInv /\ UNCHANGED rangeVars => RangeIInv'
BY DEF rangeVars, RangeIInv, RangeTypeOK, SubInv, FetchInv, EndIsTold, Parsed, Sendable

LEMMA PublishIInv ==
  ASSUME RangeIInv, Publish
  PROVE  RangeIInv'
<1>1. PICK l \in Locations : Before(largest, l) /\ largest' = l
  BY DEF Publish
<1>2. \A joining \in Largests : NotAfter(joining, largest) => NotAfter(joining, largest')
  BY <1>1 DEF RangeIInv, RangeTypeOK, NotAfter, Before, Largests, Locations, IDs, NoLocation, At
<1>3. RangeTypeOK' /\ FetchInv' /\ EndIsTold'
  BY <1>1 DEF Publish, RangeIInv, RangeTypeOK, FetchInv, EndIsTold, Largests
<1>4. SubInv'
  BY <1>2 DEF Publish, RangeIInv, SubInv, Parsed, Sendable
<1>5. QED
  BY <1>3, <1>4 DEF RangeIInv

LEMMA SubscribeIInv ==
  ASSUME RangeIInv, NEW f \in Filters, Subscribe(f)
  PROVE  RangeIInv'
<1>1. NotAfter(largest, largest)
  BY DEF RangeIInv, RangeTypeOK, NotAfter, Before, Largests, Locations, IDs, NoLocation, At
<1>2. SubInv'
  BY <1>1 DEF Subscribe, RangeIInv, RangeTypeOK, SubInv, Parsed, Sendable
<1>3. QED
  BY <1>2 DEF Subscribe, RangeIInv, RangeTypeOK, FetchInv, EndIsTold

LEMMA UpdateForwardIInv ==
  ASSUME RangeIInv, UpdateForward
  PROVE  RangeIInv'
<1>1. PICK f \in Filters, joining \in Largests, forward \in BOOLEAN :
        /\ sub = <<[asked |-> f, parsed |-> Parsed(f), joining |-> joining, forward |-> forward]>>
        /\ Sendable(f) /\ NotAfter(joining, largest)
  BY DEF UpdateForward, RangeIInv, SubInv
<1>2. sub' = <<[asked |-> f, parsed |-> Parsed(f), joining |-> joining, forward |-> ~forward]>>
  BY <1>1 DEF UpdateForward
<1>3. SubInv'
  BY <1>1, <1>2 DEF UpdateForward, SubInv, Parsed, Sendable
<1>4. QED
  BY <1>3 DEF UpdateForward, RangeIInv, RangeTypeOK, FetchInv, EndIsTold

\* A FETCH answered with a range that both ends read alike.
LEMMA AnswerIInv ==
  ASSUME RangeIInv, NEW asked \in Filters, NEW parsed, fetch' = Answer(asked, parsed),
         UNCHANGED <<version, largest, sub>>, Valid(asked),
         FetchRange(parsed, largest) = FetchRange(asked, largest),
         sub # <<>> /\ FetchRange(asked, largest) # NoRange =>
           /\ sub[1].joining \in Locations
           /\ FetchRange(asked, largest).end = sub[1].joining /\ ~FetchRange(asked, largest).open
  PROVE  RangeIInv'
<1> DEFINE range == FetchRange(asked, largest)
<1>1. fetch' = <<[asked |-> asked, parsed |-> parsed,
                  answer |-> IF range = NoRange THEN "empty" ELSE "ok",
                  range |-> range, told |-> IF range = NoRange THEN NoLocation ELSE Told(range.end)]>>
  BY DEF Answer
<1>2. range # NoRange => Told(range.end) = range.end
  BY RangeEnds, EndRoundTrip DEF RangeIInv, RangeTypeOK, Told
<1> HIDE DEF range
<1>3. FetchInv'
  BY <1>1 DEF FetchInv, range
<1>4. EndIsTold'
  BY <1>1, <1>2 DEF EndIsTold
<1>5. QED
  BY <1>3, <1>4 DEF RangeIInv, RangeTypeOK, SubInv, Parsed, Sendable

LEMMA RefuseIInv ==
  ASSUME RangeIInv, NEW asked, fetch' = Refuse(asked), UNCHANGED <<version, largest, sub>>,
         sub = <<>> => \A at \in Largests : FetchRange(asked, at) = NoRange
  PROVE  RangeIInv'
BY DEF Refuse, RangeIInv, RangeTypeOK, SubInv, FetchInv, EndIsTold, Parsed, Sendable

LEMMA FetchIInv ==
  ASSUME RangeIInv, NEW f \in Filters, Fetch(f)
  PROVE  RangeIInv'
<1>1. sub = <<>> /\ UNCHANGED <<version, largest, sub>> /\ largest \in Largests /\ version \in {18, 22}
  BY VersionsAssumption DEF Fetch, RangeIInv, RangeTypeOK
<1>2. CASE version = 22
  <2>1. Valid(f) /\ fetch' = Answer(f, ParsedFrom22(f))
    BY <1>2 DEF Fetch
  <2>2. QED
    BY <1>1, <2>1, Same22, AnswerIInv
<1>3. CASE version = 18 /\ EndBeforeStart(V18FetchRange(f))
  <2>1. HasV18FetchRange(f) /\ fetch' = Refuse(f)
    BY <1>3 DEF Fetch
  <2>2. QED
    BY <1>1, <1>3, <2>1, RefusedIsEmpty, RefuseIInv
<1>4. CASE version = 18 /\ ~EndBeforeStart(V18FetchRange(f))
  <2>1. HasV18FetchRange(f) /\ fetch' = Answer(f, FetchFilterFromV18(V18FetchRange(f)))
    BY <1>4 DEF Fetch
  <2>2. Valid(f)
    BY <2>1 DEF HasV18FetchRange
  <2>3. QED
    BY <1>1, <2>1, <2>2, SameV18Fetch, AnswerIInv
<1>5. QED
  BY <1>1, <1>2, <1>3, <1>4

LEMMA JoiningFetchIInv ==
  ASSUME RangeIInv, NEW form \in {"relative", "absolute"}, NEW start \in IDs, JoiningFetch(form, start)
  PROVE  RangeIInv'
<1>1. sub # <<>> /\ UNCHANGED <<version, largest, sub>>
  BY DEF JoiningFetch
<1>2. /\ sub[1].joining \in Largests /\ NotAfter(sub[1].joining, largest)
      /\ largest \in Largests
  BY <1>1 DEF RangeIInv, RangeTypeOK, SubInv
<1>3. CASE fetch' = Refuse(NoFilter)
  BY <1>1, <1>3, RefuseIInv
<1>4. CASE /\ MayJoin(sub[1].joining, start)
           /\ fetch' = Answer(JoiningFilter(form, sub[1].joining, start),
                              JoiningFilter(form, sub[1].joining, start))
  <2>1. sub[1].joining \in Locations
    BY <1>2, <1>4 DEF MayJoin, Largests
  <2>2. QED
    BY <1>1, <1>2, <1>4, <2>1, JoiningRange, AnswerIInv
<1>5. QED
  BY <1>3, <1>4 DEF JoiningFetch, JoiningPoint

LEMMA RangeStep == RangeIInv /\ [RangeNext]_rangeVars => RangeIInv'
<1> SUFFICES ASSUME RangeIInv, [RangeNext]_rangeVars PROVE RangeIInv'
  OBVIOUS
<1>1. ASSUME NEW f \in Filters, Subscribe(f) \/ Fetch(f) PROVE RangeIInv'
  BY <1>1, SubscribeIInv, FetchIInv
<1>2. ASSUME NEW form \in {"relative", "absolute"}, NEW start \in IDs, JoiningFetch(form, start)
      PROVE  RangeIInv'
  BY <1>2, JoiningFetchIInv
<1>3. CASE FetchEnds
  BY <1>3 DEF FetchEnds, RangeIInv, RangeTypeOK, SubInv, FetchInv, EndIsTold, Parsed, Sendable
<1>4. QED
  BY <1>1, <1>2, <1>3, PublishIInv, UpdateForwardIInv, StutterRange DEF RangeNext

LEMMA RangeInvariance == RangeSpec => []RangeIInv
BY InitRange, RangeStep, PTL DEF RangeSpec

\* Whatever the number of IDs and whatever has been published, the publisher
\* reads a filter as the subscriber meant it: append18 and parse18, the fields
\* of draft 22, and FetchFilterFromV18 lose nothing that selects an Object.  And
\* FETCH_OK's End Location survives draft 18's "plus one" for every Location, and
\* a FETCH that is refused for its range asks for no Object at all.
THEOREM FiltersReadAsMeant == RangeSpec => []RangesSurvive
<1>1. RangeIInv => SameObjects
  <2> SUFFICES ASSUME RangeIInv PROVE SameObjects
    OBVIOUS
  <2>1. ASSUME sub # <<>>, NEW at \in Largests
        PROVE  SubscriptionRange(sub[1].asked, at) = SubscriptionRange(sub[1].parsed, at)
    <3>1. PICK f \in Filters : sub[1].asked = f /\ sub[1].parsed = Parsed(f) /\ Sendable(f)
      BY <2>1 DEF RangeIInv, SubInv
    <3>2. QED
      BY <3>1, Same18, Same22 DEF Parsed, Sendable
  <2>2. QED
    BY <2>1 DEF SameObjects, RangeIInv, FetchInv
<1>2. RangeIInv => RangesSurvive
  BY <1>1 DEF RangeIInv, RangesSurvive
<1>3. QED
  BY <1>2, RangeInvariance, PTL

\* A Joining FETCH and the subscription it joins are contiguous and do not
\* overlap, whatever is published between SUBSCRIBE_OK and the FETCH:
\* resolveJoiningFetch ends the range at the Joining Location, and NextObject
\* starts after it.
THEOREM JoinsAreSeamless == RangeSpec => []JoinIsSeamless
<1>1. RangeIInv => JoinIsSeamless
  <2> SUFFICES ASSUME RangeIInv, sub # <<>>, fetch # <<>>, sub[1].parsed.type = "NextObject",
                      fetch[1].answer = "ok", sub[1].joining # At(MaxID, MaxID),
                      NEW l \in Locations, NotAfter(fetch[1].range.start, l)
               PROVE  InRange(fetch[1].range, l)
                        # InRange(SubscriptionRange(sub[1].parsed, sub[1].joining), l)
    BY DEF JoinIsSeamless
  <2> DEFINE joining == sub[1].joining
  <2>1. joining \in Locations /\ fetch[1].range.end = joining /\ ~fetch[1].range.open
    BY DEF RangeIInv, FetchInv
  <2>2. InRange(fetch[1].range, l) = NotAfter(l, joining)
    BY <2>1 DEF InRange, NotAfter
  <2>3. SubscriptionRange(sub[1].parsed, joining)
          = [start |-> NextAfter(joining), end |-> NoLocation, open |-> TRUE]
    BY DEF SubscriptionRange, HasEndGroup, Start
  <2>4. InRange(SubscriptionRange(sub[1].parsed, joining), l) = NotAfter(NextAfter(joining), l)
    BY <2>3 DEF InRange, NotAfter
  <2>5. QED
    BY <2>1, <2>2, <2>4, JoinMeets
<1>2. QED
  BY <1>1, RangeInvariance, PTL

-----------------------------------------------------------------------------
(* Request streams (Exchange).                                              *)

MessageTypes == RequestKinds \cup {"SubscribeOk", "FetchOk", "PublishOk", "RequestOk", "RequestError",
                                   "RequestUpdate", "PublishStateNotify"}
Contexts == {"none", "request", "answer", "update", "updateOk", "notify"} \X (RequestKinds \cup {"none"})
Messages == {Message(type, pp, context, means, long) :
               type \in MessageTypes, pp \in ParameterBlocks, context \in Contexts,
               means \in {"request", "update", "notify"}, long \in BOOLEAN}

\* What the sender's checks leave of a message.
Sound(m) == Encodable(m.type, m.pp) /\ CheckParameters(m.sentAs, m.pp)

IsRequest(m) == m.type = Kind /\ m.sentAs = <<"request", Kind>> /\ m.means = "request"

\* The answer to the request.
Answers(m) ==
  /\ m.means = "request"
  /\ \/ m.type = "RequestError" /\ m.sentAs = NoContext
     \/ m.type = AnswerType /\ m.sentAs = <<"answer", Kind>>

\* Any other message: its context is the same wherever the exchange is.
Follows(m) ==
  \/ m.type = "RequestOk" /\ m.sentAs = UpdateOk /\ m.means = "update"
  \/ m.type = "RequestError" /\ m.sentAs = NoContext /\ m.means = "update"
  \/ m.type = "RequestUpdate" /\ m.sentAs = <<"update", Kind>> /\ m.means = "update" /\ Kind # "TrackStatus"
  \/ m.type = "PublishStateNotify" /\ m.sentAs = <<"notify", "none">> /\ m.means = "notify"

\* The requester's first message is the request, the responder's the answer.
First(e, m) == IF e = "responder" THEN IsRequest(m) ELSE Answers(m)
Awaited(e) == IF e = "responder" THEN scope[e].kind = "none" ELSE ~scope[e].answered
InPlace(e, i, m) == IF i = 1 /\ Awaited(e) THEN First(e, m) ELSE Follows(m)

Coming(e) ==
  \A i \in DOMAIN inbound[e] :
    inbound[e][i] # Fin => Sound(inbound[e][i]) /\ InPlace(e, i, inbound[e][i])

ExchangeTypeOK ==
  /\ negotiated \in {18, 22}
  /\ request \in {<<>>} \cup {<<q>> : q \in [kind : RequestKinds, include : BOOLEAN]}
  /\ scope \in [Ends -> [kind : RequestKinds \cup {"none"}, requester : BOOLEAN, answered : BOOLEAN]]
  /\ inbound \in [Ends -> Seq(Messages \cup {Fin})]
  /\ claimed \in {"no", "accepted", "rejected", "refused"}
  /\ owed \in [Ends -> Nat]

Unopened ==
  request = <<>> => /\ scope = [e \in Ends |-> NewScope]
                    /\ inbound = [e \in Ends |-> <<>>]
                    /\ owed = [e \in Ends |-> 0]
                    /\ claimed = "no"

Scopes ==
  /\ scope["requester"].kind = Kind /\ scope["requester"].requester
  /\ scope["responder"].kind \in {"none", Kind} /\ ~scope["responder"].requester
  /\ scope["responder"].kind = "none" =>
       /\ claimed = "no"
       /\ inbound["responder"] # <<>> /\ inbound["responder"][1] # Fin
       /\ \A i \in DOMAIN inbound["responder"] : i > 1 => inbound["responder"][i] = Fin

\* What each way of answering leaves behind.
Claims ==
  /\ claimed = "no" => inbound["requester"] = <<>> /\ \A e \in Ends : ~scope[e].answered
  /\ claimed = "accepted" =>
       /\ scope["responder"].answered
       /\ Kind # "TrackStatus" /\ ~scope["requester"].answered =>
            inbound["requester"] # <<>> /\ inbound["requester"][1] # Fin

Calls == call # "new" => request # <<>> /\ Kind = "TrackStatus"

\* An update is of an accepted request.
Updates ==
  claimed # "accepted" \/ Kind = "TrackStatus" =>
    \A e \in Ends : /\ owed[e] = 0
                    /\ \A i \in DOMAIN inbound[e] : inbound[e][i].type # "RequestUpdate"

ExchangeIInv ==
  /\ ExchangeTypeOK
  /\ failed = <<>> =>
       /\ Unopened
       /\ request # <<>> => Scopes /\ Claims /\ Updates /\ \A e \in Ends : Coming(e)
  /\ Calls
  /\ ScopesAgree
  /\ TakenAsMeant

LEMMA BlocksAreSequences ==
  ASSUME NEW pp \in ParameterBlocks
  PROVE  \E V : pp \in Seq([type : Nat, value : V])
<1> DEFINE V == {<<>>, AsDeltas(<<One(FillTimeout)>>), AsDeltas(<<One(Forward)>>)}
           Entries == [type : Nat, value : V]
<1>1. \A t \in Nat : One(t) \in Entries
  BY DEF One
<1>2. /\ Filling(<<One(FillTimeout)>>) \in Entries
      /\ Filling(<<One(Forward)>>) \in Entries
  BY DEF Filling, FillParameters
<1> HIDE DEF Entries
<1>3. /\ \A t \in Nat : <<One(t)>> \in Seq(Entries)
      /\ \A t, u \in Nat : <<One(t), One(u)>> \in Seq(Entries)
  BY <1>1
<1>4. \A f \in Entries : <<f>> \in Seq(Entries)
  OBVIOUS
<1>5. pp \in Seq(Entries)
  <2>1. {Authorization, Expires, LargestObject, FillTimeout, Forward, NamespacePrefix,
         UnknownType, IncludeProperties} \subseteq Nat
    BY DEF Authorization, Expires, LargestObject, FillTimeout, Forward, NamespacePrefix,
           UnknownType, IncludeProperties
  <2>2. <<>> \in Seq(Entries)
    OBVIOUS
  <2> QED BY <1>2, <1>3, <1>4, <2>1, <2>2, Zenon DEF ParameterBlocks
<1> QED BY <1>5 DEF Entries

\* What is read of a block is what was given, sorted: the same entries.
LEMMA BlockRead ==
  ASSUME NEW pp \in ParameterBlocks
  PROVE  LET read == FromDeltas(AsDeltas(pp))
         IN /\ read = SortedByType(pp)
            /\ \A registry : Known(pp, registry) => Known(read, registry)
            /\ \A v : Registered(pp, v) => Registered(read, v)
<1> DEFINE read == FromDeltas(AsDeltas(pp))
<1>1. PICK V : pp \in Seq([type : Nat, value : V])
  BY BlocksAreSequences
<1>2. read = SortedByType(pp)
  BY <1>1, DeltasRoundTrip
<1>3. PICK from \in [DOMAIN pp -> DOMAIN pp] : SortedByType(pp) = [k \in DOMAIN pp |-> pp[from[k]]]
  BY <1>1, SortedOrder DEF Bijection, Injection
<1> HIDE DEF read
<1>4. \A k \in DOMAIN read : \E i \in DOMAIN pp : read[k] = pp[i]
  BY <1>2, <1>3
<1>5. \A registry : Known(pp, registry) => Known(read, registry)
  BY <1>4 DEF Known
<1>6. \A v : Registered(pp, v) => Registered(read, v)
  <2> SUFFICES ASSUME NEW v, Registered(pp, v) PROVE Registered(read, v)
    OBVIOUS
  <2>1. Known(read, Registry(v))
    BY <1>5 DEF Registered
  <2>2. ASSUME NEW k \in DOMAIN read, read[k].type = FillParameters
        PROVE  Known(FromDeltas(read[k].value), FillRegistry)
    BY <1>4, <2>2 DEF Registered
  <2> QED BY <2>1, <2>2 DEF Registered
<1> QED BY <1>2, <1>5, <1>6 DEF read

LEMMA MessageFields ==
  ASSUME NEW m \in Messages
  PROVE  /\ m.type \in MessageTypes /\ m.pp \in ParameterBlocks /\ m.block = AsDeltas(m.pp)
         /\ m.sentAs \in Contexts /\ m.means \in {"request", "update", "notify"}
         /\ m # Fin
<1>1. PICK type \in MessageTypes, pp \in ParameterBlocks, context \in Contexts,
           means \in {"request", "update", "notify"}, long \in BOOLEAN :
             m = Message(type, pp, context, means, long)
  BY DEF Messages
<1>2. /\ m.type = type /\ m.pp = pp /\ m.block = AsDeltas(pp) /\ m.sentAs = context /\ m.means = means
  BY <1>1 DEF Message
<1>3. m.type # "FIN"
  BY <1>2 DEF MessageTypes, RequestKinds
<1> QED BY <1>2, <1>3 DEF Fin

LEMMA ContextsTyped ==
  ASSUME NEW s \in [kind : RequestKinds \cup {"none"}, requester : BOOLEAN, answered : BOOLEAN],
         NEW type \in MessageTypes, NEW fromRequester \in BOOLEAN
  PROVE  ContextOf(s, type, fromRequester) \in Contexts
BY DEF ContextOf, OkContext, Contexts, MessageTypes, RequestKinds, NoContext, UpdateOk

LEMMA Appended ==
  ASSUME NEW s \in Seq(Messages \cup {Fin}), NEW m \in Messages, NEW x \in {<<m>>, <<m, Fin>>}
  PROVE  /\ s \o x \in Seq(Messages \cup {Fin})
         /\ \A i \in DOMAIN (s \o x) :
              \/ i \in DOMAIN s /\ (s \o x)[i] = s[i]
              \/ i = Len(s) + 1 /\ (s \o x)[i] = m
              \/ (s \o x)[i] = Fin
         /\ s \o x # <<>>
         /\ (s \o x)[1] = IF s = <<>> THEN m ELSE s[1]
<1> DEFINE S == Messages \cup {Fin}
<1>1. m \in S /\ Fin \in S /\ s \in Seq(S)
  OBVIOUS
<1> HIDE DEF S
<1>2. CASE x = <<m>>
  <2>1. /\ s \o x \in Seq(S)
        /\ \A i \in DOMAIN (s \o x) :
              \/ i \in DOMAIN s /\ (s \o x)[i] = s[i]
              \/ i = Len(s) + 1 /\ (s \o x)[i] = m
        /\ s \o x # <<>>
        /\ (s \o x)[1] = IF s = <<>> THEN m ELSE s[1]
    BY <1>1, <1>2
  <2> QED BY <2>1 DEF S
<1>3. CASE x = <<m, Fin>>
  <2> DEFINE fin == Fin
  <2> HIDE DEF fin
  <2>1. /\ s \o <<m, fin>> \in Seq(S)
        /\ \A i \in DOMAIN (s \o <<m, fin>>) :
              \/ i \in DOMAIN s /\ (s \o <<m, fin>>)[i] = s[i]
              \/ i = Len(s) + 1 /\ (s \o <<m, fin>>)[i] = m
              \/ (s \o <<m, fin>>)[i] = fin
        /\ s \o <<m, fin>> # <<>>
        /\ (s \o <<m, fin>>)[1] = IF s = <<>> THEN m ELSE s[1]
    <3>1. fin \in S
      BY <1>1 DEF fin
    <3> QED BY <1>1, <3>1
  <2> QED BY <1>3, <2>1 DEF S, fin
<1> QED BY <1>2, <1>3

------------------------------------------------------------------------------
(* One message on its way. *)

\* A message that an end writes, with a field too long or not, and how it is sent.
WrittenAs(e, type, pp, means, m) ==
  \E long \in BOOLEAN :
    m = Message(type, pp, ContextOf(scope[e], type, e = "requester"), means, long)
GoesTo(p, m) == \E x \in {<<m>>, <<m, Fin>>} : inbound' = [inbound EXCEPT ![p] = @ \o x]

\* The message Write sends, if its parameters are allowed, and what it leaves
\* of the sender's scope.
LEMMA WriteSends ==
  ASSUME ExchangeTypeOK, request # <<>>, Scopes,
         NEW e \in Ends, e = "responder" => scope[e].kind # "none",
         NEW type \in MessageTypes, NEW pp \in ParameterBlocks,
         NEW means \in {"request", "update", "notify"}, NEW last \in BOOLEAN,
         MayWrite(e, type, pp), Write(e, type, pp, means, last)
  PROVE  /\ scope' = [scope EXCEPT ![e].answered = @ \/ (e = "responder" /\ IsAnswer(type))]
         /\ ~Allowed(e, type, pp) => inbound' = inbound
         /\ Allowed(e, type, pp) =>
              \E m \in Messages :
                WrittenAs(e, type, pp, means, m) /\ Sound(m) /\ GoesTo(PeerOf(e), m)
<1> DEFINE c == ContextOf(scope[e], type, e = "requester")
<1>1. /\ scope[e].kind # "none" /\ scope[e].requester = (e = "requester")
      /\ scope[e] \in [kind : RequestKinds \cup {"none"}, requester : BOOLEAN, answered : BOOLEAN]
  BY DEF Scopes, Ends, ExchangeTypeOK, Kind, RequestKinds
<1>2. (TRUE = scope[e].requester) = (e = "requester")
  BY <1>1
<1>3. (~(e = "requester")) = (e = "responder")
  BY DEF Ends
<1> DEFINE check == Checked(scope[e], type, pp, TRUE)
<1>5. /\ check.state = [scope[e] EXCEPT !.answered = @ \/ (e = "responder" /\ IsAnswer(type))]
      /\ check.context = c
      /\ check.ok = CheckParameters(c, pp)
  BY <1>1, <1>2, <1>3 DEF Checked
<1> HIDE DEF check, c
<1>6. /\ scope' = [scope EXCEPT ![e].answered = @ \/ (e = "responder" /\ IsAnswer(type))]
      /\ Allowed(e, type, pp) = CheckParameters(c, pp)
  <2>1. scope' = [scope EXCEPT ![e] = check.state]
    BY DEF Write, check
  <2>2. Allowed(e, type, pp) = check.ok
    BY DEF Allowed, check
  <2> QED BY <1>1, <1>5, <2>1, <2>2 DEF ExchangeTypeOK
<1>7. c \in Contexts
  BY <1>1, ContextsTyped DEF c
<1>8. ASSUME Allowed(e, type, pp)
      PROVE  \E m \in Messages :
               WrittenAs(e, type, pp, means, m) /\ Sound(m) /\ GoesTo(PeerOf(e), m)
  <2>1. PICK long \in BOOLEAN :
          inbound' = [inbound EXCEPT ![PeerOf(e)] =
                        @ \o IF last THEN <<Message(type, pp, c, means, long), Fin>>
                                      ELSE <<Message(type, pp, c, means, long)>>]
    BY <1>5, <1>8 DEF Write, check
  <2> DEFINE m == Message(type, pp, c, means, long)
  <2>2. m \in Messages
    BY <1>7 DEF Messages
  <2>3. m.type = type /\ m.pp = pp /\ m.sentAs = c
    BY DEF Message
  <2>4. Sound(m)
    BY <1>6, <1>8, <2>3 DEF Sound, MayWrite
  <2>5. GoesTo(PeerOf(e), m)
    BY <2>1 DEF GoesTo
  <2>6. WrittenAs(e, type, pp, means, m)
    BY DEF WrittenAs, c
  <2> QED BY <2>2, <2>4, <2>5, <2>6
<1>10. ~Allowed(e, type, pp) => inbound' = inbound
  BY DEF Write
<1> QED BY <1>6, <1>8, <1>10

\* A message that follows those before it keeps the stream in order.
LEMMA ComingKept ==
  ASSUME ExchangeTypeOK, NEW e \in Ends, Coming(e), Awaited(e)' = Awaited(e),
         NEW m \in Messages, Sound(m), InPlace(e, Len(inbound[e]) + 1, m),
         NEW x \in {<<m>>, <<m, Fin>>}, inbound'[e] = inbound[e] \o x,
         UNCHANGED <<negotiated, request>>
  PROVE  Coming(e)'
<1>1. inbound[e] \in Seq(Messages \cup {Fin})
  BY DEF ExchangeTypeOK
<1>2. \A k : Sound(k)' = Sound(k)
  BY DEF Sound, Encodable, CheckParameters
<1>3. \A i, k : InPlace(e, i, k)' = InPlace(e, i, k)
  BY DEF InPlace, First, IsRequest, Answers, Follows, Kind, AnswerType
<1> SUFFICES ASSUME NEW i \in DOMAIN inbound'[e], inbound'[e][i] # Fin
             PROVE  Sound(inbound'[e][i]) /\ InPlace(e, i, inbound'[e][i])
  BY <1>2, <1>3 DEF Coming
<1>4. \/ i \in DOMAIN inbound[e] /\ inbound'[e][i] = inbound[e][i]
      \/ i = Len(inbound[e]) + 1 /\ inbound'[e][i] = m
  <2>1. PICK s \in Seq(Messages \cup {Fin}) : s = inbound[e]
    BY <1>1
  <2>2. PICK z : z = s \o x
    OBVIOUS
  <2>3. /\ i \in DOMAIN z /\ inbound'[e][i] = z[i] /\ z[i] # Fin
    BY <2>1, <2>2
  <2>4. \/ i \in DOMAIN s /\ z[i] = s[i]
        \/ i = Len(s) + 1 /\ z[i] = m
        \/ z[i] = Fin
    <3>1. \A j \in DOMAIN (s \o x) :
            \/ j \in DOMAIN s /\ (s \o x)[j] = s[j]
            \/ j = Len(s) + 1 /\ (s \o x)[j] = m
            \/ (s \o x)[j] = Fin
      BY Appended, Zenon
    <3> QED BY <2>2, <2>3, <3>1, Zenon
  <2> QED BY <2>1, <2>3, <2>4
<1> QED BY <1>4 DEF Coming

LEMMA ComingSame ==
  ASSUME NEW e \in Ends, Coming(e), Awaited(e)' = Awaited(e), inbound'[e] = inbound[e],
         UNCHANGED <<negotiated, request>>
  PROVE  Coming(e)'
<1>2. \A k : Sound(k)' = Sound(k)
  BY DEF Sound, Encodable, CheckParameters
<1>3. \A i, k : InPlace(e, i, k)' = InPlace(e, i, k)
  BY DEF InPlace, First, IsRequest, Answers, Follows, Kind, AnswerType
<1> QED BY <1>2, <1>3 DEF Coming

LEMMA FollowingContext ==
  ASSUME ExchangeTypeOK, request # <<>>, Scopes, NEW e \in Ends, scope[e].kind # "none",
         e = "responder" => scope[e].answered
  PROVE  /\ ContextOf(scope[e], "RequestOk", e = "requester") = UpdateOk
         /\ ContextOf(scope[e], "RequestError", e = "requester") = NoContext
         /\ ContextOf(scope[e], "PublishStateNotify", e = "requester") = <<"notify", "none">>
         /\ Kind # "TrackStatus" =>
              ContextOf(scope[e], "RequestUpdate", e = "requester") = <<"update", Kind>>
<1>1. scope[e].kind = Kind
  BY DEF Scopes, Ends
<1> QED BY <1>1 DEF ContextOf, OkContext, RequestKinds, Ends

\* What every write after the request keeps, when its message is in place and
\* the request is claimed by the answer alone.
LEMMA WriteIInv ==
  ASSUME ExchangeIInv, failed = <<>>, request # <<>>, scope["responder"].kind # "none",
         NEW e \in Ends, NEW type \in MessageTypes, NEW pp \in ParameterBlocks,
         NEW means \in {"request", "update", "notify"}, NEW last \in BOOLEAN,
         MayWrite(e, type, pp), Write(e, type, pp, means, last),
         InPlace(PeerOf(e), Len(inbound[PeerOf(e)]) + 1,
                 Message(type, pp, ContextOf(scope[e], type, e = "requester"), means, FALSE)),
         type = "RequestUpdate" => claimed = "accepted" /\ Kind # "TrackStatus",
         \/ claimed = "accepted" /\ claimed' = claimed
         \/ /\ e = "responder" /\ claimed = "no"
            /\ \/ claimed' \in {"rejected", "refused"}
               \/ claimed' = "accepted" /\ Allowed(e, type, pp) /\ IsAnswer(type),
         owed' \in [Ends -> Nat], \A k \in Ends : owed[k] = 0 => owed'[k] = 0,
         UNCHANGED <<negotiated, request, call, lastRead, failed>>
  PROVE  ExchangeIInv'
<1> DEFINE p == PeerOf(e)
<1>1. ExchangeTypeOK /\ Scopes /\ Claims /\ Updates /\ \A k \in Ends : Coming(k)
  BY DEF ExchangeIInv
<1> DEFINE c == ContextOf(scope[e], type, e = "requester")
<1>s. /\ scope' = [scope EXCEPT ![e].answered = @ \/ (e = "responder" /\ IsAnswer(type))]
      /\ ~Allowed(e, type, pp) => inbound' = inbound
      /\ Allowed(e, type, pp) =>
           \E m \in Messages :
             WrittenAs(e, type, pp, means, m) /\ Sound(m) /\ GoesTo(PeerOf(e), m)
  <2>1. e = "responder" => scope[e].kind # "none"
    OBVIOUS
  <2> QED BY <1>1, <2>1, WriteSends
<1>m. PICK m : /\ WrittenAs(e, type, pp, means, m)
               /\ Allowed(e, type, pp) => m \in Messages /\ Sound(m) /\ GoesTo(p, m)
  <2>1. CASE Allowed(e, type, pp)
    BY <1>s, <2>1
  <2>2. CASE ~Allowed(e, type, pp)
    BY <2>2 DEF WrittenAs
  <2> QED BY <2>1, <2>2
<1>2. /\ scope' = [scope EXCEPT ![e].answered = @ \/ (e = "responder" /\ IsAnswer(type))]
      /\ ~Allowed(e, type, pp) => inbound' = inbound
      /\ Allowed(e, type, pp) =>
           /\ m \in Messages /\ Sound(m)
           /\ \E x \in {<<m>>, <<m, Fin>>} : inbound' = [inbound EXCEPT ![p] = @ \o x]
  BY <1>s, <1>m DEF GoesTo
<1> HIDE DEF c
<1>3. m.type = type
  BY <1>m DEF WrittenAs, Message
<1>i. InPlace(p, Len(inbound[p]) + 1, m)
  <2> DEFINE n == Message(type, pp, c, means, FALSE)
  <2>1. n.type = m.type /\ n.sentAs = m.sentAs /\ n.means = m.means
    BY <1>m DEF WrittenAs, Message, c
  <2>2. InPlace(p, Len(inbound[p]) + 1, n)
    BY DEF c
  <2> HIDE DEF n
  <2> QED BY <2>1, <2>2 DEF InPlace, First, IsRequest, Answers, Follows
<1>4. p \in Ends /\ p # e /\ \A k \in Ends : k = e \/ k = p
  BY DEF PeerOf, Ends
<1> HIDE DEF p
<1>5. /\ scope' \in [Ends -> [kind : RequestKinds \cup {"none"}, requester : BOOLEAN, answered : BOOLEAN]]
      /\ \A k \in Ends : scope'[k].kind = scope[k].kind /\ scope'[k].requester = scope[k].requester
      /\ scope'["requester"].answered = scope["requester"].answered
      /\ scope'["responder"].answered =
           (scope["responder"].answered \/ (e = "responder" /\ IsAnswer(type)))
  BY <1>1, <1>2 DEF ExchangeTypeOK, Ends, IsAnswer
<1>6. inbound \in [Ends -> Seq(Messages \cup {Fin})]
  BY <1>1 DEF ExchangeTypeOK
<1>7. inbound' = inbound \/ \E x \in {<<m>>, <<m, Fin>>} :
                             /\ inbound'[p] = inbound[p] \o x /\ inbound'[e] = inbound[e]
                             /\ inbound' \in [Ends -> Seq(Messages \cup {Fin})]
                             /\ m \in Messages /\ Sound(m)
  <2> SUFFICES ASSUME Allowed(e, type, pp)
               PROVE  \E x \in {<<m>>, <<m, Fin>>} :
                             /\ inbound'[p] = inbound[p] \o x /\ inbound'[e] = inbound[e]
                             /\ inbound' \in [Ends -> Seq(Messages \cup {Fin})]
                             /\ m \in Messages /\ Sound(m)
    BY <1>2
  <2>1. PICK x \in {<<m>>, <<m, Fin>>} : inbound' = [inbound EXCEPT ![p] = @ \o x]
    BY <1>2
  <2>2. inbound[p] \o x \in Seq(Messages \cup {Fin})
    <3>1. m \in Messages /\ inbound[p] \in Seq(Messages \cup {Fin})
      BY <1>2, <1>4, <1>6
    <3> QED BY <3>1, Appended
  <2> QED BY <1>2, <1>4, <1>6, <2>1, <2>2
<1>8. Allowed(e, type, pp) =>
        /\ inbound'[p] # <<>>
        /\ inbound'[p][1] = IF inbound[p] = <<>> THEN m ELSE inbound[p][1]
  <2> SUFFICES ASSUME Allowed(e, type, pp)
               PROVE  /\ inbound'[p] # <<>>
                      /\ inbound'[p][1] = IF inbound[p] = <<>> THEN m ELSE inbound[p][1]
    OBVIOUS
  <2>1. PICK x \in {<<m>>, <<m, Fin>>} : inbound' = [inbound EXCEPT ![p] = @ \o x]
    BY <1>2
  <2>2. inbound'[p] = inbound[p] \o x
    BY <1>4, <1>6, <2>1
  <2> QED BY <1>2, <1>4, <1>6, <2>2, Appended
<1>9. ExchangeTypeOK'
  BY <1>1, <1>5, <1>6, <1>7 DEF ExchangeTypeOK
<1>10. Scopes'
  BY <1>1, <1>5 DEF Scopes, Kind, Ends
<1>11. Claims'
  <2>1. claimed' # "no"
    OBVIOUS
  <2>2. ASSUME claimed' = "accepted" PROVE scope'["responder"].answered
    BY <1>1, <1>5, <2>2 DEF Claims
  <2>3. ASSUME claimed' = "accepted", Kind' # "TrackStatus", ~scope'["requester"].answered
        PROVE  inbound'["requester"] # <<>> /\ inbound'["requester"][1] # Fin
    <3>1. CASE claimed = "accepted"
      <4>1. inbound["requester"] # <<>> /\ inbound["requester"][1] # Fin
        BY <1>1, <1>5, <2>3, <3>1 DEF Claims, Kind
      <4>2. CASE inbound'["requester"] = inbound["requester"]
        BY <4>1, <4>2
      <4>3. CASE p = "requester" /\ Allowed(e, type, pp)
        BY <1>8, <4>1, <4>3
      <4> QED BY <1>2, <1>4, <1>6, <4>2, <4>3 DEF Ends
    <3>2. CASE claimed = "no"
      <4>1. p = "requester" /\ Allowed(e, type, pp) /\ inbound["requester"] = <<>>
        BY <1>1, <2>3, <3>2 DEF Claims, p, PeerOf
      <4> QED BY <1>2, <1>8, <4>1, MessageFields
    <3> QED BY <3>1, <3>2
  <2> QED BY <2>1, <2>2, <2>3 DEF Claims
<1>12. Updates'
  <2> SUFFICES ASSUME claimed' # "accepted" \/ Kind = "TrackStatus", NEW k \in Ends
               PROVE  /\ owed'[k] = 0
                      /\ \A i \in DOMAIN inbound'[k] : inbound'[k][i].type # "RequestUpdate"
    BY DEF Updates, Kind
  <2>1. type # "RequestUpdate"
    OBVIOUS
  <2>2. owed[k] = 0 /\ \A i \in DOMAIN inbound[k] : inbound[k][i].type # "RequestUpdate"
    BY <1>1 DEF Updates
  <2>3. ASSUME NEW i \in DOMAIN inbound'[k] PROVE inbound'[k][i].type # "RequestUpdate"
    <3>1. CASE inbound'[k] = inbound[k]
      BY <2>2, <3>1
    <3>2. ASSUME k = p, NEW x \in {<<m>>, <<m, Fin>>}, inbound'[p] = inbound[p] \o x, m \in Messages
          PROVE  inbound'[k][i].type # "RequestUpdate"
      <4>1. \/ i \in DOMAIN inbound[p] /\ inbound'[p][i] = inbound[p][i]
            \/ inbound'[p][i] = m
            \/ inbound'[p][i] = Fin
        <5>1. m \in Messages /\ inbound[p] \in Seq(Messages \cup {Fin})
          BY <1>4, <1>6, <3>2
        <5> QED BY <3>2, <5>1, Appended
      <4> QED BY <1>3, <2>1, <2>2, <3>2, <4>1 DEF Fin
    <3> QED BY <1>4, <1>7, <3>1, <3>2
  <2> QED BY <2>2, <2>3
<1>13. \A k \in Ends : Awaited(k)' = Awaited(k)
  BY <1>5 DEF Awaited, Ends
<1>14. \A k \in Ends : Coming(k)'
  <2> SUFFICES ASSUME NEW k \in Ends PROVE Coming(k)'
    OBVIOUS
  <2>1. CASE inbound'[k] = inbound[k]
    BY <1>1, <1>13, <2>1, ComingSame
  <2>2. ASSUME k = p, NEW x \in {<<m>>, <<m, Fin>>}, inbound'[p] = inbound[p] \o x, m \in Messages, Sound(m)
        PROVE  Coming(k)'
    BY <1>1, <1>13, <1>i, <2>2, ComingKept
  <2> QED BY <1>4, <1>7, <2>1, <2>2
<1>15. Calls' /\ ScopesAgree' /\ TakenAsMeant'
  BY DEF ExchangeIInv, Calls, ScopesAgree, TakenAsMeant, Kind
<1>16. Unopened'
  BY DEF Unopened
<1> QED BY <1>9, <1>10, <1>11, <1>12, <1>14, <1>15, <1>16 DEF ExchangeIInv

------------------------------------------------------------------------------
(* The steps. *)

LEMMA InitExchange == ExchangeInit => ExchangeIInv
<1> SUFFICES ASSUME ExchangeInit PROVE ExchangeIInv
  OBVIOUS
<1>1. ExchangeTypeOK
  BY StreamAssumption DEF ExchangeInit, ExchangeTypeOK, NewScope
<1>2. Unopened /\ Calls /\ ScopesAgree /\ TakenAsMeant
  BY DEF ExchangeInit, Unopened, Calls, ScopesAgree, TakenAsMeant
<1> QED BY <1>1, <1>2 DEF ExchangeInit, ExchangeIInv

LEMMA OpenIInv ==
  ASSUME ExchangeIInv, NEW kd \in RequestKinds, NEW pp \in ParameterBlocks, Open(kd, pp)
  PROVE  ExchangeIInv'
<1> DEFINE c == <<"request", kd>>
<1>1. /\ ExchangeTypeOK /\ failed = <<>> /\ request = <<>>
      /\ scope = [e \in Ends |-> NewScope] /\ inbound = [e \in Ends |-> <<>>]
      /\ owed = [e \in Ends |-> 0] /\ claimed = "no"
  BY DEF ExchangeIInv, Open, MayWrite, Unopened
<1>2. request' \in {<<q>> : q \in [kind : RequestKinds, include : BOOLEAN]} /\ Kind' = kd
  BY DEF Open, Kind
<1> DEFINE check == Checked(NewScope, kd, pp, TRUE)
<1>4. /\ check.state = [kind |-> kd, requester |-> TRUE, answered |-> FALSE]
      /\ check.context = c
      /\ check.ok = CheckParameters(c, pp)
  BY DEF Checked, NewScope, ContextOf, OkContext, RequestKinds
<1> HIDE DEF check
<1>5. check.ok /\ Encodable(kd, pp) /\ Write("requester", kd, pp, "request", FALSE)
  BY DEF Open, check, MayWrite
<1>6. scope["requester"] = NewScope /\ Allowed("requester", kd, pp)
  BY <1>1, <1>5 DEF Allowed, check, Ends
<1>7. scope' = [scope EXCEPT !["requester"] = [kind |-> kd, requester |-> TRUE, answered |-> FALSE]]
  BY <1>4, <1>5, <1>6 DEF Write, check
<1>m. PICK m : /\ \E long \in BOOLEAN : m = Message(kd, pp, c, "request", long)
               /\ inbound' = [inbound EXCEPT !["responder"] = @ \o <<m>>]
  BY <1>4, <1>5, <1>6 DEF Write, check, PeerOf
<1>8. inbound' = [inbound EXCEPT !["responder"] = <<m>>]
  BY <1>1, <1>m DEF Ends
<1>9. m \in Messages
  BY <1>m DEF Messages, MessageTypes, Contexts
<1>10. Sound(m) /\ m.type = kd /\ m.sentAs = c /\ m.means = "request"
  BY <1>4, <1>5, <1>m DEF Message, Sound
<1>11. /\ scope' \in [Ends -> [kind : RequestKinds \cup {"none"}, requester : BOOLEAN, answered : BOOLEAN]]
       /\ scope'["requester"].kind = kd /\ scope'["requester"].requester /\ ~scope'["requester"].answered
       /\ scope'["responder"] = NewScope
  BY <1>1, <1>7 DEF Ends, NewScope
<1>12. inbound' \in [Ends -> Seq(Messages \cup {Fin})]
       /\ inbound'["requester"] = <<>> /\ inbound'["responder"] = <<m>>
  <2>1. <<m>> \in Seq(Messages \cup {Fin})
    BY <1>9
  <2> QED BY <1>1, <1>8, <2>1 DEF Ends, ExchangeTypeOK
<1>13. ExchangeTypeOK'
  BY <1>1, <1>2, <1>11, <1>12 DEF ExchangeTypeOK, Open
<1>14. Scopes'
  BY <1>1, <1>2, <1>9, <1>11, <1>12, MessageFields DEF Scopes, NewScope, Open
<1>15. Claims' /\ Updates'
  <2>1. claimed' = "no" /\ owed' = owed
    BY <1>1 DEF Open
  <2>2. m.type # "RequestUpdate"
    BY <1>10 DEF RequestKinds
  <2> QED BY <1>1, <1>11, <1>12, <2>1, <2>2 DEF Claims, Updates, Ends, NewScope
<1>16. \A e \in Ends : Coming(e)'
  <2>1. Sound(m)'
    BY <1>10 DEF Sound, Encodable, CheckParameters, Open
  <2>2. InPlace("responder", 1, m)'
    BY <1>2, <1>10, <1>11 DEF InPlace, Awaited, First, IsRequest, NewScope
  <2> QED BY <1>12, <2>1, <2>2 DEF Coming, Ends
<1>17. Calls' /\ ScopesAgree' /\ TakenAsMeant' /\ request' # <<>>
  BY <1>2 DEF ExchangeIInv, Open, Calls, ScopesAgree, TakenAsMeant
<1> QED BY <1>13, <1>14, <1>15, <1>16, <1>17 DEF ExchangeIInv, Unopened

LEMMA AcceptIInv ==
  ASSUME ExchangeIInv, NEW pp \in ParameterBlocks, Accept(pp)
  PROVE  ExchangeIInv'
<1>1. failed = <<>> /\ ExchangeTypeOK /\ scope["responder"].kind # "none" /\ claimed = "no"
  BY DEF Accept, MayWrite, ExchangeIInv
<1>2. request # <<>> /\ Scopes /\ Claims
  BY <1>1 DEF ExchangeIInv, Unopened, Ends, NewScope
<1>r. CASE claimed' = "refused" /\ UNCHANGED <<scope, inbound, sendDone, sentCount>>
  <2>1. UNCHANGED <<negotiated, request, scope, inbound, owed, call, lastRead, failed>>
    BY <1>r DEF Accept, OtherVars
  <2>2. \A e \in Ends : Coming(e)'
    <3>1. \A e \in Ends : Coming(e) /\ Awaited(e)' = Awaited(e)
      BY <1>1, <1>2, <2>1 DEF ExchangeIInv, Awaited
    <3> QED BY <2>1, <3>1, ComingSame
  <2>3. ExchangeTypeOK' /\ Scopes' /\ Claims' /\ Updates'
    BY <1>1, <1>2, <1>r, <2>1 DEF ExchangeIInv, ExchangeTypeOK, Scopes, Claims, Updates, Kind
  <2>4. Unopened' /\ Calls' /\ ScopesAgree' /\ TakenAsMeant'
    BY <1>2, <2>1 DEF ExchangeIInv, Unopened, Calls, ScopesAgree, TakenAsMeant, Kind
  <2> QED BY <2>2, <2>3, <2>4 DEF ExchangeIInv
<1> SUFFICES ASSUME MayWrite("responder", AnswerType, pp),
                    Write("responder", AnswerType, pp, "request", Kind = "TrackStatus"),
                    claimed' = IF Allowed("responder", AnswerType, pp) THEN "accepted" ELSE "refused"
             PROVE  ExchangeIInv'
  BY <1>r DEF Accept
<1>3. Kind \in RequestKinds /\ scope["responder"].kind = Kind /\ ~scope["responder"].answered
      /\ ~scope["requester"].answered /\ inbound["requester"] = <<>>
  BY <1>1, <1>2 DEF Scopes, Claims, Ends, ExchangeTypeOK, Kind
<1>4. AnswerType \in MessageTypes /\ IsAnswer(AnswerType) /\ AnswerType # "RequestUpdate"
  BY <1>3 DEF AnswerType, MessageTypes, IsAnswer, RequestKinds
<1>5. ContextOf(scope["responder"], AnswerType, FALSE) = <<"answer", Kind>>
  BY <1>3 DEF ContextOf, OkContext, AnswerType, RequestKinds
<1>6. InPlace("requester", 1, Message(AnswerType, pp, <<"answer", Kind>>, "request", FALSE))
  BY <1>3 DEF InPlace, Awaited, First, Answers, Message
<1>7. /\ MayWrite("responder", AnswerType, pp)
      /\ Write("responder", AnswerType, pp, "request", Kind = "TrackStatus")
      /\ claimed' = IF Allowed("responder", AnswerType, pp) THEN "accepted" ELSE "refused"
      /\ UNCHANGED <<negotiated, request, call, lastRead, failed, owed>>
  BY DEF Accept, OtherVars
<1>8. InPlace(PeerOf("responder"), Len(inbound[PeerOf("responder")]) + 1,
              Message(AnswerType, pp, ContextOf(scope["responder"], AnswerType, "responder" = "requester"),
                      "request", FALSE))
  <2>1. PeerOf("responder") = "requester" /\ ("responder" = "requester") = FALSE
    BY DEF PeerOf
  <2>2. Len(inbound["requester"]) + 1 = 1
    BY <1>3
  <2> QED BY <1>5, <1>6, <2>1, <2>2
<1>9. owed' \in [Ends -> Nat] /\ \A k \in Ends : owed[k] = 0 => owed'[k] = 0
  BY <1>1, <1>7 DEF ExchangeTypeOK
<1> QED BY <1>1, <1>2, <1>4, <1>7, <1>8, <1>9, WriteIInv DEF Ends

LEMMA RejectIInv == ASSUME ExchangeIInv, Reject PROVE ExchangeIInv'
<1>1. failed = <<>> /\ ExchangeTypeOK /\ scope["responder"].kind # "none" /\ claimed = "no"
  BY DEF Reject, MayWrite, ExchangeIInv
<1>2. request # <<>> /\ Scopes /\ Claims
  BY <1>1 DEF ExchangeIInv, Unopened, Ends, NewScope
<1>3. ~scope["requester"].answered /\ inbound["requester"] = <<>>
  BY <1>1, <1>2 DEF Claims, Ends
<1>4. "RequestError" \in MessageTypes /\ <<>> \in ParameterBlocks
  BY DEF MessageTypes, ParameterBlocks
<1>5. ContextOf(scope["responder"], "RequestError", FALSE) = NoContext
  BY DEF ContextOf, RequestKinds
<1>6. InPlace("requester", 1, Message("RequestError", <<>>, NoContext, "request", FALSE))
  BY <1>3 DEF InPlace, Awaited, First, Answers, Message
<1>7. /\ MayWrite("responder", "RequestError", <<>>)
      /\ Write("responder", "RequestError", <<>>, "request", TRUE)
      /\ claimed' = "rejected"
      /\ UNCHANGED <<negotiated, request, call, lastRead, failed, owed>>
  BY DEF Reject, OtherVars
<1>8. InPlace(PeerOf("responder"), Len(inbound[PeerOf("responder")]) + 1,
              Message("RequestError", <<>>, ContextOf(scope["responder"], "RequestError", "responder" = "requester"),
                      "request", FALSE))
  <2>1. PeerOf("responder") = "requester" /\ ("responder" = "requester") = FALSE
    BY DEF PeerOf
  <2>2. Len(inbound["requester"]) + 1 = 1
    BY <1>3
  <2> QED BY <1>5, <1>6, <2>1, <2>2
<1>9. owed' \in [Ends -> Nat] /\ \A k \in Ends : owed[k] = 0 => owed'[k] = 0
  BY <1>1, <1>7 DEF ExchangeTypeOK
<1> QED BY <1>1, <1>2, <1>4, <1>7, <1>8, <1>9, WriteIInv DEF Ends

\* Any message after the answer, from either end.
LEMMA LaterWrite ==
  ASSUME ExchangeIInv, request # <<>>, claimed = "accepted", Kind # "TrackStatus",
         NEW e \in Ends, NEW pp \in ParameterBlocks,
         NEW type, NEW means,
         \/ type \in {"RequestOk", "RequestError", "RequestUpdate"} /\ means = "update"
         \/ type = "PublishStateNotify" /\ means = "notify",
         MayWrite(e, type, pp), Write(e, type, pp, means, FALSE),
         owed' \in [Ends -> Nat], \A k \in Ends : owed[k] = 0 => owed'[k] = 0,
         UNCHANGED <<claimed, negotiated, request, call, lastRead, failed>>
  PROVE  ExchangeIInv'
<1> DEFINE c == ContextOf(scope[e], type, e = "requester")
           m == Message(type, pp, c, means, FALSE)
<1>1. failed = <<>> /\ ExchangeTypeOK /\ Scopes /\ Claims
  BY DEF MayWrite, ExchangeIInv
<1>2. scope["responder"].kind # "none" /\ scope["responder"].answered /\ scope[e].kind # "none"
  BY <1>1 DEF Scopes, Claims, Ends, ExchangeTypeOK, Kind, RequestKinds
<1>3. type \in MessageTypes /\ means \in {"request", "update", "notify"}
  BY DEF MessageTypes
<1>4. Follows(m)
  <2>1. m.type = type /\ m.sentAs = c /\ m.means = means
    BY DEF Message
  <2>2. /\ type = "RequestOk" => c = UpdateOk
        /\ type = "RequestError" => c = NoContext
        /\ type = "RequestUpdate" => c = <<"update", Kind>>
        /\ type = "PublishStateNotify" => c = <<"notify", "none">>
    BY <1>1, <1>2, FollowingContext
  <2> HIDE DEF m, c
  <2> QED BY <2>1, <2>2 DEF Follows
<1>5. InPlace(PeerOf(e), Len(inbound[PeerOf(e)]) + 1, m)
  <2>1. CASE e = "requester"
    BY <1>2, <1>4, <2>1 DEF InPlace, Awaited, PeerOf
  <2>2. CASE e = "responder"
    <3>1. scope["requester"].answered \/ inbound["requester"] # <<>>
      BY <1>1 DEF Claims
    <3>2. inbound["requester"] \in Seq(Messages \cup {Fin})
      BY <1>1 DEF ExchangeTypeOK, Ends
    <3>3. scope["requester"].answered \/ Len(inbound["requester"]) + 1 # 1
      BY <3>1, <3>2
    <3> QED BY <1>4, <2>2, <3>3 DEF InPlace, Awaited, PeerOf
  <2> QED BY <2>1, <2>2 DEF Ends
<1> QED BY <1>1, <1>2, <1>3, <1>5, WriteIInv


\* An end takes a message for what its sender sent it as.
LEMMA ReadContext ==
  ASSUME ExchangeTypeOK, request # <<>>, Scopes, NEW e \in Ends, NEW m \in Messages, NEW pp,
         InPlace(e, 1, m),
         NEW check, check = Checked(scope[e], m.type, pp, FALSE),
         NEW asked, asked = Kind
  PROVE  /\ check.context = m.sentAs
         /\ (check.ok <=> CheckParameters(m.sentAs, pp))
         /\ (check.state.requester <=> (e = "requester"))
         /\ check.state \in [kind : {asked}, requester : BOOLEAN, answered : BOOLEAN]
<1> DEFINE opened == IF scope[e].kind # "none" THEN scope[e]
                     ELSE [scope[e] EXCEPT !.kind = m.type, !.requester = FALSE]
<1>1. Kind \in RequestKinds /\ "none" \notin RequestKinds /\ Kind # "none"
  BY DEF ExchangeTypeOK, Kind, RequestKinds
<1>2. /\ scope[e] \in [kind : RequestKinds \cup {"none"}, requester : BOOLEAN, answered : BOOLEAN]
      /\ scope[e].kind \in {"none", Kind}
      /\ scope[e].kind = "none" => e = "responder" /\ m.type = Kind
      /\ scope[e].kind # "none" => (scope[e].requester <=> (e = "requester"))
  BY <1>1 DEF ExchangeTypeOK, Scopes, InPlace, Awaited, First, IsRequest, Ends
<1>3. /\ opened \in [kind : RequestKinds, requester : BOOLEAN, answered : BOOLEAN]
      /\ opened.kind = Kind /\ (opened.requester <=> (e = "requester"))
      /\ opened.answered = scope[e].answered
  BY <1>1, <1>2 DEF Ends
<1>4. /\ check.state = [opened EXCEPT !.answered = @ \/ (~(FALSE = opened.requester) /\ IsAnswer(m.type))]
      /\ check.context = ContextOf(opened, m.type, FALSE = opened.requester)
      /\ check.ok <=> CheckParameters(ContextOf(opened, m.type, FALSE = opened.requester), pp)
  BY DEF Checked
<1> HIDE DEF opened
<1>5. (FALSE = opened.requester) = (e = "responder")
  BY <1>3 DEF Ends
<1>6. (~(e = "responder")) = (e = "requester")
  BY DEF Ends
<1>7. /\ check.state = [opened EXCEPT !.answered = @ \/ (e = "requester" /\ IsAnswer(m.type))]
      /\ check.context = ContextOf(opened, m.type, e = "responder")
      /\ check.ok <=> CheckParameters(ContextOf(opened, m.type, e = "responder"), pp)
  BY <1>4, <1>5, <1>6
<1>8. ContextOf(opened, m.type, e = "responder") = m.sentAs
  <2>1. CASE e = "responder" /\ IsRequest(m)
    BY <1>1, <2>1 DEF ContextOf, IsRequest, RequestKinds
  <2>2. CASE e = "requester" /\ Answers(m) /\ ~scope[e].answered
    BY <1>1, <1>3, <2>2 DEF ContextOf, OkContext, Answers, AnswerType, RequestKinds
  <2>3. CASE Follows(m) /\ (e = "requester" => scope[e].answered)
    BY <1>1, <1>3, <2>3 DEF ContextOf, OkContext, Follows, RequestKinds, Ends
  <2> QED BY <2>1, <2>2, <2>3 DEF InPlace, Awaited, First, Ends
<1>9. /\ (check.state.requester <=> (e = "requester"))
      /\ check.state \in [kind : {asked}, requester : BOOLEAN, answered : BOOLEAN]
  BY <1>3, <1>7
<1> QED BY <1>7, <1>8, <1>9

\* An end that reads counts the answer as it passes.
LEMMA ReadAnswered ==
  ASSUME ExchangeTypeOK, request # <<>>, Scopes, NEW e \in Ends, NEW type, NEW pp,
         NEW check, check = Checked(scope[e], type, pp, FALSE)
  PROVE  check.state.answered <=> scope[e].answered \/ (e = "requester" /\ IsAnswer(type))
<1>1. /\ scope[e] \in [kind : RequestKinds \cup {"none"}, requester : BOOLEAN, answered : BOOLEAN]
      /\ scope[e].kind = "none" => e = "responder"
      /\ scope[e].kind # "none" => (scope[e].requester <=> (e = "requester"))
  BY DEF ExchangeTypeOK, Scopes, Ends, Kind, RequestKinds
<1> QED BY <1>1 DEF Checked, Ends

\* Only a duplicate or a long field makes what is read fail.
LEMMA OnlyUncheckedFails ==
  ASSUME NEW m \in Messages, Sound(m),
         LET read == FromDeltas(m.block)
         IN Malformed(m.type, read, m.long) \/ ~CheckParameters(m.sentAs, read)
  PROVE  Duplicated(FromDeltas(m.block)) \/ m.long
<1> DEFINE read == FromDeltas(m.block)
<1>1. m.pp \in ParameterBlocks /\ read = FromDeltas(AsDeltas(m.pp))
  BY MessageFields
<1>2. /\ \A registry : Known(m.pp, registry) => Known(read, registry)
      /\ \A v : Registered(m.pp, v) => Registered(read, v)
  BY <1>1, BlockRead
<1> HIDE DEF read
<1>3. CheckParameters(m.sentAs, read)
  BY <1>2 DEF Sound, CheckParameters
<1>4. InDraft(m.type, negotiated) /\ Registered(read, negotiated)
  BY <1>2 DEF Sound, Encodable
<1>5. Malformed(m.type, read, m.long)
  BY <1>3 DEF read
<1>6. Duplicated(read) \/ m.long
  BY <1>4, <1>5 DEF Malformed
<1> QED BY <1>6 DEF read


LEMMA ReadIInv == ASSUME ExchangeIInv, NEW e \in Ends, Read(e) PROVE ExchangeIInv'
<1> DEFINE s == inbound[e]
           m == Head(s)
           gotten == FromDeltas(m.block)
           result == Checked(scope[e], m.type, gotten, FALSE)
<1>1. failed = <<>> /\ s # <<>> /\ m # Fin
  BY DEF Read
<1>2. ExchangeTypeOK /\ Calls /\ TakenAsMeant
  BY DEF ExchangeIInv
<1>3. s \in Seq(Messages \cup {Fin})
  BY <1>2 DEF ExchangeTypeOK
<1>4. request # <<>>
  BY <1>1 DEF ExchangeIInv, Unopened
<1>5. Scopes /\ Claims /\ Updates /\ \A k \in Ends : Coming(k)
  BY <1>1, <1>4 DEF ExchangeIInv
<1>6. /\ 1 \in DOMAIN s /\ m = s[1]
      /\ Tail(s) \in Seq(Messages \cup {Fin})
      /\ \A i \in DOMAIN Tail(s) : i + 1 \in DOMAIN s /\ i \in Nat /\ i # 0 /\ Tail(s)[i] = s[i + 1]
  BY <1>1, <1>3
<1>7. m \in Messages
  BY <1>1, <1>3, <1>6
<1>8. Sound(m) /\ InPlace(e, 1, m)
  BY <1>1, <1>5, <1>6 DEF Coming
<1>9. /\ UNCHANGED <<negotiated, request, sendDone, sentCount, claimed>>
      /\ inbound' = [inbound EXCEPT ![e] = Tail(s)]
      /\ call' \in {call, Released}
  BY DEF Read, AfterViolation
<1>10. inbound' \in [Ends -> Seq(Messages \cup {Fin})] /\ inbound'[e] = Tail(s)
       /\ \A k \in Ends : k # e => inbound'[k] = inbound[k]
  BY <1>2, <1>6, <1>9 DEF ExchangeTypeOK
<1>11. Calls'
  BY <1>2, <1>9 DEF Calls, Released, Kind
<1> HIDE DEF m, gotten, result
<1>12. PICK asked : asked = Kind
  OBVIOUS
<1>13. /\ result.context = m.sentAs
       /\ (result.ok <=> CheckParameters(m.sentAs, gotten))
       /\ (result.state.requester <=> (e = "requester"))
       /\ (result.state.answered <=> scope[e].answered \/ (e = "requester" /\ IsAnswer(m.type)))
       /\ result.state \in [kind : {asked}, requester : BOOLEAN, answered : BOOLEAN]
  <2>1. result = Checked(scope[e], m.type, gotten, FALSE)
    BY DEF result
  <2>2. ExchangeTypeOK /\ Scopes /\ InPlace(e, 1, m)
    BY <1>2, <1>5, <1>8
  <2> HIDE DEF s
  <2>3. result.state.answered <=> scope[e].answered \/ (e = "requester" /\ IsAnswer(m.type))
    BY <1>4, <2>1, <2>2, ReadAnswered
  <2> QED BY <1>4, <1>7, <1>12, <2>1, <2>2, <2>3, ReadContext
<1>14. /\ result.state.kind = Kind
        /\ result.state \in [kind : RequestKinds, requester : BOOLEAN, answered : BOOLEAN]
  <2>1. Kind \in RequestKinds
    BY <1>2, <1>4 DEF ExchangeTypeOK, Kind
  <2>2. result.state.kind = asked
    BY <1>13
  <2> QED BY <1>13, <1>12, <2>1, <2>2
<1>15. scope' \in [Ends -> [kind : RequestKinds \cup {"none"}, requester : BOOLEAN, answered : BOOLEAN]]
  BY <1>2, <1>14 DEF Read, ExchangeTypeOK, m, gotten, result
<1>16. CASE Malformed(m.type, gotten, m.long) \/ ~result.ok
  <2>1. failed' = <<[pp |-> gotten, long |-> m.long]>> /\ UNCHANGED <<lastRead, owed>>
    BY <1>16 DEF Read, m, gotten, result
  <2>2. Duplicated(gotten) \/ m.long
    BY <1>7, <1>8, <1>13, <1>16, OnlyUncheckedFails DEF gotten
  <2>3. ScopesAgree' /\ failed' # <<>>
    BY <2>1, <2>2 DEF ScopesAgree
  <2>4. ExchangeTypeOK'
    BY <1>2, <1>9, <1>10, <1>15, <2>1 DEF ExchangeTypeOK
  <2> QED BY <1>2, <1>11, <2>1, <2>3, <2>4 DEF ExchangeIInv, TakenAsMeant
<1>17. CASE ~(Malformed(m.type, gotten, m.long) \/ ~result.ok)
  <2>1. /\ scope' = [scope EXCEPT ![e] = result.state]
        /\ lastRead' = <<[means |-> m.means, sentAs |-> m.sentAs,
                          readAs |-> result.context, sent |-> m.pp, got |-> gotten]>>
        /\ owed' = [owed EXCEPT ![e] = IF m.type = "RequestUpdate" THEN @ + 1 ELSE @]
        /\ failed' = failed
    BY <1>17 DEF Read, m, gotten, result
  <2>2. /\ scope'[e] = result.state
        /\ \A k \in Ends : k # e => scope'[k] = scope[k]
    BY <1>2, <2>1 DEF ExchangeTypeOK
  <2>3. ~Awaited(e)'
    <3>1. CASE e = "responder"
      BY <1>13, <1>14, <2>2, <3>1 DEF Awaited, RequestKinds
    <3>2. CASE e = "requester"
      <4>1. scope[e].answered \/ IsAnswer(m.type)
        BY <1>5, <1>8, <3>2 DEF InPlace, Awaited, First, Answers, IsAnswer, AnswerType
      <4> QED BY <1>13, <1>14, <2>2, <3>2, <4>1 DEF Awaited
    <3> QED BY <3>1, <3>2 DEF Ends
  <2>4. \A k \in Ends : k # e => Awaited(k)' = Awaited(k)
    BY <2>2 DEF Awaited, Ends
  <2>5. \A k \in Ends : Coming(k)'
    <3>1. \A k \in Ends : k # e => Coming(k)'
      BY <1>5, <1>9, <1>10, <2>4, ComingSame
    <3>2. Coming(e)'
      <4>1. \A k : Sound(k)' = Sound(k)
        BY <1>9 DEF Sound, Encodable, CheckParameters
      <4>2. \A k : Follows(k)' = Follows(k)
        BY <1>9 DEF Follows, Kind
      <4>3. ASSUME NEW i \in DOMAIN Tail(s), Tail(s)[i] # Fin
            PROVE  Sound(Tail(s)[i]) /\ Follows(Tail(s)[i])
        BY <1>5, <1>6, <4>3 DEF Coming, InPlace
      <4> QED BY <1>10, <2>3, <4>1, <4>2, <4>3 DEF Coming, InPlace
    <3> QED BY <3>1, <3>2
  <2>6. owed' \in [Ends -> Nat]
    BY <1>2, <2>1 DEF ExchangeTypeOK
  <2>7. ExchangeTypeOK'
    BY <1>2, <1>9, <1>10, <1>15, <2>6 DEF ExchangeTypeOK
  <2>8. Scopes'
    <3>1. CASE e = "responder"
      BY <1>4, <1>5, <1>9, <1>13, <1>14, <2>2, <3>1 DEF Scopes, Ends, Kind, RequestKinds
    <3>2. CASE e = "requester"
      BY <1>4, <1>5, <1>9, <1>10, <1>13, <1>14, <2>2, <3>2 DEF Scopes, Ends, Kind
    <3> QED BY <3>1, <3>2 DEF Ends
  <2>9. Claims'
    <3>1. CASE e = "responder"
      BY <1>5, <1>9, <1>10, <1>13, <1>14, <2>2, <3>1 DEF Claims, Ends, Kind
    <3>2. CASE e = "requester"
      <4>1. claimed # "no"
        BY <1>1, <1>5, <3>2 DEF Claims
      <4>2. scope'["requester"].answered
        BY <2>3, <3>2 DEF Awaited
      <4> QED BY <1>5, <1>9, <2>2, <3>2, <4>1, <4>2 DEF Claims, Ends
    <3> QED BY <3>1, <3>2 DEF Ends
  <2>10. Updates'
    <3> SUFFICES ASSUME claimed # "accepted" \/ Kind = "TrackStatus", NEW k \in Ends
                 PROVE  owed'[k] = 0 /\ \A i \in DOMAIN inbound'[k] : inbound'[k][i].type # "RequestUpdate"
      BY <1>9 DEF Updates, Kind
    <3>1. \A j \in Ends : owed[j] = 0 /\ \A i \in DOMAIN inbound[j] : inbound[j][i].type # "RequestUpdate"
      BY <1>5 DEF Updates
    <3>2. m.type # "RequestUpdate"
      BY <1>6, <3>1
    <3>3. owed'[k] = 0
      BY <1>2, <2>1, <3>1, <3>2 DEF ExchangeTypeOK
    <3>4. \A i \in DOMAIN Tail(s) : Tail(s)[i].type # "RequestUpdate"
      BY <1>6, <3>1
    <3> QED BY <1>10, <3>1, <3>3, <3>4
  <2>11. TakenAsMeant'
    <3>1. m.pp \in ParameterBlocks /\ m.block = AsDeltas(m.pp)
      BY <1>7, MessageFields
    <3>2. gotten = SortedByType(m.pp)
      BY <3>1, BlockRead DEF gotten
    <3>3. /\ m.sentAs[1] = "answer" => m.means = "request"
          /\ m.sentAs = UpdateOk => m.means = "update"
      BY <1>8 DEF InPlace, First, IsRequest, Answers, Follows, NoContext, UpdateOk
    <3> QED BY <1>13, <2>1, <3>2, <3>3 DEF TakenAsMeant
  <2>12. ScopesAgree' /\ request' # <<>>
    BY <1>1, <1>4, <1>9, <2>1 DEF ScopesAgree
  <2>13. Unopened'
    BY <2>12 DEF Unopened
  <2> QED BY <1>11, <2>5, <2>7, <2>8, <2>9, <2>10, <2>11, <2>12, <2>13 DEF ExchangeIInv
<1> QED BY <1>16, <1>17


LEMMA QuietIInv ==
  ASSUME ExchangeIInv, CloseRequest \/ Return \/ GiveUp \/ \E e \in Ends : ReadFin(e)
  PROVE  ExchangeIInv'
<1>1. ExchangeTypeOK /\ Calls /\ ScopesAgree /\ TakenAsMeant
  BY DEF ExchangeIInv
<1>2. UNCHANGED <<negotiated, request, scope, claimed, owed, lastRead, failed>>
  BY DEF CloseRequest, Return, GiveUp, ReadFin
<1>3. ScopesAgree' /\ TakenAsMeant'
  BY <1>1, <1>2 DEF ScopesAgree, TakenAsMeant
<1>4. Calls'
  BY <1>1 DEF Calls, CloseRequest, Return, GiveUp, ReadFin, Released, Kind
<1>5. request # <<>> \/ inbound' = inbound \/ failed # <<>>
  BY <1>1 DEF ExchangeIInv, Unopened, CloseRequest, Return, GiveUp, ReadFin, Calls, Fin
<1>6. /\ inbound' \in [Ends -> Seq(Messages \cup {Fin})]
      /\ failed = <<>> /\ request # <<>> => Claims'
      /\ \A k \in Ends : \A i \in DOMAIN inbound'[k] :
           \/ i \in DOMAIN inbound[k] /\ inbound'[k][i] = inbound[k][i]
           \/ inbound'[k][i] = Fin
      /\ scope["responder"].kind = "none" /\ failed = <<>> /\ request # <<>> =>
           /\ inbound'["responder"] # <<>> /\ inbound'["responder"][1] # Fin
           /\ \A i \in DOMAIN inbound'["responder"] : i > 1 => inbound'["responder"][i] = Fin
  <2>1. CASE Return
    BY <1>1, <2>1 DEF Return, ExchangeTypeOK, ExchangeIInv, Claims, Scopes, Kind
  <2>2. CASE GiveUp
    <3>1. Kind = "TrackStatus" /\ inbound' = [inbound EXCEPT !["requester"] = <<>>]
      BY <1>1, <2>2 DEF GiveUp, Calls
    <3>2. inbound' \in [Ends -> Seq(Messages \cup {Fin})] /\ inbound'["requester"] = <<>>
          /\ inbound'["responder"] = inbound["responder"]
      BY <1>1, <3>1 DEF ExchangeTypeOK, Ends
    <3>3. failed = <<>> /\ request # <<>> => Claims'
      BY <1>2, <3>1, <3>2 DEF ExchangeIInv, Claims, Kind
    <3> QED BY <3>2, <3>3 DEF ExchangeIInv, Scopes, Ends
  <2>3. CASE CloseRequest
    <3> DEFINE s == inbound["responder"]
    <3>1. s \in Seq(Messages \cup {Fin}) /\ inbound' = [inbound EXCEPT !["responder"] = Append(s, Fin)]
      BY <1>1, <2>3 DEF CloseRequest, ExchangeTypeOK, Ends
    <3>2. /\ Append(s, Fin) \in Seq(Messages \cup {Fin}) /\ Append(s, Fin) # <<>>
          /\ \A i \in DOMAIN Append(s, Fin) :
               \/ i \in DOMAIN s /\ Append(s, Fin)[i] = s[i]
               \/ Append(s, Fin)[i] = Fin
          /\ s # <<>> => Append(s, Fin)[1] = s[1]
      <4> DEFINE fin == Fin
                 S == Messages \cup {fin}
      <4>1. s \in Seq(S) /\ fin \in S
        BY <3>1
      <4> HIDE DEF s, fin, S
      <4>2. /\ Append(s, fin) \in Seq(S) /\ Append(s, fin) # <<>>
            /\ \A i \in DOMAIN Append(s, fin) :
                 \/ i \in DOMAIN s /\ Append(s, fin)[i] = s[i]
                 \/ Append(s, fin)[i] = fin
            /\ s # <<>> => Append(s, fin)[1] = s[1]
        BY <4>1
      <4> QED BY <4>2 DEF fin, S
    <3>3. inbound' \in [Ends -> Seq(Messages \cup {Fin})]
          /\ inbound'["responder"] = Append(s, Fin) /\ inbound'["requester"] = inbound["requester"]
      BY <1>1, <3>1, <3>2 DEF ExchangeTypeOK, Ends
    <3>4. failed = <<>> /\ request # <<>> => Claims'
      BY <1>2, <3>3 DEF ExchangeIInv, Claims, Kind
    <3> QED BY <3>2, <3>3, <3>4 DEF ExchangeIInv, Scopes, Ends
  <2>4. ASSUME NEW e \in Ends, ReadFin(e)
        PROVE  /\ inbound' \in [Ends -> Seq(Messages \cup {Fin})]
               /\ failed = <<>> /\ request # <<>> => Claims'
               /\ \A k \in Ends : \A i \in DOMAIN inbound'[k] :
                    \/ i \in DOMAIN inbound[k] /\ inbound'[k][i] = inbound[k][i]
                    \/ inbound'[k][i] = Fin
               /\ scope["responder"].kind = "none" /\ failed = <<>> /\ request # <<>> =>
                    /\ inbound'["responder"] # <<>> /\ inbound'["responder"][1] # Fin
                    /\ \A i \in DOMAIN inbound'["responder"] : i > 1 => inbound'["responder"][i] = Fin
    <3>1. inbound[e] = <<Fin>> /\ inbound' = [inbound EXCEPT ![e] = <<>>]
      BY <2>4 DEF ReadFin
    <3>2. inbound' \in [Ends -> Seq(Messages \cup {Fin})] /\ inbound'[e] = <<>>
          /\ \A k \in Ends : k # e => inbound'[k] = inbound[k]
      BY <1>1, <3>1 DEF ExchangeTypeOK, Ends
    <3>3. 1 \in DOMAIN inbound[e] /\ inbound[e][1] = Fin
      BY <3>1
    <3>4. failed = <<>> /\ request # <<>> => Claims'
      BY <1>2, <3>2, <3>3 DEF ExchangeIInv, Claims, Kind, Ends
    <3>5. scope["responder"].kind = "none" /\ failed = <<>> /\ request # <<>> => e # "responder"
      BY <3>3 DEF ExchangeIInv, Scopes
    <3> QED BY <3>2, <3>4, <3>5 DEF ExchangeIInv, Scopes, Ends
  <2> QED BY <2>1, <2>2, <2>3, <2>4
<1>7. failed = <<>> /\ request # <<>> => Scopes' /\ Updates' /\ \A k \in Ends : Coming(k)'
  <2> SUFFICES ASSUME failed = <<>>, request # <<>> PROVE Scopes' /\ Updates' /\ \A k \in Ends : Coming(k)'
    OBVIOUS
  <2>1. Scopes /\ Updates /\ \A k \in Ends : Coming(k)
    BY DEF ExchangeIInv
  <2>2. Scopes'
    BY <1>2, <1>6, <2>1 DEF Scopes, Kind
  <2>3. Updates'
    BY <1>2, <1>6, <2>1 DEF Updates, Kind, Fin
  <2>4. \A k \in Ends : Coming(k)'
    <3>1. \A k : Sound(k)' = Sound(k)
      BY <1>2 DEF Sound, Encodable, CheckParameters
    <3>2. \A k, i, m : InPlace(k, i, m)' = InPlace(k, i, m)
      BY <1>2 DEF InPlace, Awaited, First, IsRequest, Answers, Follows, Kind, AnswerType
    <3> QED BY <1>6, <2>1, <3>1, <3>2 DEF Coming
  <2> QED BY <2>2, <2>3, <2>4
<1>8. failed = <<>> => Unopened'
  BY <1>2, <1>5 DEF ExchangeIInv, Unopened
<1>9. ExchangeTypeOK'
  BY <1>1, <1>2, <1>6 DEF ExchangeTypeOK
<1> QED BY <1>2, <1>3, <1>4, <1>6, <1>7, <1>8, <1>9 DEF ExchangeIInv

LEMMA ExchangeStep == ExchangeIInv /\ [ExchangeNext]_exchangeVars => ExchangeIInv'
<1> SUFFICES ASSUME ExchangeIInv, [ExchangeNext]_exchangeVars PROVE ExchangeIInv'
  OBVIOUS
<1>1. ExchangeTypeOK
  BY DEF ExchangeIInv
<1>2. ASSUME NEW pp \in ParameterBlocks, Update(pp) PROVE ExchangeIInv'
  BY <1>1, <1>2, LaterWrite DEF Update, Established, Updater, OtherVars, Ends, ExchangeTypeOK
<1>3. ASSUME NEW pp \in ParameterBlocks, Notify(pp) PROVE ExchangeIInv'
  <2> DEFINE publisher == PeerOf(IF Kind = "Publish" THEN "responder" ELSE "requester")
  <2>1. publisher \in Ends
    BY DEF PeerOf, Ends
  <2>2. /\ request # <<>> /\ claimed = "accepted" /\ Kind # "TrackStatus"
        /\ MayWrite(publisher, "PublishStateNotify", pp)
        /\ Write(publisher, "PublishStateNotify", pp, "notify", FALSE)
        /\ UNCHANGED <<claimed, owed, negotiated, request, call, lastRead, failed>>
    BY <1>3 DEF Notify, Established, OtherVars
  <2> HIDE DEF publisher
  <2> QED BY <1>1, <2>1, <2>2, LaterWrite DEF ExchangeTypeOK
<1>4. ASSUME NEW e \in Ends, NEW pp \in ParameterBlocks, NEW type \in {"RequestOk", "RequestError"},
             AnswerUpdate(e, type, pp)
      PROVE  ExchangeIInv'
  <2>1. /\ owed[e] > 0 /\ MayWrite(e, type, pp) /\ Write(e, type, pp, "update", FALSE)
        /\ owed' = [owed EXCEPT ![e] = @ - 1]
        /\ UNCHANGED <<claimed, negotiated, request, call, lastRead, failed>>
    BY <1>4 DEF AnswerUpdate, OtherVars
  <2>2. owed[e] # 0 /\ owed \in [Ends -> Nat]
    BY <1>1, <2>1 DEF ExchangeTypeOK
  <2>3. request # <<>> /\ claimed = "accepted" /\ Kind # "TrackStatus"
    BY <2>1, <2>2 DEF ExchangeIInv, Unopened, Updates, MayWrite
  <2>4. owed' \in [Ends -> Nat] /\ \A k \in Ends : owed[k] = 0 => owed'[k] = 0
    BY <2>1, <2>2
  <2> QED BY <2>1, <2>3, <2>4, LaterWrite
<1>5. <<>> \in ParameterBlocks
  BY DEF ParameterBlocks
<1>6. CASE UNCHANGED exchangeVars
  <2>1. UNCHANGED <<negotiated, request, scope, inbound, sendDone, sentCount, claimed, owed, call, lastRead, failed>>
    BY <1>6 DEF exchangeVars
  <2> QED BY <2>1 DEF ExchangeIInv, ExchangeTypeOK, Unopened, Scopes, Claims, Updates, Coming, Calls,
              ScopesAgree, TakenAsMeant, Sound, Encodable, CheckParameters, InPlace, Awaited,
              First, IsRequest, Answers, Follows, Kind, AnswerType
<1> QED BY <1>2, <1>3, <1>4, <1>5, <1>6, OpenIInv, AcceptIInv, RejectIInv, ReadIInv, QuietIInv DEF ExchangeNext

LEMMA ExchangeInvariance == ExchangeSpec => []ExchangeIInv
<1> QED BY InitExchange, ExchangeStep, PTL DEF ExchangeSpec

\* A message its sender lets through costs the peer's session for a parameter given
\* twice or a field longer than the reader takes, and for nothing else: the reader
\* finds it in the context it was written in, however requests, answers and updates
\* cross (requestStream.write and readMessage, parameter_check.go).
THEOREM OnlyUncheckedFailsTheSession == ExchangeSpec => []ScopesAgree
<1>1. ExchangeIInv => ScopesAgree
  BY DEF ExchangeIInv
<1> QED BY <1>1, ExchangeInvariance, PTL

\* And it is taken for what it was meant: a REQUEST_OK for the request's answer or
\* for an update's, with the parameters given, in order of type (parameterScope).
THEOREM MessagesTakenAsMeant == ExchangeSpec => []TakenAsMeant
<1>1. ExchangeIInv => TakenAsMeant
  BY DEF ExchangeIInv
<1> QED BY <1>1, ExchangeInvariance, PTL
-----------------------------------------------------------------------------
(* Objects (DataStreams).                                                   *)

\* A block of Properties comes back sorted, and the ones there are stay there.
LEMMA BlocksRead ==
  ASSUME NEW pp \in Blocks
  PROVE  /\ FromDeltas(AsDeltas(pp)) = SortedByType(pp)
         /\ pp = <<>> => SortedByType(pp) = <<>>
         /\ pp # <<>> => AsDeltas(pp) # <<>>
<1>1. pp \in Seq([type : Nat, value : Nat])
  <2> DEFINE E == [type : Nat, value : Nat]
  <2>1. /\ KVP(PriorObjectIDGap, 0) \in E /\ KVP(PriorGroupIDGap, 1) \in E
        /\ KVP(ApplicationProperty, 1) \in E /\ KVP(ApplicationProperty, 0) \in E
        /\ KVP(ObjectDeliveryTimeout, 0) \in E /\ KVP(MaxCacheDuration, 0) \in E
        /\ KVP(MandatoryTrackProperty, 0) \in E
    BY DEF KVP, PriorObjectIDGap, PriorGroupIDGap, ApplicationProperty, ObjectDeliveryTimeout,
           MaxCacheDuration, MandatoryTrackProperty
  <2> DEFINE t == KVP(PriorObjectIDGap, 0)
             u == KVP(PriorGroupIDGap, 1)
             v == KVP(ApplicationProperty, 1)
             x == KVP(ApplicationProperty, 0)
             y == KVP(ObjectDeliveryTimeout, 0)
             z == KVP(MaxCacheDuration, 0)
             q == KVP(MandatoryTrackProperty, 0)
  <2>2. pp \in {<<>>, <<t, u>>, <<v, x>>, <<y>>, <<z>>, <<q>>}
    BY DEF Blocks
  <2> HIDE DEF E, t, u, v, x, y, z, q
  <2>3. {t, u, v, x, y, z, q} \subseteq E
    BY <2>1 DEF t, u, v, x, y, z, q
  <2>4. /\ <<>> \in Seq(E) /\ <<t, u>> \in Seq(E) /\ <<v, x>> \in Seq(E)
        /\ <<y>> \in Seq(E) /\ <<z>> \in Seq(E) /\ <<q>> \in Seq(E)
    BY <2>3
  <2>5. pp \in Seq(E)
    BY <2>2, <2>4
  <2> QED BY <2>5 DEF E
<1>2. DOMAIN SortedByType(pp) = DOMAIN pp /\ DOMAIN AsDeltas(pp) = DOMAIN pp
  BY DEF SortedByType, AsDeltas
<1>3. pp = <<>> => SortedByType(pp) = <<>>
  BY DEF SortedByType
<1>4. pp # <<>> => AsDeltas(pp) # <<>>
  BY <1>1, <1>2
<1> QED BY <1>1, <1>3, <1>4, DeltasRoundTrip

\* The type of a subgroup stream tells each of the header's fields.
LEMMA StreamTypeBits ==
  ASSUME NEW h \in OpenedHeaders
  PROVE  LET t == StreamType(h)
         IN /\ t \in 16 .. 127 /\ HasBit(t, 16) /\ ~HasBit(t, 128)
            /\ (t \div 2) % 4 = h.mode
            /\ HasBit(t, 1) = h.hasProperties /\ HasBit(t, 8) = h.endOfGroup
            /\ HasBit(t, 32) = h.defaultPriority /\ HasBit(t, 64) = h.firstObject
<1>1. /\ h.mode \in {1, 2} /\ h.hasProperties \in BOOLEAN /\ h.endOfGroup \in BOOLEAN
      /\ h.defaultPriority \in BOOLEAN /\ h.firstObject \in BOOLEAN
  BY DEF OpenedHeaders, Headers, Zero, FirstObject, Explicit
<1>2. ASSUME NEW a \in BOOLEAN, NEW b \in BOOLEAN, NEW c \in BOOLEAN, NEW d \in BOOLEAN, NEW m \in {1, 2}
      PROVE  LET t == 16 + Bit(a, 1) + 2 * m + Bit(b, 8) + Bit(c, 32) + Bit(d, 64)
             IN /\ t \in 16 .. 127 /\ HasBit(t, 16) /\ ~HasBit(t, 128)
                /\ (t \div 2) % 4 = m
                /\ HasBit(t, 1) = a /\ HasBit(t, 8) = b /\ HasBit(t, 32) = c /\ HasBit(t, 64) = d
  <2>1. CASE m = 1 BY <2>1 DEF Bit, HasBit
  <2>2. CASE m = 2 BY <2>2 DEF Bit, HasBit
  <2> QED BY <2>1, <2>2
<1> QED BY <1>1, <1>2 DEF StreamType

\* A header comes back as it went, without the priority it does not carry.
LEMMA HeaderRead ==
  ASSUME NEW h \in OpenedHeaders
  PROVE  ParseSubgroupHeader(AppendSubgroupHeader(h))
           = [ok |-> TRUE, header |-> [h EXCEPT !.priority = IF h.defaultPriority THEN 0 ELSE @]]
<1> DEFINE f == AppendSubgroupHeader(h)
<1>1. /\ f.type = StreamType(h) /\ f.group = h.group
      /\ f.subgroup = Option(h.mode = Explicit, h.subgroup)
      /\ f.priority = Option(~h.defaultPriority, h.priority)
  BY DEF AppendSubgroupHeader
<1>2. /\ h \in Headers /\ h.mode \in {FirstObject, Explicit} /\ (h.mode = FirstObject => h.subgroup = 0)
  BY DEF OpenedHeaders, Headers
<1>3. ClassifyStreamType(f.type) = "subgroup"
  BY <1>1, StreamTypeBits DEF ClassifyStreamType
<1>4. /\ Aligned(h.mode = Explicit, f.subgroup) /\ Aligned(~h.defaultPriority, f.priority)
      /\ h.mode = Explicit => f.subgroup[1] = h.subgroup
      /\ ~h.defaultPriority => f.priority[1] = h.priority
  BY <1>1, <1>2 DEF Aligned, Option, Headers
<1>5. ParseSubgroupHeader(f)
        = [ok |-> TRUE,
           header |-> [group |-> h.group, mode |-> h.mode, subgroup |-> h.subgroup,
                       priority |-> IF h.defaultPriority THEN 0 ELSE h.priority,
                       defaultPriority |-> h.defaultPriority, hasProperties |-> h.hasProperties,
                       endOfGroup |-> h.endOfGroup, firstObject |-> h.firstObject]]
  <2>1. /\ (f.type \div 2) % 4 = h.mode
        /\ HasBit(f.type, 1) = h.hasProperties /\ HasBit(f.type, 8) = h.endOfGroup
        /\ HasBit(f.type, 32) = h.defaultPriority /\ HasBit(f.type, 64) = h.firstObject
    BY <1>1, StreamTypeBits
  <2>2. (IF h.mode = Explicit THEN f.subgroup[1] ELSE 0) = h.subgroup
    BY <1>2, <1>4
  <2>3. (IF h.defaultPriority THEN 0 ELSE f.priority[1])
          = (IF h.defaultPriority THEN 0 ELSE h.priority)
    BY <1>4
  <2>4. h.mode \in {Zero, FirstObject, Explicit}
    BY <1>2
  <2> HIDE DEF f
  <2> QED BY <1>1, <1>3, <1>4, <2>1, <2>2, <2>3, <2>4 DEF ParseSubgroupHeader
<1>6. [h EXCEPT !.priority = IF h.defaultPriority THEN 0 ELSE @]
        = [group |-> h.group, mode |-> h.mode, subgroup |-> h.subgroup,
           priority |-> IF h.defaultPriority THEN 0 ELSE h.priority,
           defaultPriority |-> h.defaultPriority, hasProperties |-> h.hasProperties,
           endOfGroup |-> h.endOfGroup, firstObject |-> h.firstObject]
  BY <1>2 DEF Headers
<1> QED BY <1>5, <1>6

\* So does the type of a datagram, when it is not END_OF_GROUP with a status.
LEMMA DatagramTypeBits ==
  ASSUME NEW a \in BOOLEAN, NEW b \in BOOLEAN, NEW c \in BOOLEAN, NEW d \in BOOLEAN, NEW e \in BOOLEAN,
         ~(b /\ e)
  PROVE  LET t == Bit(a, 1) + Bit(b, 2) + Bit(c, 4) + Bit(d, 8) + Bit(e, 32)
         IN /\ t < 48 /\ ~HasBit(t, 16)
            /\ HasBit(t, 1) = a /\ HasBit(t, 2) = b /\ HasBit(t, 4) = c /\ HasBit(t, 8) = d
            /\ HasBit(t, 32) = e
BY DEF Bit, HasBit
LEMMA OptionRead ==
  ASSUME NEW present \in BOOLEAN, NEW v
  PROVE  /\ Aligned(present, Option(present, v))
         /\ present => Option(present, v)[1] = v
BY DEF Aligned, Option

\* What a reader of a FETCH puts together, once it has the fields.
LEMMA ObjectRead ==
  ASSUME NEW o \in FetchObjects, NEW s, NEW b
  PROVE  [o EXCEPT !.subgroup = s, !.properties = b]
           = [Object(o.group, s, o.object, o.priority, b, "Normal", FALSE, FALSE)
                EXCEPT !.datagram = o.datagram]
<1> DEFINE x == [o EXCEPT !.subgroup = s, !.properties = b]
           y == [Object(o.group, s, o.object, o.priority, b, "Normal", FALSE, FALSE)
                   EXCEPT !.datagram = o.datagram]
           A == {o.group}
           B == {s}
           C == {o.object}
           D == {o.priority}
           E == {b}
           F == {"Normal"}
           G == {FALSE}
           H == {o.datagram}
           I == {"None"}
           Records == [group : A, subgroup : B, object : C, priority : D, properties : E, status : F,
                       empty : G, endOfGroup : G, datagram : H, range : I]
<1>1. x \in Records
  BY DEF FetchObjects
<1>2. y \in Records
  <2>1. Object(o.group, s, o.object, o.priority, b, "Normal", FALSE, FALSE)
          \in [group : {o.group}, subgroup : {s}, object : {o.object}, priority : {o.priority},
              properties : {b}, status : {"Normal"}, empty : {FALSE}, endOfGroup : {FALSE},
              datagram : {FALSE}, range : {"None"}]
    BY DEF Object
  <2> QED BY <2>1
<1> HIDE DEF x, y
<1>3. /\ x.group = y.group /\ x.subgroup = y.subgroup /\ x.object = y.object /\ x.priority = y.priority
      /\ x.properties = y.properties /\ x.status = y.status /\ x.empty = y.empty
      /\ x.endOfGroup = y.endOfGroup /\ x.datagram = y.datagram /\ x.range = y.range
  BY <1>1, <1>2
<1>4. x = y
  <2> HIDE DEF A, B, C, D, E, F, G, H, I
  <2> QED BY <1>1, <1>2, <1>3
<1> QED BY <1>4 DEF x, y

(* The invariant: the frame in flight has been decided already.  What the   *)
(* reader will make of it, and the state it will be in after, are functions *)
(* of the frame and of r, and r does not change before it is read.          *)

\* The state a reader will be in once it has what is in flight agrees with the
\* writer's: in all that the next deltas and omissions refer to.
SubgroupAgrees(s) ==
  /\ s = [header |-> s.header, prev |-> w.prev, haveObject |-> w.haveObject]
  /\ s.header = [header EXCEPT !.subgroup = s.header.subgroup,
                               !.priority = IF header.defaultPriority THEN 0 ELSE @]
  /\ header.mode = Explicit => s.header.subgroup = header.subgroup
  /\ header.mode # Explicit /\ w.haveObject => s.header.subgroup = sent[1].subgroup

FetchAgrees(s) ==
  /\ s \in [group : IDs, object : IDs, havePrior : BOOLEAN, subgroup : Nat, priority : Nat,
            havePriorObject : BOOLEAN]
  /\ s.group = w.group /\ s.object = w.object /\ s.havePrior = w.havePrior
  /\ s.havePriorObject = (real # <<>>)
  /\ real # <<>> => s.subgroup = real[1].subgroup /\ s.priority = real[1].priority

Agrees(s) == CASE kind = "subgroup" -> SubgroupAgrees(s)
               [] kind = "datagram" -> s = r
               [] kind \in Fetches -> FetchAgrees(s)

\* What reading a frame comes to.
Reading(f) ==
  CASE kind = "subgroup" -> ReadSubgroupObject(f)
    [] kind = "datagram" -> ReadDatagram(f)
    [] kind \in Fetches -> IF f.range = "None" THEN ReadFetchObject(f) ELSE ReadFetchRange(f)

\* The frame in flight will be read as it was written, or refused for a Property.
TakenAsWritten(result) ==
  /\ sent # <<>>
  /\ \/ result.ok /\ result.object = sent[1] /\ Agrees(result.state)
     \/ ~result.ok /\ ~ValidateObjectProperties(sent[1].properties, draft)

HeaderInFlight ==
  /\ kind = "subgroup" /\ r = NewSubgroupState /\ frame = <<AppendSubgroupHeader(header)>>
  /\ w = [haveObject |-> FALSE, prev |-> 0] /\ sent = <<>> /\ got = <<>>

ObjectInFlight ==
  /\ kind = "subgroup" => r.header # NoHeader
  /\ got = <<>> /\ \E f : frame = <<f>> /\ TakenAsWritten(Reading(f))

AtRest ==
  /\ frame = <<>> /\ Agrees(r)
  /\ kind = "subgroup" => r.header # NoHeader
  /\ got # <<>> => got = sent

DataTypeOK ==
  /\ kind \in Fetches \cup {"subgroup", "datagram"}
  /\ draft \in {18, 22}
  /\ kind = "subgroup" => header \in OpenedHeaders /\ w \in [haveObject : BOOLEAN, prev : IDs]
  /\ kind \in Fetches => w \in [group : IDs, object : IDs, havePrior : BOOLEAN, subgroup : {0},
                                priority : {0}, havePriorObject : BOOLEAN]
  /\ real \in {<<>>} \cup {<<q>> : q \in [subgroup : {0, 1}, priority : Priorities]}
  /\ sent \in {<<>>} \cup {<<sent[1]>>}
  /\ refused \in BOOLEAN

DataIInv ==
  /\ DataTypeOK
  /\ IF refused THEN frame = <<>> /\ sent # <<>> /\ ~ValidateObjectProperties(sent[1].properties, draft)
                ELSE HeaderInFlight \/ ObjectInFlight \/ AtRest

LEMMA WriteSubgroupIInv ==
  ASSUME DataIInv, NEW o \in SubgroupObjects, WriteSubgroupObject(o)
  PROVE  DataIInv'
<1> DEFINE pp == SortedByType(o.properties)
           subgroup == IF header.mode = Explicit THEN header.subgroup
                       ELSE IF w.haveObject THEN sent[1].subgroup ELSE o.object
           priority == IF header.defaultPriority THEN DefaultPriority(track) ELSE header.priority
           record == Object(header.group, subgroup, o.object, priority, pp, o.status, o.empty,
                            header.endOfGroup)
           new == AppendSubgroupObject(o)
<1>1. /\ kind = "subgroup" /\ SubgroupWritable(o) /\ frame = <<>> /\ ~refused
      /\ frame' = <<new>> /\ sent' = <<record>> /\ got' = <<>>
      /\ UNCHANGED <<kind, draft, header, track, r, refused, real>>
      /\ w' = [haveObject |-> TRUE, prev |-> o.object]
  BY DEF WriteSubgroupObject, Writes
<1>2. DataTypeOK /\ AtRest
  BY <1>1 DEF DataIInv, HeaderInFlight, ObjectInFlight
<1>3. SubgroupAgrees(r) /\ r.header # NoHeader
  BY <1>1, <1>2 DEF AtRest, Agrees, Fetches
<1>4. header \in Headers /\ w \in [haveObject : BOOLEAN, prev : IDs]
  BY <1>1, <1>2 DEF DataTypeOK, OpenedHeaders
<1>5. /\ o.object \in IDs /\ o.properties \in Blocks /\ o.status \in Statuses /\ o.empty \in BOOLEAN
      /\ o.status # "Normal" => o.properties = <<>>
  BY DEF SubgroupObjects, Blocks, Statuses
<1>6. /\ FromDeltas(AsDeltas(o.properties)) = pp
      /\ o.properties = <<>> => pp = <<>>
  BY <1>5, BlocksRead
<1>7. /\ r.header.mode = header.mode /\ r.header.group = header.group
      /\ r.header.defaultPriority = header.defaultPriority
      /\ ~header.defaultPriority => r.header.priority = header.priority
      /\ r.header.hasProperties = header.hasProperties /\ r.header.endOfGroup = header.endOfGroup
      /\ r.haveObject = w.haveObject /\ r.prev = w.prev
      /\ header.hasProperties \in BOOLEAN /\ header.defaultPriority \in BOOLEAN
  <2>1. header \in [group : {1}, mode : {Zero, FirstObject, Explicit}, subgroup : {0, 2}, priority : {1},
                    defaultPriority : BOOLEAN, hasProperties : BOOLEAN, endOfGroup : BOOLEAN,
                    firstObject : BOOLEAN]
    BY <1>4 DEF Headers
  <2>2. r.header = [header EXCEPT !.subgroup = r.header.subgroup,
                                  !.priority = IF header.defaultPriority THEN 0 ELSE @]
    BY <1>3 DEF SubgroupAgrees
  <2>3. r.haveObject = w.haveObject /\ r.prev = w.prev
    BY <1>3 DEF SubgroupAgrees
  <2>4. PICK h, sg, p : h = r.header /\ sg = r.header.subgroup /\ p = IF header.defaultPriority THEN 0 ELSE header.priority
    OBVIOUS
  <2>5. h = [header EXCEPT !.subgroup = sg, !.priority = p]
    BY <2>2, <2>4
  <2>6. /\ h.mode = header.mode /\ h.group = header.group
        /\ h.defaultPriority = header.defaultPriority /\ h.priority = p
        /\ h.hasProperties = header.hasProperties /\ h.endOfGroup = header.endOfGroup
    BY <2>1, <2>5
  <2>7. header.hasProperties \in BOOLEAN /\ header.defaultPriority \in BOOLEAN
    BY <2>1
  <2> QED BY <2>3, <2>4, <2>6, <2>7
<1>8. /\ new.block = Option(header.hasProperties, AsDeltas(o.properties))
      /\ new.empty = o.empty /\ new.status = Option(o.empty, o.status)
      /\ new.delta = IF w.haveObject THEN o.object - w.prev - 1 ELSE o.object
  BY DEF AppendSubgroupObject
<1>9. SubgroupObjectID(new.delta) = o.object
  BY <1>4, <1>5, <1>7, <1>8 DEF SubgroupObjectID, IDs
<1>10. /\ Aligned(r.header.hasProperties, new.block) /\ Aligned(new.empty, new.status)
       /\ (IF r.header.hasProperties THEN FromDeltas(new.block[1]) ELSE <<>>) = pp
       /\ (IF new.empty THEN new.status[1] ELSE "Normal") = o.status
  <2>1. ~header.hasProperties => o.properties = <<>>
    BY <1>1 DEF SubgroupWritable
  <2>2. ~o.empty => o.status = "Normal"
    BY <1>1 DEF SubgroupWritable
  <2> HIDE DEF new, pp
  <2> QED BY <1>5, <1>6, <1>7, <1>8, <2>1, <2>2 DEF Aligned, Option
<1>11. (IF ~r.haveObject /\ r.header.mode = FirstObject THEN o.object ELSE r.header.subgroup) = subgroup
  <2>1. header.mode \in {FirstObject, Explicit} /\ FirstObject # Explicit
    BY <1>1, <1>2 DEF DataTypeOK, OpenedHeaders, Headers, FirstObject, Explicit
  <2>2. /\ header.mode = Explicit => r.header.subgroup = header.subgroup
        /\ header.mode # Explicit /\ w.haveObject => r.header.subgroup = sent[1].subgroup
    BY <1>3 DEF SubgroupAgrees
  <2> QED BY <1>4, <1>7, <2>1, <2>2
<1>12. (IF r.header.defaultPriority THEN DefaultPriority(track) ELSE r.header.priority) = priority
  BY <1>7
<1> DEFINE after == [r EXCEPT !.prev = o.object, !.haveObject = TRUE, !.header.subgroup = subgroup]
           result == ReadSubgroupObject(new)
<1>13. IF ValidateObjectProperties(pp, draft)
       THEN result = Delivers(record, after) ELSE result = Refused
  <2> DEFINE O == SubgroupObjectID(new.delta)
             PP == IF r.header.hasProperties THEN FromDeltas(new.block[1]) ELSE <<>>
             ST == IF new.empty THEN new.status[1] ELSE "Normal"
             SG == IF ~r.haveObject /\ r.header.mode = FirstObject THEN O ELSE r.header.subgroup
             PR == IF r.header.defaultPriority THEN DefaultPriority(track) ELSE r.header.priority
             full == /\ Aligned(r.header.hasProperties, new.block)
                     /\ Aligned(new.empty, new.status)
                     /\ O \in IDs
                     /\ ValidateObjectProperties(PP, draft)
                     /\ ST # "Normal" => PP = <<>>
  <2>1. result = IF full THEN Delivers(Object(r.header.group, SG, O, PR, PP, ST, new.empty, r.header.endOfGroup),
                                       [r EXCEPT !.prev = O, !.haveObject = TRUE, !.header.subgroup = SG])
                         ELSE Refused
    <3> HIDE DEF new
    <3> QED BY DEF ReadSubgroupObject
  <2>2. /\ O = o.object /\ PP = pp /\ ST = o.status /\ PR = priority
        /\ new.empty = o.empty /\ r.header.group = header.group /\ r.header.endOfGroup = header.endOfGroup
    BY <1>7, <1>8, <1>9, <1>10, <1>12
  <2>3. SG = subgroup
    BY <1>9, <1>11
  <2>4. full <=> ValidateObjectProperties(pp, draft)
    <3> HIDE DEF new, O, PP, ST, pp
    <3> QED BY <1>5, <1>6, <1>10, <2>2
  <2> HIDE DEF new, O, PP, ST, SG, PR, full, pp, subgroup, priority, result
  <2> QED BY <2>1, <2>2, <2>3, <2>4
<1>14. PICK a, sub0, rec, nf : a = after /\ sub0 = subgroup /\ rec = record /\ nf = new
  OBVIOUS
<1>15. SubgroupAgrees(a)'
  <2>1. /\ r = [header |-> r.header, prev |-> w.prev, haveObject |-> w.haveObject]
        /\ r.header = [header EXCEPT !.subgroup = r.header.subgroup,
                                     !.priority = IF header.defaultPriority THEN 0 ELSE @]
    BY <1>3 DEF SubgroupAgrees
  <2>2. header.mode = Explicit => sub0 = header.subgroup
    BY <1>14
  <2>3. rec.subgroup = sub0
    BY <1>14 DEF Object
  <2>4. a = [r EXCEPT !.prev = o.object, !.haveObject = TRUE, !.header.subgroup = sub0]
    BY <1>14
  <2>5. /\ a.prev = o.object /\ a.haveObject = TRUE
        /\ a.header = [r.header EXCEPT !.subgroup = sub0]
        /\ a = [header |-> a.header, prev |-> a.prev, haveObject |-> a.haveObject]
    BY <2>1, <2>4
  <2>6. a.header = [header EXCEPT !.subgroup = sub0, !.priority = IF header.defaultPriority THEN 0 ELSE @]
        /\ a.header.subgroup = sub0
    BY <1>4, <2>1, <2>5 DEF Headers
  <2>7. header' = header /\ sent'[1].subgroup = sub0 /\ w'.prev = o.object /\ w'.haveObject = TRUE
    BY <1>1, <1>14, <2>3
  <2> QED BY <2>2, <2>5, <2>6, <2>7 DEF SubgroupAgrees
<1>16. Reading(nf)' = ReadSubgroupObject(nf)
  <2>1. Reading(nf)' = ReadSubgroupObject(nf)'
    BY <1>1 DEF Reading, Fetches
  <2>2. ReadSubgroupObject(nf)' = ReadSubgroupObject(nf)
    BY <1>1 DEF ReadSubgroupObject, SubgroupObjectID
  <2> QED BY <2>1, <2>2
<1>17. (IF ValidateObjectProperties(rec.properties, draft)
        THEN Reading(nf)' = Delivers(rec, a) ELSE Reading(nf)' = Refused)
       /\ sent' = <<rec>> /\ frame' = <<nf>> /\ rec.properties = pp
  <2>1. ReadSubgroupObject(nf) = result /\ rec.properties = pp
    BY <1>14 DEF Object
  <2> HIDE DEF pp, result, record, after, new
  <2> QED BY <1>1, <1>13, <1>14, <1>16, <2>1
<1> HIDE DEF pp, subgroup, priority, record, new, after, result
<1>18. ObjectInFlight'
  <2>1. \A s : Agrees(s)' = SubgroupAgrees(s)'
    BY <1>1 DEF Agrees, Fetches
  <2>2. TakenAsWritten(Reading(nf))'
    BY <1>1, <1>15, <1>17, <2>1 DEF TakenAsWritten, Delivers, Refused
  <2> QED BY <1>1, <1>3, <1>17, <2>2 DEF ObjectInFlight
<1>19. DataTypeOK'
  BY <1>1, <1>2, <1>5, <1>17 DEF DataTypeOK, Fetches
<1> QED BY <1>1, <1>18, <1>19 DEF DataIInv

LEMMA WriteDatagramIInv ==
  ASSUME DataIInv, NEW d \in Datagrams, SendDatagram(d)
  PROVE  DataIInv'
<1> DEFINE pp == SortedByType(d.properties)
           priority == IF d.defaultPriority THEN DefaultPriority(track) ELSE d.priority
           record == [Object(d.group, 0, d.object, priority, pp, d.status, d.empty, d.endOfGroup)
                        EXCEPT !.datagram = TRUE]
           new == AppendObjectDatagram(d)
           result == ReadDatagram(new)
<1>1. /\ kind = "datagram" /\ DatagramWritable(d) /\ frame = <<>> /\ ~refused
      /\ frame' = <<new>> /\ sent' = <<record>> /\ got' = <<>>
      /\ UNCHANGED <<kind, draft, header, track, r, refused, real, w>>
  BY DEF SendDatagram, Writes
<1>2. DataTypeOK
  BY DEF DataIInv
<1>3. /\ d.object \in {0, 1} /\ d.properties \in Blocks /\ d.status \in Statuses /\ d.empty \in BOOLEAN
      /\ d.endOfGroup \in BOOLEAN /\ d.defaultPriority \in BOOLEAN
      /\ d.status # "Normal" => d.empty /\ ~d.endOfGroup /\ d.properties = <<>>
  BY <1>1 DEF Datagrams, DatagramWritable
<1>4. /\ FromDeltas(AsDeltas(d.properties)) = pp
      /\ d.properties = <<>> => pp = <<>>
      /\ d.properties # <<>> => AsDeltas(d.properties) # <<>>
  BY <1>3, BlocksRead
<1>5. PICK b1 \in BOOLEAN, b4 \in BOOLEAN, b32 \in BOOLEAN :
        b1 = (d.properties # <<>>) /\ b4 = (d.object = 0) /\ b32 = (d.status # "Normal")
  OBVIOUS
<1>6. /\ new.type < 48 /\ ~HasBit(new.type, 16)
      /\ HasBit(new.type, 1) = b1 /\ HasBit(new.type, 2) = d.endOfGroup
      /\ HasBit(new.type, 4) = b4 /\ HasBit(new.type, 8) = d.defaultPriority
      /\ HasBit(new.type, 32) = b32
      /\ ~(b32 /\ d.endOfGroup)
  <2>1. new.type = Bit(b1, 1) + Bit(d.endOfGroup, 2) + Bit(b4, 4) + Bit(d.defaultPriority, 8) + Bit(b32, 32)
    BY <1>5 DEF AppendObjectDatagram, DatagramType
  <2>2. ~(d.endOfGroup /\ b32)
    BY <1>3, <1>5
  <2> HIDE DEF new
  <2> QED BY <1>3, <2>1, <2>2, DatagramTypeBits
<1>7. /\ new.group = d.group /\ new.empty = d.empty
      /\ new.object = Option(~b4, d.object)
      /\ new.priority = Option(~d.defaultPriority, d.priority)
      /\ new.block = Option(b1, AsDeltas(d.properties))
      /\ new.status = Option(b32, d.status)
  BY <1>5 DEF AppendObjectDatagram
<1>8. /\ Aligned(~b4, new.object)
      /\ ~b4 => new.object[1] = d.object
      /\ Aligned(~d.defaultPriority, new.priority)
      /\ ~d.defaultPriority => new.priority[1] = d.priority
      /\ Aligned(b1, new.block)
      /\ b1 => new.block[1] = AsDeltas(d.properties)
      /\ Aligned(b32, new.status)
      /\ b32 => new.status[1] = d.status
  <2>1. (~b4) \in BOOLEAN /\ (~d.defaultPriority) \in BOOLEAN
    OBVIOUS
  <2> HIDE DEF new
  <2> QED BY <1>7, <2>1, OptionRead
<1> DEFINE PP == IF HasBit(new.type, 1) THEN FromDeltas(new.block[1]) ELSE <<>>
           ST == IF HasBit(new.type, 32) THEN new.status[1] ELSE "Normal"
           OB == IF HasBit(new.type, 4) THEN 0 ELSE new.object[1]
           PR == IF HasBit(new.type, 8) THEN DefaultPriority(track) ELSE new.priority[1]
           last == HasBit(new.type, 2)
           full == /\ new.type < 48 /\ ~HasBit(new.type, 16)
                   /\ ~(HasBit(new.type, 32) /\ last)
                   /\ Aligned(~HasBit(new.type, 4), new.object)
                   /\ Aligned(~HasBit(new.type, 8), new.priority)
                   /\ Aligned(HasBit(new.type, 1), new.block)
                   /\ Aligned(HasBit(new.type, 32), new.status)
                   /\ HasBit(new.type, 1) => new.block[1] # <<>>
                   /\ ValidateObjectProperties(PP, draft)
                   /\ HasBit(new.type, 32) => new.empty
                   /\ ST # "Normal" => PP = <<>>
<1>9. result = IF full
               THEN Delivers([Object(new.group, 0, OB, PR, PP, ST, new.empty, last) EXCEPT !.datagram = TRUE], r)
               ELSE Refused
  <2> HIDE DEF new
  <2> QED BY DEF ReadDatagram
<1> HIDE DEF new, pp
<1>10. PP = pp /\ ST = d.status /\ OB = d.object /\ PR = priority /\ last = d.endOfGroup
  <2>1. PP = pp
    BY <1>4, <1>5, <1>6, <1>8
  <2>2. ST = d.status
    BY <1>5, <1>6, <1>8
  <2>3. OB = d.object
    BY <1>5, <1>6, <1>8
  <2>4. PR = priority
    BY <1>3, <1>6, <1>8
  <2> QED BY <1>6, <2>1, <2>2, <2>3, <2>4
<1>11. full <=> ValidateObjectProperties(pp, draft)
  <2>1. b1 => new.block[1] # <<>>
    BY <1>4, <1>5, <1>8
  <2>2. (b32 => new.empty) /\ ~(b32 /\ d.endOfGroup)
    BY <1>3, <1>5, <1>6, <1>7
  <2>3. ST # "Normal" => PP = <<>>
    BY <1>3, <1>4, <1>10
  <2> HIDE DEF PP, ST, last
  <2> QED BY <1>6, <1>8, <1>10, <2>1, <2>2, <2>3
<1>12. IF ValidateObjectProperties(pp, draft) THEN result = Delivers(record, r) ELSE result = Refused
  <2> HIDE DEF PP, ST, OB, PR, last, full, priority, result
  <2> QED BY <1>7, <1>9, <1>10, <1>11
<1>13. PICK rec, nf : rec = record /\ nf = new
  OBVIOUS
<1>14. Reading(nf)' = result
  <2>1. Reading(nf)' = ReadDatagram(nf)'
    BY <1>1 DEF Reading, Fetches
  <2>2. ReadDatagram(nf)' = ReadDatagram(nf)
    BY <1>1 DEF ReadDatagram
  <2> QED BY <1>13, <2>1, <2>2
<1>15. rec.properties = pp /\ sent' = <<rec>> /\ frame' = <<nf>>
  BY <1>1, <1>13 DEF Object
<1> HIDE DEF record, new, result, pp
<1>16. IF ValidateObjectProperties(rec.properties, draft)
       THEN Reading(nf)' = Delivers(rec, r) ELSE Reading(nf)' = Refused
  BY <1>12, <1>13, <1>14, <1>15
<1>17. \A s : Agrees(s)' <=> s = r
  BY <1>1 DEF Agrees, Fetches
<1>18. TakenAsWritten(Reading(nf))'
  <2>1. PICK result0 : result0 = Reading(nf)'
    OBVIOUS
  <2>2. /\ result0.ok => result0.object = rec /\ result0.state = r
        /\ result0.ok <=> ValidateObjectProperties(rec.properties, draft)
    BY <1>16, <2>1 DEF Delivers, Refused
  <2>3. TakenAsWritten(result0)'
    BY <1>1, <1>15, <1>17, <2>2 DEF TakenAsWritten
  <2> QED BY <2>1, <2>3 DEF TakenAsWritten
<1>19. ObjectInFlight'
  BY <1>1, <1>15, <1>18 DEF ObjectInFlight
<1>20. DataTypeOK'
  BY <1>1, <1>2, <1>15 DEF DataTypeOK, Fetches
<1> QED BY <1>1, <1>19, <1>20 DEF DataIInv

\* Any choice of fields that says the Object to a reader that agrees with w.
LEMMA FetchFrameIInv ==
  ASSUME DataIInv, NEW o \in FetchObjects, kind \in Fetches, FetchWritable(o),
         NEW mode \in 0 .. 3, NEW hasObject \in BOOLEAN, NEW hasPriority \in BOOLEAN,
         CompactMode(o, mode),
         ~hasObject => w.havePrior /\ o.object = w.object + 1,
         ~hasPriority => real # <<>> /\ o.priority = real[1].priority,
         WriteFetchObject(o, FetchFrame(o, mode, hasObject, hasPriority))
  PROVE  DataIInv'
<1> DEFINE pp == SortedByType(o.properties)
           subgroup == IF o.datagram THEN 0 ELSE o.subgroup
           new == FetchFrame(o, mode, hasObject, hasPriority)
           record == [o EXCEPT !.subgroup = subgroup, !.properties = pp]
           result == ReadFetchObject(new)
<1>1. /\ kind # "subgroup" /\ kind # "datagram" /\ frame = <<>> /\ ~refused
      /\ frame' = <<new>> /\ sent' = <<record>> /\ got' = <<>>
      /\ UNCHANGED <<kind, draft, header, track, r, refused>>
      /\ w' = [w EXCEPT !.group = o.group, !.object = o.object, !.havePrior = TRUE]
      /\ real' = <<[subgroup |-> subgroup, priority |-> o.priority]>>
  BY DEF WriteFetchObject, Writes, Fetches
<1>2. DataTypeOK /\ FetchAgrees(r)
  BY <1>1 DEF DataIInv, HeaderInFlight, ObjectInFlight, AtRest, Agrees
<1>3. w \in [group : IDs, object : IDs, havePrior : BOOLEAN, subgroup : {0}, priority : {0},
             havePriorObject : BOOLEAN]
  BY <1>2 DEF DataTypeOK
<1>4. /\ o.status = "Normal" /\ o.empty = FALSE /\ o.endOfGroup = FALSE
      /\ o.group \in IDs /\ o.subgroup \in {0, 1} /\ o.object \in IDs /\ o.priority \in Priorities
      /\ o.datagram \in BOOLEAN /\ o.properties \in {<<>>, <<KVP(ObjectDeliveryTimeout, 0)>>}
      /\ o.range = "None"
  BY DEF FetchObjects
<1>5. /\ FromDeltas(AsDeltas(o.properties)) = pp
      /\ o.properties = <<>> => pp = <<>>
      /\ o.properties # <<>> => AsDeltas(o.properties) # <<>>
  <2>1. o.properties \in Blocks
    BY <1>4 DEF Blocks
  <2> QED BY <2>1, BlocksRead
<1>6. /\ r \in [group : IDs, object : IDs, havePrior : BOOLEAN, subgroup : Nat, priority : Nat,
                havePriorObject : BOOLEAN]
      /\ r.group = w.group /\ r.object = w.object /\ r.havePrior = w.havePrior
      /\ r.havePriorObject = (real # <<>>)
      /\ real # <<>> => r.subgroup = real[1].subgroup /\ r.priority = real[1].priority
  BY <1>2 DEF FetchAgrees
<1>7. PICK same \in BOOLEAN : same = SameGroup(o)
  BY <1>3 DEF SameGroup
<1>8. /\ new.mode = mode /\ new.datagram = o.datagram /\ new.range = "None"
      /\ new.group = Option(~same, GroupDelta(o.group))
      /\ new.subgroup = Option(mode = 3, o.subgroup)
      /\ new.object = Option(hasObject, IF same THEN o.object - w.object ELSE o.object)
      /\ new.priority = Option(hasPriority, o.priority)
      /\ new.block = Option(o.properties # <<>>, AsDeltas(o.properties))
  BY <1>7 DEF FetchFrame
<1> HIDE DEF new, pp
<1>9. (IF new.group = <<>> THEN r.group ELSE FetchGroupID(new.group[1])) = o.group
  <2>1. CASE same
    BY <1>6, <1>7, <1>8, <2>1 DEF SameGroup, Option
  <2>2. CASE ~same
    <3>1. new.group # <<>> /\ new.group[1] = GroupDelta(o.group)
      BY <1>8, <2>2 DEF Option
    <3>2. w.havePrior => (IF kind = "descending" THEN o.group < w.group ELSE o.group > w.group)
      BY <1>3, <1>4, <1>7, <2>2 DEF FetchWritable, SameGroup, IDs
    <3>3. FetchGroupID(GroupDelta(o.group)) = o.group
      BY <1>3, <1>4, <1>6 DEF FetchGroupID, GroupDelta, IDs
    <3> QED BY <3>1, <3>3
  <2> QED BY <2>1, <2>2
<1>10. FetchObjectID(new) = o.object
  <2>1. CASE ~hasObject
    BY <1>6, <1>8, <2>1 DEF FetchObjectID, Option
  <2>2. CASE hasObject
    <3>1. new.object # <<>> /\ new.object[1] = IF same THEN o.object - w.object ELSE o.object
      BY <1>8, <2>2 DEF Option
    <3>2. (new.group # <<>>) <=> ~same
      BY <1>8 DEF Option
    <3> QED BY <1>3, <1>4, <1>6, <3>1, <3>2 DEF FetchObjectID, IDs
  <2> QED BY <2>1, <2>2
<1>11. FetchSubgroupID(new, IF new.datagram THEN 0 ELSE new.mode) = subgroup
  <2>1. CASE o.datagram
    BY <1>8, <2>1 DEF FetchSubgroupID
  <2>2. CASE ~o.datagram
    <3>1. CASE mode = 3
      BY <1>8, <2>2, <3>1 DEF FetchSubgroupID, Option
    <3>2. CASE mode = 0
      BY <1>8, <2>2, <3>2 DEF FetchSubgroupID, CompactMode
    <3>3. CASE mode \in {1, 2}
      BY <1>6, <1>8, <2>2, <3>3 DEF FetchSubgroupID, CompactMode
    <3> QED BY <3>1, <3>2, <3>3
  <2> QED BY <1>4, <2>1, <2>2
<1>12. (IF new.priority = <<>> THEN r.priority ELSE new.priority[1]) = o.priority
  BY <1>6, <1>8 DEF Option
<1>13. (IF new.block = <<>> THEN <<>> ELSE FromDeltas(new.block[1])) = pp
  BY <1>5, <1>8 DEF Option
<1>14. /\ ~r.havePrior => new.group # <<>> /\ new.object # <<>>
       /\ ~r.havePriorObject => (IF new.datagram THEN 0 ELSE new.mode) \notin {1, 2} /\ new.priority # <<>>
  <2>1. ~r.havePrior => new.group # <<>>
    BY <1>6, <1>7, <1>8 DEF SameGroup, Option
  <2>2. ~r.havePrior => new.object # <<>>
    BY <1>6, <1>8 DEF Option
  <2>3. ~r.havePriorObject => (IF new.datagram THEN 0 ELSE new.mode) \notin {1, 2}
    BY <1>6, <1>8 DEF CompactMode
  <2>4. ~r.havePriorObject => new.priority # <<>>
    BY <1>6, <1>8 DEF Option
  <2> QED BY <2>1, <2>2, <2>3, <2>4
<1>15. PICK after : after = [r EXCEPT !.group = o.group, !.object = o.object, !.havePrior = TRUE,
                                      !.subgroup = subgroup, !.priority = o.priority,
                                      !.havePriorObject = TRUE]
  OBVIOUS
<1> DEFINE G == IF new.group = <<>> THEN r.group ELSE FetchGroupID(new.group[1])
           M == IF new.datagram THEN 0 ELSE new.mode
           S == FetchSubgroupID(new, M)
           O == FetchObjectID(new)
           P == IF new.priority = <<>> THEN r.priority ELSE new.priority[1]
           PP == IF new.block = <<>> THEN <<>> ELSE FromDeltas(new.block[1])
           full == /\ ~r.havePrior => new.group # <<>> /\ new.object # <<>>
                   /\ ~r.havePriorObject => M \notin {1, 2} /\ new.priority # <<>>
                   /\ G \in IDs /\ O \in IDs
                   /\ ValidateObjectProperties(PP, draft)
<1>16. result = IF full
                THEN Delivers([Object(G, S, O, P, PP, "Normal", FALSE, FALSE) EXCEPT !.datagram = new.datagram],
                              [r EXCEPT !.group = G, !.object = O, !.havePrior = TRUE,
                                        !.subgroup = S, !.priority = P, !.havePriorObject = TRUE])
                ELSE Refused
  BY DEF ReadFetchObject
<1>17. full <=> ValidateObjectProperties(pp, draft)
  BY <1>4, <1>9, <1>10, <1>13, <1>14
<1>18. G = o.group /\ S = subgroup /\ O = o.object /\ P = o.priority /\ PP = pp
  BY <1>9, <1>10, <1>11, <1>12, <1>13
<1> HIDE DEF G, M, S, O, P, PP, full, subgroup, result
<1>19. record = [Object(o.group, subgroup, o.object, o.priority, pp, "Normal", FALSE, FALSE)
                   EXCEPT !.datagram = o.datagram]
  <2>1. PICK q, x : q = pp /\ x = subgroup
    OBVIOUS
  <2> QED BY <2>1, ObjectRead
<1>20. IF ValidateObjectProperties(pp, draft) THEN result = Delivers(record, after) ELSE result = Refused
  <2> HIDE DEF record
  <2> QED BY <1>8, <1>15, <1>16, <1>17, <1>18, <1>19
<1>21. PICK rec, nf : rec = record /\ nf = new
  OBVIOUS
<1>22. Reading(nf)' = result
  <2>1. Reading(nf)' = ReadFetchObject(nf)'
    <3>1. kind' \in Fetches /\ kind' # "subgroup" /\ kind' # "datagram" /\ nf.range = "None"
      BY <1>1, <1>8, <1>21
    <3> QED BY <3>1 DEF Reading
  <2>2. ReadFetchObject(nf)' = ReadFetchObject(nf)
    BY <1>1 DEF ReadFetchObject, FetchGroupID, FetchObjectID, FetchSubgroupID
  <2> QED BY <1>21, <2>1, <2>2 DEF result
<1>23. rec.properties = pp /\ sent' = <<rec>> /\ frame' = <<nf>>
  <2>1. record.properties = pp
    BY <1>19 DEF Object
  <2> HIDE DEF record
  <2> QED BY <1>1, <1>21, <2>1
<1> HIDE DEF record
<1>24. IF ValidateObjectProperties(rec.properties, draft)
       THEN Reading(nf)' = Delivers(rec, after) ELSE Reading(nf)' = Refused
  BY <1>20, <1>21, <1>22, <1>23
<1>25. FetchAgrees(after)'
  <2>1. /\ after.group = o.group /\ after.object = o.object /\ after.havePrior = TRUE
        /\ after.subgroup = subgroup /\ after.priority = o.priority /\ after.havePriorObject = TRUE
    BY <1>6, <1>15
  <2>2. after \in [group : IDs, object : IDs, havePrior : BOOLEAN, subgroup : Nat, priority : Nat,
                   havePriorObject : BOOLEAN]
    <3>1. subgroup \in Nat /\ o.priority \in Nat
      BY <1>4 DEF Priorities, subgroup
    <3> QED BY <1>4, <1>6, <1>15, <3>1
  <2>3. w'.group = o.group /\ w'.object = o.object /\ w'.havePrior = TRUE
    BY <1>1, <1>3
  <2>4. real' # <<>> /\ real'[1].subgroup = subgroup /\ real'[1].priority = o.priority
    BY <1>1
  <2> QED BY <2>1, <2>2, <2>3, <2>4 DEF FetchAgrees
<1>26. Agrees(after)'
  BY <1>1, <1>25 DEF Agrees
<1>27. TakenAsWritten(Reading(nf))'
  <2>1. PICK result0 : result0 = Reading(nf)'
    OBVIOUS
  <2>2. /\ result0.ok => result0.object = rec /\ result0.state = after
        /\ result0.ok <=> ValidateObjectProperties(rec.properties, draft)
    BY <1>24, <2>1 DEF Delivers, Refused
  <2>3. TakenAsWritten(result0)'
    BY <1>1, <1>23, <1>26, <2>2 DEF TakenAsWritten
  <2> QED BY <2>1, <2>3 DEF TakenAsWritten
<1>28. ObjectInFlight'
  BY <1>1, <1>23, <1>27 DEF ObjectInFlight
<1>29. DataTypeOK'
  <2>1. real' \in {<<q>> : q \in [subgroup : {0, 1}, priority : Priorities]}
    BY <1>1, <1>4 DEF subgroup
  <2>2. w' \in [group : IDs, object : IDs, havePrior : BOOLEAN, subgroup : {0}, priority : {0},
                havePriorObject : BOOLEAN]
    BY <1>1, <1>3, <1>4
  <2> QED BY <1>1, <1>2, <1>23, <2>1, <2>2 DEF DataTypeOK
<1> QED BY <1>1, <1>28, <1>29 DEF DataIInv


LEMMA WriteEndOfRangeIInv ==
  ASSUME DataIInv, NEW o \in EndsOfRange, WriteEndOfRange(o)
  PROVE  DataIInv'
<1> DEFINE new == AppendEndOfRange(o)
<1>1. /\ kind \in Fetches /\ kind # "subgroup" /\ kind # "datagram" /\ frame = <<>> /\ ~refused
      /\ frame' = <<new>> /\ sent' = <<o>> /\ got' = <<>>
      /\ UNCHANGED <<kind, draft, header, track, r, refused, real>>
      /\ w' = [w EXCEPT !.group = o.group, !.object = o.object, !.havePrior = TRUE]
      /\ FetchWritable(o)
  BY DEF WriteEndOfRange, Writes, Fetches
<1>2. DataTypeOK /\ FetchAgrees(r)
  BY <1>1 DEF DataIInv, HeaderInFlight, ObjectInFlight, AtRest, Agrees
<1>3. w \in [group : IDs, object : IDs, havePrior : BOOLEAN, subgroup : {0}, priority : {0},
             havePriorObject : BOOLEAN]
  BY <1>1, <1>2 DEF DataTypeOK
<1>4. PICK range \in RangeKinds, g \in IDs, ob \in IDs : o = RangeRecord(range, g, ob)
  BY DEF EndsOfRange
<1>5. o.range = range /\ o.group = g /\ o.object = ob /\ range # "None"
  BY <1>4 DEF RangeRecord, Object, RangeKinds
<1>6. new.range = range /\ new.group = g /\ new.object = ob
  BY <1>5 DEF AppendEndOfRange
<1> HIDE DEF new
<1>7. PICK nf, after : nf = new /\ after = AfterRange(nf)
  OBVIOUS
<1>8. ReadFetchRange(nf) = Delivers(o, after)
  <2>1. ValidIn(range, draft)
    BY <1>1, <1>5 DEF FetchWritable
  <2> QED BY <1>4, <1>6, <1>7, <2>1 DEF ReadFetchRange
<1>9. Reading(nf)' = Delivers(o, after)
  <2>1. Reading(nf)' = ReadFetchRange(nf)'
    <3>1. kind' \in Fetches /\ kind' # "subgroup" /\ kind' # "datagram" /\ nf.range # "None"
      BY <1>1, <1>5, <1>6, <1>7
    <3> QED BY <3>1 DEF Reading
  <2>2. ReadFetchRange(nf)' = ReadFetchRange(nf)
    BY <1>1 DEF ReadFetchRange, AfterRange
  <2> QED BY <1>8, <2>1, <2>2
<1>10. FetchAgrees(after)'
  <2>1. /\ r \in [group : IDs, object : IDs, havePrior : BOOLEAN, subgroup : Nat, priority : Nat,
                  havePriorObject : BOOLEAN]
        /\ r.havePriorObject = (real # <<>>)
        /\ real # <<>> => r.subgroup = real[1].subgroup /\ r.priority = real[1].priority
    BY <1>2 DEF FetchAgrees
  <2>2. after = [r EXCEPT !.group = g, !.object = ob, !.havePrior = TRUE]
    BY <1>6, <1>7 DEF AfterRange
  <2>3. w'.group = g /\ w'.object = ob /\ w'.havePrior = TRUE /\ real' = real
    BY <1>1, <1>3, <1>5
  <2>4. /\ after \in [group : IDs, object : IDs, havePrior : BOOLEAN, subgroup : Nat, priority : Nat,
                      havePriorObject : BOOLEAN]
        /\ after.group = g /\ after.object = ob /\ after.havePrior = TRUE
        /\ after.subgroup = r.subgroup /\ after.priority = r.priority
        /\ after.havePriorObject = r.havePriorObject
    BY <2>1, <2>2
  <2> QED BY <2>1, <2>3, <2>4 DEF FetchAgrees
<1>11. Agrees(after)'
  BY <1>1, <1>10 DEF Agrees
<1>12. TakenAsWritten(Reading(nf))'
  <2>1. PICK result0 : result0 = Reading(nf)'
    OBVIOUS
  <2>2. result0.ok /\ result0.object = o /\ result0.state = after
    BY <1>9, <2>1 DEF Delivers
  <2>3. TakenAsWritten(result0)'
    BY <1>1, <1>11, <2>2 DEF TakenAsWritten
  <2> QED BY <2>1, <2>3 DEF TakenAsWritten
<1>13. ObjectInFlight'
  BY <1>1, <1>7, <1>12 DEF ObjectInFlight
<1>14. DataTypeOK'
  <2>1. w' \in [group : IDs, object : IDs, havePrior : BOOLEAN, subgroup : {0}, priority : {0},
                havePriorObject : BOOLEAN]
    BY <1>1, <1>3, <1>5
  <2> QED BY <1>1, <1>2, <2>1 DEF DataTypeOK
<1> QED BY <1>1, <1>13, <1>14 DEF DataIInv

\* Reading takes what is in flight: the invariant says what that is.
LEMMA ReadHeaderIInv ==
  ASSUME DataIInv, ReadHeader
  PROVE  DataIInv'
<1>1. /\ kind = "subgroup" /\ frame # <<>> /\ r.header = NoHeader /\ frame' = <<>>
      /\ UNCHANGED <<kind, draft, header, track, w, real, sent, got>>
  BY DEF ReadHeader
<1>2. DataTypeOK /\ HeaderInFlight
  BY <1>1 DEF DataIInv, ObjectInFlight, AtRest
<1>3. PICK h \in OpenedHeaders : h = header
  BY <1>1, <1>2 DEF DataTypeOK
<1>4. PICK parsed : parsed = [h EXCEPT !.priority = IF h.defaultPriority THEN 0 ELSE @]
  OBVIOUS
<1>5. refused' = FALSE /\ r' = [r EXCEPT !.header = parsed]
  <2>1. frame[1] = AppendSubgroupHeader(h)
    BY <1>2, <1>3 DEF HeaderInFlight
  <2>2. ParseSubgroupHeader(frame[1]) = [ok |-> TRUE, header |-> parsed]
    BY <1>4, <2>1, HeaderRead
  <2>3. PICK read : read = ParseSubgroupHeader(frame[1])
    OBVIOUS
  <2>4. read.ok = TRUE /\ read.header = parsed
    BY <2>2, <2>3
  <2>5. refused' = ~read.ok /\ r' = IF read.ok THEN [r EXCEPT !.header = read.header] ELSE r
    BY <2>3 DEF ReadHeader
  <2> QED BY <2>4, <2>5
<1>6. h \in Headers
  BY DEF OpenedHeaders
<1>7. /\ parsed = [h EXCEPT !.subgroup = parsed.subgroup, !.priority = IF h.defaultPriority THEN 0 ELSE @]
      /\ parsed.subgroup = h.subgroup
      /\ parsed # NoHeader
  <2>1. PICK p : p = IF h.defaultPriority THEN 0 ELSE h.priority
    OBVIOUS
  <2>2. parsed = [h EXCEPT !.priority = p]
    BY <1>4, <2>1
  <2>3. parsed.subgroup = h.subgroup /\ parsed.group = h.group /\ DOMAIN parsed = DOMAIN h
    BY <1>6, <2>2 DEF Headers
  <2>4. [h EXCEPT !.subgroup = h.subgroup, !.priority = p] = [h EXCEPT !.priority = p]
    BY <1>6 DEF Headers
  <2>5. "group" \in DOMAIN parsed /\ DOMAIN NoHeader = {}
    BY <1>6, <2>3 DEF Headers, NoHeader
  <2> QED BY <2>1, <2>2, <2>3, <2>4, <2>5
<1>8. /\ r' = [header |-> parsed, prev |-> 0, haveObject |-> FALSE]
      /\ w' = [haveObject |-> FALSE, prev |-> 0] /\ header' = h
  <2>1. r = [header |-> NoHeader, prev |-> 0, haveObject |-> FALSE]
    BY <1>2 DEF HeaderInFlight, NewSubgroupState
  <2>2. r' = [header |-> parsed, prev |-> 0, haveObject |-> FALSE]
    BY <1>5, <2>1
  <2>3. w' = w /\ w = [haveObject |-> FALSE, prev |-> 0] /\ header' = h
    BY <1>1, <1>2, <1>3 DEF HeaderInFlight
  <2> QED BY <2>2, <2>3
<1>9. SubgroupAgrees(r)'
  BY <1>7, <1>8 DEF SubgroupAgrees
<1>10. AtRest'
  <2>1. kind' = "subgroup" /\ kind' # "datagram" /\ kind' \notin Fetches
    BY <1>1 DEF Fetches
  <2>2. Agrees(r)'
    BY <1>9, <2>1 DEF Agrees
  <2>3. got' = <<>>
    BY <1>1, <1>2 DEF HeaderInFlight
  <2> QED BY <1>1, <1>7, <1>8, <2>2, <2>3 DEF AtRest
<1>11. DataTypeOK'
  BY <1>1, <1>2, <1>5 DEF DataTypeOK, Fetches
<1> QED BY <1>5, <1>10, <1>11 DEF DataIInv

LEMMA ReadObjectIInv ==
  ASSUME DataIInv, ReadObject
  PROVE  DataIInv'
<1>1. frame # <<>> /\ (kind = "subgroup" => r.header # NoHeader)
  BY DEF ReadObject, Fetches
<1>2. DataTypeOK /\ ObjectInFlight
  BY <1>1 DEF DataIInv, HeaderInFlight, AtRest, NewSubgroupState
<1>3. PICK f : frame = <<f>> /\ TakenAsWritten(Reading(f))
  BY <1>2 DEF ObjectInFlight
<1>4. Reads(Reading(f))
  BY <1>3 DEF ReadObject, Reading, Fetches
<1>5. PICK result : result = Reading(f)
  OBVIOUS
<1>6. /\ Reads(result) /\ TakenAsWritten(result)
  BY <1>3, <1>4, <1>5
<1>7. /\ frame' = <<>> /\ UNCHANGED <<kind, draft, header, track, w, real, sent>>
      /\ refused' = ~result.ok
  BY <1>6 DEF Reads
<1>8. DataTypeOK'
  <2>1. DataTypeOK /\ refused' \in BOOLEAN
    BY <1>2, <1>7
  <2> QED BY <1>7, <2>1 DEF DataTypeOK
<1>9. CASE ~result.ok
  BY <1>6, <1>7, <1>8, <1>9 DEF DataIInv, TakenAsWritten
<1>10. CASE result.ok
  <2>1. r' = result.state /\ got' = <<result.object>>
    BY <1>6, <1>10 DEF Reads
  <2>2. sent # <<>> /\ result.object = sent[1] /\ Agrees(result.state)
    BY <1>6, <1>10 DEF TakenAsWritten
  <2>3. got' = sent'
    BY <1>2, <1>7, <2>1, <2>2 DEF DataTypeOK
  <2>4. Agrees(r)'
    <3>1. CASE kind = "subgroup"
      <4>1. SubgroupAgrees(result.state)
        BY <2>2, <3>1 DEF Agrees, Fetches
      <4>2. SubgroupAgrees(r)'
        BY <1>7, <2>1, <4>1 DEF SubgroupAgrees
      <4> QED BY <1>7, <3>1, <4>2 DEF Agrees, Fetches
    <3>2. CASE kind = "datagram"
      BY <1>7, <3>2 DEF Agrees, Fetches
    <3>3. CASE kind \in Fetches
      <4>1. kind # "subgroup" /\ kind # "datagram"
        BY <3>3 DEF Fetches
      <4>2. FetchAgrees(result.state)
        BY <2>2, <3>3, <4>1 DEF Agrees
      <4>3. FetchAgrees(r)'
        BY <1>7, <2>1, <4>2 DEF FetchAgrees
      <4> QED BY <1>7, <3>3, <4>1, <4>3 DEF Agrees
    <3> QED BY <1>2, <3>1, <3>2, <3>3 DEF DataTypeOK
  <2>5. kind = "subgroup" => r'.header # NoHeader
    <3> SUFFICES ASSUME kind = "subgroup" PROVE r'.header # NoHeader
      OBVIOUS
    <3>1. SubgroupAgrees(result.state) /\ header \in Headers
      BY <1>2, <2>2 DEF Agrees, Fetches, DataTypeOK, OpenedHeaders
    <3>2. r'.header = [header EXCEPT !.subgroup = r'.header.subgroup,
                                     !.priority = IF header.defaultPriority THEN 0 ELSE @]
      BY <2>1, <3>1 DEF SubgroupAgrees
    <3>3. r'.header.group = 1
      BY <3>1, <3>2 DEF Headers
    <3>4. DOMAIN r'.header = DOMAIN header /\ "group" \in DOMAIN header
      BY <3>1, <3>2 DEF Headers
    <3>5. DOMAIN NoHeader = {}
      BY DEF NoHeader
    <3> QED BY <3>4, <3>5
  <2>6. AtRest'
    BY <1>7, <2>3, <2>4, <2>5 DEF AtRest
  <2> QED BY <1>7, <1>8, <1>10, <2>6 DEF DataIInv
<1> QED BY <1>7, <1>8, <1>9, <1>10

LEMMA InitData == DataInit => DataIInv
<1> SUFFICES ASSUME DataInit PROVE DataIInv
  OBVIOUS
<1>1. kind \in Fetches \cup {"subgroup", "datagram"} /\ draft \in {18, 22} /\ ~refused /\ refused \in BOOLEAN
      /\ real = <<>> /\ sent = <<>> /\ got = <<>>
  BY DraftsAssumption DEF DataInit
<1>2. 0 \in IDs
  BY DEF IDs
<1>3. CASE kind = "subgroup"
  <2>1. /\ header \in OpenedHeaders /\ w = [haveObject |-> FALSE, prev |-> 0] /\ r = NewSubgroupState
        /\ frame = <<AppendSubgroupHeader(header)>> /\ kind \notin Fetches
    BY <1>3 DEF DataInit, Fetches
  <2> QED BY <1>1, <1>2, <1>3, <2>1 DEF DataIInv, DataTypeOK, HeaderInFlight
<1>4. CASE kind = "datagram"
  <2>1. kind \notin Fetches /\ kind # "subgroup" /\ frame = <<>>
    BY <1>4 DEF DataInit, Fetches
  <2>2. AtRest
    BY <1>1, <1>4, <2>1 DEF AtRest, Agrees
  <2> QED BY <1>1, <1>4, <2>1, <2>2 DEF DataIInv, DataTypeOK
<1>5. CASE kind \in Fetches
  <2>1. kind # "subgroup" /\ kind # "datagram" /\ frame = <<>> /\ w = NewFetchState /\ r = NewFetchState
    BY <1>5 DEF DataInit, Fetches
  <2>2. FetchAgrees(r)
    BY <1>1, <1>2, <2>1 DEF FetchAgrees, NewFetchState
  <2>3. AtRest
    BY <1>1, <1>5, <2>1, <2>2 DEF AtRest, Agrees
  <2> QED BY <1>1, <1>2, <1>5, <2>1, <2>3 DEF DataIInv, DataTypeOK, NewFetchState
<1> QED BY <1>1, <1>3, <1>4, <1>5

LEMMA DataStep == DataIInv /\ [DataNext]_dataVars => DataIInv'
<1> SUFFICES ASSUME DataIInv, [DataNext]_dataVars PROVE DataIInv'
  OBVIOUS
<1>1. ASSUME NEW o \in FetchObjects, WriteObject(o) PROVE DataIInv'
  <2>1. PICK mode \in 0 .. 3 : mode = IF o.datagram \/ o.subgroup = 0 THEN 0 ELSE 3
    OBVIOUS
  <2>2. /\ kind \in Fetches /\ FetchWritable(o)
        /\ WriteFetchObject(o, FetchFrame(o, mode, TRUE, TRUE))
    BY <1>1, <2>1 DEF WriteObject, AppendFetchObject
  <2>3. CompactMode(o, mode)
    BY <2>1 DEF CompactMode
  <2> QED BY <2>2, <2>3, FetchFrameIInv
<1>2. ASSUME NEW o \in FetchObjects, PeerWritesObject(o) PROVE DataIInv'
  <2>1. kind \in Fetches /\ FetchWritable(o)
    BY <1>2 DEF PeerWritesObject
  <2>2. PICK f \in CompactFrames(o) : WriteFetchObject(o, f)
    BY <1>2 DEF PeerWritesObject
  <2>3. PICK mode \in 0 .. 3, hasObject \in BOOLEAN, hasPriority \in BOOLEAN :
          /\ CompactMode(o, mode)
          /\ ~hasObject => w.havePrior /\ o.object = w.object + 1
          /\ ~hasPriority => real # <<>> /\ o.priority = real[1].priority
          /\ f = FetchFrame(o, mode, hasObject, hasPriority)
    BY <2>2 DEF CompactFrames
  <2>4. WriteFetchObject(o, FetchFrame(o, mode, hasObject, hasPriority))
    BY <2>2, <2>3
  <2> QED BY <2>1, <2>3, <2>4, FetchFrameIInv
<1>3. CASE UNCHANGED dataVars
  <2>1. UNCHANGED <<kind, draft, header, track, w, real, frame, sent, r, got, refused>>
    BY <1>3 DEF dataVars
  <2>2. \A s : Agrees(s)' = Agrees(s)
    BY <2>1 DEF Agrees, SubgroupAgrees, FetchAgrees
  <2>3. \A f : Reading(f)' = Reading(f)
    <3>1. \A f : ReadSubgroupObject(f)' = ReadSubgroupObject(f)
      BY <2>1 DEF ReadSubgroupObject, SubgroupObjectID
    <3>2. \A f : ReadDatagram(f)' = ReadDatagram(f)
      BY <2>1 DEF ReadDatagram
    <3>3. \A f : ReadFetchObject(f)' = ReadFetchObject(f)
      BY <2>1 DEF ReadFetchObject, FetchGroupID, FetchObjectID, FetchSubgroupID
    <3>4. \A f : ReadFetchRange(f)' = ReadFetchRange(f)
      BY <2>1 DEF ReadFetchRange, AfterRange
    <3> QED BY <2>1, <3>1, <3>2, <3>3, <3>4 DEF Reading
  <2>4. (HeaderInFlight' <=> HeaderInFlight) /\ (AtRest' <=> AtRest)
    BY <2>1, <2>2 DEF HeaderInFlight, AtRest
  <2>5. ObjectInFlight' <=> ObjectInFlight
    <3>1. ASSUME NEW f PROVE TakenAsWritten(Reading(f))' <=> TakenAsWritten(Reading(f))
      <4>1. PICK result : result = Reading(f) /\ result = Reading(f)'
        BY <2>3
      <4>2. TakenAsWritten(result)' <=> TakenAsWritten(result)
        BY <2>1, <2>2 DEF TakenAsWritten
      <4>3. TakenAsWritten(Reading(f)) <=> TakenAsWritten(result)
        BY <4>1
      <4>4. TakenAsWritten(Reading(f))' <=> TakenAsWritten(result)'
        BY <4>1 DEF TakenAsWritten
      <4> QED BY <4>2, <4>3, <4>4
    <3> QED BY <2>1, <3>1 DEF ObjectInFlight
  <2> QED BY <2>1, <2>4, <2>5 DEF DataIInv, DataTypeOK
<1> QED BY <1>1, <1>2, <1>3, WriteSubgroupIInv, WriteDatagramIInv, WriteEndOfRangeIInv, ReadHeaderIInv,
           ReadObjectIInv DEF DataNext

LEMMA DataInvariance == DataSpec => []DataIInv
<1> QED BY InitData, DataStep, PTL DEF DataSpec

\* Of every stream and every subscription's datagrams: what the application reads
\* is what the publisher wrote, whatever was left to deltas, to omitted fields and
\* to the header, and nothing the writers accept is refused but a Property out of
\* its scope (AppendObject and Next of subgroup_object.go and fetch_object.go).
THEOREM ObjectsReadAsWritten == DataSpec => []ReadsWhatWasWritten
<1>1. DataIInv => ReadsWhatWasWritten
  BY DEF DataIInv, ReadsWhatWasWritten, HeaderInFlight, ObjectInFlight, AtRest
<1> QED BY <1>1, DataInvariance, PTL
=============================================================================
