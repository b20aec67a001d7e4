--------------------------- MODULE NamespacesProofs ---------------------------
(***************************************************************************)
(* Theorems about Namespaces, for any subscriptions, publications and      *)
(* names: the prefixes a responder serves stay apart, a session is closed  *)
(* for a NAMESPACE_DONE only if the application misused Done, and what the *)
(* events tell the application is what is active.                          *)
(***************************************************************************)
EXTENDS Namespaces, SequenceTheorems, TLAPS

Message == {Ok, Refusal, Fin, Reset} \cup {News(event) : event \in Event}

\* The types the two theorems rest on.
Typed ==
  /\ call \in [Request -> {"idle", "waiting", "returned", "failed"}]
  /\ reader \in [Request -> {"off", "reading", "emitting", "closing", "over"}]
  /\ active \in [Request -> SUBSET Names]
  /\ said \in [Request -> SUBSET Names]
  /\ replies \in [Request -> Seq(Message)]
  /\ fault \in [Request -> BOOLEAN]
  /\ misused \in BOOLEAN
  /\ reserved \subseteq Subscriptions

-----------------------------------------------------------------------------
(* The registry: no two reserved prefixes overlap. *)

PrefixesApart == \A r, s \in reserved : r # s => ~Overlapping(Prefix[r], Prefix[s])

\* Two prefixes of one name overlap.
LEMMA PrefixesOfOneName ==
  ASSUME NEW p \in Seq(STRING), NEW q \in Seq(STRING), NEW n \in Seq(STRING),
         IsPrefix(p, n), IsPrefix(q, n)
  PROVE  Overlapping(p, q)
<1>1. ASSUME NEW s \in Seq(STRING), NEW t \in Seq(STRING), Len(s) <= Len(t),
             IsPrefix(s, n), IsPrefix(t, n)
      PROVE  IsPrefix(s, t)
  <2>1. /\ Len(s) \in Nat /\ Len(t) \in Nat /\ Len(n) \in Nat
        /\ SubSeq(s, 1, Len(s)) = SubSeq(n, 1, Len(s))
        /\ SubSeq(t, 1, Len(t)) = SubSeq(n, 1, Len(t))
        /\ Len(t) <= Len(n)
    BY <1>1 DEF IsPrefix
  <2>2. \A i \in 1 .. Len(s) : s[i] = n[i]
    BY <2>1, <1>1
  <2>3. \A i \in 1 .. Len(t) : t[i] = n[i]
    BY <2>1, <1>1
  <2>4. SubSeq(s, 1, Len(s)) = SubSeq(t, 1, Len(s))
    BY <2>1, <2>2, <2>3, <1>1
  <2>5. QED
    BY <2>4, <1>1 DEF IsPrefix
<1>2. CASE Len(p) <= Len(q)
  BY <1>1, <1>2 DEF Overlapping
<1>3. CASE Len(q) <= Len(p)
  BY <1>1, <1>3 DEF Overlapping
<1>4. Len(p) \in Nat /\ Len(q) \in Nat
  OBVIOUS
<1>5. QED
  BY <1>2, <1>3, <1>4

LEMMA ApartMeansOnce ==
  ASSUME Typed, PrefixesApart
  PROVE  OneSubscriptionPerName
<1> SUFFICES ASSUME NEW r \in reserved, NEW s \in reserved, r # s,
                    NEW n \in Under(r) \cap Under(s)
             PROVE  FALSE
  BY DEF OneSubscriptionPerName
<1>1. /\ Prefix[r] \in Seq(STRING) /\ Prefix[s] \in Seq(STRING) /\ n \in Seq(STRING)
      /\ IsPrefix(Prefix[r], n) /\ IsPrefix(Prefix[s], n)
  BY ConstantsAssumption DEF Typed, Under
<1>2. QED
  BY <1>1, PrefixesOfOneName DEF PrefixesApart

-----------------------------------------------------------------------------
(* What a requester will know of a name once it has handled the first i of  *)
(* the messages that are on their way to it.                               *)

Announces(message, n) == message = News([name |-> n, available |-> TRUE])
Withdraws(message, n) == message = News([name |-> n, available |-> FALSE])

Backed(known, messages, n, i) ==
  \/ n \in known /\ \A j \in 1 .. i : ~Withdraws(messages[j], n)
  \/ \E k \in 1 .. i :
       /\ Announces(messages[k], n)
       /\ \A j \in k + 1 .. i : ~Withdraws(messages[j], n)

\* Every withdrawal on its way finds its name announced before it, and what the
\* announcer believes to be announced will be known when all has been handled.
Trusted(known, messages, announced) ==
  /\ \A n \in Names : \A i \in 1 .. Len(messages) :
       Withdraws(messages[i], n) => Backed(known, messages, n, i - 1)
  /\ \A n \in announced : Backed(known, messages, n, Len(messages))

Honest ==
  ~misused => \A r \in Request :
    reader[r] \in {"off", "reading", "emitting"} => Trusted(active[r], replies[r], said[r])

\* A request that is not made yet is not read either.
Fresh == \A r \in Request : call[r] = "idle" => reader[r] = "off"

Blameless == ((\E r \in Request : fault[r]) => misused) /\ NoFalseAlarm

\* News is what tells an announcement from a withdrawal.
LEMMA NewsDiffers ==
  ASSUME NEW n, NEW m
  PROVE  /\ \A message \in {Ok, Refusal, Fin, Reset} :
               ~Withdraws(message, n) /\ ~Announces(message, n)
         /\ ~Withdraws(News([name |-> m, available |-> TRUE]), n)
         /\ Withdraws(News([name |-> m, available |-> FALSE]), n) => m = n
<1>1. \A message \in {Ok, Refusal, Fin, Reset} : ~Withdraws(message, n) /\ ~Announces(message, n)
  BY DEF Withdraws, Announces, News, Ok, Refusal, Fin, Reset
<1>2. ASSUME NEW e, NEW f, News(e) = News(f) PROVE e = f
  BY <1>2 DEF News
<1>3. [name |-> m, available |-> TRUE] # [name |-> n, available |-> FALSE]
  OBVIOUS
<1>4. [name |-> m, available |-> FALSE] = [name |-> n, available |-> FALSE] => m = n
  OBVIOUS
<1>5. QED
  BY <1>1, <1>2, <1>3, <1>4 DEF Withdraws

\* Handling the first message keeps what comes after it backed.
LEMMA BackedTail ==
  ASSUME NEW known, NEW after, NEW messages \in Seq(Message), NEW n,
         NEW i \in 1 .. Len(messages), Backed(known, messages, n, i),
         Announces(Head(messages), n) => n \in after,
         n \in known /\ ~Withdraws(Head(messages), n) => n \in after
  PROVE  Backed(after, Tail(messages), n, i - 1)
<1>1. /\ Len(messages) \in Nat /\ messages # <<>> /\ Head(messages) = messages[1]
      /\ \A j \in 1 .. Len(messages) - 1 : Tail(messages)[j] = messages[j + 1]
  OBVIOUS
<1>2. CASE n \in known /\ \A j \in 1 .. i : ~Withdraws(messages[j], n)
  BY <1>1, <1>2 DEF Backed
<1>3. CASE \E k \in 1 .. i : /\ Announces(messages[k], n)
                            /\ \A j \in k + 1 .. i : ~Withdraws(messages[j], n)
  <2>1. PICK k \in 1 .. i : /\ Announces(messages[k], n)
                            /\ \A j \in k + 1 .. i : ~Withdraws(messages[j], n)
    BY <1>3
  <2>2. CASE k = 1
    BY <1>1, <2>1, <2>2 DEF Backed
  <2>3. CASE k # 1
    <3>1. /\ k - 1 \in 1 .. i - 1 /\ Announces(Tail(messages)[k - 1], n)
          /\ \A j \in k .. i - 1 : ~Withdraws(Tail(messages)[j], n)
      BY <1>1, <2>1, <2>3
    <3>2. (k - 1) + 1 = k
      BY <1>1
    <3>3. QED
      BY <3>1, <3>2 DEF Backed
  <2>4. QED
    BY <2>2, <2>3
<1>4. QED
  BY <1>2, <1>3 DEF Backed

\* Messages written behind change nothing before them.
LEMMA BackedKept ==
  ASSUME NEW known, NEW messages \in Seq(Message), NEW more \in Seq(Message), NEW n,
         NEW i \in 0 .. Len(messages), Backed(known, messages, n, i)
  PROVE  Backed(known, messages \o more, n, i)
<1>1. \A j \in 1 .. i : (messages \o more)[j] = messages[j]
  OBVIOUS
<1>2. QED
  BY <1>1 DEF Backed

LEMMA BackedExtended ==
  ASSUME NEW known, NEW messages \in Seq(Message), NEW more \in Seq(Message), NEW n,
         Backed(known, messages, n, Len(messages)),
         \A j \in 1 .. Len(more) : ~Withdraws(more[j], n)
  PROVE  Backed(known, messages \o more, n, Len(messages \o more))
<1> DEFINE all == messages \o more
<1>1. /\ Len(messages) \in Nat /\ Len(more) \in Nat /\ Len(all) = Len(messages) + Len(more)
      /\ \A j \in 1 .. Len(messages) : all[j] = messages[j]
      /\ \A j \in Len(messages) + 1 .. Len(all) : all[j] = more[j - Len(messages)]
  OBVIOUS
<1>2. \A j \in Len(messages) + 1 .. Len(all) : ~Withdraws(all[j], n)
  BY <1>1
<1>3. CASE n \in known /\ \A j \in 1 .. Len(messages) : ~Withdraws(messages[j], n)
  BY <1>1, <1>2, <1>3 DEF Backed
<1>4. CASE \E k \in 1 .. Len(messages) :
             /\ Announces(messages[k], n)
             /\ \A j \in k + 1 .. Len(messages) : ~Withdraws(messages[j], n)
  <2>1. PICK k \in 1 .. Len(messages) :
             /\ Announces(messages[k], n)
             /\ \A j \in k + 1 .. Len(messages) : ~Withdraws(messages[j], n)
    BY <1>4
  <2>2. /\ k \in 1 .. Len(all) /\ Announces(all[k], n)
        /\ \A j \in k + 1 .. Len(all) : ~Withdraws(all[j], n)
    BY <1>1, <1>2, <2>1
  <2>3. QED
    BY <2>2 DEF Backed
<1>5. QED
  BY <1>3, <1>4 DEF Backed

-----------------------------------------------------------------------------
(* The invariant, step by step. *)

IInv == Typed /\ PrefixesApart /\ Fresh /\ Honest /\ Blameless

LEMMA InitIInv == Init => IInv
<1> SUFFICES ASSUME Init PROVE IInv
  OBVIOUS
<1>1. Typed
  BY EmptySeq DEF Init, Typed
<1>4. PrefixesApart /\ Fresh /\ Blameless
  BY DEF Init, PrefixesApart, Fresh, Blameless, NoFalseAlarm
<1>2. Trusted({}, <<>>, {})
  BY DEF Trusted
<1>3. Honest
  BY <1>2 DEF Init, Honest
<1>5. QED
  BY <1>1, <1>3, <1>4 DEF IInv

\* What the invariant is about.
core == <<call, reader, active, said, replies, fault, misused, reserved, session>>

LEMMA StutterIInv == IInv /\ UNCHANGED core => IInv'
BY DEF core, IInv, Typed, PrefixesApart, Fresh, Honest, Blameless, NoFalseAlarm

\* A step of the requester's reader: what is left of one request's messages is
\* still trusted, or they are not read any more.
LEMMA ReaderIInv ==
  ASSUME IInv, NEW r \in Request, Typed',
         \A q \in Request \ {r} : reader'[q] = reader[q] /\ active'[q] = active[q]
                                   /\ replies'[q] = replies[q],
         UNCHANGED <<said, misused, reserved>>, Fresh',
         ~misused /\ reader'[r] \in {"off", "reading", "emitting"}
            => Trusted(active'[r], replies'[r], said[r]),
         Blameless'
  PROVE  IInv'
<1>1. PrefixesApart'
  BY DEF IInv, PrefixesApart
<1>2. Honest'
  BY DEF IInv, Honest
<1>3. QED
  BY <1>1, <1>2 DEF IInv

\* The first message is handled.
LEMMA TrustedTail ==
  ASSUME NEW known, NEW after, NEW messages \in Seq(Message), messages # <<>>,
         NEW announced \in SUBSET Names, Trusted(known, messages, announced),
         \A n \in Names : Announces(Head(messages), n) => n \in after,
         \A n \in Names : n \in known /\ ~Withdraws(Head(messages), n) => n \in after
  PROVE  Trusted(after, Tail(messages), announced)
<1>1. /\ Len(messages) \in Nat \ {0} /\ Len(Tail(messages)) = Len(messages) - 1
      /\ \A j \in 1 .. Len(messages) - 1 : Tail(messages)[j] = messages[j + 1]
  OBVIOUS
<1>2. ASSUME NEW n \in Names, NEW i \in 1 .. Len(Tail(messages)), Withdraws(Tail(messages)[i], n)
      PROVE  Backed(after, Tail(messages), n, i - 1)
  <2>1. i + 1 \in 1 .. Len(messages) /\ Withdraws(messages[i + 1], n) /\ (i + 1) - 1 = i
        /\ i \in 1 .. Len(messages)
    BY <1>1, <1>2
  <2>2. Backed(known, messages, n, i)
    BY <2>1 DEF Trusted
  <2>3. QED
    BY <2>1, <2>2, BackedTail
<1>3. ASSUME NEW n \in announced
      PROVE  Backed(after, Tail(messages), n, Len(Tail(messages)))
  <2>1. Backed(known, messages, n, Len(messages)) /\ Len(messages) \in 1 .. Len(messages)
    BY <1>1 DEF Trusted
  <2>2. QED
    BY <1>1, <2>1, BackedTail
<1>4. QED
  BY <1>2, <1>3 DEF Trusted

\* Messages are written behind the others: no withdrawal among them but of a name
\* that is announced, and of a name announced now its announcement.
LEMMA TrustedWrites ==
  ASSUME NEW known, NEW messages \in Seq(Message), NEW more \in Seq(Message),
         NEW announced \in SUBSET Names, NEW now \in SUBSET Names,
         Trusted(known, messages, announced), now \subseteq announced,
         \A n \in Names : \A j \in 1 .. Len(more) : ~Withdraws(more[j], n)
  PROVE  Trusted(known, messages \o more, now)
<1> DEFINE all == messages \o more
<1>1. /\ Len(messages) \in Nat /\ Len(more) \in Nat /\ Len(all) = Len(messages) + Len(more)
      /\ \A j \in 1 .. Len(messages) : all[j] = messages[j]
      /\ \A j \in Len(messages) + 1 .. Len(all) :
           all[j] = more[j - Len(messages)] /\ j - Len(messages) \in 1 .. Len(more)
  OBVIOUS
<1>2. ASSUME NEW n \in Names, NEW i \in 1 .. Len(all), Withdraws(all[i], n)
      PROVE  Backed(known, all, n, i - 1)
  <2>1. i \in 1 .. Len(messages) /\ Withdraws(messages[i], n) /\ i - 1 \in 0 .. Len(messages)
    BY <1>1, <1>2
  <2>2. Backed(known, messages, n, i - 1)
    BY <2>1 DEF Trusted
  <2>3. QED
    BY <2>1, <2>2, BackedKept
<1>3. ASSUME NEW n \in now
      PROVE  Backed(known, all, n, Len(all))
  <2>1. Backed(known, messages, n, Len(messages))
    BY DEF Trusted
  <2>2. QED
    BY <2>1, BackedExtended
<1>4. QED
  BY <1>2, <1>3 DEF Trusted

LEMMA OneMessage ==
  ASSUME NEW event \in Event
  PROVE  /\ <<News(event)>> \in Seq(Message) /\ Len(<<News(event)>>) = 1
         /\ <<News(event)>>[1] = News(event)
<1> DEFINE news == News(event)
<1>1. news \in Message
  BY DEF Message
<1> HIDE DEF news
<1>2. <<news>> \in Seq(Message) /\ Len(<<news>>) = 1 /\ <<news>>[1] = news
  BY <1>1
<1>3. QED
  BY <1>2 DEF news

\* An announcement or a withdrawal is written.
LEMMA TrustedAnnounces ==
  ASSUME NEW known, NEW messages \in Seq(Message), NEW announced \in SUBSET Names,
         Trusted(known, messages, announced), NEW n \in Names, NEW event \in Event,
         event = [name |-> n, available |-> TRUE]
  PROVE  Trusted(known, messages \o <<News(event)>>, announced \cup {n})
<1> DEFINE more == <<News(event)>>
<1> DEFINE all == messages \o more
<1>1. /\ more \in Seq(Message) /\ Len(more) = 1 /\ more[1] = News(event)
  BY OneMessage
<1>6. \A m \in Names : ~Withdraws(News(event), m)
  BY NewsDiffers
<1>2. \A m \in Names : \A j \in 1 .. Len(more) : ~Withdraws(more[j], m)
  <2>1. \A j \in 1 .. Len(more) : more[j] = News(event)
    BY OneMessage
  <2>2. QED
    BY <1>6, <2>1, Zenon
<1>3. Trusted(known, all, announced)
  <2> HIDE DEF more
  <2>1. QED
    BY <1>1, <1>2, TrustedWrites
<1>4. Backed(known, all, n, Len(all))
  <2>1. Len(all) = Len(messages) + 1 /\ all[Len(all)] = News(event) /\ Len(all) \in 1 .. Len(all)
    BY <1>1
  <2>2. Announces(all[Len(all)], n)
    BY <2>1 DEF Announces
  <2>3. QED
    BY <2>1, <2>2 DEF Backed
<1>5. QED
  BY <1>3, <1>4 DEF Trusted

LEMMA TrustedWithdraws ==
  ASSUME NEW known, NEW messages \in Seq(Message), NEW announced \in SUBSET Names,
         Trusted(known, messages, announced), NEW n \in announced, NEW event \in Event,
         event = [name |-> n, available |-> FALSE]
  PROVE  Trusted(known, messages \o <<News(event)>>, announced \ {n})
<1> DEFINE more == <<News(event)>>
<1> DEFINE all == messages \o more
<1>1. /\ more \in Seq(Message) /\ Len(more) = 1 /\ more[1] = News(event)
  BY OneMessage
<1>2. /\ Len(messages) \in Nat /\ Len(all) = Len(messages) + 1 /\ all[Len(all)] = News(event)
      /\ \A j \in 1 .. Len(messages) : all[j] = messages[j]
  BY <1>1
<1>3. \A m \in Names : Withdraws(News(event), m) => m = n
  BY NewsDiffers
<1>4. ASSUME NEW m \in Names, NEW i \in 1 .. Len(all), Withdraws(all[i], m)
      PROVE  Backed(known, all, m, i - 1)
  <2>1. CASE i \in 1 .. Len(messages)
    <3>1. Backed(known, messages, m, i - 1) /\ i - 1 \in 0 .. Len(messages)
      BY <1>2, <1>4, <2>1 DEF Trusted
    <3> HIDE DEF more
    <3>2. QED
      BY <1>1, <3>1, BackedKept
  <2>2. CASE i = Len(all)
    <3>4. m = n
      BY <1>2, <1>3, <1>4, <2>2, Zenon
    <3>1. m = n /\ i - 1 = Len(messages) /\ Len(messages) \in 0 .. Len(messages)
      BY <1>2, <2>2, <3>4
    <3>2. Backed(known, messages, n, Len(messages))
      BY DEF Trusted
    <3> HIDE DEF more
    <3>3. QED
      BY <1>1, <3>1, <3>2, BackedKept
  <2>3. QED
    BY <1>2, <2>1, <2>2
<1>5. ASSUME NEW m \in announced \ {n}
      PROVE  Backed(known, all, m, Len(all))
  <2>1. Backed(known, messages, m, Len(messages))
    BY DEF Trusted
  <2>2. \A j \in 1 .. Len(more) : ~Withdraws(more[j], m)
    <3>1. \A j \in 1 .. Len(more) : more[j] = News(event)
      BY OneMessage
    <3>2. m \in Names /\ m # n
      OBVIOUS
    <3>3. QED
      BY <1>3, <3>1, <3>2, Zenon
  <2> HIDE DEF more
  <2>3. QED
    BY <1>1, <2>1, <2>2, BackedExtended
<1>6. QED
  BY <1>4, <1>5 DEF Trusted

-----------------------------------------------------------------------------
(* The actions of the requester. *)

LEMMA AskIInv == ASSUME IInv, NEW r \in Request, Ask(r) PROVE IInv'
<1> USE DEF IInv, Ask, Calls, serving, announcing
<1>1. Typed'
  BY DEF Typed
<1>2. PrefixesApart' /\ Fresh' /\ Blameless'
  BY DEF Typed, PrefixesApart, Fresh, Blameless, NoFalseAlarm
<1>3. Honest'
  BY DEF Typed, Fresh, Honest
<1>4. QED
  BY <1>1, <1>2, <1>3

LEMMA CallIInv ==
  ASSUME IInv, NEW r \in Request, Returns(r) \/ Fails(r) \/ Close(r)
  PROVE  IInv'
<1> USE DEF IInv, Returns, Fails, Close, Calls, Cancel, reading, serving, announcing
<1>1. Typed'
  BY DEF Typed
<1>2. PrefixesApart' /\ Fresh' /\ Honest' /\ Blameless'
  BY DEF Typed, PrefixesApart, Fresh, Honest, Blameless, NoFalseAlarm
<1>3. QED
  BY <1>1, <1>2

LEMMA ReadAnswerIInv == ASSUME IInv, NEW r \in Request, ReadAnswer(r) PROVE IInv'
<1> USE DEF ReadAnswer, ReaderAt, Reads, calls, serving, announcing
<1>1. /\ replies[r] \in Seq(Message) /\ replies[r] # <<>> /\ Head(replies[r]) \in {Ok, Refusal}
      /\ replies' = [replies EXCEPT ![r] = Tail(replies[r])]
      /\ reader[r] = "reading" /\ reader' = reader
      /\ said[r] \in SUBSET Names
  BY DEF IInv, Typed
<1>2. Typed'
  <2>1. Tail(replies[r]) \in Seq(Message)
    BY <1>1
  <2>2. QED
    BY <1>1, <2>1 DEF IInv, Typed
<1>3. ~misused => Trusted(active[r], Tail(replies[r]), said[r])
  <2>1. \A n \in Names : ~Withdraws(Head(replies[r]), n) /\ ~Announces(Head(replies[r]), n)
    BY <1>1, NewsDiffers
  <2>2. ~misused => Trusted(active[r], replies[r], said[r])
    BY <1>1 DEF IInv, Honest
  <2>3. QED
    BY <1>1, <2>1, <2>2, TrustedTail
<1>4. Fresh' /\ Blameless'
  BY <1>1 DEF IInv, Fresh, Blameless, NoFalseAlarm
<1>5. ~misused => Trusted(active'[r], replies'[r], said[r])
  BY <1>1, <1>3 DEF IInv, Typed
<1>6. QED
  BY <1>1, <1>2, <1>4, <1>5, ReaderIInv DEF IInv, Typed

LEMMA EmitRecordsIInv ==
  ASSUME IInv, NEW r \in Request, NEW event \in Event, EmitRecords(r, event)
  PROVE  IInv'
<1> USE DEF EmitRecords, ReaderAt, Reads, calls, serving, announcing
<1>1. /\ replies[r] \in Seq(Message) /\ replies[r] # <<>> /\ Head(replies[r]) = News(event)
      /\ replies' = [replies EXCEPT ![r] = Tail(replies[r])]
      /\ active' = [active EXCEPT ![r] = Told(active[r], event)]
      /\ reader[r] = "reading" /\ reader' = [reader EXCEPT ![r] = "emitting"]
      /\ said[r] \in SUBSET Names
  BY DEF IInv, Typed
<1>2. event.name \in Names /\ event.available \in BOOLEAN
      /\ event = [name |-> event.name, available |-> event.available]
  BY DEF Event
<1>3. Typed'
  <2>1. Tail(replies[r]) \in Seq(Message)
    BY <1>1
  <2>2. Told(active[r], event) \in SUBSET Names
    BY <1>2 DEF Told, IInv, Typed
  <2>3. QED
    BY <1>1, <2>1, <2>2 DEF IInv, Typed
<1>4. \A n \in Names : Announces(News(event), n) => n \in Told(active[r], event)
  <2>1. \A n \in Names : Announces(News(event), n) => event = [name |-> n, available |-> TRUE]
    BY DEF Announces, News
  <2>2. \A n \in Names : event = [name |-> n, available |-> TRUE] => n \in Told(active[r], event)
    BY DEF Told
  <2>3. QED
    BY <2>1, <2>2
<1>5. \A n \in Names : n \in active[r] /\ ~Withdraws(News(event), n) => n \in Told(active[r], event)
  <2>1. ASSUME NEW n \in Names, n \in active[r], n \notin Told(active[r], event)
        PROVE  event.name = n /\ event.available = FALSE
    BY <1>2, <2>1 DEF Told
  <2>2. \A n \in Names : event.name = n /\ event.available = FALSE => Withdraws(News(event), n)
    BY <1>2 DEF Withdraws
  <2>3. QED
    BY <2>1, <2>2
<1>6. ~misused => Trusted(Told(active[r], event), Tail(replies[r]), said[r])
  <2>1. ~misused => Trusted(active[r], replies[r], said[r])
    BY <1>1 DEF IInv, Honest
  <2>2. QED
    BY <1>1, <1>4, <1>5, <2>1, TrustedTail
<1>7. Fresh' /\ Blameless'
  BY <1>1 DEF IInv, Typed, Fresh, Blameless, NoFalseAlarm
<1>8. ~misused => Trusted(active'[r], replies'[r], said[r])
  BY <1>1, <1>6 DEF IInv, Typed
<1>9. QED
  BY <1>1, <1>3, <1>7, <1>8, ReaderIInv DEF IInv, Typed

\* The reader faults its peer for the first message on its way: if that is a
\* withdrawal of a name it does not know, the application has misused Done.
LEMMA EmitRefusesIInv ==
  ASSUME IInv, NEW r \in Request, NEW event \in Event, EmitRefuses(r, event)
  PROVE  IInv'
<1> USE DEF EmitRefuses, RunEnds, ReaderAt, Reads, calls, serving, announcing
<1>1. /\ replies[r] \in Seq(Message) /\ replies[r] # <<>> /\ Head(replies[r]) = News(event)
      /\ reader[r] = "reading" /\ event \in Event /\ ~event.available
      /\ event.name \notin active[r]
  BY DEF IInv, Typed
<1>2. misused
  <2>1. event.name \in Names /\ event = [name |-> event.name, available |-> FALSE]
    BY <1>1 DEF Event
  <2>2. 1 \in 1 .. Len(replies[r]) /\ replies[r][1] = News(event) /\ 1 - 1 = 0
    BY <1>1
  <2>3. Withdraws(replies[r][1], event.name)
    BY <2>1, <2>2 DEF Withdraws
  <2>4. ~misused => Backed(active[r], replies[r], event.name, 0)
    BY <1>1, <2>1, <2>2, <2>3 DEF IInv, Honest, Trusted
  <2>5. ~Backed(active[r], replies[r], event.name, 0)
    BY <1>1 DEF Backed
  <2>6. QED
    BY <2>4, <2>5
<1>3. Typed'
  <2>1. Tail(replies[r]) \in Seq(Message)
    BY <1>1
  <2>2. QED
    BY <2>1 DEF IInv, Typed
<1>4. Fresh' /\ Blameless'
  BY <1>1, <1>2 DEF IInv, Typed, Fresh, Blameless, NoFalseAlarm
<1>5. QED
  BY <1>2, <1>3, <1>4, ReaderIInv DEF IInv, Typed

LEMMA EmitSendsIInv == ASSUME IInv, NEW r \in Request, EmitSends(r) PROVE IInv'
<1> USE DEF IInv, EmitSends, ReaderAt, calls, serving, announcing
<1>1. Typed'
  BY DEF Typed
<1>2. PrefixesApart' /\ Fresh' /\ Blameless'
  BY DEF Typed, PrefixesApart, Fresh, Blameless, NoFalseAlarm
<1>3. Honest'
  BY DEF Typed, Honest
<1>4. QED
  BY <1>1, <1>2, <1>3

\* Once the reader has stopped reading, nothing is trusted to it any more.
LEMMA EndingIInv ==
  ASSUME IInv, NEW r \in Request,
         EmitFails(r) \/ ReadFails(r) \/ RunCloses(r) \/ \E n \in Names : RunReports(r, n)
  PROVE  IInv'
<1> USE DEF EmitFails, ReadFails, RunCloses, RunReports, RunEnds, ReaderAt, calls, serving, announcing
<1>1. /\ reader[r] \in {"reading", "emitting", "closing"}
      /\ \E to \in {"closing", "over"} : reader' = [reader EXCEPT ![r] = to]
      /\ \E left \in SUBSET active[r] : active' = [active EXCEPT ![r] = left]
      /\ UNCHANGED <<call, said, replies, fault, misused, reserved>>
      /\ session' = session \/ (fault[r] /\ session' = "blamed")
  <2>1. CASE EmitFails(r) \/ ReadFails(r) \/ RunCloses(r)
    <3>1. active' = [active EXCEPT ![r] = active[r]]
      BY <2>1 DEF IInv, Typed
    <3>2. QED
      BY <2>1, <3>1
  <2>2. CASE \E n \in Names : RunReports(r, n)
    <3>1. reader' = [reader EXCEPT ![r] = "closing"] /\ reader[r] = "closing"
      BY <2>2
    <3>2. PICK n \in Names : active' = [active EXCEPT ![r] = @ \ {n}]
      BY <2>2
    <3>3. active[r] \ {n} \in SUBSET active[r] /\ active' = [active EXCEPT ![r] = active[r] \ {n}]
      BY <3>2
    <3>4. QED
      BY <2>2, <3>1, <3>3
  <2>3. QED
    BY <2>1, <2>2
<1>2. Typed'
  BY <1>1 DEF IInv, Typed
<1>3. Fresh'
  BY <1>1 DEF IInv, Typed, Fresh
<1>4. Blameless'
  BY <1>1 DEF IInv, Blameless, NoFalseAlarm
<1>5. reader'[r] \notin {"off", "reading", "emitting"}
  BY <1>1 DEF IInv, Typed
<1>6. QED
  BY <1>1, <1>2, <1>3, <1>4, <1>5, ReaderIInv DEF IInv, Typed

-----------------------------------------------------------------------------
(* The actions of the responder. *)

\* What it writes is trusted if it was: an answer, or news of an application that
\* has not misused Done by now.
LEMMA ResponderIInv ==
  ASSUME IInv, NEW r \in Request, NEW more \in Seq(Message), NEW now \in SUBSET Names,
         UNCHANGED <<call, reader, active, fault, session>>,
         replies' = [replies EXCEPT ![r] = @ \o more],
         said' = [said EXCEPT ![r] = now],
         misused' = misused \/ misused' = TRUE,
         ~misused' /\ Trusted(active[r], replies[r], said[r])
            => Trusted(active[r], replies[r] \o more, now),
         reserved' \subseteq Subscriptions, PrefixesApart'
  PROVE  IInv'
<1>1. replies[r] \o more \in Seq(Message) /\ replies'[r] = replies[r] \o more
      /\ said'[r] = now
  BY DEF IInv, Typed
<1>2. Typed'
  BY <1>1 DEF IInv, Typed
<1>3. Fresh' /\ Blameless'
  BY DEF IInv, Fresh, Blameless, NoFalseAlarm
<1>4. Honest'
  <2> SUFFICES ASSUME ~misused', NEW q \in Request, reader[q] \in {"off", "reading", "emitting"}
               PROVE  Trusted(active[q], replies'[q], said'[q])
    BY DEF Honest
  <2>1. Trusted(active[q], replies[q], said[q])
    BY DEF IInv, Honest, Typed
  <2>2. CASE q = r
    BY <1>1, <2>1, <2>2
  <2>3. CASE q # r
    BY <2>1, <2>3 DEF IInv, Typed
  <2>4. QED
    BY <2>2, <2>3
<1>5. QED
  BY <1>2, <1>3, <1>4 DEF IInv

\* Answers and endings, which announce and withdraw nothing.
Ending == {<<Refusal, Fin>>, <<Reset>>, <<Ok>>, <<Fin>>}

LEMMA NoNews ==
  ASSUME NEW more \in Ending
  PROVE  /\ more \in Seq(Message)
         /\ \A n \in Names : \A j \in 1 .. Len(more) : ~Withdraws(more[j], n)
<1>1. /\ more \in Seq({Ok, Refusal, Fin, Reset})
      /\ \A j \in 1 .. Len(more) : more[j] \in {Ok, Refusal, Fin, Reset}
  <2> DEFINE S == {Ok, Refusal, Fin, Reset}
  <2>1. Ok \in S /\ Refusal \in S /\ Fin \in S /\ Reset \in S
    OBVIOUS
  <2> HIDE DEF S
  <2>4. ASSUME NEW first \in S, NEW second \in S
        PROVE  <<first>> \in Seq(S) /\ <<first, second>> \in Seq(S)
    OBVIOUS
  <2>2. more \in Seq(S)
    BY <2>1, <2>4, Zenon DEF Ending
  <2>3. QED
    BY <2>2, ElementOfSeq DEF S
<1>2. more \in Seq(Message)
  <2>1. {Ok, Refusal, Fin, Reset} \subseteq Message
    BY DEF Message
  <2>2. QED
    BY <1>1, <2>1, SeqMonotonic
<1>3. QED
  BY <1>1, <1>2, NewsDiffers

LEMMA AnswersIInv ==
  ASSUME IInv, NEW r \in Request, NEW more \in Ending, Writes(r, more),
         UNCHANGED <<call, reader, active, fault, session, said, misused>>,
         reserved' \subseteq Subscriptions, PrefixesApart'
  PROVE  IInv'
<1>1. said' = [said EXCEPT ![r] = said[r]] /\ said[r] \in SUBSET Names
      /\ replies[r] \in Seq(Message) /\ misused' \in BOOLEAN
  BY DEF IInv, Typed
<1>2. Trusted(active[r], replies[r], said[r]) => Trusted(active[r], replies[r] \o more, said[r])
  BY <1>1, NoNews, TrustedWrites
<1>3. more \in Seq(Message)
  BY NoNews
<1>4. QED
  BY <1>1, <1>2, <1>3, ResponderIInv DEF Writes

\* The prefix of a request that is served overlaps no reserved one.
LEMMA ServeIInv == ASSUME IInv, NEW r \in Request, Serve(r) PROVE IInv'
<1> USE DEF Responds, requester, calls, reading, announcing
<1>1. reserved' \subseteq Subscriptions
  BY DEF Serve, IInv, Typed
<1>2. PrefixesApart'
  <2>1. CASE reserved' = reserved
    BY <2>1 DEF IInv, PrefixesApart
  <2>2. CASE /\ reserved' = reserved \cup ({r} \cap Subscriptions)
             /\ ~(r \in Subscriptions /\ \E s \in reserved : Overlapping(Prefix[s], Prefix[r]))
    BY <2>2 DEF IInv, PrefixesApart, Overlapping
  <2>3. QED
    BY <2>1, <2>2 DEF Serve
<1>3. CASE replies' = replies
  <2>1. Typed' /\ Fresh' /\ Honest' /\ Blameless'
    BY <1>1, <1>3 DEF IInv, Serve, Typed, Fresh, Honest, Blameless, NoFalseAlarm
  <2>2. QED
    BY <1>2, <2>1 DEF IInv
<1>4. CASE Writes(r, <<Refusal, Fin>>)
  BY <1>1, <1>2, <1>4, AnswersIInv DEF Serve, Ending
<1>5. QED
  BY <1>3, <1>4 DEF Serve

LEMMA AnsweringIInv ==
  ASSUME IInv, NEW r \in Request,
         ServeNothing(r) \/ Accept(r) \/ Reject(r) \/ CloseAnnouncer(r)
  PROVE  IInv'
<1> USE DEF Responds, requester, calls, reading, announcing
<1>1. /\ \E more \in Ending : Writes(r, more)
      /\ UNCHANGED <<call, reader, active, fault, session, said, misused, reserved>>
  BY DEF ServeNothing, Accept, Reject, CloseAnnouncer, Ending
<1>2. reserved' \subseteq Subscriptions /\ PrefixesApart'
  BY <1>1 DEF IInv, Typed, PrefixesApart
<1>3. QED
  BY <1>1, <1>2, AnswersIInv

LEMMA ServeEndsIInv == ASSUME IInv, NEW r \in Request, ServeEnds(r) PROVE IInv'
BY DEF ServeEnds, Responds, requester, calls, reading, announcing,
       IInv, Typed, PrefixesApart, Fresh, Honest, Blameless, NoFalseAlarm

LEMMA SendsIInv ==
  ASSUME IInv, NEW r \in Request, NEW n \in Names, Announce(r, n) \/ Done(r, n)
  PROVE  IInv'
<1> USE DEF Sends, Writes, Responds, requester, calls, reading, serving
<1>1. /\ UNCHANGED <<call, reader, active, fault, session, reserved>>
      /\ replies[r] \in Seq(Message) /\ said[r] \in SUBSET Names
      /\ reserved' \subseteq Subscriptions /\ PrefixesApart'
  BY DEF IInv, Typed, PrefixesApart, Announce, Done
<1>2. CASE Announce(r, n)
  <2> DEFINE event == [name |-> n, available |-> TRUE]
  <2>1. /\ event \in Event /\ said[r] \cup {n} \in SUBSET Names
        /\ <<News(event)>> \in Seq(Message)
    BY <1>1, OneMessage DEF Event
  <2>2. /\ replies' = [replies EXCEPT ![r] = @ \o <<News(event)>>]
        /\ said' = [said EXCEPT ![r] = said[r] \cup {n}]
        /\ misused' = misused /\ misused' \in BOOLEAN
    BY <1>2 DEF Announce, IInv, Typed
  <2>3. Trusted(active[r], replies[r], said[r])
          => Trusted(active[r], replies[r] \o <<News(event)>>, said[r] \cup {n})
    BY <1>1, <2>1, TrustedAnnounces
  <2> HIDE DEF event
  <2>4. QED
    BY <1>1, <2>1, <2>2, <2>3, ResponderIInv
<1>3. CASE Done(r, n)
  <2> DEFINE event == [name |-> n, available |-> FALSE]
  <2>1. /\ event \in Event /\ said[r] \ {n} \in SUBSET Names
        /\ <<News(event)>> \in Seq(Message)
    BY <1>1, OneMessage DEF Event
  <2>2. /\ replies' = [replies EXCEPT ![r] = @ \o <<News(event)>>]
        /\ said' = [said EXCEPT ![r] = said[r] \ {n}]
        /\ misused => misused' /\ misused' \in BOOLEAN
        /\ ~misused' => n \in said[r]
    BY <1>3 DEF Done, IInv, Typed
  <2>3. n \in said[r] /\ Trusted(active[r], replies[r], said[r])
          => Trusted(active[r], replies[r] \o <<News(event)>>, said[r] \ {n})
    BY <1>1, <2>1, TrustedWithdraws
  <2>4. ~misused' /\ Trusted(active[r], replies[r], said[r])
          => Trusted(active[r], replies[r] \o <<News(event)>>, said[r] \ {n})
    BY <2>2, <2>3
  <2> DEFINE more == <<News(event)>>
  <2> DEFINE now == said[r] \ {n}
  <2>5. /\ more \in Seq(Message) /\ now \in SUBSET Names
        /\ replies' = [replies EXCEPT ![r] = @ \o more] /\ said' = [said EXCEPT ![r] = now]
        /\ ~misused' /\ Trusted(active[r], replies[r], said[r])
             => Trusted(active[r], replies[r] \o more, now)
    BY <2>1, <2>2, <2>4
  <2> HIDE DEF event, more, now
  <2>6. misused' = misused \/ misused' = TRUE
    BY <1>3, <2>2 DEF Done, IInv, Typed
  <2>7. QED
    BY <1>1, <2>5, <2>6, ResponderIInv
<1>4. QED
  BY <1>2, <1>3

-----------------------------------------------------------------------------

LEMMA NextIInv == IInv /\ [Next]_vars => IInv'
<1> SUFFICES ASSUME IInv, [Next]_vars PROVE IInv'
  OBVIOUS
<1>1. CASE UNCHANGED vars
  BY <1>1, StutterIInv
     DEF vars, requester, calls, reading, serving, announcing, core
<1>2. CASE EndSession
  BY <1>2 DEF EndSession, requester, calls, reading, serving, announcing,
              IInv, Typed, PrefixesApart, Fresh, Honest, Blameless, NoFalseAlarm
<1>3. ASSUME NEW r \in Request, ReaderStep(r) PROVE IInv'
  BY <1>3, ReadAnswerIInv, EmitSendsIInv, EndingIInv, EmitRecordsIInv, EmitRefusesIInv
     DEF ReaderStep
<1>4. ASSUME NEW r \in Request, ReceiveEvent(r) PROVE IInv'
  BY <1>4, StutterIInv
     DEF ReceiveEvent, calls, reading, serving, announcing, core
<1>5. ASSUME NEW r \in Request, RequestStep(r) PROVE IInv'
  BY <1>3, <1>4, <1>5, AskIInv, CallIInv, ServeIInv, AnsweringIInv, ServeEndsIInv, SendsIInv
     DEF RequestStep
<1>6. QED
  BY <1>1, <1>2, <1>5 DEF Next

\* The invariant of the prefixes and announcements that are served (namespace.go).
THEOREM Inductive == Spec => []IInv
BY InitIInv, NextIInv, PTL DEF Spec

\* prefixRegistry (namespace.go): whatever requests arrive and in whatever order
\* they end, no namespace falls under two subscriptions served at once.
THEOREM PrefixesStayApart == Spec => []OneSubscriptionPerName
<1>1. IInv => OneSubscriptionPerName
  BY ApartMeansOnce DEF IInv
<1>2. QED
  BY <1>1, Inductive, PTL

\* emit (namespace.go): however far announcements and withdrawals are apart on the
\* stream, only an application that withdraws what it has not announced costs its
\* session.
THEOREM AlarmsAreTrue == Spec => []NoFalseAlarm
<1>1. IInv => NoFalseAlarm
  BY DEF IInv, Blameless
<1>2. QED
  BY <1>1, Inductive, PTL

-----------------------------------------------------------------------------
(* The events: what the application will make of those it has still to      *)
(* receive is what is active.                                              *)

EventsTyped ==
  /\ active \in [Request -> SUBSET Names] /\ view \in [Request -> SUBSET Names]
  /\ events \in [Request -> Seq(Event)]
  /\ emitting \in [Request -> Seq(Event)]
  /\ missed \in [Request -> BOOLEAN] /\ DOMAIN reader = Request

\* Only emit holds an event that is recorded and not sent.
EmitHolds == \A r \in Request : reader[r] # "emitting" => emitting[r] = <<>>

EventsIInv == EventsTyped /\ EmitHolds /\ ViewFollows

LEMMA EventFields ==
  ASSUME NEW queue \in Seq(Event)
  PROVE  /\ Len(queue) \in Nat /\ DOMAIN queue = 1 .. Len(queue)
         /\ \A i \in DOMAIN queue :
              /\ queue[i] \in Event
              /\ queue[i].available = TRUE => queue[i] = [name |-> queue[i].name, available |-> TRUE]
<1>1. queue \in [1 .. Len(queue) -> Event] /\ Len(queue) \in Nat
  BY LenProperties
<1>2. QED
  BY <1>1 DEF Event

\* The last event of a queue is the last to be taken.
LEMMA AfterAppend ==
  ASSUME NEW known \in SUBSET Names, NEW queue \in Seq(Event), NEW event \in Event
  PROVE  After(known, Append(queue, event)) = Told(After(known, queue), event)
<1> DEFINE all == Append(queue, event)
<1>1. /\ Len(queue) \in Nat /\ DOMAIN queue = 1 .. Len(queue) /\ DOMAIN all = 1 .. Len(queue) + 1
      /\ \A i \in DOMAIN queue : all[i] = queue[i]
      /\ all[Len(queue) + 1] = event
  BY EventFields
<1> HIDE DEF all
<1>2. \A i \in DOMAIN all : i \in DOMAIN queue \/ i = Len(queue) + 1
  BY <1>1
<1>3. ASSUME NEW n PROVE n \in After(known, all) <=> n \in Told(After(known, queue), event)
  <2>1. CASE event.name = n /\ event.available
    <3>1. event = [name |-> n, available |-> TRUE]
      BY <2>1 DEF Event
    <3>2. /\ Len(queue) + 1 \in DOMAIN all /\ all[Len(queue) + 1] = [name |-> n, available |-> TRUE]
          /\ \A j \in DOMAIN all : ~(j > Len(queue) + 1)
      BY <1>1, <3>1
    <3>3. n \in {all[i].name : i \in DOMAIN all}
      BY <1>1, <2>1, <3>2
    <3>4. n \in After(known, all)
      BY <3>2, <3>3 DEF After
    <3>5. QED
      BY <2>1, <3>4 DEF Told
  <2>2. CASE event.name = n /\ ~event.available
    <3>1. ASSUME NEW i \in DOMAIN all, all[i] = [name |-> n, available |-> TRUE],
                 \A j \in DOMAIN all : j > i => all[j].name # n
          PROVE  FALSE
      <4>1. i # Len(queue) + 1
        BY <1>1, <2>2, <3>1
      <4>2. Len(queue) + 1 \in DOMAIN all /\ Len(queue) + 1 > i
        BY <1>1, <1>2, <4>1
      <4>3. QED
        BY <1>1, <2>2, <3>1, <4>2
    <3>2. n \notin After(known, all)
      BY <1>1, <2>2, <3>1 DEF After
    <3>3. QED
      BY <2>2, <3>2 DEF Told
  <2>3. CASE event.name # n
    <3>1. (\A i \in DOMAIN queue : queue[i].name # n) <=> (\A i \in DOMAIN all : all[i].name # n)
      BY <1>1, <1>2, <2>3
    <3>2. ASSUME NEW i \in DOMAIN queue, queue[i] = [name |-> n, available |-> TRUE],
                 \A j \in DOMAIN queue : j > i => queue[j].name # n
          PROVE  i \in DOMAIN all /\ all[i] = queue[i] /\ \A j \in DOMAIN all : j > i => all[j].name # n
      <4>1. i \in DOMAIN all /\ all[i] = queue[i]
        BY <1>1
      <4>2. ASSUME NEW j \in DOMAIN all, j > i PROVE all[j].name # n
        BY <1>1, <1>2, <2>3, <3>2, <4>2
      <4>3. QED
        BY <4>1, <4>2
    <3>3. ASSUME NEW i \in DOMAIN all, all[i] = [name |-> n, available |-> TRUE],
                 \A j \in DOMAIN all : j > i => all[j].name # n
          PROVE  i \in DOMAIN queue /\ all[i] = queue[i]
                 /\ \A j \in DOMAIN queue : j > i => queue[j].name # n
      <4>1. i \in DOMAIN queue
        BY <1>1, <1>2, <2>3, <3>3
      <4>2. QED
        BY <1>1, <3>3, <4>1
    <3>4. n \in {queue[i].name : i \in DOMAIN queue} <=> n \in {all[i].name : i \in DOMAIN all}
      BY <3>1
    <3>5. n \in After(known, all) <=> n \in After(known, queue)
      BY <3>1, <3>2, <3>3, <3>4 DEF After
    <3>6. QED
      BY <2>3, <3>5 DEF Told
  <2>4. QED
    BY <2>1, <2>2, <2>3
<1>4. QED
  BY <1>3 DEF all

\* An event taken changes nothing of what the others come to.
LEMMA AfterTake ==
  ASSUME NEW known \in SUBSET Names, NEW queue \in Seq(Event), queue # <<>>
  PROVE  After(Told(known, Head(queue)), Tail(queue)) = After(known, queue)
<1> DEFINE rest == Tail(queue)
           event == Head(queue)
<1>1. /\ Len(queue) \in Nat /\ DOMAIN queue = 1 .. Len(queue) /\ 1 \in DOMAIN queue
      /\ event = queue[1] /\ event \in Event
      /\ rest \in Seq(Event) /\ DOMAIN rest = 1 .. Len(queue) - 1
      /\ \A i \in DOMAIN rest : i + 1 \in DOMAIN queue /\ rest[i] = queue[i + 1]
  BY EventFields
<1> HIDE DEF rest, event
<1>2. \A i \in DOMAIN queue : i = 1 \/ (i - 1 \in DOMAIN rest /\ queue[i] = rest[i - 1])
  BY <1>1
<1>3. \A i \in DOMAIN queue : i \in Nat
  BY <1>1
<1>4. ASSUME NEW n PROVE n \in After(Told(known, event), rest) <=> n \in After(known, queue)
  <2>1. (\A i \in DOMAIN queue : queue[i].name # n)
          <=> event.name # n /\ \A i \in DOMAIN rest : rest[i].name # n
    BY <1>1, <1>2
  <2>2. CASE \E i \in DOMAIN rest : rest[i].name = n
    <3>1. ~(\A i \in DOMAIN queue : queue[i].name # n)
      BY <2>1, <2>2
    <3>2. ASSUME NEW i \in DOMAIN rest, rest[i] = [name |-> n, available |-> TRUE],
                 \A j \in DOMAIN rest : j > i => rest[j].name # n
          PROVE  \E k \in DOMAIN queue : /\ queue[k] = [name |-> n, available |-> TRUE]
                                         /\ \A j \in DOMAIN queue : j > k => queue[j].name # n
      <4> DEFINE last == [name |-> n, available |-> TRUE]
      <4>1. rest[i] = last
        BY <3>2
      <4> HIDE DEF last
      <4>2. i + 1 \in DOMAIN queue /\ queue[i + 1] = last /\ i \in Nat
        BY <1>1, <4>1
      <4>3. \A j \in DOMAIN queue : j > i + 1 => queue[j].name # n
        <5> SUFFICES ASSUME NEW j \in DOMAIN queue, j > i + 1 PROVE queue[j].name # n
          OBVIOUS
        <5>1. j - 1 \in DOMAIN rest /\ queue[j] = rest[j - 1] /\ j - 1 > i
          BY <1>2, <1>3, <4>2
        <5>2. QED
          BY <3>2, <5>1
      <4>4. QED
        BY <4>2, <4>3 DEF last
    <3>3. ASSUME NEW k \in DOMAIN queue, queue[k] = [name |-> n, available |-> TRUE],
                 \A j \in DOMAIN queue : j > k => queue[j].name # n
          PROVE  \E i \in DOMAIN rest : /\ rest[i] = [name |-> n, available |-> TRUE]
                                        /\ \A j \in DOMAIN rest : j > i => rest[j].name # n
      <4>1. PICK m \in DOMAIN rest : rest[m].name = n
        BY <2>2
      <4>2. k # 1
        <5>1. m + 1 \in DOMAIN queue /\ queue[m + 1].name = n /\ m \in Nat /\ m > 0
          BY <1>1, <4>1
        <5>2. QED
          BY <3>3, <5>1
      <4>3. k - 1 \in DOMAIN rest /\ rest[k - 1] = [name |-> n, available |-> TRUE] /\ k \in Nat
        BY <1>2, <1>3, <3>3, <4>2
      <4>4. \A j \in DOMAIN rest : j > k - 1 => rest[j].name # n
        BY <1>1, <3>3, <4>3
      <4>5. QED
        BY <4>3, <4>4
    <3>4. n \in {queue[i].name : i \in DOMAIN queue}
      BY <3>1
    <3>5. QED
      BY <2>2, <3>1, <3>2, <3>3, <3>4 DEF After
  <2>3. CASE \A i \in DOMAIN rest : rest[i].name # n
    <3>1. n \in After(Told(known, event), rest) <=> n \in Told(known, event)
      BY <2>3 DEF After
    <3>2. CASE event.name # n
      <4>1. n \in After(known, queue) <=> n \in known
        BY <2>1, <2>3, <3>2 DEF After
      <4>2. QED
        BY <3>1, <3>2, <4>1 DEF Told
    <3>3. CASE event.name = n
      <4>1. \A j \in DOMAIN queue : j > 1 => queue[j].name # n
        BY <1>2, <2>3
      <4>2. \A i \in DOMAIN queue : queue[i] = [name |-> n, available |-> TRUE] => i = 1
        BY <1>2, <2>3
      <4>3. event.available <=> queue[1] = [name |-> n, available |-> TRUE]
        BY <1>1, <3>3 DEF Event
      <4>4. n \in After(known, queue) <=> event.available
        BY <1>1, <2>1, <3>3, <4>1, <4>2, <4>3 DEF After
      <4>5. QED
        BY <3>1, <3>3, <4>4 DEF Told
    <3>4. QED
      BY <3>2, <3>3
  <2>4. QED
    BY <2>2, <2>3
<1>5. QED
  BY <1>4 DEF rest, event

LEMMA InitEvents == Init => EventsIInv
<1> SUFFICES ASSUME Init PROVE EventsIInv
  OBVIOUS
<1>1. <<>> \in Seq(Event) /\ <<>> \o <<>> = <<>> /\ After({}, <<>>) = {}
  <2>1. <<>> \in Seq(Event) /\ <<>> \o <<>> = <<>>
    OBVIOUS
  <2>2. After({}, <<>>) = {}
    BY DEF After
  <2>3. QED
    BY <2>1, <2>2
<1>2. EventsTyped /\ EmitHolds
  BY <1>1 DEF Init, EventsTyped, EmitHolds
<1>3. ViewFollows
  BY <1>1 DEF Init, ViewFollows
<1>4. QED
  BY <1>2, <1>3 DEF EventsIInv

\* One request's events change.
LEMMA OneRequestsEvents ==
  ASSUME EventsIInv, NEW r \in Request, EventsTyped', EmitHolds',
         \A q \in Request \ {r} :
           /\ view'[q] = view[q] /\ events'[q] = events[q] /\ emitting'[q] = emitting[q]
           /\ active'[q] = active[q] /\ missed'[q] = missed[q],
         ~missed'[r] => After(view'[r], events'[r] \o emitting'[r]) = active'[r]
  PROVE  EventsIInv'
<1>1. ViewFollows'
  BY DEF EventsIInv, ViewFollows
<1>2. QED
  BY <1>1 DEF EventsIInv

\* What the events are about; the rest of a request may change.
told == <<active, view, events, emitting, missed, reader>>

LEMMA OtherStepEvents == EventsIInv /\ UNCHANGED told => EventsIInv'
BY DEF told, EventsIInv, EventsTyped, EmitHolds, ViewFollows

LEMMA ReceiveEvents == ASSUME EventsIInv, NEW r \in Request, ReceiveEvent(r) PROVE EventsIInv'
<1> USE DEF ReceiveEvent, calls, reading
<1> DEFINE queue == events[r] \o emitting[r]
<1>1. /\ events[r] \in Seq(Event) /\ events[r] # <<>> /\ emitting[r] \in Seq(Event)
      /\ view[r] \in SUBSET Names
      /\ events' = [events EXCEPT ![r] = Tail(events[r])]
      /\ view' = [view EXCEPT ![r] = Told(view[r], Head(events[r]))]
      /\ UNCHANGED <<emitting, active, missed, reader>>
  BY DEF EventsIInv, EventsTyped
<1>2. Head(events[r]) \in Event /\ Tail(events[r]) \in Seq(Event)
  BY <1>1
<1>3. Told(view[r], Head(events[r])) \in SUBSET Names
  BY <1>1, <1>2 DEF Told, Event
<1>4. EventsTyped' /\ EmitHolds'
  BY <1>1, <1>2, <1>3 DEF EventsIInv, EventsTyped, EmitHolds
<1>5. /\ queue \in Seq(Event) /\ queue # <<>> /\ Head(queue) = Head(events[r])
      /\ Tail(queue) = Tail(events[r]) \o emitting[r]
  <2> DEFINE s == events[r]
             t == emitting[r]
  <2>1. s \in Seq(Event) /\ t \in Seq(Event) /\ s # <<>>
    BY <1>1
  <2> HIDE DEF s, t
  <2>2. s \o t \in Seq(Event) /\ s \o t # <<>> /\ Head(s \o t) = Head(s)
    BY <2>1
  <2>3. Tail(s \o t) = Tail(s) \o t
    BY <2>1
  <2>4. QED
    BY <2>2, <2>3 DEF s, t
<1>6. After(Told(view[r], Head(queue)), Tail(queue)) = After(view[r], queue)
  <2> HIDE DEF queue
  <2>1. QED
    BY <1>1, <1>5, AfterTake
<1>7. ~missed'[r] => After(view'[r], events'[r] \o emitting'[r]) = active'[r]
  BY <1>1, <1>5, <1>6 DEF EventsIInv, EventsTyped, ViewFollows
<1>8. QED
  BY <1>1, <1>4, <1>7, OneRequestsEvents DEF EventsIInv, EventsTyped

LEMMA EmitRecordsEvents ==
  ASSUME EventsIInv, NEW r \in Request, NEW event \in Event, EmitRecords(r, event)
  PROVE  EventsIInv'
<1> USE DEF EmitRecords, Reads, ReaderAt
<1>1. /\ events[r] \in Seq(Event) /\ emitting[r] = <<>> /\ view[r] \in SUBSET Names
      /\ emitting' = [emitting EXCEPT ![r] = <<event>>]
      /\ active' = [active EXCEPT ![r] = Told(active[r], event)]
      /\ reader' = [reader EXCEPT ![r] = "emitting"]
      /\ UNCHANGED <<view, events, missed>>
  BY DEF EventsIInv, EventsTyped, EmitHolds
<1>2. Told(active[r], event) \in SUBSET Names /\ <<event>> \in Seq(Event)
  BY DEF EventsIInv, EventsTyped, Told, Event
<1>3. EventsTyped'
  BY <1>1, <1>2 DEF EventsIInv, EventsTyped
<1>4. EmitHolds'
  BY <1>1 DEF EventsIInv, EventsTyped, EmitHolds
<1>5. After(view[r], events[r] \o <<event>>) = Told(After(view[r], events[r]), event)
  <2>1. PICK queue \in Seq(Event), known \in SUBSET Names : queue = events[r] /\ known = view[r]
    BY <1>1
  <2>2. queue \o <<event>> = Append(queue, event)
    OBVIOUS
  <2>3. After(known, Append(queue, event)) = Told(After(known, queue), event)
    BY AfterAppend
  <2>4. QED
    BY <2>1, <2>2, <2>3
<1>6. ~missed[r] => After(view[r], events[r]) = active[r]
  <2>1. events[r] \o <<>> = events[r]
    BY <1>1
  <2>2. QED
    BY <1>1, <2>1 DEF EventsIInv, ViewFollows
<1>7. ~missed'[r] => After(view'[r], events'[r] \o emitting'[r]) = active'[r]
  BY <1>1, <1>5, <1>6 DEF EventsIInv, EventsTyped
<1>8. QED
  BY <1>1, <1>3, <1>4, <1>7, OneRequestsEvents DEF EventsIInv, EventsTyped

LEMMA EmitSendsEvents == ASSUME EventsIInv, NEW r \in Request, EmitSends(r) PROVE EventsIInv'
<1> USE DEF EmitSends, ReaderAt
<1> DEFINE queue == events[r] \o emitting[r]
<1>1. /\ events[r] \in Seq(Event) /\ emitting[r] \in Seq(Event)
      /\ events' = [events EXCEPT ![r] = queue]
      /\ emitting' = [emitting EXCEPT ![r] = <<>>]
      /\ reader' = [reader EXCEPT ![r] = "reading"]
      /\ UNCHANGED <<view, active, missed>>
  BY DEF EventsIInv, EventsTyped
<1>2. queue \in Seq(Event) /\ queue \o <<>> = queue
  BY <1>1
<1> HIDE DEF queue
<1>3. EventsTyped' /\ EmitHolds'
  BY <1>1, <1>2 DEF EventsIInv, EventsTyped, EmitHolds
<1>4. ~missed'[r] => After(view'[r], events'[r] \o emitting'[r]) = active'[r]
  BY <1>1, <1>2 DEF EventsIInv, EventsTyped, ViewFollows, queue
<1>5. QED
  BY <1>1, <1>3, <1>4, OneRequestsEvents DEF EventsIInv, EventsTyped

LEMMA RunReportsEvents ==
  ASSUME EventsIInv, NEW r \in Request, NEW n \in Names, RunReports(r, n)
  PROVE  EventsIInv'
<1> USE DEF RunReports, ReaderAt
<1> DEFINE event == [name |-> n, available |-> FALSE]
<1>1. /\ events[r] \in Seq(Event) /\ emitting[r] = <<>> /\ view[r] \in SUBSET Names
      /\ event \in Event
      /\ active' = [active EXCEPT ![r] = active[r] \ {n}]
      /\ UNCHANGED <<view, emitting>> /\ reader[r] = "closing" /\ reader' = [reader EXCEPT ![r] = "closing"]
  BY DEF EventsIInv, EventsTyped, EmitHolds, Event
<1>2. After(view[r], Append(events[r], event)) = After(view[r], events[r]) \ {n}
  <2>1. Told(After(view[r], events[r]), event) = After(view[r], events[r]) \ {n}
    BY DEF Told
  <2> HIDE DEF event
  <2>2. QED
    BY <1>1, <2>1, AfterAppend
<1>3. Append(events[r], event) \in Seq(Event)
  <2> HIDE DEF event
  <2>1. QED
    BY <1>1
<1>4. /\ EmitHolds' /\ active' \in [Request -> SUBSET Names]
      /\ view' \in [Request -> SUBSET Names]
      /\ emitting' \in [Request -> Seq(Event)]
  BY <1>1 DEF EventsIInv, EventsTyped, EmitHolds
<1>5. CASE events' = [events EXCEPT ![r] = Append(events[r], event)] /\ UNCHANGED missed
  <2> HIDE DEF event
  <2>1. EventsTyped'
    BY <1>3, <1>4, <1>5 DEF EventsIInv, EventsTyped
  <2>2. /\ Append(events[r], event) \o <<>> = Append(events[r], event)
        /\ events[r] \o <<>> = events[r]
    BY <1>1, <1>3
  <2>3. ~missed'[r] => After(view'[r], events'[r] \o emitting'[r]) = active'[r]
    <3>1. ~missed[r] => After(view[r], events[r]) = active[r]
      BY <1>1, <2>2 DEF EventsIInv, ViewFollows
    <3>2. /\ events'[r] = Append(events[r], event) /\ emitting'[r] = <<>> /\ view'[r] = view[r]
          /\ active'[r] = active[r] \ {n} /\ missed'[r] = missed[r]
      BY <1>1, <1>5 DEF EventsIInv, EventsTyped
    <3>3. QED
      BY <1>2, <2>2, <3>1, <3>2
  <2>4. QED
    BY <1>1, <1>4, <1>5, <2>1, <2>3, OneRequestsEvents DEF EventsIInv, EventsTyped
<1>6. CASE events' = events /\ missed' = [missed EXCEPT ![r] = TRUE]
  <2>1. EventsTyped'
    BY <1>4, <1>6 DEF EventsIInv, EventsTyped
  <2>2. missed'[r]
    BY <1>6 DEF EventsIInv, EventsTyped
  <2>3. QED
    BY <1>1, <1>4, <1>6, <2>1, <2>2, OneRequestsEvents DEF EventsIInv, EventsTyped
<1>7. QED
  BY <1>5, <1>6

\* The reader stops: what it holds is given up, and that is on record.
LEMMA EndingEvents ==
  ASSUME EventsIInv, NEW r \in Request,
         EmitFails(r) \/ ReadFails(r) \/ RunCloses(r) \/ ReadAnswer(r)
           \/ \E event \in Event : EmitRefuses(r, event)
  PROVE  EventsIInv'
<1> USE DEF EmitFails, ReadFails, RunCloses, ReadAnswer, EmitRefuses, Reads, RunEnds, ReaderAt
<1>1. CASE EmitFails(r)
  <2>1. /\ emitting' = [emitting EXCEPT ![r] = <<>>] /\ missed' = [missed EXCEPT ![r] = TRUE]
        /\ reader' = [reader EXCEPT ![r] = "closing"] /\ UNCHANGED <<view, active, events>>
    BY <1>1
  <2>2. EventsTyped' /\ EmitHolds' /\ missed'[r]
    BY <2>1 DEF EventsIInv, EventsTyped, EmitHolds
  <2>3. QED
    BY <2>1, <2>2, OneRequestsEvents DEF EventsIInv, EventsTyped
<1>2. CASE ReadFails(r) \/ RunCloses(r) \/ ReadAnswer(r) \/ \E event \in Event : EmitRefuses(r, event)
  <2>1. /\ reader[r] # "emitting" /\ UNCHANGED <<view, active, events, emitting, missed>>
        /\ \E to : reader' = [reader EXCEPT ![r] = to]
    BY <1>2
  <2>2. EmitHolds'
    BY <2>1 DEF EventsIInv, EmitHolds
  <2>3. QED
    BY <2>1, <2>2 DEF EventsIInv, EventsTyped, ViewFollows
<1>3. QED
  BY <1>1, <1>2

\* A request that is not made yet has no reader to hold an event.
LEMMA AskEvents == ASSUME EventsIInv, Fresh, NEW r \in Request, Ask(r) PROVE EventsIInv'
<1>1. /\ UNCHANGED <<view, active, events, emitting, missed>>
      /\ reader' = [reader EXCEPT ![r] = "reading"] /\ reader[r] = "off"
  BY DEF Ask, Calls, Fresh
<1>2. EmitHolds'
  BY <1>1 DEF EventsIInv, EmitHolds
<1>3. QED
  BY <1>1, <1>2 DEF EventsIInv, EventsTyped, ViewFollows

LEMMA EventsStep == IInv /\ EventsIInv /\ [Next]_vars => EventsIInv'
<1> SUFFICES ASSUME IInv, EventsIInv, [Next]_vars PROVE EventsIInv'
  OBVIOUS
<1>1. CASE UNCHANGED vars
  BY <1>1, OtherStepEvents DEF vars, requester, calls, reading, serving, announcing, told
<1>2. CASE EndSession
  BY <1>2, OtherStepEvents DEF EndSession, requester, calls, reading, serving, announcing, told
<1>3. ASSUME NEW r \in Request, Ask(r) PROVE EventsIInv'
  BY <1>3, AskEvents DEF IInv
<1>4. ASSUME NEW r \in Request, ReaderStep(r) PROVE EventsIInv'
  BY <1>4, EndingEvents, EmitRecordsEvents, EmitSendsEvents, RunReportsEvents DEF ReaderStep
<1>5. ASSUME NEW r \in Request, Returns(r) \/ Fails(r) \/ Close(r) PROVE EventsIInv'
  BY <1>5, OtherStepEvents
     DEF Returns, Fails, Close, Cancel, Calls, calls, reading, serving, announcing, told
<1>6. ASSUME NEW r \in Request,
             \/ Serve(r) \/ ServeNothing(r) \/ ServeEnds(r) \/ Accept(r) \/ Reject(r) \/ CloseAnnouncer(r)
             \/ \E n \in Names : Announce(r, n) \/ Done(r, n)
      PROVE  EventsIInv'
  <2>1. UNCHANGED told
    BY <1>6 DEF Serve, ServeNothing, ServeEnds, Accept, Reject, CloseAnnouncer, Announce, Done, Sends,
                Responds, requester, calls, reading, told
  <2>2. QED
    BY <2>1, OtherStepEvents
<1>7. ASSUME NEW r \in Request, RequestStep(r) PROVE EventsIInv'
  BY <1>3, <1>4, <1>5, <1>6, <1>7, ReceiveEvents DEF RequestStep
<1>8. QED
  BY <1>1, <1>2, <1>7 DEF Next

\* emit, run's closing loop and the events channel (namespace.go): with a channel
\* of any size, what the application has been told and what is on its way to it
\* agree with the active set, through the end of the request, unless an event was
\* given up.
THEOREM ViewsFollow == Spec => []ViewFollows
<1>1. EventsIInv => ViewFollows
  BY DEF EventsIInv
<1>2. QED
  BY <1>1, InitEvents, EventsStep, Inductive, PTL DEF Spec

==============================================================================
