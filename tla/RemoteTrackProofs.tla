-------------------------- MODULE RemoteTrackProofs --------------------------
(***************************************************************************)
(* Theorems about RemoteTrack, for any subscriptions, tracks, aliases and  *)
(* streams.  Whatever aliases the publisher chooses, one routes to tracks  *)
(* of one name, and no wakeup is lost.  With a publisher that gives each   *)
(* subscription an alias of its own, the buffer keeps the order of the     *)
(* Objects, and the subscriber keeps the promise of ObjectDelivery.        *)
(***************************************************************************)
EXTENDS RemoteTrack, FiniteSetTheorems, SequenceTheorems, FunctionTheorems, TLAPS

Phases == {"idle", "await", "copy", "deliver", "mark", "count", "signal", "over"}

\* The types the first two theorems rest on.
Typed ==
  /\ pub \in [Subs -> {"idle", "asked", "serving", "finished"}]
  /\ alias \in [Subs -> Aliases \cup {None}]
  /\ answers \in [Subs -> Seq(Message)]
  /\ announced \in [Subs -> Nat] /\ ended \in [Subs -> Nat]
  /\ app \in [Subs -> {"idle", "calling", "reading", "ended", "closed"}]
  /\ done \in [Subs -> {"none", "counted", "uncounted"}]
  /\ signal \in [Subs -> BOOLEAN]
  /\ waiter \in [Subs -> {"off", "check", "select", "over", "expired"}]
  /\ slice \in [Aliases -> [array : Subs \cup {None}, len : Nat]]
  /\ array \in [Subs -> Seq(Subs \cup {None})]
  /\ phase \in [Streams -> Phases]
  /\ DOMAIN todo = Streams

\* s has a SUBSCRIBE_OK yet to be read.
HasOk(s) == \E i \in 1 .. Len(answers[s]) : answers[s][i] = "ok"

\* How far a request has come at the publisher bounds how far it has at the
\* subscriber: the alias is fixed before its SUBSCRIBE_OK is read, and the Stream
\* Count before it is waited for.
Early(s) ==
  /\ app[s] = "idle" => pub[s] = "idle"
  /\ pub[s] \in {"idle", "asked"} => answers[s] = <<>> /\ alias[s] = None
  /\ pub[s] = "serving" => answers[s] \in {<<>>, <<"ok">>}
  /\ pub[s] # "finished" => done[s] = "none" /\ waiter[s] = "off"
  /\ HasOk(s) => alias[s] # None

Progress == \A s \in Subs : Early(s)

\* The array of an alias's slice is one that was allocated for this alias, and
\* up to its length it holds subscriptions under the alias, of one name.
Row(a) == array[slice[a].array]

Routes(a) ==
  slice[a].len > 0 =>
    /\ slice[a].array \in Subs /\ alias[slice[a].array] = a
    /\ slice[a].len <= Len(Row(a))
    /\ \A i \in 1 .. slice[a].len :
         /\ Row(a)[i] \in Subs /\ alias[Row(a)[i]] = a
         /\ FullName(Row(a)[i]) = FullName(Row(a)[1])

RoutesInv == \A a \in Aliases : Routes(a)

IInv == Typed /\ Progress /\ RoutesInv /\ NoLostWakeup

LEMMA InitIInv == Init => IInv
<1> SUFFICES ASSUME Init PROVE IInv
  OBVIOUS
<1>1. Typed
  BY ConstantsAssumption DEF Init, Typed, Message, NoSlice, Phases
<1>2. Progress
  BY DEF Init, Progress, Early, HasOk
<1>3. RoutesInv /\ NoLostWakeup
  BY DEF Init, RoutesInv, Routes, Row, NoSlice, NoLostWakeup
<1>4. QED
  BY <1>1, <1>2, <1>3 DEF IInv

\* What the invariant is about.
core == <<pub, alias, answers, announced, app, done, ended, signal, waiter, slice, array, phase, todo>>

LEMMA StutterIInv == IInv /\ UNCHANGED core => IInv'
BY DEF core, IInv, Typed, Progress, Early, HasOk, RoutesInv, Routes, Row, NoLostWakeup, Turn

\* The index is as it was, and so are the aliases in use.
LEMMA RoutesKept ==
  ASSUME RoutesInv, UNCHANGED <<slice, array, alias>>
  PROVE  RoutesInv'
BY DEF RoutesInv, Routes, Row

\* No handler moves, and nothing that the wait looks at.
LEMMA WaitKept ==
  ASSUME NoLostWakeup, UNCHANGED <<ended, signal, waiter, phase, todo>>,
         \A s \in Subs : waiter[s] = "select" => announced'[s] = announced[s]
  PROVE  NoLostWakeup'
BY DEF NoLostWakeup, Turn

-----------------------------------------------------------------------------
(* The publisher. *)

LEMMA SubscribeOkIInv ==
  ASSUME IInv, NEW s \in Subs, NEW a \in Aliases, SubscribeOk(s, a)
  PROVE  IInv'
<1>1. answers' = [answers EXCEPT ![s] = <<"ok">>] /\ alias[s] = None
  <2>1. answers[s] = <<>> /\ alias[s] = None
    BY DEF IInv, Progress, Early, SubscribeOk
  <2>2. <<>> \o <<"ok">> = <<"ok">>
    BY <<"ok">> \in Seq({"ok"}), ConcatEmptySeq
  <2>3. QED
    BY <2>1, <2>2 DEF SubscribeOk, Send
<1>2. /\ alias' = [alias EXCEPT ![s] = a] /\ pub' = [pub EXCEPT ![s] = "serving"] /\ pub[s] = "asked"
      /\ UNCHANGED <<announced, app, done, ended, signal, waiter, slice, array, phase, todo>>
  BY DEF SubscribeOk, subscriber, index, handlers, request, counting
<1>3. Typed'
  BY <1>1, <1>2 DEF IInv, Typed, Message
<1>4. Progress'
  <2>1. \A t \in Subs \ {s} : answers'[t] = answers[t] /\ alias'[t] = alias[t] /\ pub'[t] = pub[t]
    BY <1>1, <1>2 DEF IInv, Typed
  <2>2. alias'[s] # None /\ answers'[s] = <<"ok">> /\ pub'[s] = "serving"
    BY <1>1, <1>2, ConstantsAssumption DEF IInv, Typed
  <2>3. \A t \in Subs \ {s} : HasOk(t)' => HasOk(t)
    BY <2>1 DEF HasOk
  <2>4. QED
    <3>1. Early(s)'
      BY <1>1, <1>2, <2>2 DEF IInv, Progress, Early
    <3>2. ASSUME NEW t \in Subs \ {s} PROVE Early(t)'
      BY <1>2, <2>1, <2>3 DEF IInv, Progress, Early
    <3>3. QED
      BY <3>1, <3>2 DEF Progress
\* Those under another alias keep it.
<1>5. RoutesInv'
  <2>1. \A t \in Subs, b \in Aliases : alias[t] = b => alias'[t] = b
    BY <1>1, <1>2, ConstantsAssumption DEF IInv, Typed
  <2>2. QED
    BY <1>2, <2>1 DEF IInv, RoutesInv, Routes, Row, FullName
<1>6. NoLostWakeup'
  BY <1>2, WaitKept DEF IInv
<1>7. QED
  BY <1>3, <1>4, <1>5, <1>6 DEF IInv

\* What is said after SUBSCRIBE_OK, or instead of it.
LEMMA SendIInv ==
  ASSUME IInv, NEW s \in Subs, NEW messages \in Seq(Message), Send(s, messages),
         \A i \in 1 .. Len(messages) : messages[i] # "ok"
  PROVE  /\ answers' \in [Subs -> Seq(Message)]
         /\ \A t \in Subs \ {s} : answers'[t] = answers[t]
         /\ \A t \in Subs : \A i \in 1 .. Len(answers'[t]) : answers'[t][i] = "ok" =>
              i \in 1 .. Len(answers[t]) /\ answers[t][i] = "ok"
         /\ \A t \in Subs : HasOk(t)' => HasOk(t)
<1>1. /\ answers[s] \in Seq(Message) /\ answers'[s] = answers[s] \o messages
      /\ answers' \in [Subs -> Seq(Message)] /\ \A t \in Subs \ {s} : answers'[t] = answers[t]
  BY DEF IInv, Typed, Send
<1>2. /\ Len(answers'[s]) = Len(answers[s]) + Len(messages)
      /\ \A i \in 1 .. Len(answers[s]) + Len(messages) :
           answers'[s][i] = IF i <= Len(answers[s]) THEN answers[s][i] ELSE messages[i - Len(answers[s])]
  BY <1>1, ConcatProperties
<1>3. \A i \in 1 .. Len(answers'[s]) : answers'[s][i] = "ok" => i \in 1 .. Len(answers[s]) /\ answers[s][i] = "ok"
  BY <1>1, <1>2, LenProperties
<1>4. QED
  BY <1>1, <1>3 DEF HasOk

LEMMA EndsIInv ==
  ASSUME IInv, NEW s \in Subs, NEW messages \in Seq(Message), Send(s, messages),
         \A i \in 1 .. Len(messages) : messages[i] # "ok",
         pub[s] # "idle", pub' = [pub EXCEPT ![s] = "finished"],
         announced' \in [Subs -> Nat], announced' # announced => pub[s] = "serving",
         \A t \in Subs \ {s} : announced'[t] = announced[t],
         UNCHANGED <<alias, app, done, ended, signal, waiter, slice, array, phase, todo>>
  PROVE  IInv'
<1>1. Typed'
  BY SendIInv DEF IInv, Typed
<1>2. Progress'
  <2>1. \A t \in Subs \ {s} : pub'[t] = pub[t] /\ answers'[t] = answers[t]
    BY SendIInv DEF IInv, Typed
  <2>2. pub'[s] = "finished"
    BY DEF IInv, Typed
  <2>3. QED
    <3>1. Early(s)'
      BY <2>2, SendIInv DEF IInv, Progress, Early
    <3>2. ASSUME NEW t \in Subs \ {s} PROVE Early(t)'
      BY <2>1, SendIInv DEF IInv, Progress, Early
    <3>3. QED
      BY <3>1, <3>2 DEF Progress
<1>3. RoutesInv'
  BY RoutesKept DEF IInv
\* Nobody waits for the streams of a subscription that is still served.
<1>4. NoLostWakeup'
  <2>1. pub[s] = "serving" => waiter[s] = "off"
    BY DEF IInv, Progress, Early
  <2>2. \A t \in Subs : waiter[t] = "select" => announced'[t] = announced[t]
    BY <2>1
  <2>3. QED
    BY <2>2, WaitKept DEF IInv
<1>5. QED
  BY <1>1, <1>2, <1>3, <1>4 DEF IInv

LEMMA RefuseIInv ==
  ASSUME IInv, NEW s \in Subs, NEW messages \in {<<"error", "fin">>, <<"reset">>}, Refuse(s, messages)
  PROVE  IInv'
<1>1. messages \in Seq(Message) /\ \A i \in 1 .. Len(messages) : messages[i] # "ok"
  <2>1. <<"error", "fin">> \in Seq(Message) /\ <<"reset">> \in Seq(Message)
    BY DEF Message
  <2>2. CASE messages = <<"error", "fin">>
    BY <2>1, <2>2
  <2>3. CASE messages = <<"reset">>
    BY <2>1, <2>3
  <2>4. QED
    BY <2>2, <2>3
<1>2. QED
  BY <1>1, EndsIInv DEF Refuse, subscriber, index, handlers, request, counting, IInv, Typed

LEMMA PublishDoneIInv ==
  ASSUME IInv, NEW s \in Subs, NEW message \in {"done", "uncounted"}, PublishDone(s, message)
  PROVE  IInv'
<1>1. <<message, "fin">> \in Seq(Message) /\ \A i \in 1 .. Len(<<message, "fin">>) : <<message, "fin">>[i] # "ok"
  BY DEF Message
<1>2. Cardinality(StreamsOf(s)) \in Nat
  <2>1. IsFiniteSet(StreamsOf(s))
    BY ConstantsAssumption, FS_Subset DEF StreamsOf
  <2>2. QED
    BY <2>1, FS_CardinalityType
<1>3. /\ announced' \in [Subs -> Nat] /\ pub[s] = "serving"
      /\ \A t \in Subs \ {s} : announced'[t] = announced[t]
      /\ pub' = [pub EXCEPT ![s] = "finished"] /\ Send(s, <<message, "fin">>)
      /\ UNCHANGED <<alias, app, done, ended, signal, waiter, slice, array, phase, todo>>
  BY <1>2 DEF PublishDone, subscriber, index, handlers, request, counting, IInv, Typed
<1>4. QED
  BY <1>1, <1>3, EndsIInv

LEMMA SubscribeIInv ==
  ASSUME IInv, NEW s \in Subs, Subscribe(s)
  PROVE  IInv'
<1>1. /\ UNCHANGED <<alias, answers, announced, done, ended, signal, waiter, slice, array, phase, todo>>
      /\ app[s] = "idle" /\ pub[s] = "idle"
      /\ app' = [app EXCEPT ![s] = "calling"] /\ pub' = [pub EXCEPT ![s] = "asked"]
  BY DEF Subscribe, counting, handlers, IInv, Progress, Early
<1>2. Typed' /\ Progress'
  BY <1>1 DEF IInv, Typed, Progress, Early, HasOk
<1>3. QED
  BY <1>1, <1>2, RoutesKept, WaitKept DEF IInv

\* The application's other steps, which at most move it on.
LEMMA ApplicationIInv ==
  ASSUME IInv, NEW s \in Subs, NEW to \in {"calling", "reading", "ended", "closed"},
         app' \in {app, [app EXCEPT ![s] = to]},
         UNCHANGED <<pub, alias, answers, announced, done, ended, signal, waiter, slice, array, phase, todo>>
  PROVE  IInv'
<1>1. app' \in [Subs -> {"idle", "calling", "reading", "ended", "closed"}]
  BY DEF IInv, Typed
<1>2. Typed' /\ Progress'
  BY <1>1 DEF IInv, Typed, Progress, Early, HasOk
<1>3. QED
  BY <1>2, RoutesKept, WaitKept DEF IInv

-----------------------------------------------------------------------------
(* The index: slices that may share an array. *)

\* k places for other subscriptions to come.
LEMMA Spare ==
  ASSUME NEW k \in Nat
  PROVE  [i \in 1 .. k |-> None] \in Seq(Subs \cup {None})
<1>1. [i \in 1 .. k |-> None] \in [1 .. k -> Subs \cup {None}]
  OBVIOUS
<1>2. QED
  BY <1>1, SeqDef

LEMMA ByAliasIs ==
  ASSUME IInv, NEW a \in Aliases
  PROVE  /\ slice[a].len \in Nat /\ slice[a].array \in Subs \cup {None}
         /\ ByAlias(a) \in Seq(Subs) /\ Len(ByAlias(a)) = slice[a].len
         /\ \A i \in 1 .. slice[a].len : ByAlias(a)[i] = Row(a)[i]
<1>1. slice[a].len \in Nat /\ slice[a].array \in Subs \cup {None}
  BY DEF IInv, Typed
<1>2. CASE slice[a].len = 0
  BY <1>2, <1>1, EmptySeq DEF ByAlias
<1>3. CASE slice[a].len # 0
  <2>1. ByAlias(a) = SubSeq(Row(a), 1, slice[a].len)
    BY <1>3 DEF ByAlias, Row
  <2>2. slice[a].len \in Int /\ 1 \in Int /\ 1 <= slice[a].len
        /\ \A i \in 1 .. slice[a].len : Row(a)[i] \in Subs
    BY <1>1, <1>3 DEF IInv, RoutesInv, Routes
  <2> DEFINE row == Row(a)
             n == slice[a].len
  <2> HIDE DEF row, n
  <2>3. /\ SubSeq(row, 1, n) \in Seq(Subs)
        /\ Len(SubSeq(row, 1, n)) = IF 1 <= n THEN n - 1 + 1 ELSE 0
        /\ \A i \in 1 .. n - 1 + 1 : SubSeq(row, 1, n)[i] = row[1 + i - 1]
    BY <2>2, SubSeqProperties DEF row, n
  <2>4. n - 1 + 1 = n /\ \A i \in 1 .. n : 1 + i - 1 = i
    BY <1>1 DEF n
  <2>5. QED
    BY <1>1, <2>1, <2>2, <2>3, <2>4 DEF row, n
<1>4. QED
  BY <1>2, <1>3

\* A slice that changes is the slice of one alias, and so is the array it is in.
LEMMA OthersRouted ==
  ASSUME IInv, NEW a \in Aliases, NEW h \in Subs, alias[h] = a, UNCHANGED alias,
         \A b \in Aliases \ {a} : slice'[b] = slice[b],
         \A t \in Subs \ {h} : array'[t] = array[t],
         Routes(a)'
  PROVE  RoutesInv'
<1>1. ASSUME NEW b \in Aliases \ {a} PROVE Routes(b)'
  <2>1. slice[b].len > 0 => slice[b].array \in Subs /\ slice[b].array # h
    BY DEF IInv, RoutesInv, Routes
  <2>2. slice[b].len > 0 => Row(b)' = Row(b)
    BY <2>1 DEF Row
  <2>3. QED
    BY <2>2 DEF IInv, RoutesInv, Routes, FullName
<1>2. QED
  BY <1>1 DEF RoutesInv

LEMMA RemoveRoutes ==
  ASSUME IInv, NEW s \in Subs, NEW n, At(s, n), Remove(s, n), UNCHANGED alias
  PROVE  /\ slice' \in [Aliases -> [array : Subs \cup {None}, len : Nat]]
         /\ array' \in [Subs -> Seq(Subs \cup {None})]
         /\ RoutesInv'
<1>0. PICK a, h, len, old : a = alias[s] /\ h = slice[a].array /\ len = slice[a].len /\ old = array[h]
  OBVIOUS
<1> DEFINE new == [i \in 1 .. Len(old) |-> IF n <= i /\ i < len THEN old[i + 1] ELSE old[i]]
<1>1. a \in Aliases /\ len \in Nat /\ n \in 1 .. len
  BY <1>0 DEF At, IInv, Typed
<1>2. /\ h \in Subs /\ alias[h] = a /\ len <= Len(old) /\ Row(a) = old
      /\ \A i \in 1 .. len : old[i] \in Subs /\ alias[old[i]] = a /\ FullName(old[i]) = FullName(old[1])
  BY <1>0, <1>1 DEF IInv, RoutesInv, Routes, Row
<1>3. old \in Seq(Subs \cup {None}) /\ Len(old) \in Nat
  BY <1>0, <1>2, LenProperties DEF IInv, Typed
<1>4. new \in Seq(Subs \cup {None}) /\ Len(new) = Len(old)
  <2>1. \A i \in 1 .. Len(old) : old[i] \in Subs \cup {None}
    BY <1>3, ElementOfSeq
  <2>2. new \in [1 .. Len(old) -> Subs \cup {None}]
    BY <1>1, <1>2, <1>3, <2>1
  <2>3. new \in Seq(Subs \cup {None})
    BY <1>3, <2>2, SeqDef
  <2>4. QED
    BY <1>3, <2>2, <2>3, LenProperties
<1>5. /\ slice' = [slice EXCEPT ![a] = IF slice[a].len = 1 THEN NoSlice
                                       ELSE [slice[a] EXCEPT !.len = slice[a].len - 1]]
      /\ array' = [array EXCEPT ![h] = new]
  BY <1>0 DEF Remove
<1>6. slice'[a] = IF len = 1 THEN NoSlice ELSE [array |-> h, len |-> len - 1]
  BY <1>0, <1>1, <1>5 DEF IInv, Typed
<1>7. slice' \in [Aliases -> [array : Subs \cup {None}, len : Nat]]
  <2>1. NoSlice \in [array : Subs \cup {None}, len : Nat]
    BY DEF NoSlice
  <2>2. [array |-> h, len |-> len - 1] \in [array : Subs \cup {None}, len : Nat]
    BY <1>1, <1>2
  <2>3. slice'[a] \in [array : Subs \cup {None}, len : Nat]
    BY <1>6, <2>1, <2>2
  <2>4. slice' = [slice EXCEPT ![a] = slice'[a]]
    BY <1>1, <1>5 DEF IInv, Typed
  <2>5. QED
    BY <1>1, <2>3, <2>4 DEF IInv, Typed
<1>8. array' \in [Subs -> Seq(Subs \cup {None})]
  BY <1>4, <1>5 DEF IInv, Typed
<1>9. Routes(a)'
  <2>1. slice'[a].len > 0 => slice'[a] = [array |-> h, len |-> len - 1]
    BY <1>6 DEF NoSlice
  <2>2. array'[h] = new
    BY <1>2, <1>5 DEF IInv, Typed
  <2>3. ASSUME NEW i \in 1 .. len - 1 PROVE new[i] \in {old[i], old[i + 1]} /\ i \in 1 .. len /\ i + 1 \in 1 .. len
    BY <1>1, <1>2, <1>3
  <2> HIDE DEF new
  <2>4. \A i \in 1 .. len - 1 : new[i] \in Subs /\ alias[new[i]] = a /\ FullName(new[i]) = FullName(old[1])
    BY <1>2, <2>3
  <2>5. len - 1 <= Len(new)
    BY <1>1, <1>2, <1>3, <1>4
  <2>6. \A i \in 1 .. len - 1 : 1 \in 1 .. len - 1
    BY <1>1
  <2>7. CASE slice'[a].len > 0
    <3>1. /\ slice'[a].array = h /\ slice'[a].len = len - 1 /\ alias'[h] = a /\ h \in Subs /\ Row(a)' = new
      BY <1>2, <2>1, <2>2, <2>7 DEF Row
    <3>2. \A i \in 1 .. len - 1 : FullName(new[i]) = FullName(new[1])
      BY <2>4, <2>6
    <3>3. QED
      BY <2>4, <2>5, <3>1, <3>2 DEF Routes, FullName
  <2>8. QED
    BY <2>7 DEF Routes
<1>10. RoutesInv'
  <2>1. \A b \in Aliases \ {a} : slice'[b] = slice[b]
    BY <1>5 DEF IInv, Typed
  <2>2. \A t \in Subs \ {h} : array'[t] = array[t]
    BY <1>5 DEF IInv, Typed
  <2>3. QED
    BY <1>1, <1>2, <1>9, <2>1, <2>2, OthersRouted
<1>11. QED
  BY <1>7, <1>8, <1>10

LEMMA UnrouteIInv ==
  ASSUME IInv, NEW s \in Subs, Unroute(s)
  PROVE  IInv'
<1>1. UNCHANGED <<pub, alias, answers, announced, app, done, ended, signal, waiter, phase, todo>>
  BY DEF Unroute, publisher, request, counting, handlers
<1>2. CASE UNCHANGED <<slice, array>>
  BY <1>1, <1>2, StutterIInv DEF core
<1>3. ASSUME NEW n, At(s, n), Remove(s, n) PROVE IInv'
  <2>1. RoutesInv' /\ Typed'
    BY <1>1, <1>3, RemoveRoutes DEF IInv, Typed
  <2>2. Progress'
    BY <1>1 DEF IInv, Progress, Early, HasOk
  <2>3. QED
    BY <1>1, <2>1, <2>2, WaitKept DEF IInv
<1>4. QED
  BY <1>2, <1>3 DEF Unroute

-----------------------------------------------------------------------------
(* The reader of the request stream. *)

\* A request that has something to read has been answered, and one that has
\* more than the answer is over at the publisher.
LEMMA HeadOfAnswers ==
  ASSUME IInv, NEW s \in Subs, NEW message, Reads(s, message)
  PROVE  /\ pub[s] \in {"serving", "finished"}
         /\ message = "ok" => HasOk(s) /\ alias[s] \in Aliases
         /\ message # "ok" => pub[s] = "finished"
         /\ answers' \in [Subs -> Seq(Message)]
         /\ \A t \in Subs : /\ answers[t] = <<>> => answers'[t] = <<>>
                            /\ answers[t] \in {<<>>, <<"ok">>} => answers'[t] \in {<<>>, <<"ok">>}
                            /\ HasOk(t)' => HasOk(t)
         /\ \A t \in Subs \ {s} : answers'[t] = answers[t]
         /\ \A i \in 1 .. Len(answers'[s]) : /\ i + 1 \in 1 .. Len(answers[s])
                                            /\ answers'[s][i] = answers[s][i + 1]
<1>1. pub[s] \in {"serving", "finished"}
  BY DEF IInv, Typed, Progress, Early, Reads
<1>2. message # "ok" => pub[s] = "finished"
  BY <1>1 DEF IInv, Progress, Early, Reads
<1>3. /\ answers[s] \in Seq(Message) /\ answers[s] # <<>> /\ Head(answers[s]) = message
      /\ answers' = [answers EXCEPT ![s] = Tail(@)]
      /\ answers'[s] = Tail(answers[s]) /\ \A t \in Subs \ {s} : answers'[t] = answers[t]
  BY DEF IInv, Typed, Reads
<1>4. /\ Len(answers[s]) \in Nat /\ Len(answers[s]) > 0 /\ Head(answers[s]) = answers[s][1]
      /\ Tail(answers[s]) \in Seq(Message) /\ Len(Tail(answers[s])) = Len(answers[s]) - 1
      /\ \A i \in 1 .. Len(Tail(answers[s])) : Tail(answers[s])[i] = answers[s][i + 1]
  BY <1>3, HeadTailProperties, EmptySeq, LenProperties
<1>5. answers' \in [Subs -> Seq(Message)]
  BY <1>3, <1>4 DEF IInv, Typed
<1>6. message = "ok" => HasOk(s) /\ alias[s] \in Aliases
  <2>1. message = "ok" => HasOk(s)
    BY <1>3, <1>4 DEF HasOk
  <2>2. QED
    BY <2>1 DEF IInv, Typed, Progress, Early
<1>7. ASSUME NEW t \in Subs
      PROVE  /\ answers[t] = <<>> => answers'[t] = <<>>
             /\ answers[t] \in {<<>>, <<"ok">>} => answers'[t] \in {<<>>, <<"ok">>}
             /\ HasOk(t)' => HasOk(t)
  <2>1. Tail(<<"ok">>) = <<>>
    OBVIOUS
  <2>2. CASE t = s
    <3>1. HasOk(t)' => HasOk(t)
      BY <1>3, <1>4, <2>2 DEF HasOk
    <3>2. QED
      BY <1>3, <2>1, <2>2, <3>1
  <2>3. CASE t # s
    BY <1>3, <2>3 DEF HasOk
  <2>4. QED
    BY <2>2, <2>3
<1>8. \A i \in 1 .. Len(answers'[s]) : i + 1 \in 1 .. Len(answers[s]) /\ answers'[s][i] = answers[s][i + 1]
  <2>1. answers'[s] = Tail(answers[s])
    BY <1>3
  <2>2. \A i \in 1 .. Len(answers[s]) - 1 : i + 1 \in 1 .. Len(answers[s])
    BY <1>4
  <2>3. QED
    BY <1>4, <2>1, <2>2
<1>9. \A t \in Subs \ {s} : answers'[t] = answers[t]
  BY <1>3
<1>10. QED
  BY <1>1, <1>2, <1>5, <1>6, <1>7, <1>8, <1>9

\* append puts s behind those under its alias, in their array or in one of its
\* own, and add has compared their names with its own.
LEMMA RegisterRoutes ==
  ASSUME IInv, NEW s \in Subs, alias[s] \in Aliases, ~Duplicate(s), Register(s), UNCHANGED alias
  PROVE  /\ slice' \in [Aliases -> [array : Subs \cup {None}, len : Nat]]
         /\ array' \in [Subs -> Seq(Subs \cup {None})]
         /\ RoutesInv'
<1>0. PICK a, n, row, list : a = alias[s] /\ n = slice[a].len /\ row = Row(a) /\ list = ByAlias(a)
  OBVIOUS
<1>1. /\ a \in Aliases /\ n \in Nat /\ list \in Seq(Subs) /\ Len(list) = n
      /\ \A i \in 1 .. n : list[i] = row[i]
  BY <1>0, ByAliasIs
<1>2. \A i \in 1 .. n : /\ row[i] \in Subs /\ alias[row[i]] = a /\ FullName(row[i]) = FullName(s)
  <2>1. \A i \in 1 .. n : row[i] \in Subs /\ alias[row[i]] = a
    BY <1>0, <1>1 DEF IInv, RoutesInv, Routes
  <2>2. \A i \in 1 .. n : FullName(list[i]) = FullName(s)
    BY <1>0, <1>1 DEF Duplicate
  <2>3. QED
    BY <1>1, <2>1, <2>2
\* What has to be shown of the array new, allocated for h.
<1>3. ASSUME NEW h \in Subs, alias[h] = a, NEW new \in Seq(Subs \cup {None}), n + 1 <= Len(new),
             \A i \in 1 .. n : new[i] = row[i], new[n + 1] = s,
             slice' = [slice EXCEPT ![a] = [array |-> h, len |-> n + 1]],
             array' = [array EXCEPT ![h] = new]
      PROVE  /\ slice' \in [Aliases -> [array : Subs \cup {None}, len : Nat]]
             /\ array' \in [Subs -> Seq(Subs \cup {None})]
             /\ RoutesInv'
  <2>1. slice'[a] = [array |-> h, len |-> n + 1] /\ array'[h] = new
    BY <1>1, <1>3 DEF IInv, Typed
  <2>2. slice' \in [Aliases -> [array : Subs \cup {None}, len : Nat]]
    <3>1. [array |-> h, len |-> n + 1] \in [array : Subs \cup {None}, len : Nat]
      BY <1>1
    <3>2. QED
      BY <1>3, <3>1 DEF IInv, Typed
  <2>3. array' \in [Subs -> Seq(Subs \cup {None})]
    BY <1>3 DEF IInv, Typed
  <2>4. \A i \in 1 .. n + 1 : new[i] \in Subs /\ alias[new[i]] = a /\ FullName(new[i]) = FullName(s)
    <3>1. \A i \in 1 .. n + 1 : i \in 1 .. n \/ i = n + 1
      BY <1>1
    <3>2. QED
      BY <1>0, <1>2, <1>3, <3>1
  <2>5. Routes(a)'
    <3>1. slice'[a].array = h /\ slice'[a].len = n + 1 /\ Row(a)' = new /\ 1 \in 1 .. n + 1
      BY <1>1, <2>1 DEF Row
    <3>2. \A i \in 1 .. n + 1 : FullName(new[i]) = FullName(new[1])
      BY <2>4, <3>1
    <3>3. QED
      BY <1>3, <2>4, <3>1, <3>2 DEF Routes, FullName
  <2>6. /\ \A b \in Aliases \ {a} : slice'[b] = slice[b]
        /\ \A t \in Subs \ {h} : array'[t] = array[t]
    BY <1>3 DEF IInv, Typed
  <2>7. QED
    BY <1>1, <1>3, <2>2, <2>3, <2>5, <2>6, OthersRouted
<1>4. CASE n > 0 /\ n < Len(row)
  <2>1. PICK h : h = slice[a].array
    OBVIOUS
  <2>2. h \in Subs /\ alias[h] = a /\ row = array[h] /\ row \in Seq(Subs \cup {None})
    BY <1>0, <1>1, <1>4, <2>1 DEF IInv, RoutesInv, Routes, Row, Typed
  <2>3. /\ slice' = [slice EXCEPT ![a] = [array |-> h, len |-> n + 1]]
        /\ array' = [array EXCEPT ![h] = [row EXCEPT ![n + 1] = s]]
    BY <1>0, <1>4, <2>1, <2>2 DEF Register
  <2>4. /\ [row EXCEPT ![n + 1] = s] \in Seq(Subs \cup {None}) /\ Len([row EXCEPT ![n + 1] = s]) = Len(row)
        /\ \A i \in 1 .. Len(row) : [row EXCEPT ![n + 1] = s][i] = IF i = n + 1 THEN s ELSE row[i]
    <3>1. n + 1 \in 1 .. Len(row) /\ s \in Subs \cup {None}
      BY <1>1, <1>4, <2>2, LenProperties
    <3>2. QED
      BY <2>2, <3>1, ExceptSeq
  <2>5. PICK new : new = [row EXCEPT ![n + 1] = s]
    OBVIOUS
  <2>6. /\ new \in Seq(Subs \cup {None}) /\ n + 1 <= Len(new)
        /\ (\A i \in 1 .. n : new[i] = row[i]) /\ new[n + 1] = s
    BY <1>1, <1>4, <2>2, <2>4, <2>5, LenProperties
  <2>7. QED
    BY <1>3, <2>2, <2>3, <2>5, <2>6
<1>5. CASE ~(n > 0 /\ n < Len(row))
  <2>1. PICK new : new = list \o <<s>> \o [i \in 1 .. n - 1 |-> None]
    OBVIOUS
  <2>2. /\ slice' = [slice EXCEPT ![a] = [array |-> s, len |-> n + 1]]
        /\ array' = [array EXCEPT ![s] = new]
    BY <1>0, <1>5, <2>1 DEF Register, Row
  <2>3. PICK spare \in Seq(Subs \cup {None}) : spare = [i \in 1 .. n - 1 |-> None]
    <3>1. CASE n = 0
      <4>1. 1 .. n - 1 = 1 .. 0
        BY <3>1
      <4>2. QED
        BY <4>1, Spare
    <3>2. CASE n # 0
      <4>1. n - 1 \in Nat
        BY <1>1, <3>2
      <4>2. QED
        BY <4>1, Spare
    <3>3. QED
      BY <3>1, <3>2
  <2>4. list \in Seq(Subs \cup {None}) /\ <<s>> \in Seq(Subs \cup {None})
    BY <1>1, SeqMonotonic
  <2>5. PICK front : front = list \o <<s>>
    OBVIOUS
  <2>6. /\ front \in Seq(Subs \cup {None}) /\ Len(front) = n + 1
        /\ \A i \in 1 .. n + 1 : front[i] = IF i <= n THEN list[i] ELSE s
    <3>1. Len(<<s>>) = 1 /\ <<s>>[1] = s
      OBVIOUS
    <3>2. /\ list \o <<s>> \in Seq(Subs \cup {None}) /\ Len(list \o <<s>>) = Len(list) + Len(<<s>>)
          /\ \A i \in 1 .. Len(list) + Len(<<s>>) :
               (list \o <<s>>)[i] = IF i <= Len(list) THEN list[i] ELSE <<s>>[i - Len(list)]
      BY <2>4, ConcatProperties
    <3>3. \A i \in 1 .. n + 1 : i <= n \/ i - n = 1
      BY <1>1
    <3>4. QED
      BY <1>1, <2>5, <3>1, <3>2, <3>3
  <2>7. new = front \o spare /\ Len(spare) \in Nat
    BY <2>1, <2>3, <2>5, LenProperties
  <2>8. /\ new \in Seq(Subs \cup {None}) /\ Len(new) = Len(front) + Len(spare)
        /\ \A i \in 1 .. Len(front) + Len(spare) : new[i] = IF i <= Len(front) THEN front[i] ELSE spare[i - Len(front)]
    BY <2>3, <2>6, <2>7, ConcatProperties
  <2>9. n + 1 <= Len(new) /\ (\A i \in 1 .. n : new[i] = row[i]) /\ new[n + 1] = s
    BY <1>1, <2>6, <2>7, <2>8
  <2>10. QED
    BY <1>0, <1>3, <2>2, <2>8, <2>9
<1>6. QED
  BY <1>4, <1>5

LEMMA ReadOkIInv ==
  ASSUME IInv, NEW s \in Subs, ReadOk(s)
  PROVE  IInv'
<1>1. /\ Reads(s, "ok") /\ waiter' = waiter /\ done' = done /\ ~Duplicate(s) /\ Register(s)
      /\ UNCHANGED <<pub, alias, announced, app, ended, signal, phase, todo>>
  BY DEF ReadOk, ReadsOn, Reads, handlers
<1>2. Typed' /\ RoutesInv'
  BY <1>1, HeadOfAnswers, RegisterRoutes DEF IInv, Typed
<1>3. Progress'
  BY <1>1, HeadOfAnswers DEF IInv, Progress, Early
<1>4. QED
  BY <1>1, <1>2, <1>3, WaitKept DEF IInv

\* Every other message leaves the slices alone, and none starts the wait or
\* reports PUBLISH_DONE but one that ended the request at the publisher.
LEMMA ReadsIInv ==
  ASSUME IInv, NEW s \in Subs, NEW message, Reads(s, message), UNCHANGED <<slice, array>>,
         done' \in {done, [done EXCEPT ![s] = "counted"], [done EXCEPT ![s] = "uncounted"]},
         waiter' \in {waiter, [waiter EXCEPT ![s] = "check"]},
         done' # done \/ waiter' # waiter => message # "ok"
  PROVE  IInv'
<1>1. UNCHANGED <<pub, alias, announced, app, ended, signal, phase, todo>>
  BY DEF Reads, handlers
<1>2. Typed'
  BY <1>1, HeadOfAnswers DEF IInv, Typed
<1>3. Progress'
  BY <1>1, HeadOfAnswers DEF IInv, Typed, Progress, Early
<1>4. RoutesInv'
  BY <1>1, RoutesKept DEF IInv
<1>5. NoLostWakeup'
  BY <1>1 DEF IInv, Typed, NoLostWakeup, Turn
<1>6. QED
  BY <1>2, <1>3, <1>4, <1>5 DEF IInv

LEMMA ReadFailsIInv ==
  ASSUME IInv, NEW s \in Subs, ReadFails(s)
  PROVE  IInv'
<1>1. UNCHANGED <<slice, array, done, waiter>>
  BY DEF ReadFails, RunEnds
<1>2. UNCHANGED core
  BY <1>1 DEF ReadFails, core, publisher, handlers
<1>3. QED
  BY <1>2, StutterIInv

LEMMA ReaderIInv ==
  ASSUME IInv, NEW s \in Subs, ReaderStep(s)
  PROVE  IInv'
<1>1. CASE ReadOk(s)
  BY <1>1, ReadOkIInv
<1>2. CASE ReadDuplicate(s)
  BY <1>2, ReadsIInv DEF ReadDuplicate
<1>3. CASE ReadError(s)
  BY <1>3, ReadsIInv DEF ReadError, ReadsOn
<1>4. CASE ReadPublishDone(s)
  <2>1. PICK message \in {"done", "uncounted"} :
            Reads(s, message) /\ waiter' = waiter /\ UNCHANGED <<slice, array>>
            /\ done' \in {[done EXCEPT ![s] = "counted"], [done EXCEPT ![s] = "uncounted"]}
    BY <1>4 DEF ReadPublishDone, ReadsOn, index
  <2>2. QED
    BY <2>1, ReadsIInv
<1>5. CASE ReadStreamEnd(s)
  <2>1. PICK message \in {"fin", "reset"}, clean \in BOOLEAN : Reads(s, message) /\ RunEnds(s, clean)
    BY <1>5 DEF ReadStreamEnd
  <2>2. waiter' \in {waiter, [waiter EXCEPT ![s] = "check"]} /\ UNCHANGED <<slice, array>> /\ done' = done
    BY <2>1 DEF RunEnds
  <2>3. QED
    BY <2>1, <2>2, ReadsIInv
<1>6. CASE ReadFails(s)
  BY <1>6, ReadFailsIInv
<1>7. CASE Unroute(s)
  BY <1>7, UnrouteIInv
<1>8. QED
  BY <1>1, <1>2, <1>3, <1>4, <1>5, <1>6, <1>7 DEF ReaderStep

-----------------------------------------------------------------------------
(* The wait, and the handlers that end it. *)

\* It looks at the count before it sleeps, and sleeps only below it.
LEMMA WaiterIInv ==
  ASSUME IInv, NEW s \in Subs, WaiterStep(s)
  PROVE  IInv'
<1>1. /\ UNCHANGED <<pub, alias, answers, announced, app, done, ended, slice, array, phase, todo>>
      /\ waiter[s] \in {"check", "select"}
  BY DEF WaiterStep, WaiterChecks, WaiterWakes, WaiterGivesUp, publisher, request, index, handlers
<1>2. /\ waiter' \in [Subs -> {"off", "check", "select", "over", "expired"}]
      /\ signal' \in [Subs -> BOOLEAN]
      /\ \A t \in Subs \ {s} : waiter'[t] = waiter[t] /\ signal'[t] = signal[t]
      /\ waiter'[s] = "select" => waiter[s] = "check" /\ ~(ended[s] >= announced[s])
  <2>1. CASE WaiterChecks(s)
    BY <2>1 DEF WaiterChecks, IInv, Typed
  <2>2. CASE WaiterWakes(s)
    BY <2>2 DEF WaiterWakes, IInv, Typed
  <2>3. ASSUME NEW how \in {"expired", "over"}, WaiterGivesUp(s, how)
        PROVE  waiter' = [waiter EXCEPT ![s] = how] /\ signal' = signal
    BY <2>3 DEF WaiterGivesUp
  <2>4. QED
    BY <2>1, <2>2, <2>3 DEF WaiterStep, IInv, Typed
<1>3. Typed'
  BY <1>1, <1>2 DEF IInv, Typed
<1>4. Progress'
  BY <1>1, <1>2 DEF IInv, Typed, Progress, Early, HasOk
<1>5. RoutesInv'
  BY <1>1, RoutesKept DEF IInv
<1>6. NoLostWakeup'
  <2>1. /\ UNCHANGED <<ended, announced>>
        /\ \A t \in Subs, d \in Streams : phase'[d] = phase[d] /\ (Turn(d, t)' <=> Turn(d, t))
    BY <1>1 DEF Turn
  <2>2. ~(waiter'[s] = "select" /\ ended'[s] >= announced'[s])
    BY <1>2, <2>1
  <2>3. QED
    BY <1>2, <2>1, <2>2 DEF IInv, NoLostWakeup
<1>7. QED
  BY <1>3, <1>4, <1>5, <1>6 DEF IInv

\* A handler moves on that had no token to put, and none to put any more.
LEMMA MovesOn ==
  ASSUME IInv, NEW d \in Streams, NEW next \in Phases \ {"signal"}, phase[d] # "signal",
         phase' = phase \/ ToPhase(d, next),
         DOMAIN todo' = Streams, \A c \in Streams \ {d} : todo'[c] = todo[c],
         UNCHANGED <<pub, alias, answers, announced, app, done, ended, signal, waiter, slice, array>>
  PROVE  IInv'
<1>1. phase' \in [Streams -> Phases] /\ phase'[d] # "signal" /\ \A c \in Streams \ {d} : phase'[c] = phase[c]
  BY DEF IInv, Typed, ToPhase
<1>2. Typed' /\ Progress'
  BY <1>1 DEF IInv, Typed, Progress, Early, HasOk
<1>3. NoLostWakeup'
  BY <1>1 DEF IInv, NoLostWakeup, Turn
<1>4. QED
  BY <1>2, <1>3, RoutesKept DEF IInv

\* A stream is counted, and its handler has the token to put into the channel.
LEMMA CountIInv ==
  ASSUME IInv, NEW d \in Streams, NEW t \in Subs, Count(d, t)
  PROVE  IInv'
<1>1. /\ UNCHANGED <<pub, alias, answers, announced, app, done, signal, waiter, slice, array, todo>>
      /\ phase[d] = "count" /\ Turn(d, t)
      /\ phase' = [phase EXCEPT ![d] = "signal"] /\ ended' = [ended EXCEPT ![t] = @ + 1]
  BY DEF Count, ToPhase, publisher, request, index
<1>2. Typed'
  BY <1>1 DEF IInv, Typed, Phases
<1>3. Progress'
  BY <1>1 DEF IInv, Progress, Early, HasOk
<1>4. NoLostWakeup'
  <2>1. phase'[d] = "signal" /\ Turn(d, t)' /\ \A c \in Streams \ {d} : phase'[c] = phase[c]
    BY <1>1 DEF IInv, Typed, Turn
  <2>2. \A s \in Subs \ {t} : ended'[s] = ended[s]
    BY <1>1 DEF IInv, Typed
  <2>3. ASSUME NEW s \in Subs, waiter'[s] = "select", ended'[s] >= announced'[s]
        PROVE  signal'[s] \/ \E c \in Streams : phase'[c] = "signal" /\ Turn(c, s)'
    <3>1. CASE s = t
      BY <2>1, <3>1
    <3>2. CASE s # t
      <4>1. signal[s] \/ \E c \in Streams : phase[c] = "signal" /\ Turn(c, s)
        BY <1>1, <2>2, <2>3, <3>2 DEF IInv, NoLostWakeup
      <4>2. QED
        BY <1>1, <2>1, <4>1 DEF Turn
    <3>3. QED
      BY <3>1, <3>2
  <2>4. QED
    BY <2>3 DEF NoLostWakeup
<1>5. QED
  BY <1>1, <1>2, <1>3, <1>4, RoutesKept DEF IInv

\* It puts the token, for the one whose turn it was.
LEMMA SignalIInv ==
  ASSUME IInv, NEW d \in Streams, NEW t \in Subs, Signal(d, t)
  PROVE  IInv'
<1>1. /\ UNCHANGED <<pub, alias, answers, announced, app, done, ended, waiter, slice, array>>
      /\ phase[d] = "signal" /\ Turn(d, t)
      /\ signal' = [signal EXCEPT ![t] = TRUE] /\ todo' = [todo EXCEPT ![d] = Tail(@)]
      /\ \E next \in Phases \ {"signal"} : phase' = [phase EXCEPT ![d] = next]
  BY DEF Signal, Signals, ToEnd, ToPhase, publisher, request, index, Phases
<1>2. Typed'
  BY <1>1 DEF IInv, Typed
<1>3. Progress'
  BY <1>1 DEF IInv, Progress, Early, HasOk
<1>4. NoLostWakeup'
  <2>1. \A c \in Streams \ {d} : phase'[c] = phase[c] /\ todo'[c] = todo[c]
    BY <1>1 DEF IInv, Typed
  <2>2. signal'[t] /\ \A s \in Subs \ {t} : signal'[s] = signal[s]
    BY <1>1 DEF IInv, Typed
  <2>3. \A s \in Subs \ {t} : ~Turn(d, s)
    BY <1>1 DEF Turn
  <2>4. ASSUME NEW s \in Subs \ {t}, waiter'[s] = "select", ended'[s] >= announced'[s]
        PROVE  signal'[s] \/ \E c \in Streams : phase'[c] = "signal" /\ Turn(c, s)'
    <3>1. signal[s] \/ \E c \in Streams \ {d} : phase[c] = "signal" /\ Turn(c, s)
      BY <1>1, <2>3, <2>4 DEF IInv, NoLostWakeup
    <3>2. QED
      BY <2>1, <2>2, <3>1 DEF Turn
  <2>5. QED
    BY <2>2, <2>4 DEF NoLostWakeup
<1>5. QED
  BY <1>1, <1>2, <1>3, <1>4, RoutesKept DEF IInv

LEMMA HandlerIInv ==
  ASSUME IInv, NEW d \in Streams, HandlerStep(d)
  PROVE  IInv'
<1> USE DEF publisher, subscriber, index, request, counting
<1>1. ASSUME TakeStream(d) \/ HeaderLost(d) \/ AliasKnown(d) \/ AliasWaitEnds(d) \/ Copy(d)
      PROVE  IInv'
  <2>1. \E next \in {"await", "over", "copy", "deliver"} : ToPhase(d, next)
    BY <1>1 DEF TakeStream, HeaderLost, AliasKnown, AliasWaitEnds, Copy
  <2>2. /\ UNCHANGED <<pub, alias, answers, announced, app, done, ended, signal, waiter, slice, array, todo>>
        /\ phase[d] # "signal"
    BY <1>1 DEF TakeStream, HeaderLost, AliasKnown, AliasWaitEnds, Copy
  <2>3. QED
    BY <2>1, <2>2, MovesOn DEF IInv, Typed, Phases
<1>2. ASSUME NextObject(d) \/ \E t \in Subs : Deliver(d, t) PROVE IInv'
  <2>1. /\ UNCHANGED <<pub, alias, answers, announced, app, done, ended, signal, waiter, slice, array, phase>>
        /\ phase[d] # "signal" /\ \E rest : todo' = [todo EXCEPT ![d] = rest]
    BY <1>2 DEF NextObject, Deliver
  <2>2. QED
    BY <2>1, MovesOn, "over" \in Phases \ {"signal"} DEF IInv, Typed, Phases
<1>3. ASSUME StreamEnds(d) \/ \E t \in Subs : DeliverFails(d, t) PROVE IInv'
  <2>1. /\ UNCHANGED <<pub, alias, answers, announced, app, done, ended, signal, waiter, slice, array>>
        /\ phase[d] # "signal" /\ \E rest : todo' = [todo EXCEPT ![d] = rest]
        /\ \E next \in {"mark", "count"} : ToPhase(d, next)
    BY <1>3 DEF StreamEnds, DeliverFails, ReceiveReturns, ToEnd
  <2>2. QED
    BY <2>1, MovesOn DEF IInv, Typed, Phases
<1>4. ASSUME NEW t \in Subs, Mark(d, t) PROVE IInv'
  <2>1. /\ UNCHANGED <<pub, alias, answers, announced, app, done, ended, signal, waiter, slice, array, todo>>
        /\ phase[d] # "signal" /\ ToPhase(d, "count")
    BY <1>4 DEF Mark, Marks
  <2>2. QED
    BY <2>1, MovesOn DEF IInv, Typed, Phases
<1>5. QED
  BY <1>1, <1>2, <1>3, <1>4, CountIInv, SignalIInv DEF HandlerStep

-----------------------------------------------------------------------------
LEMMA PublisherIInv ==
  ASSUME IInv, NEW s \in Subs, PublisherStep(s)
  PROVE  IInv'
<1>1. ASSUME NEW d \in Streams, OpenSubgroup(s, d) PROVE IInv'
  <2>1. UNCHANGED core
    BY <1>1 DEF OpenSubgroup, core, subscriber, index, handlers, request, counting
  <2>2. QED
    BY <2>1, StutterIInv
<1>2. QED
  BY <1>1, SubscribeOkIInv, RefuseIInv, PublishDoneIInv DEF PublisherStep

LEMMA StreamIInv ==
  ASSUME IInv, NEW d \in Streams, StreamStep(d)
  PROVE  IInv'
<1>1. UNCHANGED core
  BY DEF StreamStep, WriteObject, EndSubgroup, core, subscriber, index, handlers, request, counting
<1>2. QED
  BY <1>1, StutterIInv

LEMMA CallsIInv ==
  ASSUME IInv, NEW s \in Subs, ApplicationStep(s)
  PROVE  IInv'
<1>1. CASE Subscribe(s)
  BY <1>1, SubscribeIInv
<1>2. ASSUME ~Subscribe(s)
      PROVE  /\ \E to \in {"calling", "reading", "ended", "closed"} :
                   app' \in {app, [app EXCEPT ![s] = to]}
             /\ UNCHANGED <<pub, alias, answers, announced, done, ended, signal, waiter, slice, array, phase, todo>>
  BY <1>2 DEF ApplicationStep, SubscribeFails, Subscribed, Close, ReadObject, ReadEnd,
              publisher, request, counting, index, handlers
<1>3. QED
  BY <1>1, <1>2, ApplicationIInv

LEMMA NextIInv == IInv /\ [Next]_vars => IInv'
<1> SUFFICES ASSUME IInv, [Next]_vars PROVE IInv'
  OBVIOUS
<1>1. ASSUME NEW s \in Subs,
             PublisherStep(s) \/ ApplicationStep(s) \/ ReaderStep(s) \/ WaiterStep(s)
      PROVE  IInv'
  BY <1>1, PublisherIInv, CallsIInv, ReaderIInv, WaiterIInv
<1>2. ASSUME NEW d \in Streams, StreamStep(d) \/ HandlerStep(d) PROVE IInv'
  BY <1>2, StreamIInv, HandlerIInv
<1>3. CASE SessionEnds
  <2>1. UNCHANGED core
    BY <1>3 DEF SessionEnds, core, publisher, request, counting, index, handlers
  <2>2. QED
    BY <2>1, StutterIInv
<1>4. CASE UNCHANGED vars
  <2>1. UNCHANGED core
    BY <1>4 DEF vars, core, publisher, subscriber, request, counting, index, handlers
  <2>2. QED
    BY <2>1, StutterIInv
<1>5. QED
  BY <1>1, <1>2, <1>3, <1>4 DEF Next

LEMMA Invariance == Spec => []IInv
BY InitIInv, NextIInv, PTL DEF Spec

\* If no two tracks have one name, an alias routes data streams to subscriptions
\* of one track only, whatever aliases a publisher chooses, in whatever order its
\* answers are read and its subscriptions end: the check of remoteTrackIndex.add
\* is enough, as an alias never changes once its SUBSCRIBE_OK is written, and
\* append and remove put no subscription in a slice but under its own alias.
THEOREM OneTrackPerAlias ==
  ASSUME \A k, l \in Tracks : NameOf[k] = NameOf[l] => k = l
  PROVE  Spec => []AliasNamesOneTrack
<1>1. IInv => AliasNamesOneTrack
  <2> SUFFICES ASSUME IInv, NEW s \in Subs, NEW t \in Subs, Routed(s), Routed(t), alias[s] = alias[t]
               PROVE  TrackOf[s] = TrackOf[t]
    BY DEF AliasNamesOneTrack
  <2>1. PICK m, n : At(s, m) /\ At(t, n)
    BY DEF Routed
  <2>2. PICK a \in Aliases : a = alias[s]
    BY <2>1 DEF At, IInv, Typed
  <2>3. slice[a].len > 0 /\ FullName(s) = FullName(Row(a)[1]) /\ FullName(t) = FullName(Row(a)[1])
    BY <2>1, <2>2 DEF At, IInv, Typed, RoutesInv, Routes, Row
  <2>4. QED
    BY <2>3, ConstantsAssumption DEF FullName
<1>2. QED
  BY <1>1, Invariance, PTL

\* For any number of streams, and any they are announced to be, awaitDataStreams
\* never sleeps on a count that has been reached with nobody to wake it: either
\* the token is in its channel of one place, or the handler that counted a stream
\* is between its unlock and the token.
THEOREM WakeupsKept == Spec => []NoLostWakeup
<1>1. IInv => NoLostWakeup
  BY DEF IInv
<1>2. QED
  BY <1>1, Invariance, PTL

-----------------------------------------------------------------------------
(* An alias of its own for each subscription, as newTrackAlias gives it: no *)
(* slice has more than one place, and no array is shared.                   *)

OwnTyped ==
  /\ owner \in [Streams -> Subs \cup {None}]
  /\ held \in [Streams -> [array : Subs \cup {None}, len : Nat]]
  /\ DOMAIN tracks = Streams

Own(s) ==
  /\ array[s] \in {<<>>, <<s>>}
  /\ pub[s] \in {"idle", "asked"} \/ HasOk(s) => array[s] = <<>>
  /\ pub[s] = "serving" => alias[s] # None
  /\ \A i \in 1 .. Len(answers[s]) : answers[s][i] = "ok" => i = 1
  /\ \A t \in Subs : alias[t] = alias[s] /\ alias[s] # None => t = s

\* A stream goes to the subscription it was opened for, or to none.
Taken(d) ==
  /\ owner[d] = None => phase[d] = "idle" /\ ending[d] = "open"
  /\ owner[d] # None => alias[owner[d]] # None
  /\ phase[d] \in {"idle", "await", "copy"} => tracks[d] = <<>> /\ todo[d] = <<>>
  /\ phase[d] = "copy" => held[d] = [array |-> owner[d], len |-> 1] /\ array[owner[d]] = <<owner[d]>>
  /\ tracks[d] \in {<<>>, <<owner[d]>>} /\ todo[d] \in {<<>>, tracks[d]}

OwnInv == OwnTyped /\ (\A s \in Subs : Own(s)) /\ (\A d \in Streams : Taken(d))

LEMMA InitOwnInv == Init => OwnInv
<1> SUFFICES ASSUME Init PROVE OwnInv
  OBVIOUS
<1>1. OwnTyped
  BY DEF Init, OwnTyped, NoSlice
<1>2. \A s \in Subs : Own(s)
  BY DEF Init, Own, HasOk
<1>3. \A d \in Streams : Taken(d)
  BY DEF Init, Taken
<1>4. QED
  BY <1>1, <1>2, <1>3 DEF OwnInv

\* The slice of an alias that is known, as its subscription made it.
LEMMA SliceIsOwn ==
  ASSUME IInv, OwnInv, NEW s \in Subs, alias[s] \in Aliases, slice[alias[s]].len > 0
  PROVE  /\ slice[alias[s]] = [array |-> s, len |-> 1] /\ array[s] = <<s>> /\ ByAlias(alias[s]) = <<s>>
<1>1. /\ slice[alias[s]].array \in Subs /\ alias[slice[alias[s]].array] = alias[s]
      /\ slice[alias[s]].len \in Nat /\ slice[alias[s]].len <= Len(array[slice[alias[s]].array])
  BY DEF IInv, Typed, RoutesInv, Routes, Row
<1>2. slice[alias[s]].array = s
  BY <1>1, ConstantsAssumption DEF OwnInv, Own
<1>3. Len(<<>>) = 0 /\ Len(<<s>>) = 1 /\ <<s>>[1] = s /\ <<s>> \in Seq(Subs)
  OBVIOUS
<1>4. array[s] = <<s>> /\ slice[alias[s]].len = 1
  <2>1. array[s] \in {<<>>, <<s>>}
    BY DEF OwnInv, Own
  <2>2. slice[alias[s]].len <= Len(array[s])
    BY <1>1, <1>2
  <2>3. array[s] # <<>>
    <3>1. array[s] = <<>> => Len(array[s]) = 0
      BY EmptySeq
    <3>2. QED
      BY <1>1, <2>2, <3>1
  <2>4. QED
    <3>1. array[s] = <<s>> /\ Len(array[s]) = 1
      BY <1>3, <2>1, <2>3
    <3>2. QED
      BY <1>1, <2>2, <3>1
<1>5. slice[alias[s]] = [array |-> s, len |-> 1]
  <2>1. slice[alias[s]] \in [array : Subs \cup {None}, len : Nat]
    BY DEF IInv, Typed
  <2>2. QED
    BY <1>2, <1>4, <2>1
<1>6. ByAlias(alias[s]) = <<s>>
  <2>1. /\ ByAlias(alias[s]) \in Seq(Subs) /\ Len(ByAlias(alias[s])) = 1
        /\ ByAlias(alias[s])[1] = <<s>>[1]
    <3>1. 1 \in 1 .. slice[alias[s]].len /\ Row(alias[s])[1] = s
      BY <1>2, <1>3, <1>4 DEF Row
    <3>2. QED
      BY <1>3, <1>4, <3>1, ByAliasIs
  <2>2. \A i \in 1 .. Len(ByAlias(alias[s])) : ByAlias(alias[s])[i] = <<s>>[i]
    BY <2>1
  <2>3. QED
    BY <1>3, <2>1, <2>2, SeqEqual
<1>7. QED
  BY <1>4, <1>5, <1>6

\* The steps that move no handler, open no stream and give no alias.
LEMMA OwnKept ==
  ASSUME OwnInv, UNCHANGED <<alias, owner, ending, phase, held, tracks, todo>>,
         \A s \in Subs :
           /\ array'[s] = array[s] \/ (array'[s] = <<s>> /\ pub'[s] \notin {"idle", "asked"} /\ ~HasOk(s)')
           /\ HasOk(s)' => HasOk(s)
           /\ pub'[s] = "serving" => pub[s] = "serving"
           /\ pub'[s] \in {"idle", "asked"} => pub[s] \in {"idle", "asked"}
           /\ \A i \in 1 .. Len(answers'[s]) : answers'[s][i] = "ok" => i = 1
  PROVE  OwnInv'
<1>1. ASSUME NEW s \in Subs PROVE Own(s)'
  BY DEF OwnInv, Own
<1>2. ASSUME NEW d \in Streams PROVE Taken(d)'
  BY DEF OwnInv, Own, OwnTyped, Taken
<1>3. OwnTyped'
  BY DEF OwnInv, OwnTyped
<1>4. QED
  BY <1>1, <1>2, <1>3 DEF OwnInv

owncore == <<pub, alias, answers, owner, ending, array, phase, held, tracks, todo>>

LEMMA StutterOwn == OwnInv /\ UNCHANGED owncore => OwnInv'
BY DEF owncore, OwnInv, OwnTyped, Own, HasOk, Taken

LEMMA SubscribeOkOwn ==
  ASSUME ~Reuse, IInv, OwnInv, NEW s \in Subs, NEW a \in Aliases, SubscribeOk(s, a)
  PROVE  OwnInv'
<1>1. /\ UNCHANGED <<owner, ending, array, phase, held, tracks, todo>> /\ a # None
      /\ pub[s] = "asked" /\ pub' = [pub EXCEPT ![s] = "serving"]
      /\ alias' = [alias EXCEPT ![s] = a] /\ \A t \in Subs : alias[t] # a
  BY ConstantsAssumption DEF SubscribeOk, MayUse, subscriber, index, handlers
<1>2. answers' = [answers EXCEPT ![s] = <<"ok">>] /\ array[s] = <<>> /\ alias[s] = None
  <2>1. answers[s] = <<>> /\ alias[s] = None /\ array[s] = <<>>
    BY <1>1 DEF IInv, Progress, Early, OwnInv, Own
  <2>2. <<>> \o <<"ok">> = <<"ok">>
    BY <<"ok">> \in Seq({"ok"}), ConcatEmptySeq
  <2>3. QED
    BY <2>1, <2>2 DEF SubscribeOk, Send
<1>3. /\ answers'[s] = <<"ok">> /\ alias'[s] = a /\ pub'[s] = "serving"
      /\ \A t \in Subs \ {s} : answers'[t] = answers[t] /\ alias'[t] = alias[t] /\ pub'[t] = pub[t]
  BY <1>1, <1>2 DEF IInv, Typed
<1>4. Own(s)'
  BY <1>1, <1>2, <1>3 DEF Own
<1>5. ASSUME NEW t \in Subs \ {s} PROVE Own(t)'
  <2>1. Own(t) /\ (HasOk(t)' <=> HasOk(t))
    BY <1>3 DEF OwnInv, HasOk
  <2>2. QED
    BY <1>1, <1>3, <2>1 DEF Own
<1>6. ASSUME NEW d \in Streams PROVE Taken(d)'
  BY <1>1, <1>2, <1>3 DEF OwnInv, OwnTyped, Taken
<1>7. OwnTyped'
  BY <1>1 DEF OwnInv, OwnTyped
<1>8. QED
  BY <1>4, <1>5, <1>6, <1>7 DEF OwnInv

\* Whatever else the publisher says of s, and ends it with.
LEMMA SaysOwn ==
  ASSUME IInv, OwnInv, NEW s \in Subs, NEW messages \in Seq(Message), Send(s, messages),
         \A i \in 1 .. Len(messages) : messages[i] # "ok",
         pub' = [pub EXCEPT ![s] = "finished"],
         UNCHANGED <<alias, owner, ending, array, phase, held, tracks, todo>>
  PROVE  OwnInv'
<1>1. \A t \in Subs : \A i \in 1 .. Len(answers'[t]) : answers'[t][i] = "ok" => i = 1
  BY SendIInv DEF OwnInv, Own
<1>2. \A t \in Subs : pub'[t] = pub[t] \/ pub'[t] = "finished"
  BY DEF IInv, Typed
<1>3. QED
  BY <1>1, <1>2, SendIInv, OwnKept

LEMMA PublisherOwn ==
  ASSUME ~Reuse, IInv, OwnInv, NEW s \in Subs, PublisherStep(s)
  PROVE  OwnInv'
<1> USE DEF subscriber, index, handlers
<1>1. CASE \E a \in Aliases : SubscribeOk(s, a)
  BY <1>1, SubscribeOkOwn
<1>2. ASSUME NEW messages \in {<<"error", "fin">>, <<"reset">>}, Refuse(s, messages) PROVE OwnInv'
  <2>1. messages \in Seq(Message) /\ \A i \in 1 .. Len(messages) : messages[i] # "ok"
    <3>1. <<"error", "fin">> \in Seq(Message) /\ <<"reset">> \in Seq(Message)
      BY DEF Message
    <3>2. CASE messages = <<"error", "fin">>
      BY <3>1, <3>2
    <3>3. CASE messages = <<"reset">>
      BY <3>1, <3>3
    <3>4. QED
      BY <3>2, <3>3
  <2>2. QED
    BY <1>2, <2>1, SaysOwn DEF Refuse
<1>3. ASSUME NEW d \in Streams, OpenSubgroup(s, d) PROVE OwnInv'
  <2>1. /\ UNCHANGED <<pub, alias, answers, ending, array, phase, held, tracks, todo>>
        /\ pub[s] = "serving" /\ owner[d] = None /\ owner' = [owner EXCEPT ![d] = s]
    BY <1>3 DEF OpenSubgroup
  <2>2. \A t \in Subs : Own(t)'
    BY <2>1 DEF OwnInv, Own, HasOk
  <2>3. /\ alias[s] # None /\ phase[d] = "idle" /\ tracks[d] = <<>> /\ todo[d] = <<>>
        /\ owner' \in [Streams -> Subs \cup {None}]
    BY <2>1 DEF OwnInv, OwnTyped, Own, Taken
  <2>4. ASSUME NEW c \in Streams PROVE Taken(c)'
    <3>1. CASE c = d
      BY <2>1, <2>3, <3>1, ConstantsAssumption DEF OwnInv, OwnTyped, Taken
    <3>2. CASE c # d
      BY <2>1, <3>2 DEF OwnInv, OwnTyped, Taken
    <3>3. QED
      BY <3>1, <3>2
  <2>5. QED
    BY <2>1, <2>2, <2>3, <2>4 DEF OwnInv, OwnTyped
<1>4. ASSUME NEW message \in {"done", "uncounted"}, PublishDone(s, message) PROVE OwnInv'
  <2>1. <<message, "fin">> \in Seq(Message) /\ \A i \in 1 .. Len(<<message, "fin">>) : <<message, "fin">>[i] # "ok"
    BY DEF Message
  <2>2. QED
    BY <1>4, <2>1, SaysOwn DEF PublishDone
<1>5. QED
  BY <1>1, <1>2, <1>3, <1>4 DEF PublisherStep

LEMMA ReaderOwn ==
  ASSUME IInv, OwnInv, NEW s \in Subs, ReaderStep(s)
  PROVE  OwnInv'
<1>1. ASSUME NEW message, Reads(s, message)
      PROVE  /\ UNCHANGED <<pub, alias, owner, ending, phase, held, tracks, todo>>
             /\ \A t \in Subs : /\ HasOk(t)' => HasOk(t)
                                /\ \A i \in 1 .. Len(answers'[t]) : answers'[t][i] = "ok" => i = 1
             /\ ~HasOk(s)'
  <2>1. ASSUME NEW i \in 1 .. Len(answers'[s]) PROVE answers'[s][i] # "ok"
    <3>1. /\ i + 1 \in 1 .. Len(answers[s]) /\ answers'[s][i] = answers[s][i + 1]
          /\ answers[s][i + 1] = "ok" => i + 1 = 1
      BY <1>1, HeadOfAnswers DEF OwnInv, Own
    <3>2. i \in Nat /\ i > 0
      BY <1>1, HeadOfAnswers, LenProperties
    <3>3. QED
      BY <3>1, <3>2
  <2>2. \A t \in Subs \ {s} : \A i \in 1 .. Len(answers'[t]) : answers'[t][i] = "ok" => i = 1
    BY <1>1, HeadOfAnswers DEF OwnInv, Own
  <2>3. ~HasOk(s)'
    BY <2>1 DEF HasOk
  <2>4. \A t \in Subs : HasOk(t)' => HasOk(t)
    BY <1>1, HeadOfAnswers
  <2>5. UNCHANGED <<pub, alias, owner, ending, phase, held, tracks, todo>>
    BY <1>1 DEF Reads, handlers
  <2>6. \A t \in Subs : \A i \in 1 .. Len(answers'[t]) : answers'[t][i] = "ok" => i = 1
    <3>1. \A i \in 1 .. Len(answers'[s]) : answers'[s][i] # "ok"
      BY <2>1
    <3>2. QED
      BY <2>2, <3>1
  <2>7. QED
    BY <2>3, <2>4, <2>5, <2>6
<1>2. CASE ReadOk(s)
  <2>1. Reads(s, "ok") /\ Register(s) /\ ~Duplicate(s)
    BY <1>2 DEF ReadOk, ReadsOn
  <2>2. HasOk(s) /\ alias[s] \in Aliases /\ array[s] = <<>> /\ pub[s] \in {"serving", "finished"}
    BY <2>1, HeadOfAnswers DEF OwnInv, Own
  <2>3. slice[alias[s]].len = 0
    <3>1. <<s>> # <<>>
      OBVIOUS
    <3>2. ~(slice[alias[s]].len > 0)
      BY <2>2, <3>1, SliceIsOwn
    <3>3. QED
      BY <2>2, <3>2 DEF IInv, Typed
  <2>4. array' = [array EXCEPT ![s] = <<>> \o <<s>> \o [i \in 1 .. 0 - 1 |-> None]]
    BY <2>1, <2>3 DEF Register, ByAlias
  <2>5. <<>> \o <<s>> \o [i \in 1 .. 0 - 1 |-> None] = <<s>>
    <3>1. [i \in 1 .. 0 - 1 |-> None] = <<>>
      OBVIOUS
    <3>2. <<>> \o <<s>> = <<s>> /\ <<s>> \o <<>> = <<s>>
      BY <<s>> \in Seq(Subs), ConcatEmptySeq
    <3>3. QED
      BY <3>1, <3>2
  <2>6. \A t \in Subs : array'[t] = array[t] \/ (t = s /\ array'[t] = <<s>>)
    BY <2>4, <2>5 DEF IInv, Typed
  <2>7. QED
    BY <1>1, <2>1, <2>2, <2>6, OwnKept
<1>3. ASSUME NEW message, Reads(s, message), UNCHANGED array PROVE OwnInv'
  BY <1>1, <1>3, OwnKept
<1>4. CASE ReadDuplicate(s) \/ ReadError(s) \/ ReadPublishDone(s) \/ ReadStreamEnd(s)
  <2>1. \E message \in Message : Reads(s, message) /\ UNCHANGED array
    BY <1>4 DEF ReadDuplicate, ReadError, ReadPublishDone, ReadStreamEnd, ReadsOn, RunEnds, index, Message
  <2>2. QED
    BY <1>3, <2>1
<1>5. CASE ReadFails(s)
  BY <1>5, StutterOwn DEF ReadFails, RunEnds, owncore, publisher, handlers
\* What leaves a slice of one place moves nothing.
<1>6. CASE Unroute(s)
  <2>1. ASSUME NEW n, At(s, n), Remove(s, n) PROVE array' = array
    <3>1. alias[s] \in Aliases /\ slice[alias[s]].len > 0
      BY <2>1 DEF At, IInv, Typed
    <3>2. slice[alias[s]] = [array |-> s, len |-> 1] /\ array[s] = <<s>>
      BY <3>1, SliceIsOwn
    <3>3. slice[alias[s]].array = s /\ slice[alias[s]].len = 1
      BY <3>2
    <3>4. PICK old : old = array[s]
      OBVIOUS
    <3>5. array' = [array EXCEPT ![s] = [i \in 1 .. Len(old) |-> IF n <= i /\ i < 1 THEN old[i + 1] ELSE old[i]]]
      BY <2>1, <3>3, <3>4 DEF Remove
    <3>6. [i \in 1 .. Len(old) |-> IF n <= i /\ i < 1 THEN old[i + 1] ELSE old[i]] = <<s>>
      <4> DEFINE new == [i \in 1 .. Len(old) |-> IF n <= i /\ i < 1 THEN old[i + 1] ELSE old[i]]
      <4>0. old = <<s>> /\ Len(old) = 1 /\ old[1] = s
        BY <3>2, <3>4
      <4>1. Len(<<s>>) = 1 /\ <<s>> \in Seq(Subs) /\ new[1] = s
        BY <4>0
      <4>2. new \in [1 .. 1 -> Subs]
        BY <4>0
      <4> HIDE DEF new
      <4>3. new \in Seq(Subs)
        BY <4>2, SeqDef
      <4>4. Len(new) = 1
        BY <4>2, <4>3, LenProperties
      <4>5. \A i \in 1 .. Len(new) : new[i] = <<s>>[i]
        BY <4>1, <4>4
      <4>6. new = <<s>>
        BY <4>1, <4>3, <4>4, <4>5, SeqEqual
      <4>7. QED
        BY <4>1, <4>6 DEF new
    <3>7. QED
      BY <3>2, <3>5, <3>6 DEF IInv, Typed
  <2>2. array' = array
    BY <1>6, <2>1 DEF Unroute
  <2>3. QED
    BY <1>6, <2>2, StutterOwn DEF Unroute, owncore, publisher, handlers
<1>7. QED
  BY <1>2, <1>4, <1>5, <1>6 DEF ReaderStep

(* The handlers, whose sequences are of one subscription or none.           *)

\* Those a stream is given to, and those its object or its end is still for.
given == [d \in Streams |-> IF tracks[d] = <<>> THEN {} ELSE {owner[d]}]
due == [d \in Streams |-> IF todo[d] = <<>> THEN {} ELSE {owner[d]}]

LEMMA Views ==
  ASSUME OwnInv
  PROVE  /\ given \in [Streams -> SUBSET Subs] /\ due \in [Streams -> SUBSET Subs]
         /\ \A d \in Streams : given[d] \subseteq {owner[d]} /\ due[d] \subseteq given[d]
<1>1. ASSUME NEW d \in Streams
      PROVE  /\ tracks[d] # <<>> => owner[d] \in Subs
             /\ todo[d] # <<>> => tracks[d] # <<>>
  BY DEF OwnInv, OwnTyped, Taken
<1>2. QED
  BY <1>1 DEF given, due

LEMMA TurnIsOwn ==
  ASSUME OwnInv, NEW d \in Streams, NEW t, Turn(d, t)
  PROVE  /\ t \in Subs /\ t = owner[d] /\ todo[d] = <<t>> /\ tracks[d] = <<t>>
         /\ Len(todo[d]) = 1 /\ Tail(todo[d]) = <<>> /\ due[d] = {t} /\ given[d] = {t}
<1>1. tracks[d] = <<owner[d]>> /\ todo[d] = <<owner[d]>> /\ owner[d] \in Subs
  BY DEF Turn, OwnInv, OwnTyped, Taken
<1>2. Head(<<owner[d]>>) = owner[d] /\ Tail(<<owner[d]>>) = <<>> /\ Len(<<owner[d]>>) = 1 /\ <<owner[d]>> # <<>>
  OBVIOUS
<1>3. QED
  BY <1>1, <1>2 DEF Turn, given, due

\* One handler moves.
LEMMA OneTaken ==
  ASSUME OwnInv, NEW d \in Streams, UNCHANGED <<pub, alias, answers, owner, ending, array>>,
         held' \in [Streams -> [array : Subs \cup {None}, len : Nat]], DOMAIN tracks' = Streams,
         \A c \in Streams \ {d} : /\ phase'[c] = phase[c] /\ held'[c] = held[c]
                                  /\ tracks'[c] = tracks[c] /\ todo'[c] = todo[c],
         Taken(d)'
  PROVE  OwnInv'
<1>1. ASSUME NEW c \in Streams \ {d} PROVE Taken(c)'
  <2>1. Taken(c) /\ phase'[c] = phase[c] /\ held'[c] = held[c] /\ tracks'[c] = tracks[c] /\ todo'[c] = todo[c]
    BY DEF OwnInv
  <2>2. QED
    BY <2>1 DEF Taken
<1>2. \A s \in Subs : Own(s)'
  BY DEF OwnInv, Own, HasOk
<1>3. QED
  BY <1>1, <1>2 DEF OwnInv, OwnTyped

LEMMA ViewsChange ==
  ASSUME UNCHANGED owner, NEW d \in Streams
  PROVE  /\ tracks' = tracks => given' = given
         /\ todo' = todo => due' = due
         /\ \A x : DOMAIN tracks = Streams /\ tracks' = [tracks EXCEPT ![d] = x] =>
                     given' = [given EXCEPT ![d] = IF x = <<>> THEN {} ELSE {owner[d]}]
         /\ \A x : DOMAIN todo = Streams /\ todo' = [todo EXCEPT ![d] = x] =>
                     due' = [due EXCEPT ![d] = IF x = <<>> THEN {} ELSE {owner[d]}]
BY DEF given, due

\* The steps before the first object.
LEMMA TakeStreamOwn ==
  ASSUME IInv, OwnInv, NEW d \in Streams, TakeStream(d) \/ HeaderLost(d)
  PROVE  OwnInv' /\ given' = given /\ due' = due
<1>1. /\ UNCHANGED <<pub, alias, answers, owner, ending, array, held, tracks, todo>>
      /\ phase[d] = "idle" /\ owner[d] # None
      /\ phase' = [phase EXCEPT ![d] = "await"] \/ phase' = [phase EXCEPT ![d] = "over"]
  BY DEF TakeStream, HeaderLost, ToPhase, publisher, subscriber, index, OwnInv, Taken
<1>2. Taken(d)'
  <2>1. Taken(d) /\ (phase'[d] = "await" \/ phase'[d] = "over")
    BY <1>1 DEF OwnInv, IInv, Typed
  <2>2. QED
    BY <1>1, <2>1 DEF Taken
<1>3. \A c \in Streams \ {d} : phase'[c] = phase[c]
  BY <1>1 DEF IInv, Typed
<1>4. QED
  BY <1>1, <1>2, <1>3, OneTaken, ViewsChange DEF OwnInv, OwnTyped

LEMMA AliasKnownOwn ==
  ASSUME IInv, OwnInv, NEW d \in Streams, AliasKnown(d)
  PROVE  OwnInv' /\ given' = given /\ due' = due
<1>1. /\ UNCHANGED <<pub, alias, answers, owner, ending, array, tracks, todo>>
      /\ phase[d] = "await" /\ phase' = [phase EXCEPT ![d] = "copy"]
      /\ held' = [held EXCEPT ![d] = slice[alias[owner[d]]]] /\ Lookup(d) # <<>>
  BY DEF AliasKnown, Ready, ToPhase, publisher, subscriber, index
<1>2. owner[d] \in Subs /\ alias[owner[d]] \in Aliases
  BY <1>1 DEF OwnInv, OwnTyped, Taken, IInv, Typed
<1>3. slice[alias[owner[d]]].len > 0
  BY <1>1, <1>2 DEF Lookup, ByAlias, IInv, Typed
<1>4. slice[alias[owner[d]]] = [array |-> owner[d], len |-> 1] /\ array[owner[d]] = <<owner[d]>>
  BY <1>2, <1>3, SliceIsOwn
<1>5. Taken(d)'
  BY <1>1, <1>2, <1>4 DEF OwnInv, OwnTyped, Taken, IInv, Typed
<1>6. \A c \in Streams \ {d} : phase'[c] = phase[c] /\ held'[c] = held[c]
  BY <1>1
<1>7. held' \in [Streams -> [array : Subs \cup {None}, len : Nat]]
  BY <1>1, <1>2 DEF OwnInv, OwnTyped, IInv, Typed
<1>8. QED
  BY <1>1, <1>5, <1>6, <1>7, OneTaken, ViewsChange DEF OwnInv, OwnTyped

LEMMA CopyOwn ==
  ASSUME IInv, OwnInv, NEW d \in Streams, Copy(d)
  PROVE  /\ OwnInv' /\ due' = due /\ given' = [given EXCEPT ![d] = {owner[d]}] /\ owner[d] \in Subs
         /\ phase[d] = "copy" /\ phase' = [phase EXCEPT ![d] = "deliver"]
<1>1. /\ phase[d] = "copy" /\ tracks[d] = <<>> /\ todo[d] = <<>> /\ owner[d] \in Subs
      /\ held[d] = [array |-> owner[d], len |-> 1] /\ array[owner[d]] = <<owner[d]>>
  BY DEF Copy, OwnInv, OwnTyped, Taken
<1>2. Len(<<>>) + 1 = 1 /\ Append(<<>>, <<owner[d]>>[1]) = <<owner[d]>> /\ <<owner[d]>> # <<>>
  OBVIOUS
<1>3. held[d].array = owner[d] /\ held[d].len = 1
  BY <1>1
<1>4. Len(tracks[d]) + 1 = 1 /\ array[held[d].array][Len(tracks[d]) + 1] = <<owner[d]>>[1]
  <2>1. Len(tracks[d]) + 1 = 1
    BY <1>1, <1>2
  <2>2. QED
    BY <1>1, <1>3, <2>1
<1>5. /\ UNCHANGED <<pub, alias, answers, owner, ending, array, held, todo>>
      /\ phase' = [phase EXCEPT ![d] = "deliver"] /\ tracks' = [tracks EXCEPT ![d] = <<owner[d]>>]
  <2>1. tracks' = [tracks EXCEPT ![d] = Append(tracks[d], array[held[d].array][Len(tracks[d]) + 1])]
    BY DEF Copy
  <2>2. tracks' = [tracks EXCEPT ![d] = <<owner[d]>>]
    BY <1>1, <1>2, <1>4, <2>1
  <2>3. phase' = [phase EXCEPT ![d] = "deliver"]
    BY <1>3, <1>4 DEF Copy, ToPhase
  <2>4. QED
    BY <2>2, <2>3 DEF Copy, publisher, subscriber, index
<1>6. Taken(d)'
  BY <1>1, <1>5 DEF OwnInv, OwnTyped, Taken, IInv, Typed
<1>7. \A c \in Streams \ {d} : phase'[c] = phase[c] /\ tracks'[c] = tracks[c]
  BY <1>5
<1>8. OwnInv'
  BY <1>5, <1>6, <1>7, OneTaken DEF OwnInv, OwnTyped
<1>9. QED
  BY <1>1, <1>2, <1>5, <1>8, ViewsChange DEF OwnInv, OwnTyped

LEMMA AliasWaitEndsOwn ==
  ASSUME IInv, OwnInv, NEW d \in Streams, AliasWaitEnds(d)
  PROVE  /\ OwnInv' /\ due' = due /\ owner[d] \in Subs /\ phase[d] = "await"
         /\ \/ given' = [given EXCEPT ![d] = {owner[d]}] /\ phase' = [phase EXCEPT ![d] = "deliver"]
            \/ given' = [given EXCEPT ![d] = {}] /\ phase' = [phase EXCEPT ![d] = "over"]
<1>1. /\ UNCHANGED <<pub, alias, answers, owner, ending, array, held, todo>>
      /\ phase[d] = "await" /\ tracks[d] = <<>> /\ todo[d] = <<>> /\ tracks' = [tracks EXCEPT ![d] = Lookup(d)]
      /\ phase' = [phase EXCEPT ![d] = IF Lookup(d) = <<>> THEN "over" ELSE "deliver"]
  BY DEF AliasWaitEnds, ToPhase, publisher, subscriber, index, OwnInv, Taken
<1>2. owner[d] \in Subs /\ alias[owner[d]] \in Aliases
  BY <1>1 DEF OwnInv, OwnTyped, Taken, IInv, Typed
<1>3. Lookup(d) \in {<<>>, <<owner[d]>>}
  <2>1. CASE slice[alias[owner[d]]].len = 0
    BY <2>1 DEF Lookup, ByAlias
  <2>2. CASE slice[alias[owner[d]]].len # 0
    <3>1. slice[alias[owner[d]]].len > 0
      BY <1>2, <2>2 DEF IInv, Typed
    <3>2. QED
      BY <1>2, <3>1, SliceIsOwn DEF Lookup
  <2>3. QED
    BY <2>1, <2>2
<1>4. Taken(d)'
  BY <1>1, <1>2, <1>3 DEF OwnInv, OwnTyped, Taken, IInv, Typed
<1>5. \A c \in Streams \ {d} : phase'[c] = phase[c] /\ tracks'[c] = tracks[c]
  BY <1>1
<1>6. OwnInv'
  BY <1>1, <1>4, <1>5, OneTaken DEF OwnInv, OwnTyped
<1>7. given' = [given EXCEPT ![d] = IF Lookup(d) = <<>> THEN {} ELSE {owner[d]}] /\ due' = due
  BY <1>1, ViewsChange DEF OwnInv, OwnTyped
<1>8. QED
  BY <1>1, <1>2, <1>6, <1>7

\* The steps from the first object to the last count.
LEMMA MovesOwn ==
  ASSUME IInv, OwnInv, NEW d \in Streams, phase[d] \in {"deliver", "mark", "count", "signal"},
         NEW to \in {"deliver", "mark", "count", "signal", "over"}, phase' = [phase EXCEPT ![d] = to],
         NEW left \in {<<>>, todo[d], tracks[d]}, todo'[d] = left,
         \A c \in Streams \ {d} : todo'[c] = todo[c],
         UNCHANGED <<pub, alias, answers, owner, ending, array, held, tracks>>
  PROVE  /\ OwnInv' /\ given' = given
         /\ due' = [due EXCEPT ![d] = IF left = <<>> THEN {} ELSE {owner[d]}]
<1>1. Taken(d)'
  <2>1. Taken(d) /\ phase'[d] = to /\ todo'[d] = left
    BY DEF OwnInv, IInv, Typed
  <2>2. QED
    BY <2>1 DEF Taken
<1>2. \A c \in Streams \ {d} : phase'[c] = phase[c]
  BY DEF IInv, Typed
<1>3. OwnInv'
  BY <1>1, <1>2, OneTaken DEF OwnInv, OwnTyped
<1>4. due' = [due EXCEPT ![d] = IF left = <<>> THEN {} ELSE {owner[d]}]
  BY DEF due
<1>5. QED
  BY <1>3, <1>4, ViewsChange

LEMMA NextObjectOwn ==
  ASSUME IInv, OwnInv, NEW d \in Streams, NextObject(d)
  PROVE  OwnInv' /\ given' = given /\ due' = [due EXCEPT ![d] = given[d]] /\ due[d] = {}
<1>1. /\ phase[d] = "deliver" /\ phase' = [phase EXCEPT ![d] = "deliver"]
      /\ todo[d] = <<>> /\ todo' = [todo EXCEPT ![d] = tracks[d]]
      /\ UNCHANGED <<pub, alias, answers, owner, ending, array, held, tracks>>
  BY DEF NextObject, publisher, subscriber, index, IInv, Typed
<1>2. todo'[d] = tracks[d] /\ \A c \in Streams \ {d} : todo'[c] = todo[c]
  BY <1>1 DEF IInv, Typed
<1>3. QED
  BY <1>1, <1>2, MovesOwn DEF given, due

LEMMA ReceiveReturnsOwn ==
  ASSUME IInv, OwnInv, NEW d \in Streams, phase[d] = "deliver", NEW error, ReceiveReturns(d, error)
  PROVE  /\ OwnInv' /\ given' = given /\ due' = [due EXCEPT ![d] = given[d]]
         /\ \E to \in {"mark", "count"} : phase' = [phase EXCEPT ![d] = to]
<1>1. PICK to \in {"mark", "count"} : phase' = [phase EXCEPT ![d] = to]
  BY DEF ReceiveReturns, ToEnd, ToPhase
<1>2. /\ todo'[d] = tracks[d] /\ \A c \in Streams \ {d} : todo'[c] = todo[c]
      /\ UNCHANGED <<pub, alias, answers, owner, ending, array, held, tracks>>
  BY DEF ReceiveReturns, publisher, subscriber, index, IInv, Typed
<1>3. QED
  BY <1>1, <1>2, MovesOwn DEF given

LEMMA TurnOwn ==
  ASSUME IInv, OwnInv, NEW d \in Streams, NEW t \in Subs
  PROVE  /\ Deliver(d, t) =>
               OwnInv' /\ given' = given /\ due' = [due EXCEPT ![d] = {}] /\ due[d] = {t} /\ given[d] = {t}
         /\ Mark(d, t) =>
               OwnInv' /\ given' = given /\ due' = due /\ given[d] = {t} /\ phase' = [phase EXCEPT ![d] = "count"]
         /\ Count(d, t) =>
               OwnInv' /\ given' = given /\ due' = due /\ given[d] = {t} /\ phase' = [phase EXCEPT ![d] = "signal"]
         /\ Signal(d, t) =>
               /\ OwnInv' /\ given' = given /\ due' = [due EXCEPT ![d] = {}] /\ given[d] = {t}
               /\ phase' = [phase EXCEPT ![d] = "over"]
<1> USE DEF publisher, subscriber, request, counting, index
<1>1. phase = [phase EXCEPT ![d] = phase[d]]
  BY DEF IInv, Typed
<1>2. CASE Deliver(d, t)
  <2>1. /\ phase[d] = "deliver" /\ phase' = [phase EXCEPT ![d] = "deliver"]
        /\ Turn(d, t) /\ todo' = [todo EXCEPT ![d] = Tail(todo[d])]
        /\ UNCHANGED <<pub, alias, answers, owner, ending, array, held, tracks>>
    BY <1>1, <1>2 DEF Deliver
  <2>2. /\ todo'[d] = <<>> /\ due[d] = {t} /\ given[d] = {t}
        /\ \A c \in Streams \ {d} : todo'[c] = todo[c]
    BY <2>1, TurnIsOwn DEF IInv, Typed
  <2>3. QED
    BY <2>1, <2>2, MovesOwn, <1>2 DEF Deliver, Mark, Marks, Count, Signal, Signals
<1>3. CASE Mark(d, t)
  <2>1. /\ phase[d] = "mark" /\ phase' = [phase EXCEPT ![d] = "count"] /\ Turn(d, t)
        /\ todo' = todo
        /\ UNCHANGED <<pub, alias, answers, owner, ending, array, held, tracks>>
    BY <1>1, <1>3 DEF Mark, Marks, ToPhase
  <2>2. given[d] = {t}
    BY <2>1, TurnIsOwn
  <2>3. OwnInv' /\ given' = given /\ due' = due
    BY <2>1, MovesOwn, ViewsChange
  <2>4. QED
    BY <2>1, <2>2, <2>3 DEF Deliver, Mark, Marks, Count, Signal, Signals
<1>4. CASE Count(d, t)
  <2>1. /\ phase[d] = "count" /\ phase' = [phase EXCEPT ![d] = "signal"] /\ Turn(d, t)
        /\ todo' = todo
        /\ UNCHANGED <<pub, alias, answers, owner, ending, array, held, tracks>>
    BY <1>1, <1>4 DEF Count, ToPhase
  <2>2. given[d] = {t}
    BY <2>1, TurnIsOwn
  <2>3. OwnInv' /\ given' = given /\ due' = due
    BY <2>1, MovesOwn, ViewsChange
  <2>4. QED
    BY <2>1, <2>2, <2>3 DEF Deliver, Mark, Marks, Count, Signal, Signals
<1>5. CASE Signal(d, t)
  <2>1. /\ phase[d] = "signal" /\ Turn(d, t) /\ todo' = [todo EXCEPT ![d] = Tail(todo[d])]
        /\ Len(todo[d]) = 1 => phase' = [phase EXCEPT ![d] = "over"]
        /\ UNCHANGED <<pub, alias, answers, owner, ending, array, held, tracks>>
    BY <1>5 DEF Signal, Signals, ToPhase
  <2>2. /\ todo'[d] = <<>> /\ phase' = [phase EXCEPT ![d] = "over"] /\ given[d] = {t}
        /\ \A c \in Streams \ {d} : todo'[c] = todo[c]
    BY <2>1, TurnIsOwn DEF IInv, Typed
  <2>3. OwnInv' /\ given' = given /\ due' = [due EXCEPT ![d] = {}]
    BY <2>1, <2>2, MovesOwn
  <2>4. QED
    BY <2>1, <2>2, <2>3 DEF Deliver, Mark, Marks, Count, Signal, Signals
<1>6. QED
  BY <1>2, <1>3, <1>4, <1>5

LEMMA HandlerOwn ==
  ASSUME IInv, OwnInv, NEW d \in Streams, HandlerStep(d)
  PROVE  OwnInv'
<1>1. CASE StreamEnds(d)
  BY <1>1, ReceiveReturnsOwn DEF StreamEnds
<1>2. ASSUME NEW t \in Subs, DeliverFails(d, t) PROVE OwnInv'
  BY <1>2, ReceiveReturnsOwn DEF DeliverFails
<1>3. QED
  BY <1>1, <1>2, TakeStreamOwn, AliasKnownOwn, CopyOwn, AliasWaitEndsOwn, NextObjectOwn, TurnOwn
     DEF HandlerStep

LEMMA NextOwn == ~Reuse /\ IInv /\ OwnInv /\ [Next]_vars => OwnInv'
<1> SUFFICES ASSUME ~Reuse, IInv, OwnInv, [Next]_vars PROVE OwnInv'
  OBVIOUS
<1>1. ASSUME NEW s \in Subs, PublisherStep(s) \/ ReaderStep(s) PROVE OwnInv'
  BY <1>1, PublisherOwn, ReaderOwn
<1>2. ASSUME NEW s \in Subs, ApplicationStep(s) PROVE OwnInv'
  <2>1. CASE Subscribe(s)
    <3>1. /\ UNCHANGED <<alias, answers, owner, ending, array, phase, held, tracks, todo>>
          /\ pub[s] = "idle" /\ pub' = [pub EXCEPT ![s] = "asked"]
      BY <2>1 DEF Subscribe, handlers, IInv, Progress, Early
    <3>2. \A u \in Subs : \A i \in 1 .. Len(answers'[u]) : answers'[u][i] = "ok" => i = 1
      BY <3>1 DEF OwnInv, Own
    <3>3. QED
      BY <3>1, <3>2, OwnKept DEF IInv, Typed, HasOk
  <2>2. CASE ~Subscribe(s)
    BY <1>2, <2>2, StutterOwn DEF owncore, ApplicationStep, SubscribeFails, Subscribed, Close, ReadObject,
         ReadEnd, publisher, index, handlers
  <2>3. QED
    BY <2>1, <2>2
<1>3. ASSUME NEW s \in Subs, WaiterStep(s) PROVE OwnInv'
  BY <1>3, StutterOwn DEF owncore, WaiterStep, WaiterChecks, WaiterWakes, WaiterGivesUp, publisher, index, handlers
<1>4. ASSUME NEW d \in Streams, WriteObject(d) PROVE OwnInv'
  BY <1>4, StutterOwn DEF owncore, WriteObject, index, handlers
<1>5. ASSUME NEW d \in Streams, NEW how \in {"fin", "reset"}, EndSubgroup(d, how) PROVE OwnInv'
  <2>1. /\ UNCHANGED <<pub, alias, answers, owner, array, phase, held, tracks, todo>>
        /\ owner[d] # None /\ ending' = [ending EXCEPT ![d] = how]
    BY <1>5 DEF EndSubgroup, index, handlers
  <2>2. \A c \in Streams : Taken(c)'
    BY <2>1 DEF OwnInv, Taken
  <2>3. QED
    BY <2>1, <2>2 DEF OwnInv, OwnTyped, Own, HasOk
<1>6. ASSUME NEW d \in Streams, HandlerStep(d) PROVE OwnInv'
  BY <1>6, HandlerOwn
<1>7. CASE SessionEnds
  BY <1>7, StutterOwn DEF owncore, SessionEnds, publisher, index, handlers
<1>8. CASE UNCHANGED vars
  BY <1>8, StutterOwn DEF owncore, vars, publisher, index, handlers
<1>9. QED
  BY <1>1, <1>2, <1>3, <1>4, <1>5, <1>6, <1>7, <1>8 DEF Next, StreamStep

-----------------------------------------------------------------------------
(* The Objects delivered.                                                  *)

\* What the objects channel carries, with the numbers left open.
Slot == [stream : Streams, n : Nat, kind : {"object", "fin", "reset"}]

DeliveryTyped ==
  /\ sent \in [Streams -> Nat] /\ read \in [Streams -> Nat]
  /\ ending \in [Streams -> {"open", "fin", "reset"}]
  /\ objects \in [Subs -> Seq(Slot)]
  /\ got \in [Subs -> [Streams -> Nat]]
  /\ phase \in [Streams -> Phases]
  /\ given \in [Streams -> SUBSET Subs] /\ due \in [Streams -> SUBSET Subs]
  /\ failed \in [Streams -> BOOLEAN]

\* receive has returned.
Ending == {"mark", "count", "signal", "over"}

\* How far the handler of a stream is.
HandlerInv ==
  \A d \in Streams :
    /\ phase[d] \in {"idle", "await", "copy"} => given[d] = {} /\ read[d] = 0
    /\ phase[d] \in {"idle", "await", "copy", "deliver"} => ~failed[d]
    /\ due[d] \subseteq given[d]
    /\ read[d] <= sent[d]
    /\ phase[d] \in Ending /\ given[d] # {} /\ ~failed[d] =>
         ending[d] = "fin" /\ read[d] = sent[d]

\* Where the first k items of q are Objects of d.
Objs(q, d, k) == {i \in 1 .. k : q[i].stream = d /\ q[i].kind = "object"}

\* What a subscription has been given of a stream: read, or still in its buffer.
Delivered(s, d) == got[s][d] + Cardinality(Objs(objects[s], d, Len(objects[s])))

\* Whole(d): nothing of what the handler has read of d is still to be delivered
\* to s.
Whole(s, d) ==
  \/ phase[d] = "deliver" /\ s \notin due[d]
  \/ phase[d] \in Ending /\ ~failed[d]

DeliveredInv ==
  \A s \in Subs, d \in Streams :
    /\ s \notin given[d] => Delivered(s, d) = 0
    /\ s \in given[d] =>
         /\ Delivered(s, d) <= read[d]
         /\ phase[d] = "deliver" /\ s \in due[d] => Delivered(s, d) + 1 = read[d]
         /\ Whole(s, d) => Delivered(s, d) = read[d]

\* The marker of a finished stream is behind the FIN.
MarkerInv ==
  \A s \in Subs : \A i \in 1 .. Len(objects[s]) :
    objects[s][i].kind = "fin" => ending[objects[s][i].stream] = "fin"

\* InOrder, in these words.
Ordered ==
  \A s \in Subs : \A i \in 1 .. Len(objects[s]) :
    LET item == objects[s][i]
        before == got[s][item.stream] + Cardinality(Objs(objects[s], item.stream, i))
    IN /\ item.kind = "object" => item.n = before
       /\ item.kind = "fin" => before = sent[item.stream]

OInv == DeliveryTyped /\ HandlerInv /\ DeliveredInv /\ MarkerInv /\ Ordered

-----------------------------------------------------------------------------
(* Counting the Objects of a stream in a buffer. *)

IsObj(item, d) == IF item.stream = d /\ item.kind = "object" THEN 1 ELSE 0

LEMMA ObjsFinite ==
  ASSUME NEW q, NEW d, NEW k \in Nat
  PROVE  IsFiniteSet(Objs(q, d, k)) /\ Cardinality(Objs(q, d, k)) \in Nat
<1>1. IsFiniteSet(1 .. k)
  BY FS_Interval
<1>2. Objs(q, d, k) \in SUBSET (1 .. k)
  BY DEF Objs
<1>3. IsFiniteSet(Objs(q, d, k))
  BY <1>1, <1>2, FS_Subset
<1>4. QED
  BY <1>3, FS_CardinalityType

\* One item more.
LEMMA ObjsNext ==
  ASSUME NEW q, NEW d, NEW k \in Nat
  PROVE  Cardinality(Objs(q, d, k + 1)) = Cardinality(Objs(q, d, k)) + IsObj(q[k + 1], d)
<1>1. IsFiniteSet(Objs(q, d, k)) /\ Cardinality(Objs(q, d, k)) \in Nat
  BY ObjsFinite
<1>2. CASE q[k + 1].stream = d /\ q[k + 1].kind = "object"
  <2>1. Objs(q, d, k + 1) = Objs(q, d, k) \cup {k + 1} /\ k + 1 \notin Objs(q, d, k)
    BY <1>2 DEF Objs
  <2>2. QED
    BY <1>1, <1>2, <2>1, FS_AddElement DEF IsObj
<1>3. CASE ~(q[k + 1].stream = d /\ q[k + 1].kind = "object")
  <2>1. Objs(q, d, k + 1) = Objs(q, d, k)
    BY <1>3 DEF Objs
  <2>2. QED
    BY <1>1, <1>3, <2>1 DEF IsObj
<1>4. QED
  BY <1>2, <1>3

\* An item put behind changes no count up to where it is put.
LEMMA ObjsAppend ==
  ASSUME NEW q \in Seq(Slot), NEW e \in Slot, NEW d, NEW k \in 0 .. Len(q)
  PROVE  Objs(Append(q, e), d, k) = Objs(q, d, k)
BY DEF Objs

\* Taking the head moves every count by it.
LEMMA ObjsTail ==
  ASSUME NEW q \in Seq(Slot), q # <<>>, NEW d, NEW k \in 0 .. Len(q) - 1
  PROVE  Cardinality(Objs(q, d, k + 1)) = Cardinality(Objs(Tail(q), d, k)) + IsObj(Head(q), d)
<1> DEFINE A == Objs(Tail(q), d, k)
           B == Objs(q, d, k + 1)
           f == [i \in A |-> i + 1]
<1>1. Len(q) \in Nat /\ Len(q) > 0 /\ Head(q) = q[1]
  BY LenProperties, EmptySeq
<1>2. \A i \in 1 .. k : Tail(q)[i] = q[i + 1]
  BY <1>1, HeadTailProperties
<1>3. IsFiniteSet(A) /\ IsFiniteSet(B) /\ Cardinality(A) \in Nat /\ Cardinality(B) \in Nat
  <2>1. k \in Nat /\ k + 1 \in Nat
    BY <1>1
  <2>2. QED
    BY <2>1, ObjsFinite
<1>4. f \in Bijection(A, B \ {1})
  <2>1. f \in [A -> B \ {1}]
    BY <1>1, <1>2 DEF Objs
  <2>2. \A i, j \in A : f[i] = f[j] => i = j
    BY <1>1 DEF Objs
  <2>3. \A j \in B \ {1} : \E i \in A : f[i] = j
    <3>1. TAKE j \in B \ {1}
    <3>2. j - 1 \in A
      BY <1>1, <1>2 DEF Objs
    <3>3. f[j - 1] = j
      BY <3>2, <1>1 DEF Objs
    <3>4. QED
      BY <3>2, <3>3
  <2>4. QED
    BY <2>1, <2>2, <2>3, Fun_IsBij
<1>5. Cardinality(B \ {1}) = Cardinality(A)
  <2>1. ExistsBijection(A, B \ {1})
    BY <1>4 DEF ExistsBijection
  <2>2. QED
    BY <1>3, <2>1, FS_Bijection
<1>6. Cardinality(B \ {1}) = IF 1 \in B THEN Cardinality(B) - 1 ELSE Cardinality(B)
  BY <1>3, FS_RemoveElement
<1>7. 1 \in B <=> IsObj(Head(q), d) = 1
  BY <1>1 DEF Objs, IsObj
<1>8. QED
  BY <1>3, <1>5, <1>6, <1>7 DEF IsObj

LEMMA DeliveredNat ==
  ASSUME DeliveryTyped, NEW s \in Subs, NEW d \in Streams
  PROVE  /\ Len(objects[s]) \in Nat /\ got[s][d] \in Nat /\ Delivered(s, d) \in Nat
<1>1. Len(objects[s]) \in Nat /\ got[s][d] \in Nat
  BY LenProperties DEF DeliveryTyped
<1>2. Cardinality(Objs(objects[s], d, Len(objects[s]))) \in Nat
  BY <1>1, ObjsFinite
<1>3. QED
  BY <1>1, <1>2 DEF Delivered

\* An item is put on a channel: what was before it stays as it was.
LEMMA PutItem ==
  ASSUME DeliveryTyped, NEW t \in Subs, NEW e \in Slot,
         objects' = [objects EXCEPT ![t] = Append(@, e)], got' = got
  PROVE  /\ objects' \in [Subs -> Seq(Slot)]
         /\ \A s \in Subs, d \in Streams :
              Delivered(s, d)' = Delivered(s, d) + IF s = t THEN IsObj(e, d) ELSE 0
         /\ Len(objects'[t]) = Len(objects[t]) + 1 /\ objects'[t][Len(objects[t]) + 1] = e
         /\ \A s \in Subs \ {t} : objects'[s] = objects[s]
         /\ \A s \in Subs : \A i \in 1 .. Len(objects[s]) : objects'[s][i] = objects[s][i]
         /\ \A s \in Subs, d \in Streams : \A i \in 1 .. Len(objects[s]) :
              Objs(objects'[s], d, i) = Objs(objects[s], d, i)
<1>1. objects[t] \in Seq(Slot) /\ objects'[t] = Append(objects[t], e)
      /\ \A s \in Subs \ {t} : objects'[s] = objects[s]
  BY DEF DeliveryTyped
<1>2. objects' \in [Subs -> Seq(Slot)]
  BY <1>1 DEF DeliveryTyped
<1>3. /\ Len(objects[t]) \in Nat /\ Len(objects'[t]) = Len(objects[t]) + 1
      /\ objects'[t][Len(objects[t]) + 1] = e
      /\ \A i \in 1 .. Len(objects[t]) : objects'[t][i] = objects[t][i]
  BY <1>1
<1>4. ASSUME NEW s \in Subs, NEW d \in Streams, NEW i \in 0 .. Len(objects[s])
      PROVE  Objs(objects'[s], d, i) = Objs(objects[s], d, i)
  BY <1>1, <1>4, ObjsAppend
<1>5. ASSUME NEW s \in Subs, NEW d \in Streams
      PROVE  Delivered(s, d)' = Delivered(s, d) + IF s = t THEN IsObj(e, d) ELSE 0
  <2>1. CASE s # t
    BY <1>1, <2>1, DeliveredNat DEF Delivered
  <2>2. CASE s = t
    <3>1. Cardinality(Objs(objects'[t], d, Len(objects[t]) + 1)) =
            Cardinality(Objs(objects'[t], d, Len(objects[t]))) + IsObj(e, d)
      BY <1>3, ObjsNext
    <3>2. Objs(objects'[t], d, Len(objects[t])) = Objs(objects[t], d, Len(objects[t]))
      BY <1>3, <1>4
    <3>3. Cardinality(Objs(objects[t], d, Len(objects[t]))) \in Nat /\ got[t][d] \in Nat
      BY <1>3, ObjsFinite, DeliveredNat
    <3>4. QED
      BY <1>3, <2>2, <3>1, <3>2, <3>3 DEF Delivered, IsObj
  <2>3. QED
    BY <2>1, <2>2
<1>6. ASSUME NEW s \in Subs, NEW d \in Streams, NEW i \in 1 .. Len(objects[s])
      PROVE  Objs(objects'[s], d, i) = Objs(objects[s], d, i)
  <2>1. i \in 0 .. Len(objects[s])
    BY DeliveredNat
  <2>2. QED
    BY <1>4, <2>1
<1>7. QED
  BY <1>1, <1>2, <1>3, <1>5, <1>6

\* The application takes the head: what it has read and what is still to come
\* make up the same.
LEMMA TakeItem ==
  ASSUME DeliveryTyped, NEW t \in Subs, ReadObject(t)
  PROVE  /\ objects' \in [Subs -> Seq(Slot)] /\ got' \in [Subs -> [Streams -> Nat]]
         /\ \A s \in Subs, d \in Streams : Delivered(s, d)' = Delivered(s, d)
         /\ Len(objects[t]) > 0 /\ Len(objects'[t]) = Len(objects[t]) - 1
         /\ \A s \in Subs \ {t} : objects'[s] = objects[s] /\ got'[s] = got[s]
         /\ \A d \in Streams : \A i \in 1 .. Len(objects[t]) - 1 :
              got'[t][d] + Cardinality(Objs(objects'[t], d, i)) =
                got[t][d] + Cardinality(Objs(objects[t], d, i + 1))
         /\ \A i \in 1 .. Len(objects[t]) - 1 : objects'[t][i] = objects[t][i + 1]
<1> DEFINE item == Head(objects[t])
<1>1. objects[t] \in Seq(Slot) /\ objects[t] # <<>> /\ item \in Slot
      /\ objects'[t] = Tail(objects[t]) /\ Len(objects[t]) \in Nat /\ Len(objects[t]) > 0
  <2>1. objects[t] \in Seq(Slot) /\ objects[t] # <<>>
    BY DEF DeliveryTyped, ReadObject
  <2>2. QED
    BY <2>1, HeadTailProperties, EmptySeq, LenProperties DEF DeliveryTyped, ReadObject
<1>2. /\ Tail(objects[t]) \in Seq(Slot) /\ Len(Tail(objects[t])) = Len(objects[t]) - 1
      /\ \A i \in 1 .. Len(objects[t]) - 1 : Tail(objects[t])[i] = objects[t][i + 1]
  BY <1>1, HeadTailProperties
<1>3. objects' \in [Subs -> Seq(Slot)]
  BY <1>2 DEF DeliveryTyped, ReadObject
<1>4. /\ got' = [got EXCEPT ![t][item.stream] = @ + IF item.kind = "object" THEN 1 ELSE 0]
      /\ item.stream \in Streams
  BY <1>1 DEF ReadObject, Slot
<1>5. /\ got' \in [Subs -> [Streams -> Nat]]
      /\ \A d \in Streams : got'[t][d] = got[t][d] + IsObj(item, d)
  BY <1>4 DEF DeliveryTyped, IsObj
<1>6. \A s \in Subs \ {t} : objects'[s] = objects[s] /\ got'[s] = got[s]
  BY <1>4 DEF DeliveryTyped, ReadObject
<1>7. ASSUME NEW d \in Streams, NEW i \in 0 .. Len(objects[t]) - 1
      PROVE  got'[t][d] + Cardinality(Objs(objects'[t], d, i)) =
               got[t][d] + Cardinality(Objs(objects[t], d, i + 1))
  <2>1. Cardinality(Objs(objects[t], d, i + 1)) =
          Cardinality(Objs(Tail(objects[t]), d, i)) + IsObj(item, d)
    BY <1>1, ObjsTail
  <2>2. i \in Nat /\ Cardinality(Objs(Tail(objects[t]), d, i)) \in Nat /\ got[t][d] \in Nat
    BY <1>1, ObjsFinite, DeliveredNat
  <2>3. objects'[t] = Tail(objects[t]) /\ got'[t][d] = got[t][d] + IsObj(item, d)
    BY <1>1, <1>5
  <2>4. IsObj(item, d) \in Nat
    BY DEF IsObj
  <2>5. \A g, c, k \in Nat : (g + k) + c = g + (c + k)
    OBVIOUS
  <2> HIDE DEF item
  <2>6. got'[t][d] + Cardinality(Objs(Tail(objects[t]), d, i)) = got[t][d] + Cardinality(Objs(objects[t], d, i + 1))
    BY <2>1, <2>2, <2>3, <2>4, <2>5
  <2>7. QED
    BY <2>3, <2>6
<1>8. ASSUME NEW s \in Subs, NEW d \in Streams PROVE Delivered(s, d)' = Delivered(s, d)
  <2>1. CASE s = t
    <3>1. Len(objects[t]) - 1 \in 0 .. Len(objects[t]) - 1
      BY <1>1
    <3>2. got'[t][d] + Cardinality(Objs(objects'[t], d, Len(objects[t]) - 1)) =
            got[t][d] + Cardinality(Objs(objects[t], d, Len(objects[t]) - 1 + 1))
      BY <1>7, <3>1
    <3>3. Len(objects[t]) - 1 + 1 = Len(objects[t]) /\ Len(objects'[t]) = Len(objects[t]) - 1
      BY <1>1, <1>2
    <3>4. QED
      BY <2>1, <3>2, <3>3 DEF Delivered
  <2>2. CASE s # t
    BY <1>6, <2>2 DEF Delivered
  <2>3. QED
    BY <2>1, <2>2
<1>9. QED
  BY <1>1, <1>2, <1>3, <1>5, <1>6, <1>7, <1>8

-----------------------------------------------------------------------------
(* The order of the buffer. *)

LEMMA InitOInv == Init => OInv
<1> SUFFICES ASSUME Init PROVE OInv
  OBVIOUS
<1>1. DeliveryTyped /\ HandlerInv
  BY DEF Init, DeliveryTyped, HandlerInv, given, due, Phases, Ending
<1>2. \A s \in Subs : objects[s] = <<>> /\ Len(objects[s]) = 0
  BY DEF Init
<1>3. MarkerInv /\ Ordered
  BY <1>2 DEF MarkerInv, Ordered
<1>4. \A s \in Subs, d \in Streams : Delivered(s, d) = 0
  <2>1. TAKE s \in Subs, d \in Streams
  <2>2. got[s][d] = 0
    BY DEF Init
  <2>3. Objs(objects[s], d, Len(objects[s])) = {}
    BY <1>2 DEF Objs
  <2>4. QED
    BY <2>2, <2>3, FS_EmptySet DEF Delivered
<1>5. DeliveredInv
  BY <1>4 DEF Init, DeliveredInv, given
<1>6. QED
  BY <1>1, <1>3, <1>5 DEF OInv

\* What the invariant is about.
ocore == <<sent, read, ending, objects, got, phase, given, due, failed>>

LEMMA StutterOInv == OInv /\ UNCHANGED ocore => OInv'
BY DEF ocore, OInv, DeliveryTyped,  HandlerInv, DeliveredInv, Delivered, Whole, MarkerInv, Ordered

\* The item of a channel is of some stream, and typed.
LEMMA ItemTyped ==
  ASSUME DeliveryTyped, NEW s \in Subs, NEW i \in 1 .. Len(objects[s])
  PROVE  objects[s][i] \in Slot
BY ElementOfSeq DEF DeliveryTyped

\* While a handler is at work on d the buffers are as they were, and so is what
\* the publisher wrote.
LEMMA BuffersKept ==
  ASSUME OInv, UNCHANGED <<sent, ending, objects, got>>
  PROVE  MarkerInv' /\ Ordered' /\ \A s \in Subs, d \in Streams : Delivered(s, d)' = Delivered(s, d)
BY DEF OInv, MarkerInv, Ordered, Delivered

LEMMA WriteObjectOInv ==
  ASSUME OInv, NEW d \in Streams, WriteObject(d)
  PROVE  OInv'
<1>1. /\ sent' = [sent EXCEPT ![d] = @ + 1] /\ ending[d] = "open"
      /\ UNCHANGED <<read, ending, objects, got, phase, given, due, failed>>
  BY DEF WriteObject, subscriber, handlers, given, due
<1>2. DeliveryTyped' /\ HandlerInv'
  BY <1>1 DEF OInv, DeliveryTyped, HandlerInv
<1>3. DeliveredInv' /\ MarkerInv'
  BY <1>1 DEF OInv, DeliveredInv, Delivered, Whole, MarkerInv
<1>4. Ordered'
  <2>1. ASSUME NEW s \in Subs, NEW i \in 1 .. Len(objects[s]), objects[s][i].kind = "fin"
        PROVE  sent'[objects[s][i].stream] = sent[objects[s][i].stream]
    <3>1. objects[s][i].stream # d
      BY <1>1, <2>1 DEF OInv, MarkerInv
    <3>2. objects[s][i].stream \in Streams
      BY ItemTyped DEF OInv, Slot
    <3>3. QED
      BY <1>1, <3>1, <3>2 DEF OInv, DeliveryTyped
  <2>2. QED
    BY <1>1, <2>1 DEF OInv, Ordered
<1>5. QED
  BY <1>2, <1>3, <1>4 DEF OInv

LEMMA EndSubgroupOInv ==
  ASSUME OInv, NEW d \in Streams, NEW how \in {"fin", "reset"}, EndSubgroup(d, how)
  PROVE  OInv'
<1>1. /\ ending' = [ending EXCEPT ![d] = how] /\ ending[d] = "open"
      /\ UNCHANGED <<sent, read, objects, got, phase, given, due, failed>>
  BY DEF EndSubgroup, subscriber, handlers, given, due
<1>2. DeliveryTyped' /\ HandlerInv'
  BY <1>1 DEF OInv, DeliveryTyped, HandlerInv
<1>3. DeliveredInv' /\ Ordered'
  BY <1>1 DEF OInv, DeliveredInv, Delivered, Whole, Ordered
<1>4. MarkerInv'
  <2>1. ASSUME NEW s \in Subs, NEW i \in 1 .. Len(objects[s]), objects[s][i].kind = "fin"
        PROVE  ending'[objects[s][i].stream] = "fin"
    <3>1. objects[s][i].stream # d /\ ending[objects[s][i].stream] = "fin"
      BY <1>1, <2>1 DEF OInv, MarkerInv
    <3>2. objects[s][i].stream \in Streams
      BY ItemTyped DEF OInv, Slot
    <3>3. QED
      BY <1>1, <3>1, <3>2 DEF OInv, DeliveryTyped
  <2>2. QED
    BY <1>1, <2>1 DEF MarkerInv
<1>5. QED
  BY <1>2, <1>3, <1>4 DEF OInv

LEMMA ReadObjectOInv ==
  ASSUME OInv, NEW t \in Subs, ReadObject(t)
  PROVE  OInv'
<1>1. DeliveryTyped /\ UNCHANGED <<sent, read, ending, phase, given, due, failed>>
  BY DEF OInv, ReadObject, publisher, handlers, given, due
<1>2. DeliveryTyped' /\ HandlerInv'
  BY <1>1, TakeItem DEF OInv, DeliveryTyped, HandlerInv
<1>3. \A s \in Subs, d \in Streams : Delivered(s, d)' = Delivered(s, d)
  BY <1>1, TakeItem
<1>4. DeliveredInv'
  BY <1>1, <1>3 DEF OInv, DeliveredInv, Whole
<1>5. ASSUME NEW s \in Subs, NEW i \in 1 .. Len(objects'[s])
      PROVE  \E j \in 1 .. Len(objects[s]) :
               /\ objects'[s][i] = objects[s][j] /\ objects[s][j].stream \in Streams
               /\ \A d \in Streams : got'[s][d] + Cardinality(Objs(objects'[s], d, i)) =
                                    got[s][d] + Cardinality(Objs(objects[s], d, j))
  <2>1. Len(objects[s]) \in Nat /\ \A j \in 1 .. Len(objects[s]) : objects[s][j].stream \in Streams
    BY <1>1, LenProperties, ItemTyped DEF DeliveryTyped, Slot
  <2>2. CASE s = t
    <3>1. i \in 1 .. Len(objects[t]) - 1 /\ i + 1 \in 1 .. Len(objects[t])
      BY <1>1, <2>1, <2>2, TakeItem
    <3>2. QED
      BY <1>1, <2>1, <2>2, <3>1, TakeItem
  <2>3. CASE s # t
    <3>1. objects'[s] = objects[s] /\ got'[s] = got[s]
      BY <1>1, <2>3, TakeItem
    <3>2. QED
      BY <2>1, <3>1
  <2>4. QED
    BY <2>2, <2>3
<1>6. MarkerInv'
  BY <1>1, <1>5 DEF OInv, MarkerInv
<1>7. Ordered'
  BY <1>1, <1>5 DEF OInv, Ordered
<1>8. QED
  BY <1>2, <1>4, <1>6, <1>7 DEF OInv

-----------------------------------------------------------------------------
(* The handlers. *)

\* The steps that deliver nothing.
LEMMA BeforeOInv ==
  ASSUME IInv, OwnInv, OInv, NEW d \in Streams, TakeStream(d) \/ HeaderLost(d) \/ AliasKnown(d)
  PROVE  OInv'
<1>1. /\ UNCHANGED <<sent, read, ending, objects, got, given, due, failed>>
      /\ phase[d] \in {"idle", "await"} /\ \E to \in {"await", "over", "copy"} : phase' = [phase EXCEPT ![d] = to]
  BY TakeStreamOwn, AliasKnownOwn DEF TakeStream, HeaderLost, AliasKnown, ToPhase, publisher, subscriber
<1>2. DeliveryTyped' /\ HandlerInv'
  BY <1>1 DEF OInv, DeliveryTyped, HandlerInv, Phases, Ending
<1>3. DeliveredInv'
  BY <1>1, BuffersKept DEF OInv, DeliveryTyped, HandlerInv, DeliveredInv, Whole, Ending
<1>4. QED
  BY <1>1, <1>2, <1>3, BuffersKept DEF OInv

\* Its subscription is known, or there is none: nothing has been read yet, and
\* nothing delivered.
LEMMA GivenOInv ==
  ASSUME IInv, OwnInv, OInv, NEW d \in Streams, Copy(d) \/ AliasWaitEnds(d)
  PROVE  OInv'
<1>1. /\ UNCHANGED <<sent, read, ending, objects, got, due, failed>> /\ phase[d] \in {"await", "copy"}
      /\ \/ phase' = [phase EXCEPT ![d] = "deliver"] /\ given' = [given EXCEPT ![d] = {owner[d]}]
         \/ phase' = [phase EXCEPT ![d] = "over"] /\ given' = [given EXCEPT ![d] = {}]
      /\ owner[d] \in Subs
  BY CopyOwn, AliasWaitEndsOwn DEF Copy, AliasWaitEnds, publisher, subscriber
<1>2. DeliveryTyped'
  <2>1. \E x \in SUBSET Subs : given' = [given EXCEPT ![d] = x]
    BY <1>1
  <2>2. \E to \in Phases : phase' = [phase EXCEPT ![d] = to]
    BY <1>1 DEF Phases
  <2>3. phase' \in [Streams -> Phases] /\ given' \in [Streams -> SUBSET Subs]
    BY <2>1, <2>2 DEF OInv, DeliveryTyped
  <2>4. QED
    BY <1>1, <2>3 DEF OInv, DeliveryTyped
<1>3. HandlerInv'
  <2>1. \A c \in Streams \ {d} : given'[c] = given[c] /\ phase'[c] = phase[c]
    BY <1>1 DEF OInv, DeliveryTyped
  <2>2. /\ due[d] = {} /\ ~failed[d] /\ read[d] = 0 /\ read[d] <= sent[d]
        /\ phase'[d] = "deliver" \/ (phase'[d] = "over" /\ given'[d] = {})
    BY <1>1 DEF OInv, DeliveryTyped, HandlerInv
  <2>3. QED
    BY <1>1, <2>1, <2>2 DEF OInv, HandlerInv, Ending
<1>4. DeliveredInv'
  <2>1. given[d] = {} /\ read[d] = 0 /\ due[d] = {}
    BY <1>1 DEF OInv, DeliveryTyped, HandlerInv
  <2>2. \A s \in Subs, c \in Streams : Delivered(s, c)' = Delivered(s, c)
    BY <1>1, BuffersKept
  <2>3. \A s \in Subs : Delivered(s, d) = 0
    BY <2>1 DEF OInv, DeliveredInv
  <2>4. \A c \in Streams \ {d} : given'[c] = given[c] /\ phase'[c] = phase[c]
    BY <1>1 DEF OInv, DeliveryTyped
  <2>5. QED
    BY <1>1, <2>1, <2>2, <2>3, <2>4 DEF OInv, DeliveredInv, Whole, Ending
<1>5. QED
  BY <1>1, <1>2, <1>3, <1>4, BuffersKept DEF OInv

LEMMA NextObjectOInv ==
  ASSUME IInv, OwnInv, OInv, NEW d \in Streams, NextObject(d)
  PROVE  OInv'
<1>1. /\ UNCHANGED <<sent, ending, objects, got, phase, given, failed>>
      /\ phase[d] = "deliver" /\ due[d] = {} /\ read[d] < sent[d]
      /\ read' = [read EXCEPT ![d] = @ + 1] /\ due' = [due EXCEPT ![d] = given[d]]
  BY NextObjectOwn DEF NextObject, publisher, subscriber
<1>2. DeliveryTyped' /\ HandlerInv'
  BY <1>1 DEF OInv, DeliveryTyped, HandlerInv, Ending
<1>3. DeliveredInv'
  <2>1. ASSUME NEW s \in Subs PROVE s \in given[d] => Delivered(s, d) = read[d]
    BY <1>1 DEF OInv, DeliveredInv, Whole
  <2>2. \A s \in Subs, c \in Streams : Delivered(s, c) \in Nat
    BY DeliveredNat DEF OInv
  <2>3. \A s \in Subs, c \in Streams : Delivered(s, c)' = Delivered(s, c)
    BY <1>1, BuffersKept
  <2>4. read[d] \in Nat /\ read'[d] = read[d] + 1 /\ due'[d] = given[d]
    BY <1>1 DEF OInv, DeliveryTyped
  <2>5. \A c \in Streams \ {d} : read'[c] = read[c] /\ due'[c] = due[c]
    BY <1>1 DEF OInv, DeliveryTyped
  <2>6. ASSUME NEW s \in Subs, NEW c \in Streams
        PROVE  /\ s \notin given'[c] => Delivered(s, c)' = 0
               /\ s \in given'[c] =>
                    /\ Delivered(s, c)' <= read'[c]
                    /\ phase'[c] = "deliver" /\ s \in due'[c] => Delivered(s, c)' + 1 = read'[c]
                    /\ Whole(s, c)' => Delivered(s, c)' = read'[c]
    <3>1. CASE c = d
      BY <1>1, <2>1, <2>2, <2>3, <2>4, <3>1 DEF OInv, DeliveredInv, Whole, Ending
    <3>2. CASE c # d
      BY <1>1, <2>3, <2>5, <3>2 DEF OInv, DeliveredInv, Whole
    <3>3. QED
      BY <3>1, <3>2
  <2>7. QED
    BY <2>6 DEF DeliveredInv
<1>4. QED
  BY <1>1, <1>2, <1>3, BuffersKept DEF OInv

\* receive returns: at the FIN all has been delivered.
LEMMA ReceiveReturnsOInv ==
  ASSUME IInv, OwnInv, OInv, NEW d \in Streams, NEW error \in BOOLEAN, ReceiveReturns(d, error),
         phase[d] = "deliver", ~error => ending[d] = "fin" /\ read[d] = sent[d] /\ due[d] = {}
  PROVE  OInv'
<1>1. /\ UNCHANGED <<sent, read, ending, objects, got, given>>
      /\ \E to \in {"mark", "count"} : phase' = [phase EXCEPT ![d] = to]
      /\ due' = [due EXCEPT ![d] = given[d]]
      /\ failed' = [failed EXCEPT ![d] = error]
  BY ReceiveReturnsOwn DEF ReceiveReturns, publisher, subscriber
<1>2. DeliveryTyped' /\ HandlerInv'
  BY <1>1 DEF OInv, DeliveryTyped, HandlerInv, Phases, Ending
<1>3. DeliveredInv'
  BY <1>1, BuffersKept DEF OInv, DeliveryTyped, DeliveredInv, Whole, Ending
<1>4. QED
  BY <1>1, <1>2, <1>3, BuffersKept DEF OInv

\* The end is told and counted: nothing is delivered any more.
LEMMA CountOInv ==
  ASSUME IInv, OwnInv, OInv, NEW d \in Streams, NEW t \in Subs, Count(d, t) \/ Signal(d, t)
  PROVE  OInv'
<1>1. /\ UNCHANGED <<sent, read, ending, objects, got, given, failed>> /\ phase[d] \in {"count", "signal"}
      /\ due' = due \/ due' = [due EXCEPT ![d] = {}]
      /\ \E to \in {"signal", "over"} : phase' = [phase EXCEPT ![d] = to]
  BY TurnOwn DEF Count, Signal, Signals, publisher
<1>2. DeliveryTyped'
  BY <1>1 DEF OInv, DeliveryTyped, Phases
<1>3. DeliveredInv'
  <2>1. \A c \in Streams : phase'[c] = phase[c] \/ (phase[c] \in Ending /\ phase'[c] \in Ending)
    BY <1>1 DEF OInv, DeliveryTyped, Ending
  <2>2. \A c \in Streams : phase'[c] = "deliver" => phase[c] = "deliver" /\ due'[c] = due[c]
    BY <1>1, <2>1 DEF OInv, DeliveryTyped, Ending
  <2>3. \A s \in Subs, c \in Streams : (Whole(s, c)' => Whole(s, c)) /\ Delivered(s, c)' = Delivered(s, c)
    BY <1>1, <2>1, <2>2, BuffersKept DEF Whole, Ending
  <2>4. QED
    BY <1>1, <2>2, <2>3 DEF OInv, DeliveredInv
<1>4. HandlerInv'
  <2>1. \A c \in Streams : due'[c] = due[c] \/ due'[c] = {}
    BY <1>1 DEF OInv, DeliveryTyped
  <2>2. \A c \in Streams : phase'[c] = phase[c] \/ (phase[c] \in Ending /\ phase'[c] \in Ending)
    BY <1>1 DEF OInv, DeliveryTyped, Ending
  <2>3. ASSUME NEW c \in Streams
        PROVE  /\ phase'[c] \in {"idle", "await", "copy"} => given[c] = {} /\ read[c] = 0
               /\ phase'[c] \in {"idle", "await", "copy", "deliver"} => ~failed[c]
               /\ phase'[c] \in Ending /\ given[c] # {} /\ ~failed[c] => ending[c] = "fin" /\ read[c] = sent[c]
    <3>1. CASE phase'[c] = phase[c]
      BY <3>1 DEF OInv, HandlerInv
    <3>2. CASE phase[c] \in Ending /\ phase'[c] \in Ending
      BY <3>2 DEF OInv, HandlerInv, Ending
    <3>3. QED
      BY <2>2, <3>1, <3>2
  <2>4. \A c \in Streams : due'[c] \subseteq given[c] /\ read[c] <= sent[c]
    BY <2>1 DEF OInv, HandlerInv
  <2>5. QED
    BY <1>1, <2>3, <2>4 DEF HandlerInv
<1>5. QED
  BY <1>1, <1>2, <1>3, <1>4, BuffersKept DEF OInv

\* The object goes behind everything delivered of its stream, and is the next.
LEMMA DeliverOInv ==
  ASSUME IInv, OwnInv, OInv, NEW d \in Streams, NEW t \in Subs, Deliver(d, t)
  PROVE  OInv'
<1> DEFINE e == [stream |-> d, n |-> read[d], kind |-> "object"]
           last == Len(objects[t]) + 1
<1>1. /\ UNCHANGED <<sent, read, ending, got, phase, given, failed>> /\ phase[d] = "deliver"
      /\ objects' = [objects EXCEPT ![t] = Append(@, e)]
      /\ due' = [due EXCEPT ![d] = {}] /\ due[d] = {t} /\ given[d] = {t}
  BY TurnOwn DEF Deliver, publisher
<1>2. DeliveryTyped /\ t \in Subs /\ t \in given[d] /\ e \in Slot /\ Len(objects[t]) \in Nat
  <2>1. DeliveryTyped /\ t \in Subs /\ t \in given[d] /\ e \in Slot
    BY <1>1 DEF OInv, DeliveryTyped, HandlerInv, Slot
  <2>2. QED
    BY <2>1, DeliveredNat
<1>3. DeliveryTyped' /\ HandlerInv'
  BY <1>1, <1>2, PutItem DEF OInv, DeliveryTyped, HandlerInv, Ending
<1>4. /\ \A s \in Subs, c \in Streams :
           Delivered(s, c)' = Delivered(s, c) + IF s = t /\ c = d THEN 1 ELSE 0
      /\ \A s \in Subs, c \in Streams : Delivered(s, c) \in Nat
  <2>1. \A s \in Subs, c \in Streams :
           Delivered(s, c)' = Delivered(s, c) + IF s = t THEN IsObj(e, c) ELSE 0
    BY <1>1, <1>2, PutItem
  <2>2. \A s \in Subs, c \in Streams : Delivered(s, c) \in Nat
    BY <1>2, DeliveredNat
  <2>3. QED
    BY <2>1, <2>2 DEF IsObj
<1>5. Delivered(t, d)' = read[d]
  BY <1>1, <1>2, <1>4 DEF OInv, DeliveredInv
<1>6. DeliveredInv'
  <2>1. ASSUME NEW s \in Subs, NEW c \in Streams
        PROVE  /\ s \notin given'[c] => Delivered(s, c)' = 0
               /\ s \in given'[c] =>
                    /\ Delivered(s, c)' <= read'[c]
                    /\ phase'[c] = "deliver" /\ s \in due'[c] => Delivered(s, c)' + 1 = read'[c]
                    /\ Whole(s, c)' => Delivered(s, c)' = read'[c]
    <3>1. CASE s = t /\ c = d
      BY <1>1, <1>2, <1>5, <3>1 DEF DeliveryTyped
    <3>2. CASE ~(s = t /\ c = d)
      <4>1. Delivered(s, c)' = Delivered(s, c)
        BY <1>4, <3>2
      <4>2. s \in due'[c] <=> s \in due[c]
        BY <1>1, <1>2, <3>2 DEF DeliveryTyped
      <4>3. QED
        BY <1>1, <4>1, <4>2 DEF OInv, DeliveredInv, Whole
    <3>3. QED
      BY <3>1, <3>2
  <2>2. QED
    BY <2>1 DEF DeliveredInv
<1>7. MarkerInv' /\ Ordered'
  <2>1. /\ Len(objects'[t]) = last /\ objects'[t][last] = e
        /\ \A s \in Subs \ {t} : objects'[s] = objects[s]
        /\ \A s \in Subs : \A i \in 1 .. Len(objects[s]) : objects'[s][i] = objects[s][i]
        /\ \A s \in Subs, c \in Streams : \A i \in 1 .. Len(objects[s]) :
             Objs(objects'[s], c, i) = Objs(objects[s], c, i)
    BY <1>1, <1>2, PutItem
  <2>2. got'[t][d] + Cardinality(Objs(objects'[t], d, last)) = read[d]
    BY <1>5, <2>1 DEF Delivered
  <2>3. ASSUME NEW s \in Subs, NEW i \in 1 .. Len(objects'[s])
        PROVE  \/ i \in 1 .. Len(objects[s])
               \/ s = t /\ i = last
    BY <1>2, <2>1
  <2>4. \A s \in Subs : \A i \in 1 .. Len(objects[s]) : objects[s][i].stream \in Streams
    BY <1>2, ItemTyped DEF Slot
  <2>5. MarkerInv'
    BY <1>1, <2>1, <2>3 DEF OInv, MarkerInv
  <2>6. Ordered'
    BY <1>1, <2>1, <2>2, <2>3, <2>4 DEF OInv, Ordered
  <2>7. QED
    BY <2>5, <2>6
<1>8. QED
  BY <1>3, <1>6, <1>7 DEF OInv

\* The marker counts for nothing, and one that says "fin" is behind the last
\* object.
LEMMA MarkOInv ==
  ASSUME IInv, OwnInv, OInv, NEW d \in Streams, NEW t \in Subs, Mark(d, t)
  PROVE  OInv'
<1> DEFINE e == [stream |-> d, n |-> 0, kind |-> IF failed[d] THEN "reset" ELSE "fin"]
           last == Len(objects[t]) + 1
<1>1. /\ UNCHANGED <<sent, read, ending, got, given, due, failed>> /\ given[d] = {t}
      /\ phase[d] = "mark" /\ phase' = [phase EXCEPT ![d] = "count"]
      /\ objects' = [objects EXCEPT ![t] = Append(@, e)] \/ objects' = objects
  BY TurnOwn DEF Mark, Marks, publisher
<1>2. CASE objects' = objects
  <2>1. DeliveryTyped' /\ HandlerInv'
    BY <1>1, <1>2 DEF OInv, DeliveryTyped, HandlerInv, Phases, Ending
  <2>2. DeliveredInv'
    BY <1>1, <1>2, BuffersKept DEF OInv, DeliveryTyped, DeliveredInv, Whole, Ending
  <2>3. QED
    BY <1>1, <1>2, <2>1, <2>2, BuffersKept DEF OInv
<1>3. CASE objects' = [objects EXCEPT ![t] = Append(@, e)]
  <2>0. e \in Slot /\ e.stream = d /\ e.kind # "object" /\ (e.kind = "fin" => ~failed[d])
    BY DEF Slot
  <2> HIDE DEF e
  <2>1. DeliveryTyped /\ t \in Subs /\ t \in given[d] /\ e \in Slot /\ Len(objects[t]) \in Nat
    <3>1. DeliveryTyped /\ t \in Subs /\ t \in given[d]
      BY <1>1 DEF OInv
    <3>2. QED
      BY <2>0, <3>1, DeliveredNat
  <2>2. DeliveryTyped' /\ HandlerInv'
    BY <1>1, <1>3, <2>1, PutItem DEF OInv, DeliveryTyped, HandlerInv, Phases, Ending
  <2>3. \A s \in Subs, c \in Streams : Delivered(s, c)' = Delivered(s, c)
    <3>1. \A s \in Subs, c \in Streams :
             Delivered(s, c)' = Delivered(s, c) + IF s = t THEN IsObj(e, c) ELSE 0
      BY <1>1, <1>3, <2>1, PutItem
    <3>2. \A s \in Subs, c \in Streams : Delivered(s, c) \in Nat
      BY <2>1, DeliveredNat
    <3>3. QED
      BY <2>0, <3>1, <3>2 DEF IsObj
  <2>4. DeliveredInv'
    BY <1>1, <2>3 DEF OInv, DeliveryTyped, DeliveredInv, Whole, Ending
  <2>5. /\ Len(objects'[t]) = last /\ objects'[t][last] = e
        /\ \A s \in Subs \ {t} : objects'[s] = objects[s]
        /\ \A s \in Subs : \A i \in 1 .. Len(objects[s]) : objects'[s][i] = objects[s][i]
        /\ \A s \in Subs, c \in Streams : \A i \in 1 .. Len(objects[s]) :
             Objs(objects'[s], c, i) = Objs(objects[s], c, i)
    BY <1>1, <1>3, <2>1, PutItem
  <2>6. ~failed[d] => ending[d] = "fin" /\ got'[t][d] + Cardinality(Objs(objects'[t], d, last)) = sent[d]
    BY <1>1, <2>1, <2>3, <2>5 DEF OInv, HandlerInv, DeliveredInv, Whole, Delivered, Ending
  <2>7. ASSUME NEW s \in Subs, NEW i \in 1 .. Len(objects'[s])
        PROVE  \/ i \in 1 .. Len(objects[s])
               \/ s = t /\ i = last
    BY <2>1, <2>5
  <2>8. \A s \in Subs : \A i \in 1 .. Len(objects[s]) : objects[s][i].stream \in Streams
    BY <2>1, ItemTyped DEF Slot
  <2>9. MarkerInv'
    BY <1>1, <2>0, <2>5, <2>6, <2>7, <2>8 DEF OInv, MarkerInv
  <2>10. Ordered'
    BY <1>1, <2>0, <2>5, <2>6, <2>7, <2>8 DEF OInv, Ordered
  <2>11. QED
    BY <2>2, <2>4, <2>9, <2>10 DEF OInv
<1>4. QED
  BY <1>1, <1>2, <1>3

LEMMA HandlerOInv ==
  ASSUME IInv, OwnInv, OInv, NEW d \in Streams, HandlerStep(d)
  PROVE  OInv'
<1>1. CASE StreamEnds(d)
  BY <1>1, ReceiveReturnsOInv DEF StreamEnds, due
<1>2. ASSUME NEW t \in Subs, DeliverFails(d, t) PROVE OInv'
  BY <1>2, ReceiveReturnsOInv DEF DeliverFails
<1>3. ASSUME NEW t \in Subs, Deliver(d, t) \/ Mark(d, t) \/ Count(d, t) \/ Signal(d, t) PROVE OInv'
  BY <1>3, DeliverOInv, MarkOInv, CountOInv
<1>4. QED
  BY <1>1, <1>2, <1>3, BeforeOInv, GivenOInv, NextObjectOInv DEF HandlerStep

LEMMA NextOInv == IInv /\ OwnInv /\ OInv /\ [Next]_vars => OInv'
<1> SUFFICES ASSUME IInv, OwnInv, OInv, [Next]_vars PROVE OInv'
  OBVIOUS
<1>1. ASSUME NEW s \in Subs, ReadObject(s) PROVE OInv'
  BY <1>1, ReadObjectOInv
<1>2. ASSUME NEW s \in Subs, ~ReadObject(s), ~(\E d \in Streams : OpenSubgroup(s, d)),
             PublisherStep(s) \/ ApplicationStep(s) \/ ReaderStep(s) \/ WaiterStep(s)
      PROVE  OInv'
  <2> USE DEF ocore, publisher, subscriber, index, handlers, request, counting, given, due
  <2>1. CASE PublisherStep(s)
    BY <1>2, <2>1, StutterOInv DEF PublisherStep, SubscribeOk, Refuse, PublishDone
  <2>2. CASE ApplicationStep(s)
    BY <1>2, <2>2, StutterOInv DEF ApplicationStep, Subscribe, SubscribeFails, Subscribed, Close, ReadEnd
  <2>3. CASE ReaderStep(s)
    BY <2>3, StutterOInv DEF ReaderStep, ReadOk, ReadDuplicate, ReadError, ReadPublishDone,
         ReadStreamEnd, ReadFails, Unroute, ReadsOn, Reads
  <2>4. CASE WaiterStep(s)
    BY <2>4, StutterOInv DEF WaiterStep, WaiterChecks, WaiterWakes, WaiterGivesUp
  <2>5. QED
    BY <1>2, <2>1, <2>2, <2>3, <2>4
\* A stream is new to its handler.
<1>3. ASSUME NEW s \in Subs, NEW d \in Streams, OpenSubgroup(s, d) PROVE OInv'
  <2>1. /\ UNCHANGED <<sent, read, ending, objects, got, phase, tracks, todo, failed>>
        /\ owner[d] = None /\ owner' = [owner EXCEPT ![d] = s]
    BY <1>3 DEF OpenSubgroup, subscriber, handlers
  <2>2. tracks[d] = <<>> /\ todo[d] = <<>>
    BY <2>1 DEF OwnInv, Taken
  <2>3. given' = given /\ due' = due
    BY <2>1, <2>2 DEF given, due, OwnInv, OwnTyped
  <2>4. QED
    BY <2>1, <2>3, StutterOInv DEF ocore
<1>4. ASSUME NEW d \in Streams, StreamStep(d) \/ HandlerStep(d) PROVE OInv'
  BY <1>4, WriteObjectOInv, EndSubgroupOInv, HandlerOInv DEF StreamStep
<1>5. CASE SessionEnds
  BY <1>5, StutterOInv DEF SessionEnds, ocore, publisher, handlers, given, due
<1>6. CASE UNCHANGED vars
  BY <1>6, StutterOInv DEF vars, ocore, publisher, subscriber, handlers, given, due
<1>7. QED
  BY <1>1, <1>2, <1>3, <1>4, <1>5, <1>6 DEF Next

LEMMA DeliveryInvariance == ASSUME ~Reuse PROVE Spec => [](IInv /\ OwnInv /\ OInv)
<1>1. IInv /\ OwnInv /\ OInv /\ [Next]_vars => OwnInv'
  BY NextOwn
<1>2. QED
  BY <1>1, InitIInv, NextIInv, InitOwnInv, InitOInv, NextOInv, PTL DEF Spec

\* Of a publisher that gives each subscription an alias of its own, and for any
\* streams and buffers: what deliver and subgroupStreamEnded put on a
\* subscription's channel is in the order of each stream, nothing twice and
\* nothing left out, and the marker of a finished stream is behind its last
\* object.
THEOREM ObjectsInOrder == ASSUME ~Reuse PROVE Spec => []InOrder
<1>1. OInv => InOrder
  BY DEF OInv, Ordered, InOrder, Buffered, Objs
<1>2. QED
  BY <1>1, DeliveryInvariance, PTL

-----------------------------------------------------------------------------
(* The promise.                                                             *)

\* The streams of s whose end has been counted.
Counted(s) == {d \in Streams : s \in given[d] /\ phase[d] \in {"signal", "over"}}

\* PUBLISH_DONE counted every stream of s, and all had ended.
Announced(s) ==
  /\ pub[s] = "finished" /\ announced[s] = Cardinality(StreamsOf(s))
  /\ \A d \in StreamsOf(s) : ending[d] # "open"

Tells == {"done", "uncounted"}

\* s has a PUBLISH_DONE yet to be read, and one with a count.
Told(s) == \E i \in 1 .. Len(answers[s]) : answers[s][i] \in Tells
ToldDone(s) == \E i \in 1 .. Len(answers[s]) : answers[s][i] = "done"

\* There is one PUBLISH_DONE, which is true.
Answered(s) ==
  /\ \A i, j \in 1 .. Len(answers[s]) : answers[s][i] \in Tells /\ answers[s][j] \in Tells => i = j
  /\ Told(s) => done[s] = "none"
  /\ ToldDone(s) \/ done[s] = "counted" => Announced(s)

\* Who waits, and who has waited.
Waits(s) ==
  /\ waiter[s] # "off" => reader[s] = "over" /\ done[s] = "counted"
  /\ delivery[s] = "finished" => reader[s] = "over" /\ pub[s] = "finished" /\ waiter[s] \notin {"check", "select"}
  /\ app[s] = "ended" \/ ~session => delivery[s] # "open"

\* Delivery of s ended as its streams were counted.
Complete(s) == delivery[s] = "finished" /\ done[s] = "counted" /\ waiter[s] # "expired"

CountOf(s) ==
  /\ ended[s] = Cardinality(Counted(s))
  /\ Complete(s) => StreamsOf(s) \subseteq Counted(s)

\* Streams fail by a reset, or when delivery has ended short of the count.
FailedInv(d) ==
  failed[d] => ending[d] = "reset" \/ \A s \in given[d] : delivery[s] # "open" /\ ~Complete(s)

PromiseTyped ==
  /\ delivery \in [Subs -> Cause \cup {"open"}]
  /\ reader \in [Subs -> {"off", "reading", "over"}]

PInv ==
  /\ PromiseTyped
  /\ \A s \in Subs : Answered(s) /\ Waits(s) /\ CountOf(s)
  /\ \A d \in Streams : FailedInv(d)

LEMMA InitPInv == Init => PInv
<1> SUFFICES ASSUME Init PROVE PInv
  OBVIOUS
<1>1. ASSUME NEW s \in Subs PROVE Answered(s) /\ Waits(s) /\ CountOf(s)
  <2>1. Counted(s) = {} /\ answers[s] = <<>> /\ Len(answers[s]) = 0
    BY DEF Init, Counted
  <2>2. ended[s] = 0 /\ done[s] = "none" /\ waiter[s] = "off" /\ delivery[s] = "open" /\ app[s] = "idle" /\ session
    BY DEF Init
  <2>3. QED
    BY <2>1, <2>2, FS_EmptySet DEF Answered, Told, ToldDone, Waits, CountOf, Complete
<1>2. PromiseTyped /\ \A d \in Streams : FailedInv(d)
  BY DEF Init, PromiseTyped, FailedInv
<1>3. QED
  BY <1>1, <1>2 DEF PInv

\* What is said to others, while none of their streams is opened.
LEMMA AnsweredKept ==
  ASSUME PInv, NEW t \in Subs, answers'[t] = answers[t], done'[t] = done[t],
         pub[t] = "finished" =>
           pub'[t] = "finished" /\ StreamsOf(t)' = StreamsOf(t) /\ announced'[t] = announced[t],
         \A d \in Streams : ending[d] # "open" => ending'[d] = ending[d]
  PROVE  Answered(t)'
<1>1. Announced(t) => Announced(t)'
  BY DEF Announced, StreamsOf
<1>2. Answered(t)
  BY DEF PInv
<1>3. QED
  BY <1>1, <1>2 DEF Answered, Told, ToldDone

\* The publisher's steps.
LEMMA SaidPInv ==
  ASSUME PInv, UNCHANGED <<app, reader, done, ended, waiter, delivery, phase, given, failed, session>>,
         \A t \in Subs : pub[t] = "finished" => pub'[t] = "finished" /\ StreamsOf(t)' = StreamsOf(t),
         \A d \in Streams : ending[d] # "open" => ending'[d] = ending[d],
         \A t \in Subs : Answered(t)'
  PROVE  PInv'
<1>1. ASSUME NEW t \in Subs PROVE Waits(t)'
  BY DEF PInv, Waits
<1>2. ASSUME NEW t \in Subs PROVE CountOf(t)'
  <2>1. Counted(t)' = Counted(t) /\ (Complete(t)' <=> Complete(t))
    BY DEF Counted, Complete
  <2>2. Complete(t) => pub[t] = "finished"
    BY DEF PInv, Waits, Complete
  <2>3. CountOf(t)
    BY DEF PInv
  <2>4. QED
    BY <2>1, <2>2, <2>3 DEF CountOf
<1>3. ASSUME NEW d \in Streams PROVE FailedInv(d)'
  <2>1. FailedInv(d) /\ ending[d] = "reset" => ending'[d] = "reset"
    OBVIOUS
  <2>2. QED
    BY <2>1 DEF PInv, FailedInv, Complete
<1>4. QED
  BY <1>1, <1>2, <1>3 DEF PInv, PromiseTyped

\* The subscriber's steps, but for its handlers.
LEMMA HeardPInv ==
  ASSUME OwnInv, PInv, UNCHANGED <<owner, ending, ended, phase, given, failed>>, PromiseTyped',
         \A t \in Subs :
           /\ Answered(t)' /\ Waits(t)'
           /\ delivery[t] # "open" => delivery'[t] # "open" /\ (Complete(t)' => Complete(t))
           /\ delivery[t] = "open" /\ Complete(t)' => StreamsOf(t) \subseteq Counted(t)
  PROVE  PInv'
<1>1. ASSUME NEW t \in Subs PROVE CountOf(t)'
  <2>1. Counted(t)' = Counted(t) /\ StreamsOf(t)' = StreamsOf(t)
    BY DEF Counted, StreamsOf
  <2>2. Complete(t)' => StreamsOf(t) \subseteq Counted(t)
    BY DEF PInv, CountOf
  <2>3. QED
    BY <2>1, <2>2 DEF PInv, CountOf
<1>2. ASSUME NEW d \in Streams PROVE FailedInv(d)'
  <2>1. \A s \in given[d] : s \in Subs
    BY Views
  <2>2. FailedInv(d)
    BY DEF PInv
  <2>3. QED
    BY <2>1, <2>2 DEF FailedInv
<1>3. QED
  BY <1>1, <1>2 DEF PInv

LEMMA PublisherPInv ==
  ASSUME IInv, OwnInv, OInv, PInv, NEW s \in Subs, PublisherStep(s)
  PROVE  PInv'
<1>0. /\ UNCHANGED <<app, reader, done, ended, waiter, delivery, phase, tracks, failed, session, sent, ending>>
      /\ \A t \in Subs \ {s} : answers'[t] = answers[t] /\ pub'[t] = pub[t] /\ announced'[t] = announced[t]
      /\ pub[s] # "finished"
  BY DEF PublisherStep, SubscribeOk, Refuse, OpenSubgroup, PublishDone, Send, subscriber, handlers, request,
         counting, IInv, Typed
<1>1. /\ ~Announced(s) /\ ~ToldDone(s) /\ done[s] = "none"
      /\ \A d \in Streams : ending[d] # "open" => ending'[d] = ending[d]
  BY <1>0 DEF PInv, Answered, Announced, IInv, Progress, Early
\* A subscription that is finished has no stream opened.
<1>2. \A t \in Subs : pub[t] = "finished" =>
        pub'[t] = "finished" /\ StreamsOf(t)' = StreamsOf(t) /\ announced'[t] = announced[t] /\ t # s
  <2>1. ASSUME NEW t \in Subs \ {s} PROVE StreamsOf(t)' = StreamsOf(t)
    <3>1. CASE owner' = owner
      BY <3>1 DEF StreamsOf
    <3>2. ASSUME NEW d \in Streams, OpenSubgroup(s, d) PROVE StreamsOf(t)' = StreamsOf(t)
      <4>1. owner' = [owner EXCEPT ![d] = s] /\ owner[d] = None /\ owner \in [Streams -> Subs \cup {None}]
        BY <3>2 DEF OpenSubgroup, OwnInv, OwnTyped
      <4>2. \A c \in Streams : owner'[c] = t <=> owner[c] = t
        BY <4>1, ConstantsAssumption
      <4>3. QED
        BY <4>2 DEF StreamsOf
    <3>3. QED
      BY <3>1, <3>2 DEF PublisherStep, SubscribeOk, Refuse, PublishDone
  <2>2. QED
    BY <1>0, <2>1
<1>3. given' = given
  <2>1. ASSUME NEW d \in Streams, OpenSubgroup(s, d) PROVE given' = given
    <3>1. tracks[d] = <<>> /\ owner' = [owner EXCEPT ![d] = s] /\ tracks' = tracks
      BY <1>0, <2>1 DEF OpenSubgroup, OwnInv, Taken
    <3>2. QED
      BY <3>1 DEF given, OwnInv, OwnTyped
  <2>2. ASSUME ~(\E d \in Streams : OpenSubgroup(s, d)) PROVE given' = given
    BY <1>0, <2>2 DEF PublisherStep, SubscribeOk, Refuse, PublishDone, given
  <2>3. QED
    BY <2>1, <2>2
<1>4. Answered(s)'
  <2>1. answers[s] \in {<<>>, <<"ok">>} \cup {answers[s]} /\ answers[s] \in Seq(Message) /\ ~Told(s)
    <3>1. answers[s] \in {<<>>, <<"ok">>} /\ answers[s] \in Seq(Message)
      BY <1>0 DEF IInv, Typed, Progress, Early
    <3>2. CASE answers[s] = <<>>
      BY <3>1, <3>2 DEF Told
    <3>3. CASE answers[s] = <<"ok">>
      <4>1. Len(answers[s]) = 1 /\ answers[s][1] = "ok"
        BY <3>3
      <4>2. QED
        BY <3>1, <4>1 DEF Told, Tells
    <3>4. QED
      BY <3>1, <3>2, <3>3
  <2>2. ASSUME NEW messages \in Seq(Message), Send(s, messages),
               \A i, j \in 1 .. Len(messages) : messages[i] \in Tells /\ messages[j] \in Tells => i = j,
               \A i \in 1 .. Len(messages) : messages[i] = "done" => Announced(s)'
        PROVE  Answered(s)'
    <3>1. /\ answers'[s] = answers[s] \o messages
          /\ Len(answers[s]) \in Nat /\ Len(messages) \in Nat
      BY <2>2, LenProperties DEF Send, IInv, Typed
    <3>2. /\ Len(answers'[s]) = Len(answers[s]) + Len(messages)
          /\ \A i \in 1 .. Len(answers[s]) + Len(messages) :
               answers'[s][i] = IF i <= Len(answers[s]) THEN answers[s][i] ELSE messages[i - Len(answers[s])]
      BY <2>1, <2>2, <3>1, ConcatProperties
    <3>3. ASSUME NEW i \in 1 .. Len(answers'[s]), answers'[s][i] \in Tells
          PROVE  i - Len(answers[s]) \in 1 .. Len(messages) /\ answers'[s][i] = messages[i - Len(answers[s])]
      BY <2>1, <3>1, <3>2, <3>3 DEF Told
    <3>4. ASSUME NEW i \in 1 .. Len(answers'[s]), NEW j \in 1 .. Len(answers'[s]),
                 answers'[s][i] \in Tells, answers'[s][j] \in Tells
          PROVE  i = j
      <4>1. /\ i - Len(answers[s]) \in 1 .. Len(messages) /\ messages[i - Len(answers[s])] \in Tells
            /\ j - Len(answers[s]) \in 1 .. Len(messages) /\ messages[j - Len(answers[s])] \in Tells
        BY <3>3, <3>4
      <4>2. i - Len(answers[s]) = j - Len(answers[s])
        BY <2>2, <4>1
      <4>3. i \in Nat /\ j \in Nat
        BY <3>1, <3>2
      <4>4. QED
        BY <3>1, <4>2, <4>3
    <3>5. ToldDone(s)' => Announced(s)'
      BY <2>2, <3>3 DEF ToldDone, Tells
    <3>6. QED
      BY <1>0, <1>1, <3>4, <3>5 DEF Answered
  <2>3. ASSUME NEW a \in Aliases, SubscribeOk(s, a) PROVE Answered(s)'
    <3>1. <<"ok">> \in Seq(Message) /\ \A i \in 1 .. Len(<<"ok">>) : <<"ok">>[i] \notin Tells /\ <<"ok">>[i] # "done"
      BY DEF Message, Tells
    <3>2. Send(s, <<"ok">>)
      BY <2>3 DEF SubscribeOk
    <3>3. QED
      BY <2>2, <3>1, <3>2
  <2>4. ASSUME NEW messages \in {<<"error", "fin">>, <<"reset">>}, Refuse(s, messages) PROVE Answered(s)'
    <3>1. messages \in Seq(Message) /\ \A i \in 1 .. Len(messages) : messages[i] \notin Tells /\ messages[i] # "done"
      <4>1. <<"error", "fin">> \in Seq(Message) /\ <<"reset">> \in Seq(Message)
        BY DEF Message
      <4>2. CASE messages = <<"error", "fin">>
        BY <4>1, <4>2 DEF Tells
      <4>3. CASE messages = <<"reset">>
        BY <4>1, <4>3 DEF Tells
      <4>4. QED
        BY <4>2, <4>3
    <3>2. Send(s, messages)
      BY <2>4 DEF Refuse
    <3>3. QED
      BY <2>2, <3>1, <3>2
  <2>5. ASSUME NEW message \in Tells, PublishDone(s, message) PROVE Answered(s)'
    <3>1. /\ <<message, "fin">> \in Seq(Message) /\ Len(<<message, "fin">>) = 2
          /\ \A i \in 1 .. 2 : <<message, "fin">>[i] \in Tells => i = 1
      BY DEF Message, Tells
    <3>2. Announced(s)'
      <4>1. /\ pub'[s] = "finished" /\ announced'[s] = Cardinality(StreamsOf(s)) /\ UNCHANGED <<owner, ending>>
            /\ \A d \in StreamsOf(s) : ending[d] # "open"
        BY <2>5 DEF PublishDone, IInv, Typed
      <4>2. QED
        BY <4>1 DEF Announced, StreamsOf
    <3>3. Send(s, <<message, "fin">>)
      BY <2>5 DEF PublishDone
    <3>4. \A i, j \in 1 .. Len(<<message, "fin">>) : <<message, "fin">>[i] \in Tells /\ <<message, "fin">>[j] \in Tells => i = j
      BY <3>1
    <3>5. QED
      BY <2>2, <3>1, <3>2, <3>3, <3>4
  <2>6. ASSUME NEW d \in Streams, OpenSubgroup(s, d) PROVE Answered(s)'
    BY <2>6, <1>0, <1>1, AnsweredKept DEF OpenSubgroup
  <2>7. QED
    BY <2>3, <2>4, <2>5, <2>6 DEF PublisherStep, Tells
<1>5. ASSUME NEW t \in Subs \ {s} PROVE Answered(t)'
  BY <1>0, <1>1, <1>2, AnsweredKept
<1>6. QED
  BY <1>0, <1>1, <1>2, <1>3, <1>4, <1>5, SaidPInv

LEMMA StreamPInv ==
  ASSUME IInv, OwnInv, OInv, PInv, NEW d \in Streams, StreamStep(d)
  PROVE  PInv'
<1>1. /\ UNCHANGED <<pub, answers, announced, owner, app, reader, done, ended, waiter, delivery, phase, tracks,
                     failed, session>>
      /\ \A c \in Streams : ending[c] # "open" => ending'[c] = ending[c]
  BY DEF StreamStep, WriteObject, EndSubgroup, subscriber, handlers, request, counting, OInv, DeliveryTyped
<1>2. given' = given /\ \A t \in Subs : StreamsOf(t)' = StreamsOf(t)
  BY <1>1 DEF given, StreamsOf
<1>3. \A t \in Subs : Answered(t)'
  BY <1>1, <1>2, AnsweredKept
<1>4. QED
  BY <1>1, <1>2, <1>3, SaidPInv

(* The subscriber's calls, its reader and its wait. *)

\* Delivery ends as counted: the streams whose end was delivered are streams of
\* s, as many as it has, and so all of them.
LEMMA AllCounted ==
  ASSUME OwnInv, PInv, NEW s \in Subs, done[s] = "counted", ended[s] >= announced[s]
  PROVE  StreamsOf(s) \subseteq Counted(s)
<1>1. Announced(s) /\ ended[s] = Cardinality(Counted(s))
  BY DEF PInv, Answered, CountOf
<1>2. Counted(s) \in SUBSET StreamsOf(s)
  BY Views DEF Counted, StreamsOf
<1>3. IsFiniteSet(StreamsOf(s))
  BY ConstantsAssumption, FS_Subset DEF StreamsOf
<1>4. /\ Cardinality(Counted(s)) <= Cardinality(StreamsOf(s))
      /\ Cardinality(StreamsOf(s)) = Cardinality(Counted(s)) => StreamsOf(s) = Counted(s)
      /\ Cardinality(StreamsOf(s)) \in Nat /\ IsFiniteSet(Counted(s))
  BY <1>2, <1>3, FS_Subset, FS_CardinalityType
<1>5. Cardinality(Counted(s)) \in Nat
  BY <1>4, FS_CardinalityType
<1>6. QED
  BY <1>1, <1>4, <1>5 DEF Announced

\* A step of one subscription.
LEMMA OneHears ==
  ASSUME OwnInv, PInv, NEW s \in Subs,
         UNCHANGED <<announced, owner, ending, ended, phase, tracks, failed, session>>,
         \A t \in Subs \ {s} : /\ answers'[t] = answers[t] /\ done'[t] = done[t] /\ pub'[t] = pub[t]
                               /\ waiter'[t] = waiter[t] /\ reader'[t] = reader[t]
                               /\ delivery'[t] = delivery[t] /\ app'[t] = app[t],
         PromiseTyped', pub[s] = "finished" => pub'[s] = "finished",
         Answered(s)', Waits(s)',
         delivery[s] # "open" => delivery'[s] # "open" /\ (Complete(s)' => Complete(s)),
         delivery[s] = "open" /\ Complete(s)' => StreamsOf(s) \subseteq Counted(s)
  PROVE  PInv'
<1>1. given' = given /\ \A t \in Subs : StreamsOf(t)' = StreamsOf(t)
  BY DEF given, StreamsOf
<1>2. ASSUME NEW t \in Subs \ {s}
      PROVE  /\ Answered(t)' /\ Waits(t)' /\ (Complete(t)' <=> Complete(t))
  BY <1>1, AnsweredKept DEF PInv, Waits, Complete
<1>3. ASSUME NEW t \in Subs \ {s}, Complete(t) PROVE delivery[t] # "open"
  BY <1>3 DEF Complete
<1>4. \A t \in Subs :
        /\ Answered(t)' /\ Waits(t)'
        /\ delivery[t] # "open" => delivery'[t] # "open" /\ (Complete(t)' => Complete(t))
        /\ delivery[t] = "open" /\ Complete(t)' => StreamsOf(t) \subseteq Counted(t)
  BY <1>2, <1>3
<1>5. QED
  BY <1>1, <1>4, HeardPInv

\* What a message leaves of those that are to come.
LEMMA ReadsTell ==
  ASSUME IInv, OwnInv, PInv, NEW s \in Subs, NEW message, Reads(s, message)
  PROVE  /\ UNCHANGED <<pub, announced, owner, ending, app, ended, phase, tracks, failed>>
         /\ \A t \in Subs \ {s} : answers'[t] = answers[t]
         /\ message # "ok" => pub[s] = "finished"
         /\ message \in Tells => done[s] = "none"
         /\ \/ done'[s] = done[s]
            \/ message = "done" /\ done'[s] = "counted"
            \/ message = "uncounted" /\ done'[s] = "uncounted"
            => Answered(s)'
<1>1. /\ UNCHANGED <<pub, announced, owner, ending, app, ended, phase, tracks, failed>>
      /\ \A t \in Subs \ {s} : answers'[t] = answers[t]
      /\ message # "ok" => pub[s] = "finished"
      /\ \A i \in 1 .. Len(answers'[s]) : i + 1 \in 1 .. Len(answers[s]) /\ answers'[s][i] = answers[s][i + 1]
  BY HeadOfAnswers DEF Reads, handlers
<1>2. 1 \in 1 .. Len(answers[s]) /\ answers[s][1] = message /\ Len(answers'[s]) \in Nat
  <2>1. answers[s] \in Seq(Message) /\ answers[s] # <<>> /\ Head(answers[s]) = message /\ answers'[s] \in Seq(Message)
    BY HeadOfAnswers DEF IInv, Typed, Reads
  <2>2. QED
    BY <2>1, LenProperties, EmptySeq
<1>3. (Told(s)' => Told(s)) /\ (ToldDone(s)' => ToldDone(s))
  BY <1>1 DEF Told, ToldDone
<1>4. ASSUME message \in Tells PROVE done[s] = "none" /\ ~Told(s)' /\ ~ToldDone(s)'
  <2>1. Told(s)
    BY <1>2, <1>4 DEF Told
  <2>2. ASSUME NEW i \in 1 .. Len(answers'[s]), answers'[s][i] \in Tells PROVE FALSE
    <3>1. i + 1 = 1
      BY <1>1, <1>2, <1>4, <2>2 DEF PInv, Answered
    <3>2. QED
      BY <1>2, <3>1
  <2>3. QED
    BY <2>1, <2>2 DEF PInv, Answered, Told, ToldDone, Tells
<1>5. ASSUME NEW i \in 1 .. Len(answers'[s]), NEW j \in 1 .. Len(answers'[s]),
             answers'[s][i] \in Tells, answers'[s][j] \in Tells
      PROVE  i = j
  <2>1. i + 1 = j + 1
    BY <1>1, <1>5 DEF PInv, Answered
  <2>2. QED
    BY <1>2, <2>1
<1>6. Announced(s) => Announced(s)'
  BY <1>1 DEF Announced, StreamsOf
<1>7. message = "done" => Announced(s)
  BY <1>2 DEF PInv, Answered, ToldDone
<1>8. Answered(s)
  BY DEF PInv
<1>9. CASE done'[s] = done[s]
  BY <1>1, <1>3, <1>4, <1>5, <1>6, <1>8, <1>9 DEF Answered, Tells
<1>10. CASE message = "done" /\ done'[s] = "counted"
  BY <1>1, <1>4, <1>5, <1>6, <1>7, <1>10 DEF Answered, Tells
<1>11. CASE message = "uncounted" /\ done'[s] = "uncounted"
  BY <1>1, <1>4, <1>5, <1>6, <1>11 DEF Answered, Tells
<1>12. QED
  BY <1>1, <1>4, <1>9, <1>10, <1>11

LEMMA RunEndsPInv ==
  ASSUME IInv, OwnInv, PInv, NEW s \in Subs, NEW clean \in BOOLEAN, reader[s] = "reading", RunEnds(s, clean),
         UNCHANGED <<pub, announced, owner, ending, app, ended, phase, tracks, failed>>,
         \A t \in Subs \ {s} : answers'[t] = answers[t], Answered(s)',
         clean => pub[s] = "finished"
  PROVE  PInv'
<1>1. waiter[s] = "off" /\ delivery[s] # "finished" /\ reader' = [reader EXCEPT ![s] = "over"]
      /\ reader'[s] = "over" /\ UNCHANGED <<done, session>>
  BY DEF PInv, PromiseTyped, Waits, RunEnds
<1>2. CASE clean /\ done[s] = "counted" /\ ended[s] < announced[s]
  <2>1. waiter' = [waiter EXCEPT ![s] = "check"] /\ UNCHANGED delivery /\ waiter'[s] = "check"
    BY <1>2 DEF RunEnds, IInv, Typed
  <2>2. PromiseTyped' /\ Waits(s)'
    BY <1>1, <1>2, <2>1 DEF PInv, PromiseTyped, Waits
  <2>3. \A t \in Subs \ {s} : waiter'[t] = waiter[t] /\ reader'[t] = reader[t]
    BY <1>1, <2>1 DEF PInv, PromiseTyped, IInv, Typed
  <2>4. ~Complete(s)'
    BY <1>1, <2>1 DEF Complete
  <2>5. QED
    BY <1>1, <2>1, <2>2, <2>3, <2>4, OneHears
<1>3. CASE ~(clean /\ done[s] = "counted" /\ ended[s] < announced[s])
  <2>1. /\ delivery' = [delivery EXCEPT ![s] = IF @ = "open" THEN IF clean THEN "finished" ELSE "abrupt" ELSE @]
        /\ UNCHANGED waiter
    BY <1>3 DEF RunEnds, FinishDelivery
  <2>2. /\ delivery'[s] # "open" /\ (delivery'[s] = "finished" => clean /\ delivery[s] = "open")
        /\ \A t \in Subs \ {s} : delivery'[t] = delivery[t] /\ reader'[t] = reader[t]
        /\ PromiseTyped'
    BY <1>1, <2>1 DEF PInv, PromiseTyped, Cause
  <2>3. Waits(s)'
    BY <1>1, <2>1, <2>2 DEF PInv, Waits
  <2>4. ended[s] \in Nat /\ announced[s] \in Nat
    BY DEF IInv, Typed
  <2>5. Complete(s)' => delivery[s] = "open" /\ StreamsOf(s) \subseteq Counted(s)
    BY <1>1, <1>3, <2>2, <2>4, AllCounted DEF Complete
  <2>6. QED
    BY <1>1, <2>1, <2>2, <2>3, <2>5, OneHears
<1>4. QED
  BY <1>2, <1>3

LEMMA ReaderPInv ==
  ASSUME IInv, OwnInv, PInv, NEW s \in Subs, ReaderStep(s)
  PROVE  PInv'
<1>1. CASE ReadOk(s) \/ ReadError(s)
  <2>1. PICK message \in Message : Reads(s, message) /\ UNCHANGED <<done, reader, waiter, delivery, session>>
    BY <1>1 DEF ReadOk, ReadError, ReadsOn, Message
  <2>2. PromiseTyped' /\ Waits(s)' /\ (Complete(s)' => Complete(s)) /\ (Complete(s) => delivery[s] # "open")
    BY <2>1, ReadsTell DEF PInv, PromiseTyped, Waits, Complete
  <2>3. QED
    BY <2>1, <2>2, ReadsTell, OneHears
<1>2. CASE ReadPublishDone(s)
  <2>1. PICK message \in Tells :
          /\ Reads(s, message) /\ UNCHANGED <<reader, waiter, delivery, session>>
          /\ done' = [done EXCEPT ![s] = IF message = "done" THEN "counted" ELSE "uncounted"]
    BY <1>2 DEF ReadPublishDone, ReadsOn, Tells
  <2>2. /\ done'[s] = IF message = "done" THEN "counted" ELSE "uncounted"
        /\ \A t \in Subs \ {s} : done'[t] = done[t]
        /\ reader[s] = "reading"
    BY <2>1 DEF IInv, Typed, Reads
  <2>3. waiter[s] = "off" /\ delivery[s] # "finished"
    BY <2>2 DEF PInv, Waits
  <2>4. PromiseTyped' /\ Waits(s)' /\ ~Complete(s)'
    BY <2>1, <2>2, <2>3, ReadsTell DEF PInv, PromiseTyped, Waits, Complete
  <2>5. Answered(s)'
    BY <2>1, <2>2, ReadsTell DEF Tells
  <2>6. QED
    BY <2>1, <2>2, <2>4, <2>5, ReadsTell, OneHears
<1>3. CASE ReadStreamEnd(s)
  <2>1. PICK clean \in BOOLEAN, message \in {"fin", "reset"} : Reads(s, message) /\ RunEnds(s, clean)
    BY <1>3 DEF ReadStreamEnd
  <2>2. reader[s] = "reading" /\ UNCHANGED done
    BY <2>1 DEF Reads, RunEnds
  <2>3. QED
    BY <2>1, <2>2, ReadsTell, RunEndsPInv
<1>4. CASE ReadFails(s)
  <2>1. reader[s] = "reading" /\ RunEnds(s, FALSE) /\ UNCHANGED <<publisher, app, ended, handlers, done>>
    BY <1>4 DEF ReadFails, RunEnds
  <2>2. Answered(s)'
    BY <2>1, AnsweredKept DEF publisher, StreamsOf
  <2>3. QED
    BY <2>1, <2>2, RunEndsPInv DEF publisher, handlers
<1>5. CASE Unroute(s)
  <2>1. UNCHANGED <<pub, answers, announced, owner, ending, app, reader, done, ended, waiter, delivery,
                    phase, tracks, failed, session>>
    BY <1>5 DEF Unroute, publisher, request, counting, handlers
  <2>2. Answered(s)'
    BY <2>1, AnsweredKept DEF StreamsOf
  <2>3. PromiseTyped' /\ Waits(s)' /\ (Complete(s)' => Complete(s)) /\ (Complete(s) => delivery[s] # "open")
    BY <2>1 DEF PInv, PromiseTyped, Waits, Complete
  <2>4. QED
    BY <2>1, <2>2, <2>3, OneHears
\* A protocol error ends every delivery.
<1>6. CASE ReadDuplicate(s)
  <2>1. /\ Reads(s, "ok") /\ reader' = [reader EXCEPT ![s] = "over"] /\ UNCHANGED <<done, waiter>>
        /\ delivery' = [t \in Subs |-> IF delivery[t] = "open" THEN "abrupt" ELSE delivery[t]]
    BY <1>6 DEF ReadDuplicate
  <2>2. given' = given /\ \A t \in Subs : StreamsOf(t)' = StreamsOf(t)
    BY <2>1, ReadsTell DEF given, StreamsOf
  <2>3. /\ PromiseTyped'
        /\ \A t \in Subs : /\ reader'[t] = reader[t] \/ (t = s /\ reader'[t] = "over")
                           /\ delivery'[t] # "open" /\ (delivery'[t] = delivery[t] \/ delivery'[t] = "abrupt")
    BY <2>1 DEF PInv, PromiseTyped, Cause
  <2>4. \A t \in Subs : Answered(t)'
    BY <2>1, <2>2, ReadsTell, AnsweredKept
  <2>5. ASSUME NEW t \in Subs
        PROVE  Waits(t)' /\ (Complete(t)' => Complete(t)) /\ (Complete(t)' => delivery[t] # "open")
    <3>1. reader'[t] = reader[t] \/ (reader'[t] = "over" /\ reader[t] = "reading")
      BY <2>1, <2>3 DEF Reads
    <3>2. delivery'[t] = "finished" => delivery[t] = "finished"
      BY <2>3
    <3>3. QED
      BY <2>1, <2>3, <3>1, <3>2, ReadsTell DEF PInv, Waits, Complete
  <2>6. QED
    BY <2>1, <2>2, <2>3, <2>4, <2>5, ReadsTell, HeardPInv
<1>7. QED
  BY <1>1, <1>2, <1>3, <1>4, <1>5, <1>6 DEF ReaderStep

LEMMA ApplicationPInv ==
  ASSUME IInv, OwnInv, PInv, NEW s \in Subs, ApplicationStep(s)
  PROVE  PInv'
<1>1. /\ UNCHANGED <<answers, announced, owner, ending, done, ended, waiter, phase, tracks, failed, session>>
      /\ \A t \in Subs \ {s} : pub'[t] = pub[t] /\ app'[t] = app[t]
      /\ pub[s] = "finished" => pub'[s] = "finished"
  <2>1. UNCHANGED <<answers, announced, owner, ending, done, ended, waiter, phase, tracks, failed, session>>
    BY DEF ApplicationStep, Subscribe, SubscribeFails, Subscribed, Close, ReadObject, ReadEnd,
           publisher, request, counting, handlers
  <2>2. \A t \in Subs \ {s} : pub'[t] = pub[t] /\ app'[t] = app[t]
    BY DEF ApplicationStep, Subscribe, SubscribeFails, Subscribed, Close, ReadObject, ReadEnd,
           publisher, IInv, Typed
  <2>3. pub[s] = "finished" => pub'[s] = "finished"
    BY DEF ApplicationStep, Subscribe, SubscribeFails, Subscribed, Close, ReadObject, ReadEnd,
           publisher, IInv, Typed, Progress, Early
  <2>4. QED
    BY <2>1, <2>2, <2>3
<1>2. Answered(s)' /\ (Complete(s) => delivery[s] # "open")
  BY <1>1, AnsweredKept DEF StreamsOf, Complete
<1>3. CASE Subscribe(s)
  <2>1. reader' = [reader EXCEPT ![s] = "reading"] /\ UNCHANGED delivery /\ app'[s] = "calling"
        /\ pub[s] = "idle" /\ waiter[s] = "off"
    BY <1>3 DEF Subscribe, IInv, Typed, Progress, Early
  <2>2. delivery[s] # "finished"
    BY <2>1 DEF PInv, Waits
  <2>3. PromiseTyped' /\ Waits(s)' /\ ~Complete(s)' /\ \A t \in Subs \ {s} : reader'[t] = reader[t]
    BY <1>1, <2>1, <2>2 DEF PInv, PromiseTyped, Waits, Complete
  <2>4. QED
    BY <1>1, <1>2, <2>1, <2>3, OneHears
<1>4. CASE Close(s)
  <2>1. /\ UNCHANGED <<reader, pub>> /\ app'[s] = "closed"
        /\ delivery' = [delivery EXCEPT ![s] = IF @ = "open" THEN "abrupt" ELSE @]
    BY <1>4 DEF Close, FinishDelivery, publisher, request, IInv, Typed
  <2>2. /\ PromiseTyped' /\ delivery'[s] # "open" /\ (delivery'[s] = delivery[s] \/ delivery'[s] = "abrupt")
        /\ \A t \in Subs \ {s} : delivery'[t] = delivery[t]
        /\ delivery[s] = "open" => delivery'[s] = "abrupt"
    BY <2>1 DEF PInv, PromiseTyped, Cause
  <2>3. Waits(s)' /\ (Complete(s)' => Complete(s)) /\ (Complete(s)' => delivery[s] # "open")
    BY <1>1, <2>1, <2>2 DEF PInv, Waits, Complete
  <2>4. QED
    BY <1>1, <1>2, <2>1, <2>2, <2>3, OneHears
<1>5. CASE SubscribeFails(s) \/ Subscribed(s) \/ ReadObject(s) \/ ReadEnd(s)
  <2>1. UNCHANGED <<reader, pub, delivery>> /\ (app'[s] = "ended" => delivery[s] # "open")
    BY <1>5 DEF SubscribeFails, Subscribed, ReadObject, ReadEnd, publisher, request, IInv, Typed
  <2>2. PromiseTyped' /\ Waits(s)' /\ (Complete(s)' <=> Complete(s))
    BY <1>1, <2>1 DEF PInv, PromiseTyped, Waits, Complete
  <2>3. QED
    BY <1>1, <1>2, <2>1, <2>2, OneHears
<1>6. QED
  BY <1>3, <1>4, <1>5 DEF ApplicationStep

LEMMA WaiterPInv ==
  ASSUME IInv, OwnInv, PInv, NEW s \in Subs, WaiterStep(s)
  PROVE  PInv'
<1> DEFINE Moves(next) ==
      /\ UNCHANGED <<pub, answers, announced, owner, ending, app, reader, done, ended, phase, tracks, failed, session>>
      /\ waiter' = [waiter EXCEPT ![s] = next] /\ waiter[s] \in {"check", "select"}
      /\ IF next \in {"check", "select"} THEN UNCHANGED delivery ELSE FinishDelivery(s, "finished")
      /\ next = "over" => ended[s] >= announced[s] \/ delivery[s] # "open"
<1>1. PICK next \in {"check", "select", "over", "expired"} : Moves(next)
  <2>1. UNCHANGED <<pub, answers, announced, owner, ending, app, reader, done, ended, phase, tracks, failed, session>>
    BY DEF WaiterStep, WaiterChecks, WaiterWakes, WaiterGivesUp, publisher, request, handlers
  <2>2. CASE WaiterChecks(s) /\ ended[s] >= announced[s]
    <3>1. Moves("over")
      BY <2>1, <2>2 DEF WaiterChecks
    <3>2. QED
      BY <3>1
  <2>3. CASE WaiterChecks(s) /\ ~(ended[s] >= announced[s])
    <3>1. Moves("select")
      BY <2>1, <2>3 DEF WaiterChecks
    <3>2. QED
      BY <3>1
  <2>4. CASE WaiterWakes(s)
    <3>1. Moves("check")
      BY <2>1, <2>4 DEF WaiterWakes
    <3>2. QED
      BY <3>1
  <2>5. ASSUME NEW how \in {"expired", "over"}, WaiterGivesUp(s, how)
        PROVE  \E next \in {"check", "select", "over", "expired"} : Moves(next)
    <3>1. Moves(how)
      BY <2>1, <2>5 DEF WaiterGivesUp
    <3>2. QED
      BY <3>1
  <2>6. QED
    BY <2>2, <2>3, <2>4, <2>5 DEF WaiterStep
<1>2. /\ waiter'[s] = next /\ \A t \in Subs \ {s} : waiter'[t] = waiter[t]
      /\ done[s] = "counted" /\ reader[s] = "over" /\ delivery[s] # "finished"
  BY <1>1 DEF IInv, Typed, PInv, Waits
<1>3. pub[s] = "finished"
  BY <1>2 DEF PInv, Answered, Announced
<1>4. Answered(s)'
  BY <1>1, AnsweredKept DEF StreamsOf
<1>5. CASE next \in {"check", "select"}
  <2>1. PromiseTyped' /\ Waits(s)' /\ ~Complete(s)'
    BY <1>1, <1>2, <1>5 DEF PInv, PromiseTyped, Waits, Complete
  <2>2. QED
    BY <1>1, <1>2, <1>4, <1>5, <2>1, OneHears
<1>6. CASE next \in {"over", "expired"}
  <2>1. delivery' = [delivery EXCEPT ![s] = IF @ = "open" THEN "finished" ELSE @]
    BY <1>1, <1>6 DEF FinishDelivery
  <2>2. /\ PromiseTyped' /\ delivery'[s] # "open" /\ (delivery[s] # "open" => delivery'[s] = delivery[s])
        /\ \A t \in Subs \ {s} : delivery'[t] = delivery[t]
    BY <1>1, <2>1 DEF PInv, PromiseTyped, Cause
  <2>3. Waits(s)'
    BY <1>1, <1>2, <1>3, <1>6, <2>2 DEF PInv, Waits
  <2>4. Complete(s)' => delivery[s] = "open" /\ StreamsOf(s) \subseteq Counted(s)
    BY <1>1, <1>2, <1>6, <2>2, AllCounted DEF Complete
  <2>5. QED
    BY <1>1, <1>2, <1>4, <2>2, <2>3, <2>4, OneHears
<1>7. QED
  BY <1>5, <1>6

LEMMA SessionEndsPInv ==
  ASSUME OwnInv, PInv, SessionEnds
  PROVE  PInv'
<1>1. /\ UNCHANGED <<pub, answers, announced, owner, ending, app, reader, done, ended, waiter, phase, tracks, failed>>
      /\ delivery' = [s \in Subs |-> IF delivery[s] = "open" THEN "abrupt" ELSE delivery[s]]
  BY DEF SessionEnds, publisher, request, counting, handlers
<1>2. given' = given /\ \A t \in Subs : StreamsOf(t)' = StreamsOf(t)
  BY <1>1 DEF given, StreamsOf
<1>3. /\ PromiseTyped'
      /\ \A t \in Subs : delivery'[t] # "open" /\ (delivery'[t] = delivery[t] \/ delivery'[t] = "abrupt")
      /\ \A t \in Subs : delivery[t] = "open" => delivery'[t] = "abrupt"
  BY <1>1 DEF PInv, PromiseTyped, Cause
<1>4. \A t \in Subs : Answered(t)'
  BY <1>1, <1>2, AnsweredKept
<1>5. \A t \in Subs : Waits(t)' /\ (Complete(t)' => Complete(t)) /\ (Complete(t)' => delivery[t] # "open")
  BY <1>1, <1>3 DEF PInv, Waits, Complete
<1>6. QED
  BY <1>1, <1>2, <1>3, <1>4, <1>5, HeardPInv

(* The handlers. *)

\* A stream is one that was counted as it was before.
LEMMA HandlerKeeps ==
  ASSUME OInv, PInv, NEW d \in Streams,
         UNCHANGED <<pub, answers, announced, owner, ending, app, reader, done, ended, waiter, delivery, session>>,
         \A c \in Streams \ {d} : phase'[c] = phase[c] /\ given'[c] = given[c] /\ failed'[c] = failed[c],
         \A s \in Subs : s \in given'[d] /\ phase'[d] \in {"signal", "over"}
                           <=> s \in given[d] /\ phase[d] \in {"signal", "over"},
         FailedInv(d)'
  PROVE  PInv'
<1>1. ASSUME NEW s \in Subs PROVE Answered(s)' /\ Waits(s)' /\ CountOf(s)'
  <2>1. StreamsOf(s)' = StreamsOf(s) /\ Counted(s)' = Counted(s)
    BY DEF StreamsOf, Counted
  <2>2. Answered(s)'
    BY <2>1, AnsweredKept
  <2>3. Waits(s)' /\ CountOf(s)'
    BY <2>1 DEF PInv, Waits, CountOf, Complete
  <2>4. QED
    BY <2>2, <2>3
<1>2. ASSUME NEW c \in Streams \ {d} PROVE FailedInv(c)'
  BY DEF PInv, FailedInv, Complete
<1>3. QED
  BY <1>1, <1>2 DEF PInv, PromiseTyped

\* One more is counted.
LEMMA CountPInv ==
  ASSUME IInv, OwnInv, OInv, PInv, NEW d \in Streams, NEW t \in Subs, Count(d, t)
  PROVE  PInv'
<1>1. /\ UNCHANGED <<pub, answers, announced, owner, ending, app, reader, done, waiter, delivery, session, failed>>
      /\ given' = given /\ given[d] = {t} /\ phase[d] = "count" /\ phase' = [phase EXCEPT ![d] = "signal"]
      /\ ended' = [ended EXCEPT ![t] = @ + 1]
  BY TurnOwn DEF Count, publisher, request
<1>2. /\ phase'[d] = "signal" /\ ended'[t] = ended[t] + 1
      /\ \A c \in Streams \ {d} : phase'[c] = phase[c]
      /\ \A s \in Subs \ {t} : ended'[s] = ended[s]
  BY <1>1 DEF IInv, Typed
<1>3. ASSUME NEW s \in Subs PROVE Answered(s)' /\ Waits(s)' /\ CountOf(s)'
  <2>1. StreamsOf(s)' = StreamsOf(s)
    BY <1>1 DEF StreamsOf
  <2>2. Answered(s)' /\ Waits(s)' /\ (Complete(s)' <=> Complete(s)) /\ CountOf(s)
    BY <1>1, <2>1, AnsweredKept DEF PInv, Waits, Complete
  <2>3. CASE s # t
    <3>1. Counted(s)' = Counted(s)
      BY <1>1, <1>2, <2>3 DEF Counted
    <3>2. QED
      BY <1>2, <2>1, <2>2, <2>3, <3>1 DEF CountOf
  <2>4. CASE s = t
    <3>1. Counted(s)' = Counted(s) \cup {d} /\ d \notin Counted(s)
      BY <1>1, <1>2, <2>4 DEF Counted
    <3>2. IsFiniteSet(Counted(s))
      BY ConstantsAssumption, FS_Subset DEF Counted
    <3>3. Cardinality(Counted(s)') = Cardinality(Counted(s)) + 1
      BY <3>1, <3>2, FS_AddElement
    <3>4. QED
      BY <1>2, <2>1, <2>2, <2>4, <3>1, <3>3 DEF CountOf
  <2>5. QED
    BY <2>2, <2>3, <2>4
<1>4. ASSUME NEW c \in Streams PROVE FailedInv(c)'
  BY <1>1 DEF PInv, FailedInv, Complete
<1>5. QED
  BY <1>1, <1>3, <1>4 DEF PInv, PromiseTyped

\* receive fails on a reset, after the session, or for a subscription whose
\* delivery ended while the stream was not yet counted.
LEMMA ReceiveReturnsPInv ==
  ASSUME IInv, OwnInv, OInv, PInv, NEW d \in Streams, NEW error \in BOOLEAN, ReceiveReturns(d, error),
         phase[d] = "deliver",
         error => ending[d] = "reset" \/ \A s \in given[d] : delivery[s] # "open"
  PROVE  PInv'
<1>1. /\ UNCHANGED <<pub, answers, announced, owner, ending, app, reader, done, ended, waiter, delivery, session>>
      /\ failed' = [failed EXCEPT ![d] = error]
  BY DEF ReceiveReturns, publisher, subscriber, request, counting
<1>2. given' = given /\ \E to \in {"mark", "count"} : phase' = [phase EXCEPT ![d] = to]
  BY ReceiveReturnsOwn
<1>3. /\ \A c \in Streams \ {d} : phase'[c] = phase[c] /\ failed'[c] = failed[c]
      /\ phase'[d] \in {"mark", "count"} /\ failed'[d] = error
  BY <1>1, <1>2 DEF OInv, DeliveryTyped
<1>4. ASSUME NEW s \in given[d] PROVE s \in Subs /\ ~Complete(s)
  <2>1. s \in Subs /\ s = owner[d] /\ d \in StreamsOf(s)
    BY Views DEF StreamsOf
  <2>2. d \notin Counted(s)
    BY DEF Counted
  <2>3. QED
    BY <2>1, <2>2 DEF PInv, CountOf
<1>5. FailedInv(d)'
  BY <1>1, <1>2, <1>3, <1>4 DEF FailedInv, Complete
<1>6. QED
  BY <1>1, <1>2, <1>3, <1>5, HandlerKeeps

LEMMA HandlerPInv ==
  ASSUME IInv, OwnInv, OInv, PInv, NEW d \in Streams, HandlerStep(d)
  PROVE  PInv'
<1>1. CASE StreamEnds(d)
  <2>1. ~session => \A s \in Subs : delivery[s] # "open"
    BY DEF PInv, Waits
  <2>2. QED
    BY <1>1, <2>1, Views, ReceiveReturnsPInv DEF StreamEnds
<1>2. ASSUME NEW t \in Subs, DeliverFails(d, t) PROVE PInv'
  <2>1. given[d] = {t}
    BY <1>2, TurnIsOwn DEF DeliverFails
  <2>2. QED
    BY <1>2, <2>1, ReceiveReturnsPInv DEF DeliverFails
<1>3. ASSUME NEW t \in Subs, Count(d, t) PROVE PInv'
  BY <1>3, CountPInv
\* Before the first object nothing has failed, and is given to nobody.
<1>4. CASE TakeStream(d) \/ HeaderLost(d) \/ AliasKnown(d) \/ Copy(d) \/ AliasWaitEnds(d)
  <2>1. /\ UNCHANGED <<pub, answers, announced, owner, ending, app, reader, done, ended, waiter, delivery, session,
                       failed>>
        /\ phase[d] \in {"idle", "await", "copy"}
    BY <1>4 DEF TakeStream, HeaderLost, AliasKnown, Copy, AliasWaitEnds, publisher, subscriber, request, counting
  <2>2. given[d] = {} /\ ~failed[d]
    BY <2>1 DEF OInv, HandlerInv
  <2>3. /\ given'[d] = {} \/ phase'[d] = "deliver"
        /\ \A c \in Streams \ {d} : phase'[c] = phase[c] /\ given'[c] = given[c]
    <3>1. CASE TakeStream(d) \/ HeaderLost(d)
      BY <2>2, <3>1, TakeStreamOwn DEF TakeStream, HeaderLost, ToPhase, IInv, Typed
    <3>2. CASE AliasKnown(d)
      BY <2>2, <3>2, AliasKnownOwn DEF AliasKnown, ToPhase, IInv, Typed
    <3>3. CASE Copy(d)
      BY <3>3, CopyOwn DEF OInv, DeliveryTyped
    <3>4. CASE AliasWaitEnds(d)
      BY <3>4, AliasWaitEndsOwn DEF OInv, DeliveryTyped
    <3>5. QED
      BY <1>4, <3>1, <3>2, <3>3, <3>4
  <2>4. FailedInv(d)'
    BY <2>1, <2>2 DEF FailedInv
  <2>5. QED
    BY <2>1, <2>2, <2>3, <2>4, HandlerKeeps
\* What has failed stays so, and those that are given it stay.
<1>5. ASSUME UNCHANGED <<pub, answers, announced, owner, ending, app, reader, done, ended, waiter, delivery, session,
                         failed>>,
             given' = given, phase'[d] \in {"signal", "over"} <=> phase[d] \in {"signal", "over"},
             \A c \in Streams \ {d} : phase'[c] = phase[c]
      PROVE  PInv'
  <2>1. FailedInv(d)'
    BY <1>5 DEF PInv, FailedInv, Complete
  <2>2. /\ \A c \in Streams \ {d} : phase'[c] = phase[c] /\ given'[c] = given[c] /\ failed'[c] = failed[c]
        /\ \A s \in Subs : s \in given'[d] /\ phase'[d] \in {"signal", "over"}
                            <=> s \in given[d] /\ phase[d] \in {"signal", "over"}
    BY <1>5
  <2>3. QED
    BY <1>5, <2>1, <2>2, HandlerKeeps
<1>6. CASE NextObject(d)
  BY <1>5, <1>6, NextObjectOwn DEF NextObject, publisher, subscriber, request, counting
<1>7. ASSUME NEW t \in Subs, Deliver(d, t) \/ Mark(d, t) \/ Signal(d, t) PROVE PInv'
  <2>1. UNCHANGED <<pub, answers, announced, owner, ending, app, reader, done, ended, waiter, delivery, session,
                    failed>>
    BY <1>7 DEF Deliver, Mark, Marks, Signal, Signals, publisher, request, counting
  <2>2. given' = given
    BY <1>7, TurnOwn
  <2>3. CASE Deliver(d, t)
    BY <1>5, <2>1, <2>2, <2>3 DEF Deliver
  <2>4. CASE Mark(d, t)
    <3>1. phase[d] = "mark" /\ phase' = [phase EXCEPT ![d] = "count"]
      BY <2>4 DEF Mark, Marks, ToPhase
    <3>2. phase'[d] = "count" /\ \A c \in Streams \ {d} : phase'[c] = phase[c]
      BY <3>1 DEF IInv, Typed
    <3>3. QED
      BY <1>5, <2>1, <2>2, <3>1, <3>2
  <2>5. CASE Signal(d, t)
    <3>1. phase[d] = "signal" /\ phase' = [phase EXCEPT ![d] = "over"]
      BY <2>5, TurnOwn DEF Signal, Signals
    <3>2. phase'[d] = "over" /\ \A c \in Streams \ {d} : phase'[c] = phase[c]
      BY <3>1 DEF IInv, Typed
    <3>3. QED
      BY <1>5, <2>1, <2>2, <3>1, <3>2
  <2>6. QED
    BY <1>7, <2>3, <2>4, <2>5
<1>8. QED
  BY <1>1, <1>2, <1>3, <1>4, <1>6, <1>7 DEF HandlerStep

LEMMA NextPInv == IInv /\ OwnInv /\ OInv /\ PInv /\ [Next]_vars => PInv'
<1> SUFFICES ASSUME IInv, OwnInv, OInv, PInv, [Next]_vars PROVE PInv'
  OBVIOUS
<1>1. CASE UNCHANGED vars
  <2>1. /\ UNCHANGED <<pub, answers, announced, owner, ending, app, reader, done, ended, waiter, delivery, phase,
                       tracks, failed, session>>
    BY <1>1 DEF vars, publisher, subscriber, request, counting, handlers
  <2>2. given' = given /\ \A t \in Subs : StreamsOf(t)' = StreamsOf(t)
    BY <2>1 DEF given, StreamsOf
  <2>3. \A t \in Subs : Answered(t)'
    BY <2>1, <2>2, AnsweredKept
  <2>4. QED
    BY <2>1, <2>2, <2>3, SaidPInv
<1>2. QED
  BY <1>1, PublisherPInv, ApplicationPInv, ReaderPInv, WaiterPInv, StreamPInv, HandlerPInv, SessionEndsPInv
     DEF Next

-----------------------------------------------------------------------------
(* The steps of RemoteTrack as steps of ObjectDelivery. *)

\* What ObjectDelivery sees of a subscription's count, its wait and its end.
CountedView == [s \in Subs |-> done[s] = "counted"]
ExpiredView == [s \in Subs |-> waiter[s] = "expired"]
Outcome == [s \in Subs |->
    CASE app[s] = "ended" /\ delivery[s] = "finished" -> "finished"
      [] app[s] = "closed" \/ (app[s] = "ended" /\ delivery[s] # "finished") -> "cut"
      [] OTHER -> "open"]

LEMMA OutcomeOf ==
  \A s \in Subs : Outcome[s] = IF app[s] \notin {"ended", "closed"} THEN "open"
                               ELSE IF app[s] = "ended" /\ delivery[s] = "finished" THEN "finished"
                               ELSE "cut"
BY DEF Outcome

\* The outcome moves with the application only: delivery has ended before ReadEnd.
LEMMA OutcomeKept ==
  ASSUME PInv,
         \A s \in Subs : app'[s] = app[s] \/ {app[s], app'[s]} \subseteq {"idle", "calling", "reading"},
         \A s \in Subs : delivery[s] # "open" => delivery'[s] = delivery[s]
  PROVE  Outcome' = Outcome
<1>1. \A s \in Subs : Outcome'[s] = Outcome[s]
  BY DEF PInv, Waits, Outcome
<1>2. QED
  BY <1>1 DEF Outcome

LEMMA Unseen ==
  UNCHANGED <<owner, sent, ending, got, CountedView, ExpiredView, Outcome>> => UNCHANGED Promise!vars
BY DEF CountedView, ExpiredView, Outcome, Promise!vars

LEMMA OpenRefines ==
  ASSUME PInv, NEW s \in Subs, NEW d \in Streams, OpenSubgroup(s, d)
  PROVE  Promise!Open(s, d)
<1>1. Outcome[s] # "finished"
  <2>1. delivery[s] # "finished"
    BY DEF OpenSubgroup, PInv, Waits
  <2>2. QED
    BY <2>1, OutcomeOf
<1>2. QED
  BY <1>1 DEF OpenSubgroup, subscriber, request, counting, Promise!Open, Outcome

LEMMA StreamRefines ==
  ASSUME NEW d \in Streams
  PROVE  /\ WriteObject(d) => Promise!Write(d)
         /\ \A how \in {"fin", "reset"} : EndSubgroup(d, how) => Promise!End(d, how)
<1>1. WriteObject(d) => Promise!Write(d)
  BY DEF WriteObject, subscriber, request, counting, Promise!Write
<1>2. ASSUME NEW how \in {"fin", "reset"} PROVE EndSubgroup(d, how) => Promise!End(d, how)
  BY DEF EndSubgroup, subscriber, request, counting, Promise!End
<1>3. QED
  BY <1>1, <1>2

\* What ReadObject returns of a stream was put on the channel, so read from the
\* stream, and so written.
LEMMA ReadObjectRefines ==
  ASSUME OInv, OInv', NEW s \in Subs, ReadObject(s)
  PROVE  (\E d \in Streams : Promise!Receive(s, d)) \/ UNCHANGED Promise!vars
<1>1. PICK d \in Streams : d = Head(objects[s]).stream
  <2>1. objects[s] \in Seq(Slot) /\ objects[s] # <<>>
    BY DEF OInv, DeliveryTyped, ReadObject
  <2>2. Head(objects[s]) \in Slot
    BY <2>1, HeadTailProperties
  <2>3. QED
    BY <2>2 DEF Slot
<1>2. /\ UNCHANGED <<owner, sent, ending, app, delivery, done, waiter>> /\ app[s] = "reading"
      /\ got' = [got EXCEPT ![s][d] = @ + IF Head(objects[s]).kind = "object" THEN 1 ELSE 0]
  BY <1>1 DEF ReadObject, publisher, request, counting
<1>3. UNCHANGED <<CountedView, ExpiredView, Outcome>> /\ Outcome[s] = "open"
  BY <1>2 DEF CountedView, ExpiredView, Outcome
<1>4. CASE Head(objects[s]).kind = "object"
  <2>1. got' = [got EXCEPT ![s][d] = @ + 1] /\ got'[s][d] = got[s][d] + 1
    BY <1>2, <1>4 DEF OInv, DeliveryTyped
  <2>2. /\ got'[s][d] \in Nat /\ got[s][d] \in Nat
        /\ got'[s][d] <= Delivered(s, d)'
    <3>1. /\ Len(objects'[s]) \in Nat /\ got'[s][d] \in Nat /\ got[s][d] \in Nat
      BY LenProperties DEF OInv, DeliveryTyped
    <3>2. Cardinality(Objs(objects'[s], d, Len(objects'[s]))) \in Nat
      BY <3>1, ObjsFinite
    <3>3. QED
      BY <3>1, <3>2 DEF Delivered
  <2>3. Delivered(s, d)' = Delivered(s, d) /\ Delivered(s, d) \in Nat
    BY TakeItem, DeliveredNat DEF OInv
  <2>4. Delivered(s, d) <= sent[d]
    BY <2>3 DEF OInv, DeliveryTyped, HandlerInv, DeliveredInv
  <2>5. got[s][d] < sent[d]
    BY <2>1, <2>2, <2>3, <2>4 DEF OInv, DeliveryTyped
  <2>6. Promise!Receive(s, d)
    BY <1>2, <1>3, <2>1, <2>5 DEF Promise!Receive, CountedView, ExpiredView, Outcome
  <2>7. QED
    BY <2>6
<1>5. CASE Head(objects[s]).kind # "object"
  <2>1. got' = got
    BY <1>2, <1>5 DEF OInv, DeliveryTyped
  <2>2. QED
    BY <1>2, <1>3, <2>1, Unseen
<1>6. QED
  BY <1>4, <1>5

\* ReadObject says that the publisher has finished.  If delivery ended as counted,
\* every stream's end has been delivered and so, of the finished ones, every
\* object.
LEMMA ReadEndRefines ==
  ASSUME IInv, OwnInv, OInv, PInv, NEW s \in Subs, ReadEnd(s)
  PROVE  \E how \in {"finished", "cut"} : Promise!Finish(s, how)
<1>1. PICK how \in {"finished", "cut"} : how = "finished" <=> delivery[s] = "finished"
  OBVIOUS
<1>2. /\ UNCHANGED <<owner, sent, ending, got, delivery, done, waiter>> /\ objects[s] = <<>>
      /\ app[s] = "reading" /\ app' = [app EXCEPT ![s] = "ended"] /\ delivery[s] # "open"
  BY DEF ReadEnd, publisher, request, counting
<1>3. Outcome[s] = "open" /\ Outcome' = [Outcome EXCEPT ![s] = how]
  BY <1>1, <1>2 DEF Outcome, IInv, Typed
<1>4. ASSUME Complete(s), NEW d \in Streams, owner[d] = s
      PROVE  ending[d] # "open" /\ (ending[d] = "fin" => got[s][d] = sent[d])
  <2>1. d \in StreamsOf(s)
    BY <1>4 DEF StreamsOf
  <2>2. s \in given[d] /\ phase[d] \in {"signal", "over"}
    BY <1>4, <2>1 DEF PInv, CountOf, Counted
  <2>3. ending[d] # "open"
    BY <1>4, <2>1 DEF PInv, Answered, Announced, Complete
  <2>4. ending[d] = "fin" => ~failed[d]
    BY <1>4, <2>2 DEF PInv, FailedInv
  <2>5. ~failed[d] => read[d] = sent[d] /\ Delivered(s, d) = read[d]
    BY <2>2 DEF OInv, HandlerInv, DeliveredInv, Whole, Ending
  <2>6. Delivered(s, d) = got[s][d]
    <3>1. Objs(objects[s], d, Len(objects[s])) = {} /\ got[s][d] \in Nat
      BY <1>2 DEF Objs, OInv, DeliveryTyped
    <3>2. QED
      BY <3>1, FS_EmptySet DEF Delivered
  <2>7. QED
    BY <2>3, <2>4, <2>5, <2>6
<1>5. how = "finished" /\ CountedView[s] /\ ~ExpiredView[s] => Complete(s)
  BY <1>1 DEF Complete, CountedView, ExpiredView
<1>6. Promise!Finish(s, how)
  BY <1>2, <1>3, <1>4, <1>5 DEF Promise!Finish, CountedView, ExpiredView, Outcome
<1>7. QED
  BY <1>6

LEMMA CutRefines ==
  ASSUME IInv, PInv, NEW s \in Subs, SubscribeFails(s) \/ Close(s)
  PROVE  Promise!Finish(s, "cut")
<1>1. /\ UNCHANGED <<owner, sent, ending, got, done, waiter>> /\ app[s] \in {"calling", "reading"}
      /\ app' = [app EXCEPT ![s] = "closed"]
      /\ delivery' = delivery \/ delivery' = [delivery EXCEPT ![s] = IF @ = "open" THEN "abrupt" ELSE @]
  BY DEF SubscribeFails, Close, FinishDelivery, publisher, request, counting
<1>2. Outcome[s] = "open" /\ Outcome' = [Outcome EXCEPT ![s] = "cut"]
  <2>1. \A t \in Subs \ {s} : app'[t] = app[t] /\ delivery'[t] = delivery[t]
    BY <1>1 DEF IInv, Typed, PInv, PromiseTyped
  <2>2. app'[s] = "closed"
    BY <1>1 DEF IInv, Typed
  <2>3. Outcome[s] = "open" /\ Outcome'[s] = "cut" /\ \A t \in Subs \ {s} : Outcome'[t] = Outcome[t]
    BY <1>1, <2>1, <2>2 DEF Outcome
  <2>4. QED
    BY <2>3 DEF Outcome
<1>3. QED
  BY <1>1, <1>2 DEF Promise!Finish, CountedView, ExpiredView, Outcome

\* The PUBLISH_DONE that counts is the first, and comes before delivery ends.
LEMMA AnnounceRefines ==
  ASSUME IInv, OwnInv, PInv, NEW s \in Subs, ReadPublishDone(s)
  PROVE  Promise!Announce(s) \/ UNCHANGED Promise!vars
<1>1. PICK message \in Tells :
        /\ Reads(s, message) /\ UNCHANGED <<reader, waiter, delivery, session>>
        /\ done' = [done EXCEPT ![s] = IF message = "done" THEN "counted" ELSE "uncounted"]
  BY DEF ReadPublishDone, ReadsOn, Tells
<1>2. /\ UNCHANGED <<owner, sent, ending, got, app>> /\ reader[s] = "reading" /\ done[s] = "none"
      /\ \A t \in Subs \ {s} : done'[t] = done[t]
      /\ done'[s] = IF message = "done" THEN "counted" ELSE "uncounted"
  BY <1>1, ReadsTell DEF Reads, IInv, Typed
<1>3. UNCHANGED <<ExpiredView, Outcome>>
  BY <1>1, <1>2 DEF ExpiredView, Outcome
<1>4. Outcome[s] # "finished"
  BY <1>2, OutcomeOf DEF PInv, Waits
<1>5. CASE message = "done"
  <2>1. ~CountedView[s] /\ CountedView' = [CountedView EXCEPT ![s] = TRUE]
    BY <1>2, <1>5 DEF CountedView
  <2>2. QED
    BY <1>2, <1>3, <1>4, <2>1 DEF Promise!Announce, CountedView, ExpiredView, Outcome
<1>6. CASE message # "done"
  <2>1. CountedView' = CountedView
    BY <1>2, <1>6 DEF CountedView
  <2>2. QED
    BY <1>2, <1>3, <2>1, Unseen
<1>7. QED
  BY <1>5, <1>6

LEMMA ExpireRefines ==
  ASSUME IInv, OwnInv, PInv, NEW s \in Subs, WaiterGivesUp(s, "expired")
  PROVE  Promise!Expire(s)
<1>1. /\ UNCHANGED <<owner, sent, ending, got, app, done>> /\ waiter[s] = "select"
      /\ waiter' = [waiter EXCEPT ![s] = "expired"]
      /\ delivery' = [delivery EXCEPT ![s] = IF @ = "open" THEN "finished" ELSE @]
  BY DEF WaiterGivesUp, FinishDelivery, publisher, request
<1>2. done[s] = "counted" /\ delivery[s] # "finished"
  BY <1>1 DEF PInv, Waits
<1>3. Outcome' = Outcome
  <2>1. \A t \in Subs : delivery[t] # "open" => delivery'[t] = delivery[t]
    BY <1>1 DEF PInv, PromiseTyped
  <2>2. QED
    BY <1>1, <2>1, OutcomeKept
<1>4. CountedView' = CountedView /\ CountedView[s] /\ ~ExpiredView[s] /\ Outcome[s] # "finished"
  BY <1>1, <1>2, OutcomeOf DEF CountedView, ExpiredView
<1>5. ExpiredView' = [ExpiredView EXCEPT ![s] = TRUE]
  BY <1>1 DEF ExpiredView, IInv, Typed
<1>6. QED
  BY <1>1, <1>3, <1>4, <1>5 DEF Promise!Expire, CountedView, ExpiredView, Outcome

\* Everything else.
LEMMA OtherRefines ==
  ASSUME PInv, UNCHANGED <<owner, sent, ending, got, done>>,
         \A s \in Subs : waiter'[s] = "expired" <=> waiter[s] = "expired",
         \A s \in Subs : app'[s] = app[s] \/ {app[s], app'[s]} \subseteq {"idle", "calling", "reading"},
         delivery' = delivery
           \/ (\E s \in Subs, cause \in Cause : delivery' = [delivery EXCEPT ![s] = IF @ = "open" THEN cause ELSE @])
           \/ delivery' = [s \in Subs |-> IF delivery[s] = "open" THEN "abrupt" ELSE delivery[s]]
  PROVE  UNCHANGED Promise!vars
<1>1. \A s \in Subs : delivery[s] # "open" => delivery'[s] = delivery[s]
  BY DEF PInv, PromiseTyped
<1>2. UNCHANGED <<CountedView, ExpiredView>>
  BY DEF CountedView, ExpiredView
<1>3. QED
  BY <1>1, <1>2, OutcomeKept, Unseen

LEMMA SubscriberRefines ==
  ASSUME IInv, OwnInv, PInv, NEW s \in Subs, ReaderStep(s) \/ WaiterStep(s)
  PROVE  [Promise!Next]_(Promise!vars)
<1>1. CASE ReadPublishDone(s)
  BY <1>1, AnnounceRefines DEF Promise!Next
<1>2. CASE WaiterGivesUp(s, "expired")
  BY <1>2, ExpireRefines DEF Promise!Next
<1>3. CASE ReaderStep(s) /\ ~ReadPublishDone(s)
  <2>1. UNCHANGED <<owner, sent, ending, got, app, done>>
    BY <1>3 DEF ReaderStep, ReadOk, ReadDuplicate, ReadError, ReadStreamEnd, ReadFails, ReadsOn, Reads, RunEnds,
         Unroute, publisher, request
  <2>2. waiter' = waiter \/ (\E t \in Subs : waiter[t] = "off" /\ waiter' = [waiter EXCEPT ![t] = "check"])
    <3>1. ASSUME NEW clean, RunEnds(s, clean), reader[s] = "reading"
          PROVE  waiter' = waiter \/ (waiter[s] = "off" /\ waiter' = [waiter EXCEPT ![s] = "check"])
      BY <3>1 DEF RunEnds, PInv, Waits
    <3>2. QED
      BY <1>3, <3>1 DEF ReaderStep, ReadOk, ReadDuplicate, ReadError, ReadStreamEnd, ReadFails, ReadsOn, Reads,
           Unroute, counting
  <2>3. delivery' = delivery
          \/ (\E cause \in Cause : delivery' = [delivery EXCEPT ![s] = IF @ = "open" THEN cause ELSE @])
          \/ delivery' = [t \in Subs |-> IF delivery[t] = "open" THEN "abrupt" ELSE delivery[t]]
    BY <1>3 DEF ReaderStep, ReadOk, ReadDuplicate, ReadError, ReadStreamEnd, ReadFails, ReadsOn, RunEnds, Unroute,
         FinishDelivery, Cause
  <2>4. \A t \in Subs : waiter'[t] = "expired" <=> waiter[t] = "expired"
    BY <2>2 DEF IInv, Typed
  <2>5. QED
    BY <2>1, <2>3, <2>4, OtherRefines
<1>4. CASE WaiterStep(s) /\ ~WaiterGivesUp(s, "expired")
  <2>1. UNCHANGED <<owner, sent, ending, got, app, done>>
    BY <1>4 DEF WaiterStep, WaiterChecks, WaiterWakes, WaiterGivesUp, publisher, request
  <2>2. /\ delivery' = delivery
           \/ delivery' = [delivery EXCEPT ![s] = IF @ = "open" THEN "finished" ELSE @]
        /\ waiter[s] \in {"check", "select"}
        /\ \E next \in {"check", "select", "over"} : waiter' = [waiter EXCEPT ![s] = next]
    BY <1>4 DEF WaiterStep, WaiterChecks, WaiterWakes, WaiterGivesUp, FinishDelivery
  <2>3. \A t \in Subs : waiter'[t] = "expired" <=> waiter[t] = "expired"
    BY <2>2 DEF IInv, Typed
  <2>4. QED
    BY <2>1, <2>2, <2>3, OtherRefines DEF Cause
<1>5. QED
  BY <1>1, <1>2, <1>3, <1>4

LEMMA NextRefines ==
  IInv /\ OwnInv /\ OInv /\ PInv /\ OInv' /\ [Next]_vars => [Promise!Next]_(Promise!vars)
<1> SUFFICES ASSUME IInv, OwnInv, OInv, PInv, OInv', [Next]_vars PROVE [Promise!Next]_(Promise!vars)
  OBVIOUS
<1>1. ASSUME NEW s \in Subs, PublisherStep(s) PROVE [Promise!Next]_(Promise!vars)
  <2>1. ASSUME NEW d \in Streams, OpenSubgroup(s, d) PROVE Promise!Next
    BY <2>1, OpenRefines DEF Promise!Next
  <2>2. ASSUME ~ \E d \in Streams : OpenSubgroup(s, d) PROVE UNCHANGED Promise!vars
    <3>1. UNCHANGED <<owner, sent, ending, got, app, delivery, done, waiter>>
      BY <1>1, <2>2 DEF PublisherStep, SubscribeOk, Refuse, PublishDone, subscriber, request, counting
    <3>2. QED
      BY <3>1, OtherRefines
  <2>3. QED
    BY <2>1, <2>2
<1>2. ASSUME NEW s \in Subs, ApplicationStep(s) PROVE [Promise!Next]_(Promise!vars)
  <2>1. CASE Subscribe(s) \/ Subscribed(s)
    <3>1. /\ UNCHANGED <<owner, sent, ending, got, delivery, done, waiter>>
          /\ \A t \in Subs : app'[t] = app[t] \/ {app[t], app'[t]} \subseteq {"idle", "calling", "reading"}
      BY <2>1 DEF Subscribe, Subscribed, publisher, request, counting, IInv, Typed
    <3>2. QED
      BY <3>1, OtherRefines
  <2>2. CASE SubscribeFails(s) \/ Close(s)
    BY <2>2, CutRefines DEF Promise!Next
  <2>3. CASE ReadObject(s)
    BY <2>3, ReadObjectRefines DEF Promise!Next
  <2>4. CASE ReadEnd(s)
    BY <2>4, ReadEndRefines DEF Promise!Next
  <2>5. QED
    BY <1>2, <2>1, <2>2, <2>3, <2>4 DEF ApplicationStep
<1>3. ASSUME NEW s \in Subs, ReaderStep(s) \/ WaiterStep(s) PROVE [Promise!Next]_(Promise!vars)
  BY <1>3, SubscriberRefines
<1>4. ASSUME NEW d \in Streams, StreamStep(d) PROVE Promise!Next
  BY <1>4, StreamRefines DEF StreamStep, Promise!Next
<1>5. ASSUME NEW d \in Streams, HandlerStep(d) PROVE UNCHANGED Promise!vars
  <2>1. UNCHANGED <<owner, sent, ending, got, app, delivery, done, waiter>>
    BY <1>5 DEF HandlerStep, TakeStream, HeaderLost, AliasKnown, Copy, AliasWaitEnds, NextObject, StreamEnds,
         ReceiveReturns, Deliver, DeliverFails, Mark, Marks, Count, Signal, Signals, publisher, subscriber,
         request, counting
  <2>2. QED
    BY <2>1, OtherRefines
<1>6. CASE SessionEnds
  BY <1>6, OtherRefines DEF SessionEnds, publisher, request, counting
<1>7. CASE UNCHANGED vars
  BY <1>7, OtherRefines DEF vars, publisher, subscriber, request, counting
<1>8. QED
  BY <1>1, <1>2, <1>3, <1>4, <1>5, <1>6, <1>7 DEF Next

\* ReadObject and PUBLISH_DONE, for any number of subscriptions and streams: a
\* subscriber whose publisher gives each subscription a Track Alias of its own,
\* as newTrackAlias does, implements ObjectDelivery.  The application reads each
\* stream in order and nothing twice, and when delivery ends as finished it has
\* read the whole of every stream that finished, unless the publisher did not
\* count its streams or the grace period ran out.
THEOREM PromiseKept == ASSUME ~Reuse PROVE Spec => KeepsPromise
<1>1. ASSUME Init PROVE Promise!Init
  <2>1. CountedView = [s \in Subs |-> FALSE] /\ ExpiredView = [s \in Subs |-> FALSE]
    BY <1>1 DEF Init, CountedView, ExpiredView
  <2>2. Outcome = [s \in Subs |-> "open"]
    BY <1>1 DEF Init, Outcome
  <2>3. QED
    BY <1>1, <2>1, <2>2 DEF Init, Promise!Init, CountedView, ExpiredView, Outcome
<1>2. Init => IInv /\ OwnInv /\ OInv /\ PInv
  BY InitIInv, InitOwnInv, InitOInv, InitPInv
<1>3. IInv /\ OwnInv /\ OInv /\ PInv /\ [Next]_vars
        => IInv' /\ OwnInv' /\ OInv' /\ PInv' /\ [Promise!Next]_(Promise!vars)
  BY NextIInv, NextOwn, NextOInv, NextPInv, NextRefines
<1>4. QED
  BY <1>1, <1>2, <1>3, PTL DEF Spec, KeepsPromise, Promise!Spec
==============================================================================
