---------------------------- MODULE SessionProofs ----------------------------
(***************************************************************************)
(* Theorems about Session, for any streams of the peer and any limit.      *)
(***************************************************************************)
EXTENDS Session, FiniteSetTheorems, TLAPS

\* Every variable has its type; the bound on the streams held is apart.
Typed ==
    /\ run \in {"open", "await", "setup", "uni", "returned", "failed"}
    /\ cause \in {"none", "closed", "lost"}
    /\ conn \in {"up", "closed", "lost"} /\ closing \in BOOLEAN
    /\ place \in [Stream -> Places]
    /\ released \in [Queue -> BOOLEAN]
    /\ loop \in [Queue -> {"accepting", "losing", "over"}]
    /\ first \in [Control -> {"none", "good", "bad"}]
    /\ adopted \in BOOLEAN /\ ready \in BOOLEAN /\ remoteErr \in BOOLEAN /\ peerSetup \in BOOLEAN

Bounded == \A q \in Queue : Cardinality(Waiting(q)) <= Limit

\* Run has the peer's SETUP once it is past the wait, and the queues are released
\* by the two steps after it.
SetupInv ==
    /\ ready => peerSetup \/ remoteErr
    /\ run \in {"setup", "uni", "returned"} => peerSetup
    /\ released["uni"] <=> run \in {"uni", "returned"}
    /\ released["bidi"] <=> run = "returned"

\* A stream is held before its queue is released, and handled after.
QueueInv ==
    \A s \in Uni \cup Bidi :
        /\ place[s] = "held" => ~released[QueueOf(s)]
        /\ place[s] = "handled" => released[QueueOf(s)]

IInv == Typed /\ Bounded /\ SetupInv /\ QueueInv

\* Why the session ended, and what became of its connection.
CauseInv ==
    /\ OwnCauseStands
    /\ closing => ~live
    /\ cause = "lost" => conn = "lost"
    /\ \A q \in Queue : loop[q] = "losing" /\ live => conn = "lost"

LEMMA WaitingFinite == \A q \in Queue : IsFiniteSet(Waiting(q))
<1>1. IsFiniteSet(Uni \cup Bidi)
  BY ConstantsAssumption, FS_Union
<1>2. QED
  BY <1>1, FS_Subset DEF Waiting

LEMMA InitIInv == Init => IInv
<1> SUFFICES ASSUME Init PROVE IInv
  OBVIOUS
<1>1. Typed /\ SetupInv /\ QueueInv
  BY DEF Init, Typed, SetupInv, QueueInv, Queue, Stream, Places, QueueOf
<1>2. \A q \in Queue : Waiting(q) = {}
  BY DEF Init, Waiting, Stream
<1>3. Bounded
  BY <1>2, FS_EmptySet, ConstantsAssumption DEF Bounded
<1>4. QED
  BY <1>1, <1>3 DEF IInv

\* A queue that does not grow keeps to its limit.
LEMMA StaysBounded ==
  ASSUME Bounded, \A q \in Queue : Waiting(q)' \subseteq Waiting(q)
  PROVE  Bounded'
<1> SUFFICES ASSUME NEW q \in Queue PROVE Cardinality(Waiting(q)') <= Limit
  BY DEF Bounded
<1>1. IsFiniteSet(Waiting(q))
  BY WaitingFinite
<1>2. /\ Cardinality(Waiting(q)') <= Cardinality(Waiting(q))
      /\ Cardinality(Waiting(q)) \in Nat /\ Cardinality(Waiting(q)') \in Nat
  BY <1>1, FS_Subset, FS_CardinalityType
<1>3. QED
  BY <1>2, ConstantsAssumption DEF Bounded

\* A step that leaves the streams and Run where they are.
LEMMA ElsewhereIInv ==
  ASSUME IInv, Typed', UNCHANGED <<run, place, released, peerSetup>>,
         ready' => ready \/ remoteErr', remoteErr => remoteErr'
  PROVE  IInv'
<1>1. Bounded'
  <2>1. \A q \in Queue : Waiting(q)' \subseteq Waiting(q)
    BY DEF Waiting
  <2>2. QED
    BY <2>1, StaysBounded DEF IInv
<1>2. SetupInv' /\ QueueInv'
  BY DEF IInv, SetupInv, QueueInv
<1>3. QED
  BY <1>1, <1>2 DEF IInv

\* A step of one stream that does not put it into a queue.
LEMMA MovesIInv ==
  ASSUME IInv, NEW s \in Stream, NEW from, NEW to \in Places, Moves(s, from, to), Typed',
         to # "held", to = "handled" => released[QueueOf(s)],
         ready' => peerSetup' \/ remoteErr', peerSetup => peerSetup'
  PROVE  IInv'
<1>1. Bounded'
  <2>1. \A q \in Queue : Waiting(q)' \subseteq Waiting(q)
    BY DEF Moves, Waiting, IInv, Typed, Stream
  <2>2. QED
    BY <2>1, StaysBounded DEF IInv
<1>2. SetupInv'
  BY DEF Moves, IInv, SetupInv
<1>3. QueueInv'
  BY DEF Moves, IInv, QueueInv, Typed, Stream
<1>4. QED
  BY <1>1, <1>2, <1>3 DEF IInv

\* hold counts what is held before it adds a stream.
LEMMA HoldIInv ==
  ASSUME IInv, NEW s \in Uni \cup Bidi, NEW from \in {"none", "accepted"}, Hold(s, from),
         UNCHANGED <<ending, control>>
  PROVE  IInv'
<1>1. s \in Stream
  BY DEF Stream
<1>2. ASSUME NEW to \in Places, Moves(s, from, to)
      PROVE  Typed'
  BY <1>1, <1>2 DEF Moves, IInv, Typed, ending, control
<1>3. CASE released[QueueOf(s)] /\ Moves(s, from, "handled")
  <2>1. Typed'
    BY <1>2, <1>3 DEF Places
  <2>2. QED
    BY <1>1, <1>3, <2>1, MovesIInv DEF Places, ending, control, IInv, SetupInv, live
<1>4. CASE Moves(s, from, "gone")
  <2>1. Typed'
    BY <1>2, <1>4 DEF Places
  <2>2. QED
    BY <1>1, <1>4, <2>1, MovesIInv DEF Places, ending, control, IInv, SetupInv, live
<1>5. CASE /\ ~released[QueueOf(s)] /\ Cardinality(Waiting(QueueOf(s))) < Limit
           /\ Moves(s, from, "held")
  <2>1. Typed'
    BY <1>2, <1>5 DEF Places
  <2>2. Waiting(QueueOf(s))' = Waiting(QueueOf(s)) \cup {s}
    BY <1>1, <1>5 DEF Moves, Waiting, IInv, Typed, Stream
  <2>3. \A q \in Queue \ {QueueOf(s)} : Waiting(q)' = Waiting(q)
    BY <1>1, <1>5 DEF Moves, Waiting, IInv, Typed, Stream
  <2>4. s \notin Waiting(QueueOf(s)) /\ QueueOf(s) \in Queue
    BY <1>5 DEF Moves, Waiting, QueueOf, Queue
  <2>5. /\ IsFiniteSet(Waiting(QueueOf(s)))
        /\ Cardinality(Waiting(QueueOf(s))) \in Nat
    BY <2>4, WaitingFinite, FS_CardinalityType
  <2>6. Cardinality(Waiting(QueueOf(s))') = Cardinality(Waiting(QueueOf(s))) + 1
    BY <2>2, <2>4, <2>5, FS_AddElement
  <2>7. Bounded'
    <3>1. Cardinality(Waiting(QueueOf(s))') <= Limit
      BY <1>5, <2>5, <2>6, ConstantsAssumption
    <3>2. QED
      BY <2>3, <3>1 DEF Bounded, IInv
  <2>8. SetupInv'
    BY <1>5 DEF Moves, IInv, SetupInv, ending, control, live
  <2>9. QueueInv'
    BY <1>1, <1>5 DEF Moves, IInv, QueueInv, Typed, Stream
  <2>10. QED
    BY <2>1, <2>7, <2>8, <2>9 DEF IInv
<1>6. QED
  BY <1>3, <1>4, <1>5 DEF Hold

\* release empties its queue, and the other stays as it was.
LEMMA ReleaseIInv ==
  ASSUME IInv, Typed', NEW q \in Queue, Release(q), UNCHANGED <<ending, control>>,
         \/ q = "uni" /\ run = "setup" /\ run' = "uni"
         \/ q = "bidi" /\ run = "uni" /\ run' = "returned"
  PROVE  IInv'
<1>1. Bounded'
  <2>1. \A r \in Queue : Waiting(r)' \subseteq Waiting(r)
    BY DEF Release, Waiting, Stream
  <2>2. QED
    BY <2>1, StaysBounded DEF IInv
<1>2. released' = [released EXCEPT ![q] = TRUE] /\ released \in [Queue -> BOOLEAN]
  BY DEF Release, IInv, Typed
<1>3. SetupInv'
  BY <1>2 DEF IInv, SetupInv, Queue, control
<1>4. QueueInv'
  <2>1. SUFFICES ASSUME NEW s \in Uni \cup Bidi
                 PROVE  /\ place'[s] = "held" => ~released'[QueueOf(s)]
                        /\ place'[s] = "handled" => released'[QueueOf(s)]
    BY DEF QueueInv
  <2>2. s \in Stream /\ QueueOf(s) \in Queue
    BY DEF Stream, QueueOf, Queue
  <2>3. CASE QueueOf(s) = q
    BY <1>2, <2>2, <2>3 DEF Release, Waiting, IInv, QueueInv
  <2>4. CASE QueueOf(s) # q
    BY <1>2, <2>2, <2>4 DEF Release, Waiting, IInv, QueueInv
  <2>5. QED
    BY <2>3, <2>4
<1>5. QED
  BY <1>1, <1>3, <1>4 DEF IInv

\* Steps of Run, whose release is the only one that moves a stream.
LEMMA RunIInv == ASSUME IInv, RunStep \/ CallerCancels PROVE IInv'
<1>1. ASSUME NEW from \in {"open", "await"}, RunFails(from) PROVE IInv'
  <2>1. Typed'
    BY <1>1 DEF RunFails, RunAt, CloseWithError, IInv, Typed, live, control
  <2>2. Bounded'
    <3>1. \A q \in Queue : Waiting(q)' \subseteq Waiting(q)
      BY <1>1 DEF RunFails, Waiting
    <3>2. QED
      BY <3>1, StaysBounded DEF IInv
  <2>3. SetupInv' /\ QueueInv'
    BY <1>1 DEF RunFails, RunAt, CloseWithError, IInv, SetupInv, QueueInv,
                live, control
  <2>4. QED
    BY <2>1, <2>2, <2>3 DEF IInv
<1>2. ASSUME UNCHANGED <<ending, place, released>>,
             \/ up /\ RunAt("open", "await")
             \/ ready /\ ~remoteErr /\ RunAt("await", "setup")
      PROVE  IInv'
  <2>1. Typed'
    BY <1>2 DEF RunAt, IInv, Typed, control, ending
  <2>2. Bounded'
    <3>1. \A q \in Queue : Waiting(q)' \subseteq Waiting(q)
      BY <1>2 DEF Waiting
    <3>2. QED
      BY <3>1, StaysBounded DEF IInv
  <2>3. SetupInv' /\ QueueInv'
    BY <1>2 DEF RunAt, IInv, SetupInv, QueueInv, live, control, ending
  <2>4. QED
    BY <2>1, <2>2, <2>3 DEF IInv
<1>3. CASE RunOpens \/ CallerCancels
  BY <1>1, <1>2, <1>3 DEF RunOpens, CallerCancels
<1>4. CASE RunAwaits
  BY <1>1, <1>2, <1>4 DEF RunAwaits
<1>5. ASSUME NEW q \in Queue, Release(q), UNCHANGED ending,
             NEW from, NEW to \in {"uni", "returned"}, RunAt(from, to)
      PROVE  Typed'
  <2>1. place' \in [Stream -> Places]
    BY <1>5 DEF Release, IInv, Typed, Places
  <2>2. QED
    BY <1>5, <2>1 DEF Release, RunAt, IInv, Typed, control, ending
<1>6. CASE RunReleasesUni
  <2>1. Typed'
    BY <1>5, <1>6 DEF RunReleasesUni, Queue
  <2>2. QED
    BY <1>6, <2>1, ReleaseIInv DEF RunReleasesUni, RunAt, Queue
<1>7. CASE RunReleasesBidi
  <2>1. Typed'
    BY <1>5, <1>7 DEF RunReleasesBidi, Queue
  <2>2. QED
    BY <1>7, <2>1, ReleaseIInv DEF RunReleasesBidi, RunAt, Queue
<1>8. QED
  BY <1>3, <1>4, <1>6, <1>7 DEF RunStep

\* Steps that leave Run and the streams alone.
LEMMA EndingIInv ==
  ASSUME IInv,
         \/ ConnectionLost \/ Close \/ CloseConnection
         \/ \E q \in Queue : LoopEnds(q)
         \/ \E c \in Control, what \in {"good", "bad"} : PeerWrites(c, what)
  PROVE  IInv'
<1>1. CASE ConnectionLost \/ CloseConnection
  <2>1. Typed'
    BY <1>1 DEF ConnectionLost, CloseConnection, IInv, Typed, control
  <2>2. QED
    BY <1>1, <2>1, ElsewhereIInv DEF ConnectionLost, CloseConnection, control
<1>2. CASE Close
  <2>1. Typed'
    BY <1>2 DEF Close, CloseWithError, IInv, Typed, control
  <2>2. QED
    BY <1>2, <2>1, ElsewhereIInv DEF Close, control
<1>3. ASSUME NEW q \in Queue, LoopEnds(q) PROVE IInv'
  <2>1. Typed'
    BY <1>3 DEF LoopEnds, AcceptFails, ConnectionLostEnds, FailRemote, IInv, Typed, live,
                ending, control
  <2>2. QED
    BY <1>3, <2>1, ElsewhereIInv
       DEF LoopEnds, AcceptFails, ConnectionLostEnds, FailRemote, live, ending, control
<1>4. ASSUME NEW c \in Control, NEW what \in {"good", "bad"}, PeerWrites(c, what) PROVE IInv'
  <2>1. Typed'
    BY <1>4 DEF PeerWrites, IInv, Typed, ending, control
  <2>2. QED
    BY <1>4, <2>1, ElsewhereIInv DEF PeerWrites, ending, control, live
<1>5. QED
  BY <1>1, <1>2, <1>3, <1>4

\* Steps of the streams: only hold puts one into a queue.
LEMMA StreamIInv ==
  ASSUME IInv,
         \/ \E s \in Uni : AcceptUni(s, "none") \/ ClassifyUni(s)
         \/ \E s \in Bidi : AcceptBidi(s) \/ RequestFails(s)
  PROVE  IInv'
<1>1. ASSUME NEW s \in Uni \cup Bidi, NEW from, NEW to \in {"accepted", "gone"},
             Moves(s, from, to), UNCHANGED ending \/ CloseWithError, UNCHANGED control
      PROVE  IInv'
  <2>1. s \in Stream /\ to \in Places /\ to # "held" /\ to # "handled"
    BY DEF Stream, Places
  <2>2. Typed'
    BY <1>1, <2>1 DEF Moves, CloseWithError, IInv, Typed, live, ending, control
  <2>3. /\ ready' => peerSetup' \/ remoteErr'
        /\ peerSetup => peerSetup'
    BY <1>1 DEF IInv, SetupInv, control
  <2>4. QED
    BY <1>1, <2>1, <2>2, <2>3, MovesIInv
<1>2. ASSUME NEW s \in Uni, AcceptUni(s, "none") PROVE IInv'
  BY <1>1, <1>2 DEF AcceptUni
<1>3. ASSUME NEW s \in Uni, ClassifyUni(s) PROVE IInv'
  <2>1. CASE Hold(s, "accepted") /\ UNCHANGED ending
    BY <1>3, <2>1, HoldIInv DEF ClassifyUni
  <2>2. CASE Moves(s, "accepted", "gone") /\ (UNCHANGED ending \/ CloseWithError)
    BY <1>1, <1>3, <2>2 DEF ClassifyUni
  <2>3. QED
    BY <1>3, <2>1, <2>2 DEF ClassifyUni
<1>4. ASSUME NEW s \in Bidi, AcceptBidi(s) PROVE IInv'
  BY <1>4, HoldIInv DEF AcceptBidi
<1>5. ASSUME NEW s \in Bidi, RequestFails(s) PROVE IInv'
  BY <1>1, <1>5 DEF RequestFails
<1>6. QED
  BY <1>2, <1>3, <1>4, <1>5

\* Steps of a control stream, which no queue holds.
LEMMA ControlIInv ==
  ASSUME IInv, NEW c \in Control,
         PeerOpens(c) \/ ControlStep(c) \/ ControlStreamEnds(c)
  PROVE  IInv'
<1>1. ASSUME NEW from, NEW to \in {"arrived", "accepted", "adopted", "control", "gone"},
             Moves(c, from, to),
             UNCHANGED ending \/ CloseWithError,
             adopted' \in BOOLEAN, ready' \in BOOLEAN, remoteErr' \in BOOLEAN,
             peerSetup' \in BOOLEAN,
             peerSetup => peerSetup', ready' => peerSetup' \/ remoteErr'
      PROVE  IInv'
  <2>1. c \in Stream /\ to \in Places /\ to # "held" /\ to # "handled"
    BY DEF Stream, Places
  <2>2. Typed'
    BY <1>1, <2>1 DEF Moves, CloseWithError, IInv, Typed, live, ending
  <2>3. QED
    BY <1>1, <2>1, <2>2, MovesIInv
<1>2. CASE PeerOpens(c)
  <2>1. Moves(c, "none", "arrived")
    BY <1>2 DEF PeerOpens, Moves
  <2>2. QED
    BY <1>1, <1>2, <2>1 DEF PeerOpens, control, IInv, Typed, SetupInv
<1>3. CASE AcceptUni(c, "arrived")
  BY <1>1, <1>3 DEF AcceptUni, control, IInv, Typed, SetupInv
<1>4. CASE ClassifyControl(c)
  BY <1>1, <1>4 DEF ClassifyControl, IInv, Typed, SetupInv
<1>5. CASE ReadSetup(c)
  BY <1>1, <1>5 DEF ReadSetup, FailRemote, IInv, Typed, SetupInv
<1>6. CASE ControlStreamEnds(c)
  BY <1>1, <1>6 DEF ControlStreamEnds, control, IInv, Typed, SetupInv
<1>7. QED
  BY <1>2, <1>3, <1>4, <1>5, <1>6 DEF ControlStep

LEMMA NextIInv == IInv /\ [Next]_vars => IInv'
<1> SUFFICES ASSUME IInv, [Next]_vars PROVE IInv'
  OBVIOUS
<1>1. CASE RunStep \/ CallerCancels
  BY <1>1, RunIInv
<1>2. CASE UNCHANGED vars
  <2>1. Typed' /\ UNCHANGED <<run, place, released, peerSetup, ready, remoteErr>>
    BY <1>2 DEF vars, IInv, Typed
  <2>2. QED
    BY <2>1, ElsewhereIInv
<1>3. ASSUME NEW c \in Control, PeerStep(c) PROVE IInv'
  BY <1>3, ControlIInv, EndingIInv DEF PeerStep
<1>4. QED
  BY <1>1, <1>2, <1>3, EndingIInv, StreamIInv, ControlIInv DEF Next

\* Every reachable state satisfies the invariant the theorems below rest on.
THEOREM Inductive == Spec => []IInv
<1>1. QED
  BY InitIInv, NextIInv, PTL DEF Spec

\* pendingStreams: every variable keeps its type, and no queue ever holds more
\* streams than MaxPendingStreams.
THEOREM TypeCorrect == Spec => []TypeOK
<1>1. IInv => TypeOK
  BY DEF IInv, Typed, Bounded, TypeOK
<1>2. QED
  BY <1>1, Inductive, PTL

\* Section 3.3: no data or request stream is handled before the peer's SETUP is
\* known, whatever order the streams and SETUP come in.
THEOREM SetupFirst == Spec => []NothingBeforeSetup
<1>1. IInv => NothingBeforeSetup
  BY DEF IInv, SetupInv, QueueInv, NothingBeforeSetup, QueueOf
<1>2. QED
  BY <1>1, Inductive, PTL

\* hold and release: a stream that comes while Run releases its queue is handled
\* by one of the two, and none is left in it.
THEOREM NoneStranded == Spec => []NothingStranded
<1>1. IInv => NothingStranded
  BY DEF IInv, SetupInv, QueueInv, NothingStranded, Waiting, Queue
<1>2. QED
  BY <1>1, Inductive, PTL

\* What a step does to the end of the session, whatever else it does.
LEMMA NextCauseInv == IInv /\ CauseInv /\ [Next]_vars => CauseInv'
<1> SUFFICES ASSUME IInv, CauseInv, [Next]_vars PROVE CauseInv'
  OBVIOUS
<1>1. ASSUME UNCHANGED <<ending, loop>> PROVE CauseInv'
  BY <1>1 DEF CauseInv, OwnCauseStands, ending, live
<1>2. ASSUME CloseWithError, UNCHANGED loop PROVE CauseInv'
  BY <1>2 DEF CauseInv, OwnCauseStands, CloseWithError, live, IInv, Typed
<1>3. CASE ConnectionLost
  BY <1>3 DEF ConnectionLost, CauseInv, OwnCauseStands, live, up
<1>4. CASE CloseConnection
  BY <1>4 DEF CloseConnection, CauseInv, OwnCauseStands, live, up, IInv, Typed
<1>5. ASSUME NEW q \in Queue, AcceptFails(q) PROVE CauseInv'
  BY <1>5 DEF AcceptFails, CauseInv, OwnCauseStands, live, up, ending, IInv, Typed
<1>6. ASSUME NEW q \in Queue, ConnectionLostEnds(q) PROVE CauseInv'
  BY <1>6 DEF ConnectionLostEnds, CauseInv, OwnCauseStands, live, IInv, Typed
<1>7. CASE RunStep \/ CallerCancels
  BY <1>1, <1>2, <1>7 DEF RunStep, CallerCancels, RunOpens, RunAwaits, RunReleasesUni,
                          RunReleasesBidi, RunFails, RunAt
<1>8. ASSUME NEW s \in Uni, AcceptUni(s, "none") \/ ClassifyUni(s) PROVE CauseInv'
  BY <1>1, <1>2, <1>8 DEF AcceptUni, ClassifyUni, Hold, Moves
<1>9. ASSUME NEW s \in Bidi, AcceptBidi(s) \/ RequestFails(s) PROVE CauseInv'
  BY <1>1, <1>2, <1>9 DEF AcceptBidi, RequestFails, Hold, Moves
<1>10. ASSUME NEW c \in Control, PeerStep(c) \/ ControlStep(c) \/ ControlStreamEnds(c)
       PROVE  CauseInv'
  BY <1>1, <1>2, <1>10 DEF PeerStep, PeerOpens, PeerWrites, ControlStep, AcceptUni,
                           ClassifyControl, ReadSetup, ControlStreamEnds, Moves
<1>11. CASE Close
  BY <1>2, <1>11 DEF Close
<1>12. CASE UNCHANGED vars
  BY <1>1, <1>12 DEF vars, ending
<1>13. QED
  BY <1>3, <1>4, <1>5, <1>6, <1>7, <1>8, <1>9, <1>10, <1>11, <1>12 DEF Next, LoopEnds

\* connectionLost: the session's own close is never reported as a lost connection.
THEOREM OwnCause == Spec => []OwnCauseStands
<1>1. Init => CauseInv
  BY DEF Init, CauseInv, OwnCauseStands, live, Queue
<1>2. CauseInv => OwnCauseStands
  BY DEF CauseInv
<1>3. QED
  BY <1>1, <1>2, NextCauseInv, Inductive, PTL DEF Spec
==============================================================================
