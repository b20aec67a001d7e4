------------------------------- MODULE Session -------------------------------
(***************************************************************************)
(* The life of one endpoint of a session (session.go, with                 *)
(* control_stream_pair.go and pending_streams.go): Run and its handshake,   *)
(* the accept loops, the streams held until the peer's SETUP is known, the  *)
(* control stream, and the ways a session ends.                            *)
(*                                                                         *)
(* The peer and the network are the environment.  Draft-18 Section 3.3     *)
(* gives the handshake no order: the peer's streams may arrive before its  *)
(* SETUP does, or before ours has been sent.                               *)
(***************************************************************************)
EXTENDS Naturals, FiniteSets

CONSTANTS
    Uni,        \* data streams the peer may open
    Bidi,       \* request streams the peer may open
    Control,    \* control streams it may open: one, if it conforms
    Limit       \* MaxPendingStreams

ASSUME ConstantsAssumption ==
    /\ IsFiniteSet(Uni) /\ IsFiniteSet(Bidi)
    /\ Uni \cap Bidi = {} /\ (Uni \cup Bidi) \cap Control = {}
    /\ Limit \in Nat \ {0}

VARIABLES
    run,         \* Run: "open", "await", "setup", "uni", "returned" or "failed"
    cause,       \* why the session's context ended: "none", "closed" (here), "lost"
    conn,        \* the connection: "up", "closed" (here) or "lost"
    closing,     \* a closeWithError has yet to close the connection
    place,       \* where a stream of the peer is
    released,    \* released[q]: release has been called, for each of the queues
    loop,        \* loop[q]: the accept loops: "accepting", "losing" or "over"
    first,       \* what the peer sent as SETUP on a control stream: "none", "good"
                 \* or "bad"
    adopted,     \* remoteAdopted
    ready,       \* ready is closed
    remoteErr,   \* remoteErr is set
    peerSetup    \* controlStreamPair.peerSetup is set

vars == <<run, cause, conn, closing, place, released, loop, first, adopted, ready,
          remoteErr, peerSetup>>

Queue == {"uni", "bidi"}
Stream == Uni \cup Bidi \cup Control
Places == {"none", "arrived", "accepted", "held", "handled", "adopted", "control", "gone"}

live == cause = "none"
up == conn = "up"

QueueOf(s) == IF s \in Bidi THEN "bidi" ELSE "uni"
Waiting(q) == {s \in Uni \cup Bidi : place[s] = "held" /\ QueueOf(s) = q}

Init ==
    /\ run = "open"
    /\ cause = "none" /\ conn = "up" /\ closing = FALSE
    /\ place = [s \in Stream |-> "none"]
    /\ released = [q \in Queue |-> FALSE]
    /\ loop = [q \in Queue |-> "accepting"]
    /\ first = [c \in Control |-> "none"]
    /\ adopted = FALSE /\ ready = FALSE /\ remoteErr = FALSE /\ peerSetup = FALSE

control == <<adopted, ready, remoteErr, peerSetup>>
ending == <<cause, conn, closing>>

-----------------------------------------------------------------------------
(* The peer and the network. *)

\* A control stream arrives; its type comes with it, and SETUP or something else
\* instead of it may come later.  The other streams arrive as they are accepted.
PeerOpens(c) ==
    /\ up /\ place[c] = "none"
    /\ place' = [place EXCEPT ![c] = "arrived"]
    /\ UNCHANGED <<run, ending, released, loop, first, control>>

PeerWrites(c, what) ==
    /\ up /\ place[c] # "none" /\ first[c] = "none"
    /\ first' = [first EXCEPT ![c] = what]
    /\ UNCHANGED <<run, ending, place, released, loop, control>>

ConnectionLost ==
    /\ up
    /\ conn' = "lost"
    /\ UNCHANGED <<run, cause, closing, place, released, loop, first, control>>

-----------------------------------------------------------------------------
(* The end of a session. *)

\* Variant of CloseWithError: the connection is closed first.
CloseConnectionFirst ==
    /\ conn' = IF up THEN "closed" ELSE conn
    /\ UNCHANGED <<cause, closing>>

\* closeWithError ends the context, if nothing did before ...
CloseWithError ==
    /\ cause' = IF live THEN "closed" ELSE cause
    /\ closing' = TRUE
    /\ UNCHANGED conn

\* ... and then closes the connection.
CloseConnection ==
    /\ closing
    /\ closing' = FALSE
    /\ conn' = IF up THEN "closed" ELSE conn
    /\ UNCHANGED <<run, cause, place, released, loop, first, control>>

\* Session.Close, by the application, by fail on any goroutine of a request, or
\* by the goroutine of Run that follows the caller's context.
Close ==
    /\ live
    /\ CloseWithError
    /\ UNCHANGED <<run, place, released, loop, first, control>>

FailRemote == remoteErr' = TRUE /\ ready' = TRUE

\* Variant of AcceptFails: the handshake is not released.
AcceptFailsQuietly(q) ==
    /\ loop[q] = "accepting" /\ (~up \/ ~live)
    /\ loop' = [loop EXCEPT ![q] = IF live THEN "losing" ELSE "over"]
    /\ UNCHANGED <<run, ending, place, released, first, control>>

\* An accept fails; connectionLost, unless the session ended first, releases
\* the handshake ...
AcceptFails(q) ==
    /\ loop[q] = "accepting" /\ (~up \/ ~live)
    /\ \/ live /\ loop' = [loop EXCEPT ![q] = "losing"] /\ FailRemote
       \/ ~live /\ loop' = [loop EXCEPT ![q] = "over"] /\ UNCHANGED <<remoteErr, ready>>
    /\ UNCHANGED <<run, ending, place, released, first, adopted, peerSetup>>

\* ... and then ends the session.
ConnectionLostEnds(q) ==
    /\ loop[q] = "losing"
    /\ loop' = [loop EXCEPT ![q] = "over"]
    /\ cause' = IF live THEN "lost" ELSE cause
    /\ UNCHANGED <<run, conn, closing, place, released, first, control>>

-----------------------------------------------------------------------------
(* Run. *)

RunAt(from, to) ==
    /\ run = from
    /\ run' = to
    /\ UNCHANGED <<loop, first, control>>

RunFails(from) ==
    /\ RunAt(from, "failed")
    /\ CloseWithError
    /\ UNCHANGED <<place, released>>

\* Our control stream and SETUP.
RunOpens ==
    \/ up /\ RunAt("open", "await") /\ UNCHANGED <<ending, place, released>>
    \/ ~up /\ RunFails("open")

\* awaitPeerSetup, once ready is closed.
RunAwaits ==
    \/ ready /\ ~remoteErr /\ RunAt("await", "setup") /\ UNCHANGED <<ending, place, released>>
    \/ ready /\ remoteErr /\ RunFails("await")

\* The caller's context may end at any moment, and the wait with it.
CallerCancels == RunFails("open") \/ RunFails("await")

\* Variant of Release: the streams are taken, and buffering goes on.
TakeHeld(q) ==
    /\ place' = [s \in Stream |-> IF s \in Waiting(q) THEN "handled" ELSE place[s]]
    /\ UNCHANGED released

\* release: the streams held get their goroutines, and no more are held.
Release(q) ==
    /\ released' = [released EXCEPT ![q] = TRUE]
    /\ place' = [s \in Stream |-> IF s \in Waiting(q) THEN "handled" ELSE place[s]]

RunReleasesUni == RunAt("setup", "uni") /\ Release("uni") /\ UNCHANGED ending
RunReleasesBidi == RunAt("uni", "returned") /\ Release("bidi") /\ UNCHANGED ending

-----------------------------------------------------------------------------
(* Streams: the accept loops, and the goroutine of each data stream. *)

Moves(s, from, to) ==
    /\ place[s] = from
    /\ place' = [place EXCEPT ![s] = to]
    /\ UNCHANGED <<run, released, loop, first>>

\* The loops hand a stream on as it is accepted; a data stream's type is read on
\* a goroutine of its own.
AcceptUni(s, from) ==
    /\ loop["uni"] = "accepting" /\ up /\ live
    /\ Moves(s, from, "accepted")
    /\ UNCHANGED <<ending, control>>

\* Variant of Hold: it asks whether SETUP has been read.
HoldUntilReady(s, from) ==
    \/ ready /\ Moves(s, from, "handled")
    \/ ~ready /\ Cardinality(Waiting(QueueOf(s))) >= Limit /\ Moves(s, from, "gone")
    \/ ~ready /\ Cardinality(Waiting(QueueOf(s))) < Limit /\ Moves(s, from, "held")

\* Variant of Hold: one more than the limit.
HoldOneMore(s, from) ==
    \/ released[QueueOf(s)] /\ Moves(s, from, "handled")
    \/ /\ ~released[QueueOf(s)] /\ Cardinality(Waiting(QueueOf(s))) > Limit
       /\ Moves(s, from, "gone")
    \/ /\ ~released[QueueOf(s)] /\ Cardinality(Waiting(QueueOf(s))) <= Limit
       /\ Moves(s, from, "held")

\* hold: a stream is held, refused, or handled by its goroutine at once.
Hold(s, from) ==
    \/ released[QueueOf(s)] /\ Moves(s, from, "handled")
    \/ /\ ~released[QueueOf(s)] /\ Cardinality(Waiting(QueueOf(s))) >= Limit
       /\ Moves(s, from, "gone")
    \/ /\ ~released[QueueOf(s)] /\ Cardinality(Waiting(QueueOf(s))) < Limit
       /\ Moves(s, from, "held")

AcceptBidi(s) ==
    /\ loop["bidi"] = "accepting" /\ up /\ live
    /\ Hold(s, "none")
    /\ UNCHANGED <<ending, control>>

\* handleUniStream, of a data stream; a malformed type fails the session, and a
\* stream that ends or fails underneath costs itself.
ClassifyUni(s) ==
    /\ \/ up /\ Hold(s, "accepted") /\ UNCHANGED ending
       \/ up /\ Moves(s, "accepted", "gone") /\ CloseWithError
       \/ Moves(s, "accepted", "gone") /\ UNCHANGED ending
    /\ UNCHANGED control

\* A request turns out malformed once it is handled, which the peer decides.
RequestFails(s) ==
    /\ up
    /\ Moves(s, "handled", "gone")
    /\ CloseWithError
    /\ UNCHANGED control

\* Variant of ClassifyControl: the control stream waits with the others.
HoldControl(c) ==
    /\ \/ ~released["uni"] /\ Moves(c, "accepted", "held") /\ UNCHANGED adopted
       \/ released["uni"] /\ Moves(c, "accepted", "adopted") /\ adopted' = TRUE
    /\ UNCHANGED <<ending, ready, remoteErr, peerSetup>>

\* adoptRemote: the first control stream is taken, a second fails the session; one
\* that fails underneath costs itself.
ClassifyControl(c) ==
    /\ \/ /\ ~adopted /\ adopted' = TRUE
          /\ Moves(c, "accepted", "adopted")
          /\ UNCHANGED ending
       \/ /\ adopted /\ UNCHANGED adopted
          /\ Moves(c, "accepted", "gone") /\ CloseWithError
       \/ /\ ~up /\ UNCHANGED <<adopted, ending>>
          /\ Moves(c, "accepted", "gone")
    /\ UNCHANGED <<ready, remoteErr, peerSetup>>

\* The SETUP, or what is there instead of it: then the wait is failed, and after
\* it the session.
ReadSetup(c) ==
    \/ /\ first[c] = "good"
       /\ Moves(c, "adopted", "control")
       /\ peerSetup' = TRUE /\ ready' = TRUE
       /\ UNCHANGED <<ending, adopted, remoteErr>>
    \/ /\ first[c] = "bad" \/ ~up
       /\ Moves(c, "adopted", "gone")
       /\ FailRemote /\ CloseWithError
       /\ UNCHANGED <<adopted, peerSetup>>

\* readControlStream, once Run has returned: a reset ends the reading and nothing
\* more, a FIN or any message but GOAWAY fails the session.  The peer decides.
ControlStreamEnds(c) ==
    /\ run = "returned" /\ up
    /\ Moves(c, "control", "gone")
    /\ UNCHANGED ending \/ CloseWithError
    /\ UNCHANGED control

-----------------------------------------------------------------------------

PeerStep(c) ==
    \/ PeerOpens(c)
    \/ \E what \in {"good", "bad"} : PeerWrites(c, what)

RunStep == RunOpens \/ RunAwaits \/ RunReleasesUni \/ RunReleasesBidi

LoopEnds(q) == AcceptFails(q) \/ ConnectionLostEnds(q)

ControlStep(c) == AcceptUni(c, "arrived") \/ ClassifyControl(c) \/ ReadSetup(c)

Next ==
    \/ ConnectionLost \/ CallerCancels \/ Close \/ CloseConnection \/ RunStep
    \/ \E q \in Queue : LoopEnds(q)
    \/ \E s \in Uni : AcceptUni(s, "none") \/ ClassifyUni(s)
    \/ \E s \in Bidi : AcceptBidi(s) \/ RequestFails(s)
    \/ \E c \in Control : PeerStep(c) \/ ControlStep(c) \/ ControlStreamEnds(c)

Spec == Init /\ [][Next]_vars

\* The goroutines of the handshake run; the peer and the caller promise nothing.
Fairness ==
    /\ WF_vars(RunStep)
    /\ \A q \in Queue : WF_vars(LoopEnds(q))
    /\ \A c \in Control : WF_vars(ControlStep(c))

FairSpec == Spec /\ Fairness

-----------------------------------------------------------------------------
(* Properties. *)

\* Every variable keeps its type, and no more streams are held than the limit.
TypeOK ==
    /\ run \in {"open", "await", "setup", "uni", "returned", "failed"}
    /\ cause \in {"none", "closed", "lost"}
    /\ conn \in {"up", "closed", "lost"} /\ closing \in BOOLEAN
    /\ place \in [Stream -> Places]
    /\ released \in [Queue -> BOOLEAN]
    /\ loop \in [Queue -> {"accepting", "losing", "over"}]
    /\ first \in [Control -> {"none", "good", "bad"}]
    /\ adopted \in BOOLEAN /\ ready \in BOOLEAN /\ remoteErr \in BOOLEAN /\ peerSetup \in BOOLEAN
    /\ \A q \in Queue : Cardinality(Waiting(q)) <= Limit

\* pendingStreams, Section 3.3: no data or request stream of the peer is handled
\* before Run has the peer's SETUP, however the streams and SETUP overtake each
\* other.
NothingBeforeSetup ==
    \A s \in Uni \cup Bidi :
        place[s] = "handled" => peerSetup /\ run \in {"uni", "returned"}

\* hold and release: a stream that comes while Run releases is handled by one of
\* the two, and none stays held once Run has returned.
NothingStranded == run = "returned" => \A q \in Queue : Waiting(q) = {}

\* connectionLost: a session that ended here and "closed the connection itself"
\* keeps its own cause, although that makes the accept loops fail.
OwnCauseStands == conn = "closed" => cause = "closed"

\* adoptControlStream: once the peer's SETUP is on its control stream the
\* handshake ends, whatever streams came first and however full the buffers are;
\* only the end of the session excuses it.
HandshakeEnds ==
    \A c \in Control : (first[c] = "good" /\ place[c] = "arrived")
        ~> (run \in {"returned", "failed"} \/ ~live)

\* connectionLost: "A handshake still waiting for the peer's SETUP is released",
\* if the session ended because its connection went away.
LossReleasesRun == cause = "lost" ~> run \in {"returned", "failed"}
==============================================================================
