----------------------------- MODULE RequestIDs ------------------------------
(***************************************************************************)
(* Request IDs between two endpoints of a session (request_id.go): the     *)
(* generator each endpoint numbers its requests with, the goroutines that  *)
(* take an ID and only later put it on a stream, or give up, the streams,  *)
(* which QUIC delivers in any order, and the tracker that judges the IDs   *)
(* as they arrive.                                                         *)
(*                                                                         *)
(* A request opens a stream of its own, named here by the request's ID; a  *)
(* REQUEST_UPDATE takes an ID too and travels on the stream of the         *)
(* subscription it updates.                                                *)
(***************************************************************************)
EXTENDS Naturals

CONSTANTS
    MaxRequestID,   \* bound: no ID above it is handed out
    Rogue,   \* the endpoints that also number wrongly
    Strays   \* the IDs of their choosing

ASSUME IDsAssumption ==
    MaxRequestID \in Nat /\ Rogue \subseteq {"client", "server"} /\ Strays \subseteq Nat

VARIABLES
    next,       \* next[p]: requestIDGenerator.next of endpoint p
    allocated,  \* allocated[p]: messages holding an ID and not yet written
    wire,       \* wire[p]: messages p has written and its peer not yet read
    open,       \* open[p]: requests of p its peer has taken up, not cancelled
    lowest,     \* lowest[e]: peerRequestIDs.lowest of endpoint e
    ahead,      \* ahead[e]: peerRequestIDs.ahead of endpoint e
    absorbing,  \* absorbing[e]: use holds e's lock and is in its loop
    verdict     \* verdict[e]: the last ID e judged, and what use answered

sender == <<next, allocated, wire, open>>
tracker == <<lowest, ahead, absorbing, verdict>>
idVars == <<next, allocated, wire, open, lowest, ahead, absorbing, verdict>>

Perspective == {"client", "server"}
FirstID(p) == IF p = "client" THEN 0 ELSE 1
Peer(p) == IF p = "client" THEN "server" ELSE "client"
Verdicts == {"none", "ok", "parity", "duplicate"}

\* A message that carries a Request ID, and the request stream it is for.
IDMessage == [stream : 0 .. MaxRequestID, id : 0 .. MaxRequestID]

Below(n) == {m \in 0 .. n - 1 : m % 2 = n % 2}

\* The IDs the tracker stands for: everything below the mark, and the holes'
\* far side.
Used(e) == Below(lowest[e]) \cup ahead[e]

IDsInit ==
    /\ next = [p \in Perspective |-> FirstID(p)]
    /\ allocated = [p \in Perspective |-> {}]
    /\ wire = [p \in Perspective |-> {}]
    /\ open = [p \in Perspective |-> {}]
    /\ lowest = [e \in Perspective |-> FirstID(Peer(e))]
    /\ ahead = [e \in Perspective |-> {}]
    /\ absorbing = [e \in Perspective |-> FALSE]
    /\ verdict = [e \in Perspective |-> [id |-> 0, answer |-> "none"]]

-----------------------------------------------------------------------------
(* The sender. *)

\* nextID, under the generator's lock, for a message on the given stream.
NextID(p, stream) ==
    /\ next[p] <= MaxRequestID
    /\ allocated' = [allocated EXCEPT ![p] =
                        @ \cup {[stream |-> stream, id |-> next[p]]}]
    /\ next' = [next EXCEPT ![p] = @ + 2]
    /\ UNCHANGED <<wire, open, tracker>>

\* Subscribe, fetch, TrackStatus, PublishNamespace and SubscribeNamespace all
\* take the ID first; the request opens the stream that the ID names.
NewRequest(p) == NextID(p, next[p])

\* RemoteTrack.update: only on a request the peer has answered, and with
\* updateMu held until the update is written or has failed.
NewUpdate(p, stream) ==
    /\ stream \in open[p]
    /\ \A m \in allocated[p] : m.stream # stream
    /\ NextID(p, stream)

\* An option, checkRequest, OpenStreamSync or the write fails: the call
\* returns an error and the ID it took is never seen by the peer.
GiveUpID(p, m) ==
    /\ m \in allocated[p]
    /\ allocated' = [allocated EXCEPT ![p] = @ \ {m}]
    /\ UNCHANGED <<next, wire, open, tracker>>

\* requestStream.write; on a cancelled stream an update cannot be written.
WriteID(p, m) ==
    /\ m \in allocated[p]
    /\ m.stream = m.id \/ m.stream \in open[p]
    /\ allocated' = [allocated EXCEPT ![p] = @ \ {m}]
    /\ wire' = [wire EXCEPT ![p] = @ \cup {m}]
    /\ UNCHANGED <<next, open, tracker>>

\* The request is cancelled (its context ended, or Close): the reset discards
\* whatever its stream carried and the peer had not read.
ResetStream(p, m) ==
    /\ m \in wire[p]
    /\ wire' = [wire EXCEPT ![p] = {x \in @ : x.stream # m.stream}]
    /\ open' = [open EXCEPT ![p] = @ \ {m.stream}]
    /\ UNCHANGED <<next, allocated, tracker>>

-----------------------------------------------------------------------------
(* The receiver: handleBidiStream and readAll call use for every message. *)

Judge(e, id, answer) ==
    verdict' = [verdict EXCEPT ![e] = [id |-> id, answer |-> answer]]

\* Variant of Use: the memory is the highest ID seen, without the holes below it.
UseHighWater(e, id) ==
    /\ ~absorbing[e] /\ id % 2 = lowest[e] % 2
    /\ \/ id < lowest[e] /\ Judge(e, id, "duplicate") /\ UNCHANGED lowest
       \/ id >= lowest[e] /\ Judge(e, id, "ok") /\ lowest' = [lowest EXCEPT ![e] = id + 2]
    /\ UNCHANGED <<ahead, absorbing>>

\* Variant of Use: only the IDs above the mark are looked up.
UseForgetful(e, id) ==
    /\ ~absorbing[e] /\ id % 2 = lowest[e] % 2 /\ id \notin ahead[e]
    /\ Judge(e, id, "ok")
    /\ ahead' = [ahead EXCEPT ![e] = @ \cup {id}]
    /\ absorbing' = [absorbing EXCEPT ![e] = TRUE]
    /\ UNCHANGED lowest

\* use up to its loop; the lock is free.
Use(e, id) ==
    /\ ~absorbing[e]
    /\ \/ /\ id % 2 # lowest[e] % 2
          /\ Judge(e, id, "parity")
          /\ UNCHANGED <<lowest, ahead, absorbing>>
       \/ /\ id % 2 = lowest[e] % 2
          /\ id < lowest[e] \/ id \in ahead[e]
          /\ Judge(e, id, "duplicate")
          /\ UNCHANGED <<lowest, ahead, absorbing>>
       \/ /\ id % 2 = lowest[e] % 2
          /\ id >= lowest[e] /\ id \notin ahead[e]
          /\ Judge(e, id, "ok")
          /\ ahead' = [ahead EXCEPT ![e] = @ \cup {id}]
          /\ absorbing' = [absorbing EXCEPT ![e] = TRUE]
          /\ UNCHANGED lowest

\* Variant of Absorb: the ID that fills the mark is absorbed, not the run behind it.
AbsorbOne(e) ==
    /\ absorbing[e]
    /\ absorbing' = [absorbing EXCEPT ![e] = FALSE]
    /\ IF lowest[e] \in ahead[e]
       THEN /\ ahead' = [ahead EXCEPT ![e] = @ \ {lowest[e]}]
            /\ lowest' = [lowest EXCEPT ![e] = @ + 2]
       ELSE UNCHANGED <<lowest, ahead>>
    /\ UNCHANGED <<sender, verdict>>

\* One turn of the loop: take the lowest ID out of ahead, or release the lock.
Absorb(e) ==
    /\ absorbing[e]
    /\ IF lowest[e] \in ahead[e]
       THEN /\ ahead' = [ahead EXCEPT ![e] = @ \ {lowest[e]}]
            /\ lowest' = [lowest EXCEPT ![e] = @ + 2]
            /\ UNCHANGED absorbing
       ELSE /\ absorbing' = [absorbing EXCEPT ![e] = FALSE]
            /\ UNCHANGED <<lowest, ahead>>
    /\ UNCHANGED <<sender, verdict>>

\* e reads the next message of one of its peer's streams.  Streams overtake
\* each other; on one stream the IDs were written, so arrive, in order.
Receive(e, m) ==
    /\ m \in wire[Peer(e)]
    /\ \A x \in wire[Peer(e)] : x.stream = m.stream => x.id >= m.id
    /\ Use(e, m.id)
    /\ wire' = [wire EXCEPT ![Peer(e)] = @ \ {m}]
    /\ open' = [open EXCEPT ![Peer(e)] = @ \cup {x \in {m.id} : x = m.stream}]
    /\ UNCHANGED <<next, allocated>>

\* A message of a peer whose numbering is wrong.
ReceiveStray(e, id) ==
    /\ Peer(e) \in Rogue /\ id \in Strays
    /\ Use(e, id)
    /\ UNCHANGED sender

-----------------------------------------------------------------------------

SenderStep(p) ==
    \/ NewRequest(p)
    \/ \E stream \in open[p] : NewUpdate(p, stream)
    \/ \E m \in allocated[p] : GiveUpID(p, m) \/ WriteID(p, m)
    \/ \E m \in wire[p] : ResetStream(p, m)

TrackerStep(e) ==
    \/ Absorb(e)
    \/ \E m \in wire[Peer(e)] : Receive(e, m)
    \/ \E id \in Strays : ReceiveStray(e, id)

IDsNext == \E p \in Perspective : SenderStep(p) \/ TrackerStep(p)

IDsSpec == IDsInit /\ [][IDsNext]_idVars

-----------------------------------------------------------------------------
(* Properties. *)

\* Every variable of the model has the type its declaration gives it: IDs are
\* naturals, messages name a stream and an ID.
TypeOK ==
    /\ next \in [Perspective -> Nat]
    /\ allocated \in [Perspective -> SUBSET IDMessage]
    /\ wire \in [Perspective -> SUBSET IDMessage]
    /\ open \in [Perspective -> SUBSET (0 .. MaxRequestID)]
    /\ lowest \in [Perspective -> Nat]
    /\ ahead \in [Perspective -> SUBSET Nat]
    /\ absorbing \in [Perspective -> BOOLEAN]
    /\ verdict \in [Perspective -> [id : Nat, answer : Verdicts]]

\* A peer that numbers as request_id.go does is never refused an ID, however the
\* streams that carry them overtake each other and whatever is given up or reset:
\* no session is closed with INVALID_REQUEST_ID over a reordering.
NeverRefused ==
    \A e \in Perspective : Peer(e) \notin Rogue => verdict[e].answer \in {"none", "ok"}

\* When use returns, ahead keeps IDs above the mark only, never the mark
\* itself: the run that became contiguous has been absorbed in full.
OnlyHolesKept ==
    \A e \in Perspective :
        ~absorbing[e] => \A id \in ahead[e] : id > lowest[e]

\* The tracker of request_id.go, with its mark and its holes, answers every ID
\* as a set of all the IDs ever used would.
UsedSet == INSTANCE UsedIDs WITH IDs <- 0 .. MaxRequestID \cup Strays,
                                 used <- [e \in Perspective |-> Used(e)]
ExactMemory == UsedSet!Spec
==============================================================================
