------------------------------- MODULE UsedIDs -------------------------------
(***************************************************************************)
(* What peerRequestIDs promises, in the words of Section 10.1 of the       *)
(* draft: each endpoint remembers every Request ID its peer has used, and  *)
(* accepts an ID exactly when it has the peer's parity and is not one of   *)
(* them.  The memory is a plain set; RequestIDs.tla shows that the bounded *)
(* memory of request_id.go implements it.                                  *)
(***************************************************************************)
EXTENDS Naturals

CONSTANT IDs   \* the Request IDs a peer may send

VARIABLES
    used,     \* used[e]: the IDs endpoint e has accepted from its peer
    verdict   \* verdict[e]: the last ID e judged, and its answer

vars == <<used, verdict>>

Perspective == {"client", "server"}

\* The first ID of endpoint p's own requests; its parity is p's parity.
FirstID(p) == IF p = "client" THEN 0 ELSE 1

Peer(p) == IF p = "client" THEN "server" ELSE "client"

Init ==
    /\ used = [e \in Perspective |-> {}]
    /\ verdict = [e \in Perspective |-> [id |-> 0, answer |-> "none"]]

Judge(e, id, answer) ==
    verdict' = [verdict EXCEPT ![e] = [id |-> id, answer |-> answer]]

Accept(e, id) ==
    /\ id % 2 = FirstID(Peer(e))
    /\ id \notin used[e]
    /\ Judge(e, id, "ok")
    /\ used' = [used EXCEPT ![e] = @ \cup {id}]

Refuse(e, id) ==
    /\ \/ id % 2 # FirstID(Peer(e)) /\ Judge(e, id, "parity")
       \/ id \in used[e] /\ Judge(e, id, "duplicate")
    /\ UNCHANGED used

Next == \E e \in Perspective, id \in IDs : Accept(e, id) \/ Refuse(e, id)

Spec == Init /\ [][Next]_vars
==============================================================================
