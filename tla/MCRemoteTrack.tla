--------------------------- MODULE MCRemoteTrack -----------------------------
\* Instances of RemoteTrack for TLC.
EXTENDS RemoteTrack, TLC

CONSTANTS a, b, c, d1, d2

\* All subscriptions are to one track, or all but one.
OneTrack == [s \in Subs |-> "t1"]
TwoTracks == [s \in Subs |-> IF s = c THEN "t2" ELSE "t1"]

\* The tracks have a name each, or are named by the namespaces ("x", "y") and
\* ("x/y"), which fullName joins to one string.
OwnNames == [k \in Tracks |-> k]
JoinedNames == [k \in Tracks |-> "x/y"]

\* Subscriptions to one track are interchangeable, and so are streams.
Symmetry == Permutations(Subs) \cup Permutations(Streams)

\* The instance for liveness is two in one: one subscription with its stream, or
\* several without a stream, which are answered by a SUBSCRIBE_OK and end as they
\* are closed, given up or refused for their alias.  Only steps that no fairness
\* speaks of are left out: the applications', the publisher's, the session's end.
Alone == \A s \in Subs \ {a} : app[s] = "idle"
NoStream == \A d \in Streams : owner[d] = None
Accepted == \A s \in Subs : \A i \in 1 .. Len(answers[s]) : answers[s][i] = "ok"
OneAtATimeNext ==
    \/ Alone'
    \/ NoStream' /\ Accepted' /\ (session' # session => pending' # pending)

\* Two objects, on one stream or on one each, until the application closes the
\* subscription: what comes after that is left to the instance for liveness.
TwoObjectsNext == sent'[d1] + sent'[d2] <= 2 /\ app[a] # "closed"
==============================================================================
