--------------------------- MODULE ObjectDelivery ----------------------------
(***************************************************************************)
(* What a subscription promises the application that reads it: the objects *)
(* of each stream in the order they were written, each once, and an end.   *)
(* An end that is not known to be a cut is complete -- every stream that   *)
(* finished was read in full -- if the publisher counted its streams and   *)
(* the wait for them did not expire, which the application is not told.    *)
(* RemoteTrack.tla implements it.                                          *)
(***************************************************************************)
EXTENDS Naturals

CONSTANTS Subs, Streams, None

VARIABLES
    owner,     \* the subscription a stream is for, or None
    written,   \* objects written on each stream
    ending,    \* "open", "fin" or "reset"
    received,  \* received[s][d]: objects of d handed to s's application
    counted,   \* the publisher has said how many streams there are
    expired,   \* the wait for them ran out
    outcome    \* "open", "finished" or "cut"

vars == <<owner, written, ending, received, counted, expired, outcome>>

Init ==
    /\ owner = [d \in Streams |-> None]
    /\ written = [d \in Streams |-> 0]
    /\ ending = [d \in Streams |-> "open"]
    /\ received = [s \in Subs |-> [d \in Streams |-> 0]]
    /\ counted = [s \in Subs |-> FALSE]
    /\ expired = [s \in Subs |-> FALSE]
    /\ outcome = [s \in Subs |-> "open"]

Open(s, d) ==
    /\ owner[d] = None /\ outcome[s] # "finished"
    /\ owner' = [owner EXCEPT ![d] = s]
    /\ UNCHANGED <<written, ending, received, counted, expired, outcome>>

Write(d) ==
    /\ owner[d] # None /\ ending[d] = "open"
    /\ written' = [written EXCEPT ![d] = @ + 1]
    /\ UNCHANGED <<owner, ending, received, counted, expired, outcome>>

End(d, how) ==
    /\ owner[d] # None /\ ending[d] = "open"
    /\ ending' = [ending EXCEPT ![d] = how]
    /\ UNCHANGED <<owner, written, received, counted, expired, outcome>>

Announce(s) ==
    /\ ~counted[s] /\ outcome[s] # "finished"
    /\ counted' = [counted EXCEPT ![s] = TRUE]
    /\ UNCHANGED <<owner, written, ending, received, expired, outcome>>

Expire(s) ==
    /\ counted[s] /\ ~expired[s] /\ outcome[s] # "finished"
    /\ expired' = [expired EXCEPT ![s] = TRUE]
    /\ UNCHANGED <<owner, written, ending, received, counted, outcome>>

Receive(s, d) ==
    /\ outcome[s] = "open" /\ received[s][d] < written[d]
    /\ received' = [received EXCEPT ![s][d] = @ + 1]
    /\ UNCHANGED <<owner, written, ending, counted, expired, outcome>>

Finish(s, how) ==
    /\ outcome[s] = "open"
    /\ how = "finished" /\ counted[s] /\ ~expired[s] =>
          \A d \in Streams : owner[d] = s =>
             /\ ending[d] # "open"
             /\ ending[d] = "fin" => received[s][d] = written[d]
    /\ outcome' = [outcome EXCEPT ![s] = how]
    /\ UNCHANGED <<owner, written, ending, received, counted, expired>>

Next ==
    \/ \E s \in Subs, d \in Streams : Open(s, d) \/ Receive(s, d)
    \/ \E d \in Streams : Write(d) \/ \E how \in {"fin", "reset"} : End(d, how)
    \/ \E s \in Subs : Announce(s) \/ Expire(s)
    \/ \E s \in Subs, how \in {"finished", "cut"} : Finish(s, how)

Spec == Init /\ [][Next]_vars
==============================================================================
