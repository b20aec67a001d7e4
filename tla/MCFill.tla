------------------------------- MODULE MCFill -------------------------------
(***************************************************************************)
(* SUBSCRIBEs with a fill of the last Group or none; updates that pause,   *)
(* resume, drop the filter, or ask for a fill, of the last Group or of     *)
(* what the subscription's filter says; and, from both ends, a filter that *)
(* ends before it starts.                                                  *)
(***************************************************************************)
EXTENDS Fill

MCPlaces == {At(0, 0), At(1, 0)}
LastGroup == <<<<RelativeStart(1)>>>>
Backwards == AbsoluteRange(At(1, 0), At(0, 0))
MCForms == {Ask(<<>>, <<NextObject>>, LastGroup), Ask(<<>>, <<NextObject>>, <<>>)}
MCAsks == {Ask(<<FALSE>>, <<>>, <<>>), Ask(<<TRUE>>, <<NoFilter>>, <<>>),
           Ask(<<>>, <<Backwards>>, <<>>),
           Ask(<<>>, <<>>, <<<<>>>>), Ask(<<>>, <<>>, LastGroup)}
MCChanges == {[paused |-> <<TRUE>>, filter |-> <<>>], [paused |-> <<FALSE>>, filter |-> <<NoFilter>>],
              [paused |-> <<>>, filter |-> <<Backwards>>]}

\* Bounds: two together of the SUBSCRIBE's fill, updates, notifications and an
\* ending, in a session that does not end; or the fill and two Refills of one
\* kind, with every ending.  Steps of the applications and the end of the session
\* are left out only, which no fairness speaks of.
MaxTogether == 2
Ends == ending # "no" \/ delivery # "on"
Together == made + notices + (IF HasFill(0) THEN 1 ELSE 0) + (IF Ends THEN 1 ELSE 0)
Crossing == session /\ Together <= MaxTogether
Refill == Ask(<<>>, <<>>, <<<<>>>>)
Refilling == /\ notices = 0 /\ pub.largest \in {NoLocation, At(0, 0)}
             /\ \A u \in 1 .. made : request[u] = Refill
MCSpec == Init /\ [][Next /\ (Crossing' \/ Refilling')]_vars /\ Fairness
=============================================================================
