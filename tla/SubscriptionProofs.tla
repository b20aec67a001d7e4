-------------------------- MODULE SubscriptionProofs --------------------------
(***************************************************************************)
(* Theorems about Subscription, for any updates and any length of the      *)
(* queue: one answer and one ending on the request stream, one answer per  *)
(* update in order, early fills kept, and a range over the updates that    *)
(* ends.                                                                   *)
(***************************************************************************)
EXTENDS Subscription, TLAPS

\* What this endpoint can write.
Sent == [type : {"ok", "error", "fin", "reset"}, arg : {0}]
            \cup [type : {"updateOk", "updateError"}, arg : Update]
            \cup [type : {"notify"}, arg : {"pause", "resume"}]
            \cup [type : {"done"}, arg : Nat]

\* Where a goroutine is.
Unanswered == {"folded", "refusing", "failing", "merged"}
Publishing == {"published", "registered", "told", "early", "starting", "returned"}
Closing == {"write", "fin", "cancel"}

\* The types the theorems rest on.
Typed ==
  /\ sent \in 0 .. MaxUpdates /\ taken \in 0 .. sent
  /\ out \in Seq(Sent)
  /\ streams \in Nat /\ announced \in Nat
  /\ fill \in [Fill -> {"none", "asked", "early", "taken", "dropped", "started", "opened",
                        "open", "closed"}]
  /\ reader \in Unanswered \cup {"reading", "answered", "notifying", "closing", "closingFailed",
                                 "ending", "ended", "resetting", "finishing", "over", "gone"}
  /\ reader \in Unanswered => taken \in Update
  /\ acceptor \in Publishing \cup {"idle", "read", "failed"}
  /\ rejector \in Closing \cup {"idle", "over"}
  /\ closer \in [Caller -> Closing \cup {"idle", "reset", "claim", "over"}]
  /\ notifier \in [state : {"none", "pause", "resume"}, at : {"idle", "set", "over"}]
  /\ notifier.at = "set" => notifier.state # "none"

\* A subscription is published once, under the lock that the answer is claimed
\* with: Reject has no part in it then, and before it nobody closes.
AnswerInv ==
  /\ acceptor \in Publishing => published
  /\ acceptor \in {"idle", "read"} => ~published
  /\ published => answered /\ rejector \in {"idle", "over"}
  /\ rejector \in Closing => answered
  /\ reader = "failing" => published
  /\ \A c \in Caller : closer[c] # "idle" => published

\* Of two Closes one writes.
CloseInv ==
  /\ \A c \in Caller : closer[c] \in Closing => closed
  /\ \A c, d \in Caller : closer[c] \in Closing /\ closer[d] \in Closing => c = d

\* Nothing follows the end of our half, and whoever has still to write an answer
\* or PUBLISH_DONE finds none.
WrittenInv ==
  /\ ~sendDone => Written({"fin", "reset"}) = {}
  /\ Written({"ok"}) # {} => acceptor \in Publishing \ {"published", "registered"}
  /\ Written({"error"}) # {} => answered /\ ~published /\ rejector \notin {"idle", "write"}
  /\ Written({"done"}) # {} => closed /\ published /\ \A c \in Caller : closer[c] # "write"

\* The reader answers an update before it takes the next, or never reads again.
UpdateInv ==
  LET answers == Written({"updateOk", "updateError"})
  IN /\ \A i \in answers : out[i].arg \in 1 .. taken
     /\ \A i, j \in answers : i < j => out[i].arg < out[j].arg
     /\ reader \in Unanswered => \A i \in answers : out[i].arg # taken
     /\ \A u \in 1 .. taken :
          u < taken \/ reader \in {"reading", "answered", "notifying", "closing"}
            => \E i \in answers : out[i].arg = u

\* Where a fill can be before Accept has taken it up.
FillInv ==
  /\ \A f \in Fill : fill[f] = "asked" => f = 0 /\ acceptor \notin {"early", "starting", "returned"}
  /\ \A f \in Fill : fill[f] = "early" => acceptor \notin {"starting", "returned"}
  /\ \A f \in Fill : fill[f] = "taken" => acceptor = "starting"

\* Whoever asks for the channel after the end gets a closed one.
EndedInv == ended => updates # "open"

IInv == Typed /\ AnswerInv /\ CloseInv /\ WrittenInv /\ OneEnding /\ UpdateInv /\ FillInv /\ EndedInv

LEMMA InitIInv == Init => IInv
<1> SUFFICES ASSUME Init PROVE IInv
  OBVIOUS
<1>1. Typed
  BY ConstantsAssumption DEF Init, Typed, Fill, Caller, Unanswered, Publishing, Closing
<1>2. AnswerInv /\ CloseInv /\ EndedInv
  BY DEF Init, AnswerInv, CloseInv, EndedInv, Publishing, Closing
<1>3. \A types : Written(types) = {}
  BY DEF Init, Written
<1>4. WrittenInv /\ OneEnding /\ UpdateInv
  BY <1>3 DEF Init, WrittenInv, OneEnding, UpdateInv, Unanswered
<1>5. FillInv
  BY ConstantsAssumption DEF Init, FillInv, Fill
<1>6. QED
  BY <1>1, <1>2, <1>4, <1>5 DEF IInv

-----------------------------------------------------------------------------
(* What a step writes. *)

\* The parts of the invariant that speak of what is written, when nothing is.
LEMMA SilentStep ==
  ASSUME UNCHANGED <<out, sendDone>>
  PROVE  /\ \A types : Written(types)' = Written(types)
         /\ OneEnding => OneEnding'
BY DEF Written, OneEnding

LEMMA AppendWritten ==
  ASSUME out \in Seq(Sent), NEW m \in Sent, out' = Append(out, m)
  PROVE  /\ out' \in Seq(Sent)
         /\ Len(out) \in Nat /\ Len(out') = Len(out) + 1
         /\ out'[Len(out')] = m
         /\ \A i \in 1 .. Len(out) : out'[i] = out[i]
         /\ \A types : Written(types)' = IF m.type \in types THEN Written(types) \cup {Len(out')}
                                                             ELSE Written(types)
<1>1. /\ out' \in Seq(Sent)
      /\ Len(out) \in Nat /\ Len(out') = Len(out) + 1
      /\ out'[Len(out')] = m
      /\ \A i \in 1 .. Len(out) : out'[i] = out[i]
  OBVIOUS
<1>2. ASSUME NEW types
      PROVE  Written(types)' = IF m.type \in types THEN Written(types) \cup {Len(out')}
                                                    ELSE Written(types)
  <2>1. \A i : i \in 1 .. Len(out') <=> i \in 1 .. Len(out) \/ i = Len(out')
    BY <1>1
  <2>2. Len(out') \notin 1 .. Len(out)
    BY <1>1
  <2>3. \A i : i \in Written(types)' <=> i \in 1 .. Len(out') /\ out'[i].type \in types
    BY DEF Written
  <2>4. \A i : i \in Written(types) <=> i \in 1 .. Len(out) /\ out[i].type \in types
    BY DEF Written
  <2> HIDE DEF Sent
  <2>5. \A i : i \in Written(types)' <=> i \in Written(types) \/ (i = Len(out') /\ m.type \in types)
    BY <1>1, <2>1, <2>2, <2>3, <2>4, Zenon
  <2>6. QED
    BY <2>5
<1>3. QED
  BY <1>1, <1>2

\* A message that answers neither the SUBSCRIBE nor an update, and ends nothing.
LEMMA NotifyIInv == ASSUME IInv, NotifyState PROVE IInv'
<1> USE DEF NotifyState, subscription, request, peer
<1>1. CASE WriteFails
  <2>1. /\ UNCHANGED <<sent, taken, out, sendDone, streams, closed, announced, ended, updates, fill,
                       reader, acceptor, rejector, closer, answered, published>>
        /\ notifier' = [notifier EXCEPT !.at = "over"]
    BY <1>1 DEF WriteFails, stream
  <2>2. Typed'
    BY <2>1 DEF IInv, Typed
  <2>3. AnswerInv' /\ CloseInv' /\ FillInv' /\ EndedInv'
    BY <2>1 DEF IInv, AnswerInv, CloseInv, FillInv, EndedInv
  <2>4. WrittenInv' /\ OneEnding' /\ UpdateInv'
    BY <2>1, SilentStep DEF IInv, WrittenInv, UpdateInv
  <2>5. QED
    BY <2>2, <2>3, <2>4 DEF IInv
<1>2. CASE Writes("notify", notifier.state)
  <2> DEFINE m == Message("notify", notifier.state)
  <2>1. /\ UNCHANGED <<sent, taken, sendDone, streams, closed, announced, ended, updates, fill,
                       reader, acceptor, rejector, closer, answered, published>>
        /\ notifier' = [notifier EXCEPT !.at = "over"]
        /\ out' = Append(out, m) /\ ~sendDone
    BY <1>2 DEF Writes
  <2>2. m \in Sent /\ m.type = "notify" /\ out \in Seq(Sent)
    BY DEF IInv, Typed, Sent, Message
  <2> HIDE DEF m
  <2>3. /\ out' \in Seq(Sent) /\ Len(out) \in Nat /\ Len(out') = Len(out) + 1
        /\ \A i \in 1 .. Len(out) : out'[i] = out[i]
        /\ \A types : "notify" \notin types => Written(types)' = Written(types)
    BY <2>1, <2>2, AppendWritten
  <2>4. Typed'
    BY <2>1, <2>3 DEF IInv, Typed
  <2>5. AnswerInv' /\ CloseInv' /\ FillInv' /\ EndedInv'
    BY <2>1 DEF IInv, AnswerInv, CloseInv, FillInv, EndedInv
  <2>6. WrittenInv'
    BY <2>1, <2>3 DEF IInv, WrittenInv
  <2>7. OneEnding'
    BY <2>1, <2>3 DEF IInv, WrittenInv, OneEnding
  <2>8. UpdateInv'
    <3>1. \A i \in Written({"updateOk", "updateError"}) : i \in 1 .. Len(out)
      BY DEF Written
    <3>2. QED
      BY <2>1, <2>3, <3>1 DEF IInv, UpdateInv
  <2>9. QED
    BY <2>4, <2>5, <2>6, <2>7, <2>8 DEF IInv
<1>3. QED
  BY <1>1, <1>2

-----------------------------------------------------------------------------
(* Steps that write nothing and move no call. *)

LEMMA SideIInv ==
  ASSUME IInv,
         UNCHANGED <<taken, out, sendDone, closed, announced, ended, reader, acceptor,
                     rejector, closer, answered, published>>,
         sent' \in {sent, sent + 1}, sent' <= MaxUpdates, streams' \in {streams, streams + 1},
         fill' = fill,
         notifier' \in [state : {"none", "pause", "resume"}, at : {"idle", "set", "over"}],
         notifier'.at = "set" => notifier'.state # "none",
         updates' = updates \/ (updates' = "open" => ~ended)
  PROVE  IInv'
<1>1. Typed'
  BY ConstantsAssumption DEF IInv, Typed
<1>2. AnswerInv' /\ CloseInv' /\ FillInv' /\ EndedInv'
  BY DEF IInv, AnswerInv, CloseInv, FillInv, EndedInv
<1>3. WrittenInv' /\ OneEnding' /\ UpdateInv'
  BY SilentStep DEF IInv, WrittenInv, UpdateInv
<1>4. QED
  BY <1>1, <1>2, <1>3 DEF IInv

LEMMA ApplicationIInv ==
  ASSUME IInv,
         \/ PeerStep \/ EndSession \/ UNCHANGED vars
         \/ OpenSubgroup \/ CloseSubgroup \/ Updates \/ ReceiveUpdate
         \/ \E k \in Notices : SetState(k)
  PROVE  IInv'
<1> USE ConstantsAssumption
    DEF peer, stream, request, subscription, goroutines
<1>1. CASE PeerStep \/ EndSession
  BY <1>1, SideIInv DEF PeerStep, SendUpdate, EndPeer, EndSession, IInv, Typed
<1>2. CASE UNCHANGED vars
  BY <1>2, SideIInv DEF vars, IInv, Typed
<1>3. CASE OpenSubgroup \/ CloseSubgroup
  BY <1>3, SideIInv DEF OpenSubgroup, CloseSubgroup, IInv, Typed
<1>4. CASE Updates \/ ReceiveUpdate
  BY <1>4, SideIInv DEF Updates, ReceiveUpdate, IInv, Typed
<1>5. CASE \E k \in Notices : SetState(k)
  BY <1>5, SideIInv DEF SetState, IInv, Typed
<1>6. QED
  BY <1>1, <1>2, <1>3, <1>4, <1>5

\* A fill moves on: from what was asked for to what Accept has taken, or further.
LEMMA FillIInv ==
  ASSUME IInv,
         UNCHANGED <<sent, taken, out, sendDone, closed, announced, ended, updates, reader,
                     acceptor, rejector, closer, notifier, answered, published>>,
         streams' \in {streams, streams + 1},
         \A f \in Fill : fill'[f] = fill[f] \/ fill'[f] \in {"dropped", "started", "opened", "open", "closed"},
         DOMAIN fill' = Fill, fill' = [f \in Fill |-> fill'[f]]
  PROVE  IInv'
<1>1. Typed'
  BY DEF IInv, Typed
<1>2. AnswerInv' /\ CloseInv' /\ EndedInv'
  BY DEF IInv, AnswerInv, CloseInv, EndedInv
<1>3. FillInv'
  BY DEF IInv, FillInv
<1>4. WrittenInv' /\ OneEnding' /\ UpdateInv'
  BY SilentStep DEF IInv, WrittenInv, UpdateInv
<1>5. QED
  BY <1>1, <1>2, <1>3, <1>4 DEF IInv

LEMMA FillStepIInv ==
  ASSUME IInv, NEW f \in Fill, FillStep(f) \/ AcceptStartsFill(f)
  PROVE  IInv'
<1> USE DEF peer, stream, request, goroutines
<1>1. PICK to \in {"dropped", "started", "opened", "open", "closed"} : fill' = [fill EXCEPT ![f] = to]
  BY DEF FillStep, OpenFill, RegisterFill, CloseFill, AcceptStartsFill, StartFill
<1>2. fill' = [g \in Fill |-> fill'[g]] /\ DOMAIN fill' = Fill
      /\ \A g \in Fill : fill'[g] = fill[g] \/ fill'[g] = to
  BY <1>1 DEF IInv, Typed
<1>3. /\ UNCHANGED <<sent, taken, out, sendDone, closed, announced, ended, updates, reader,
                     acceptor, rejector, closer, notifier, answered, published>>
      /\ streams' \in {streams, streams + 1}
  BY DEF FillStep, OpenFill, RegisterFill, CloseFill, AcceptStartsFill, StartFill
<1>4. QED
  BY <1>1, <1>2, <1>3, FillIInv

-----------------------------------------------------------------------------
(* The last message of our half. *)

\* The caller moves on, having ended our half with a message if it was not ended.
\* (closeSend and cancel.)
LEMMA EndsHalf ==
  ASSUME IInv, sendDone',
         \E type \in {"fin", "reset"} :
            out' = IF sendDone THEN out ELSE Append(out, Message(type, 0))
  PROVE  /\ out' \in Seq(Sent) /\ OneEnding'
         /\ \A types \in SUBSET {"ok", "error", "done", "updateOk", "updateError"} :
              Written(types)' = Written(types)
         /\ \A i \in 1 .. Len(out) : out'[i] = out[i]
<1>1. PICK type \in {"fin", "reset"} : out' = IF sendDone THEN out ELSE Append(out, Message(type, 0))
  OBVIOUS
<1>2. CASE sendDone
  BY <1>1, <1>2 DEF IInv, Typed, Written, OneEnding
<1>3. CASE ~sendDone
  <2> DEFINE m == Message(type, 0)
  <2>1. m \in Sent /\ m.type = type /\ out \in Seq(Sent) /\ out' = Append(out, m)
    BY <1>1, <1>3 DEF IInv, Typed, Sent, Message
  <2> HIDE DEF m
  <2>2. /\ out' \in Seq(Sent)
        /\ Len(out) \in Nat /\ Len(out') = Len(out) + 1
        /\ \A i \in 1 .. Len(out) : out'[i] = out[i]
        /\ \A types : Written(types)' = IF type \in types THEN Written(types) \cup {Len(out')}
                                                          ELSE Written(types)
    BY <2>1, AppendWritten
  <2>3. \A types \in SUBSET {"ok", "error", "done", "updateOk", "updateError"} :
          Written(types)' = Written(types)
    BY <2>2
  <2>4. Written({"fin", "reset"})' = {Len(out')}
    BY <1>3, <2>2 DEF IInv, WrittenInv
  <2>5. OneEnding'
    BY <2>3, <2>4 DEF IInv, OneEnding
  <2>6. QED
    BY <2>2, <2>3, <2>5
<1>4. QED
  BY <1>2, <1>3

\* The invariant after such a step, or one that leaves our half alone.
LEMMA FinishIInv ==
  ASSUME IInv,
         \/ UNCHANGED <<out, sendDone>>
         \/ sendDone' /\ \E type \in {"fin", "reset"} :
              out' = IF sendDone THEN out ELSE Append(out, Message(type, 0)),
         UNCHANGED <<sent, taken, streams, ended, updates, reader, acceptor, notifier, published>>,
         fill' \in [Fill -> {"none", "asked", "early", "taken", "dropped", "started", "opened",
                             "open", "closed"}],
         FillInv', AnswerInv', CloseInv',
         rejector' \in Closing \cup {"idle", "over"},
         closer' \in [Caller -> Closing \cup {"idle", "reset", "claim", "over"}],
         announced' \in Nat, closed => closed', answered => answered',
         Written({"error"}) # {} => rejector' \notin {"idle", "write"},
         Written({"done"}) # {} => \A c \in Caller : closer'[c] # "write"
  PROVE  IInv'
<1>1. /\ out' \in Seq(Sent) /\ OneEnding'
      /\ \A types \in SUBSET {"ok", "error", "done", "updateOk", "updateError"} :
           Written(types)' = Written(types)
      /\ \A i \in 1 .. Len(out) : out'[i] = out[i]
  <2>1. CASE UNCHANGED <<out, sendDone>>
    BY <2>1, SilentStep DEF IInv, Typed
  <2>2. CASE sendDone' /\ \E type \in {"fin", "reset"} :
               out' = IF sendDone THEN out ELSE Append(out, Message(type, 0))
    BY <2>2, EndsHalf
  <2>3. QED
    BY <2>1, <2>2
<1>2. Typed'
  BY <1>1 DEF IInv, Typed
<1>3. WrittenInv'
  <2>1. ~sendDone' => Written({"fin", "reset"})' = {}
    BY SilentStep DEF IInv, WrittenInv
  <2>2. /\ Written({"ok"})' = Written({"ok"}) /\ Written({"error"})' = Written({"error"})
        /\ Written({"done"})' = Written({"done"})
    BY <1>1
  <2>3. QED
    BY <2>1, <2>2 DEF IInv, WrittenInv
<1>4. UpdateInv'
  <2>1. Written({"updateOk", "updateError"})' = Written({"updateOk", "updateError"})
    BY <1>1
  <2>2. \A i \in Written({"updateOk", "updateError"}) : out'[i] = out[i]
    BY <1>1 DEF Written
  <2>3. QED
    BY <2>1, <2>2 DEF IInv, UpdateInv
<1>5. EndedInv'
  BY DEF IInv, EndedInv
<1>6. QED
  BY <1>1, <1>2, <1>3, <1>4, <1>5 DEF IInv

-----------------------------------------------------------------------------
(* Close. *)

LEMMA CallCloseIInv == ASSUME IInv, CallClose PROVE IInv'
<1> USE DEF CallClose, CloserAt, peer, request, subscription, stream
<1>1. closer' = [closer EXCEPT !["app"] = "reset"] /\ acceptor = "returned" /\ published
  BY DEF IInv, AnswerInv, Publishing
<1>2. closer' \in [Caller -> Closing \cup {"idle", "reset", "claim", "over"}]
  BY <1>1 DEF IInv, Typed
<1>3. AnswerInv' /\ CloseInv' /\ FillInv'
  BY <1>1 DEF IInv, Typed, AnswerInv, CloseInv, FillInv, Closing
<1>4. Written({"done"}) # {} => \A c \in Caller : closer'[c] # "write"
  BY <1>1 DEF IInv, Typed, WrittenInv
<1>5. QED
  BY <1>2, <1>3, <1>4, FinishIInv DEF IInv, Typed, WrittenInv

\* A closer that goes anywhere but to where PUBLISH_DONE is written.
LEMMA CloserMoves ==
  ASSUME IInv, NEW c \in Caller, NEW to \in {"idle", "reset", "claim", "fin", "cancel", "over"},
         closer' = [closer EXCEPT ![c] = to], closer[c] # "idle" \/ published,
         to \in Closing => closer[c] \in Closing,
         UNCHANGED <<answered, published, closed, acceptor, rejector, reader>>
  PROVE  /\ closer' \in [Caller -> Closing \cup {"idle", "reset", "claim", "over"}]
         /\ AnswerInv' /\ CloseInv'
         /\ Written({"done"}) # {} => \A d \in Caller : closer'[d] # "write"
<1>1. closer' \in [Caller -> Closing \cup {"idle", "reset", "claim", "over"}]
  BY DEF IInv, Typed, Closing
<1>2. \A d \in Caller : closer'[d] = IF d = c THEN to ELSE closer[d]
  BY DEF IInv, Typed
<1>3. AnswerInv'
  BY <1>2 DEF IInv, AnswerInv
<1>4. CloseInv'
  BY <1>2 DEF IInv, CloseInv
<1>5. Written({"done"}) # {} => \A d \in Caller : closer'[d] # "write"
  BY <1>2 DEF IInv, WrittenInv
<1>6. QED
  BY <1>1, <1>3, <1>4, <1>5

LEMMA CloseWritesIInv == ASSUME IInv, NEW c \in Caller, CloseWrites(c) PROVE IInv'
<1> USE DEF CloseWrites, CloserAt, peer, request, subscription
<1>1. closer[c] = "write" /\ closed /\ published /\ ~(closer[c] = "idle")
  BY DEF IInv, CloseInv, AnswerInv, Closing
<1>2. CASE WriteFails /\ CloserAt(c, "write", "cancel")
  <2>1. /\ closer' \in [Caller -> Closing \cup {"idle", "reset", "claim", "over"}]
        /\ AnswerInv' /\ CloseInv'
        /\ Written({"done"}) # {} => \A d \in Caller : closer'[d] # "write"
    BY <1>1, <1>2, CloserMoves DEF Closing
  <2>2. FillInv' /\ UNCHANGED <<out, sendDone>>
    BY <1>2 DEF IInv, FillInv, WriteFails, stream
  <2>3. QED
    BY <1>1, <1>2, <2>1, <2>2, FinishIInv DEF IInv, Typed, WrittenInv
<1>3. CASE Writes("done", announced) /\ CloserAt(c, "write", "fin")
  <2> DEFINE m == Message("done", announced)
  <2>1. m \in Sent /\ m.type = "done" /\ out \in Seq(Sent) /\ out' = Append(out, m) /\ ~sendDone
        /\ sendDone' = sendDone
    BY <1>3 DEF IInv, Typed, Sent, Message, Writes
  <2> HIDE DEF m
  <2>2. /\ closer' \in [Caller -> Closing \cup {"idle", "reset", "claim", "over"}]
        /\ AnswerInv' /\ CloseInv'
    BY <1>1, <1>3, CloserMoves DEF Closing
  <2>3. /\ out' \in Seq(Sent)
        /\ Len(out) \in Nat /\ Len(out') = Len(out) + 1
        /\ \A i \in 1 .. Len(out) : out'[i] = out[i]
        /\ \A types : Written(types)' = IF "done" \in types THEN Written(types) \cup {Len(out')}
                                                            ELSE Written(types)
    BY <2>1, AppendWritten
  <2>4. Written({"done"}) = {} /\ Written({"error"}) = {}
    BY <1>1 DEF IInv, WrittenInv
  <2>5. Written({"error", "done"}) = {}
    BY <2>4 DEF Written
  <2>6. \A d \in Caller : closer'[d] # "write"
    <3>1. \A d \in Caller : closer[d] = "write" => d = c
      BY <1>1 DEF IInv, CloseInv, Closing
    <3>2. QED
      BY <1>3, <3>1 DEF IInv, Typed
  <2>7. Typed'
    BY <1>3, <2>2, <2>3 DEF IInv, Typed
  <2>8. WrittenInv'
    BY <1>1, <1>3, <2>1, <2>3, <2>6 DEF IInv, WrittenInv
  <2>9. OneEnding'
    BY <2>1, <2>3, <2>5 DEF IInv, WrittenInv, OneEnding
  <2>10. UpdateInv'
    <3>1. Written({"updateOk", "updateError"})' = Written({"updateOk", "updateError"})
      BY <2>3
    <3>2. \A i \in Written({"updateOk", "updateError"}) : out'[i] = out[i]
      BY <2>3 DEF Written
    <3>3. QED
      BY <1>3, <3>1, <3>2 DEF IInv, UpdateInv
  <2>11. FillInv' /\ EndedInv'
    BY <1>3 DEF IInv, FillInv, EndedInv
  <2>12. QED
    BY <2>2, <2>7, <2>8, <2>9, <2>10, <2>11 DEF IInv
<1>4. QED
  BY <1>2, <1>3

LEMMA ResetFillsIInv ==
  ASSUME IInv, ResetFills
  PROVE  /\ fill' \in [Fill -> {"none", "asked", "early", "taken", "dropped", "started", "opened",
                                "open", "closed"}]
         /\ acceptor' = acceptor => FillInv'
<1>1. \A f \in Fill : fill'[f] = IF fill[f] = "open" THEN "closed" ELSE fill[f]
  BY DEF ResetFills
<1>2. fill' \in [Fill -> {"none", "asked", "early", "taken", "dropped", "started", "opened",
                          "open", "closed"}]
  BY DEF IInv, Typed, ResetFills
<1>3. QED
  BY <1>1, <1>2 DEF IInv, FillInv

LEMMA CloseStepIInv == ASSUME IInv, NEW c \in Caller, CloseStep(c) PROVE IInv'
<1> USE DEF CloserAt, peer, request, subscription
<1>1. CASE CloseResetsFills(c)
  <2> USE <1>1 DEF CloseResetsFills, stream
  <2>1. /\ closer' \in [Caller -> Closing \cup {"idle", "reset", "claim", "over"}]
        /\ AnswerInv' /\ CloseInv'
        /\ Written({"done"}) # {} => \A d \in Caller : closer'[d] # "write"
    BY CloserMoves DEF Closing
  <2>2. QED
    BY <2>1, ResetFillsIInv, FinishIInv DEF IInv, Typed, WrittenInv
<1>2. CASE CloseClaims(c)
  <2> USE <1>2 DEF CloseClaims, stream
  <2>1. FillInv'
    BY DEF IInv, FillInv
  <2>2. CASE closed
    <3>1. /\ closer' \in [Caller -> Closing \cup {"idle", "reset", "claim", "over"}]
          /\ AnswerInv' /\ CloseInv'
          /\ Written({"done"}) # {} => \A d \in Caller : closer'[d] # "write"
      BY <2>2, CloserMoves DEF Closing
    <3>2. QED
      BY <2>1, <2>2, <3>1, FinishIInv DEF IInv, Typed, WrittenInv
  <2>3. CASE ~closed
    <3>1. closer' \in [Caller -> Closing \cup {"idle", "reset", "claim", "over"}]
          /\ \A d \in Caller : closer'[d] = IF d = c THEN "write" ELSE closer[d]
      BY <2>3 DEF IInv, Typed, Closing
    <3>2. closed' /\ \A d \in Caller : closer[d] \notin Closing
      BY <2>3 DEF IInv, CloseInv
    <3>3. AnswerInv'
      BY <2>3, <3>1 DEF IInv, AnswerInv
    <3>4. CloseInv'
      BY <3>1, <3>2 DEF CloseInv
    <3>5. Written({"done"}) = {} /\ announced' \in Nat
      BY <2>3 DEF IInv, Typed, WrittenInv
    <3>6. QED
      BY <2>1, <2>3, <3>1, <3>2, <3>3, <3>4, <3>5, FinishIInv DEF IInv, Typed, WrittenInv
  <2>4. QED
    BY <2>2, <2>3
<1>3. CASE CloseWrites(c)
  BY <1>3, CloseWritesIInv
<1>4. CASE CloseFinishes(c) \/ CloseCancels(c)
  <2>1. closer[c] \in Closing /\ \E to \in {"cancel", "over"} : closer' = [closer EXCEPT ![c] = to]
    BY <1>4 DEF CloseFinishes, CloseCancels, Closing
  <2>2. UNCHANGED <<sent, taken, streams, closed, announced, ended, updates, fill, reader, acceptor,
                    rejector, notifier, answered, published>>
    BY <1>4 DEF CloseFinishes, CloseCancels
  <2>3. /\ closer' \in [Caller -> Closing \cup {"idle", "reset", "claim", "over"}]
        /\ AnswerInv' /\ CloseInv'
        /\ Written({"done"}) # {} => \A d \in Caller : closer'[d] # "write"
    BY <2>1, <2>2, CloserMoves DEF Closing
  <2>4. sendDone' /\ \E type \in {"fin", "reset"} :
          out' = IF sendDone THEN out ELSE Append(out, Message(type, 0))
    BY <1>4 DEF CloseFinishes, CloseCancels, CloseSend, Cancel
  <2>5. FillInv' /\ rejector' \in Closing \cup {"idle", "over"} /\ announced' \in Nat
        /\ (Written({"error"}) # {} => rejector' \notin {"idle", "write"})
        /\ fill' \in [Fill -> {"none", "asked", "early", "taken", "dropped", "started", "opened",
                               "open", "closed"}]
    BY <2>2 DEF IInv, Typed, FillInv, WrittenInv
  <2>6. QED
    BY <2>2, <2>3, <2>4, <2>5, FinishIInv
<1>5. QED
  BY <1>1, <1>2, <1>3, <1>4 DEF CloseStep

-----------------------------------------------------------------------------
(* Accept and Reject. *)

\* An answer to the SUBSCRIBE is written by whoever has claimed it.
LEMMA FirstAnswer ==
  ASSUME IInv, NEW type \in {"ok", "error"}, out' = Append(out, Message(type, 0)), ~sendDone,
         Written({"ok"}) = {}, Written({"error"}) = {},
         type = "error" => Written({"done"}) = {},
         UNCHANGED <<taken, reader>>
  PROVE  /\ out' \in Seq(Sent) /\ OneEnding' /\ UpdateInv'
         /\ \A types : type \notin types => Written(types)' = Written(types)
<1> DEFINE m == Message(type, 0)
<1>1. m \in Sent /\ m.type = type /\ out \in Seq(Sent) /\ out' = Append(out, m)
  BY DEF IInv, Typed, Sent, Message
<1> HIDE DEF m
<1>2. /\ out' \in Seq(Sent)
      /\ Len(out) \in Nat /\ Len(out') = Len(out) + 1
      /\ \A i \in 1 .. Len(out) : out'[i] = out[i]
      /\ \A types : Written(types)' = IF type \in types THEN Written(types) \cup {Len(out')}
                                                        ELSE Written(types)
  BY <1>1, AppendWritten
<1>3. Written({"ok", "error"}) = {} /\ (type = "error" => Written({"error", "done"}) = {})
  BY DEF Written
<1>4. OneEnding'
  BY <1>2, <1>3 DEF IInv, WrittenInv, OneEnding
<1>5. UpdateInv'
  <2>1. Written({"updateOk", "updateError"})' = Written({"updateOk", "updateError"})
    BY <1>2
  <2>2. \A i \in Written({"updateOk", "updateError"}) : out'[i] = out[i]
    BY <1>2 DEF Written
  <2>3. QED
    BY <2>1, <2>2 DEF IInv, UpdateInv
<1>6. QED
  BY <1>2, <1>4, <1>5

LEMMA RejectIInv == ASSUME IInv, RejectStep PROVE IInv'
<1> USE DEF RejectorAt, peer, subscription
<1>1. CASE RejectClaims
  <2>1. AnswerInv' /\ CloseInv' /\ FillInv'
    BY <1>1 DEF RejectClaims, stream, IInv, Typed, AnswerInv, CloseInv, FillInv, Closing
  <2>2. UNCHANGED <<out, sendDone>> /\ (Written({"error"}) # {} => rejector' \notin {"idle", "write"})
    BY <1>1 DEF RejectClaims, stream, IInv, WrittenInv
  <2>3. rejector' \in Closing \cup {"idle", "over"} /\ (answered => answered')
    BY <1>1 DEF RejectClaims, Closing
  <2>4. QED
    BY <1>1, <2>1, <2>2, <2>3, FinishIInv DEF RejectClaims, IInv, Typed, WrittenInv
<1>2. CASE RejectWrites
  <2>1. rejector = "write" /\ answered /\ ~published /\ Written({"error"}) = {}
        /\ Written({"ok"}) = {} /\ Written({"done"}) = {}
    BY <1>2 DEF RejectWrites, IInv, AnswerInv, WrittenInv, Closing
  <2>2. UNCHANGED <<sent, taken, sendDone, streams, closed, announced, ended, updates, fill, reader,
                    acceptor, closer, notifier, answered, published>>
    BY <1>2 DEF RejectWrites, Writes, WriteFails, stream
  <2>3. rejector' \in {"fin", "cancel"} /\ (rejector' = "cancel" => out' = out)
    BY <1>2, <2>1 DEF RejectWrites, Writes, WriteFails, stream
  <2>4. AnswerInv' /\ CloseInv' /\ FillInv' /\ EndedInv'
    BY <2>1, <2>2, <2>3 DEF IInv, AnswerInv, CloseInv, FillInv, EndedInv, Closing
  <2>5. CASE out' = out
    BY <2>1, <2>2, <2>3, <2>4, <2>5, FinishIInv DEF IInv, Typed, WrittenInv, Closing
  <2>6. CASE out' = Append(out, Message("error", 0)) /\ ~sendDone
    <3>1. /\ out' \in Seq(Sent) /\ OneEnding' /\ UpdateInv'
          /\ \A types : "error" \notin types => Written(types)' = Written(types)
      BY <2>1, <2>2, <2>6, FirstAnswer
    <3>2. Typed'
      BY <2>2, <2>3, <3>1 DEF IInv, Typed, Closing
    <3>3. WrittenInv'
      BY <2>1, <2>2, <2>3, <3>1 DEF IInv, WrittenInv
    <3>4. QED
      BY <2>4, <3>1, <3>2, <3>3 DEF IInv
  <2>7. QED
    BY <1>2, <2>5, <2>6 DEF RejectWrites, Writes, WriteFails, stream
<1>3. CASE RejectFinishes \/ RejectCancels
  <2>1. /\ UNCHANGED <<sent, taken, streams, closed, announced, ended, updates, fill, reader,
                       acceptor, closer, notifier, answered, published>>
        /\ rejector \in {"fin", "cancel"} /\ rejector' \in {"cancel", "over"}
    BY <1>3 DEF RejectFinishes, RejectCancels
  <2>2. \/ UNCHANGED <<out, sendDone>>
        \/ sendDone' /\ \E type \in {"fin", "reset"} :
              out' = IF sendDone THEN out ELSE Append(out, Message(type, 0))
    BY <1>3 DEF RejectFinishes, RejectCancels, CloseSend, stream
  <2>3. AnswerInv' /\ CloseInv' /\ FillInv'
    BY <2>1 DEF IInv, AnswerInv, CloseInv, FillInv, Closing
  <2>4. QED
    BY <2>1, <2>2, <2>3, FinishIInv DEF IInv, Typed, WrittenInv, Closing
<1>4. QED
  BY <1>1, <1>2, <1>3 DEF RejectStep

\* Accept goes on without writing.
LEMMA AcceptorMoves ==
  ASSUME IInv, UNCHANGED <<sent, taken, out, sendDone, streams, closed, announced, ended, updates,
                           reader, rejector, closer, notifier>>,
         fill' \in [Fill -> {"none", "asked", "early", "taken", "dropped", "started", "opened",
                             "open", "closed"}],
         acceptor' \in Publishing \cup {"idle", "read", "failed"},
         AnswerInv', FillInv', answered => answered',
         Written({"ok"}) # {} => acceptor' \in Publishing \ {"published", "registered"},
         published' = published \/ (published' /\ ~answered)
  PROVE  IInv'
<1>1. Typed'
  BY DEF IInv, Typed
<1>2. CloseInv' /\ EndedInv'
  BY DEF IInv, CloseInv, EndedInv
<1>3. OneEnding' /\ UpdateInv' /\ WrittenInv'
  BY SilentStep DEF IInv, UpdateInv, WrittenInv
<1>4. QED
  BY <1>1, <1>2, <1>3 DEF IInv

LEMMA AcceptWritesIInv == ASSUME IInv, AcceptWrites PROVE IInv'
<1> USE DEF AcceptWrites, AcceptorAt, peer, request, subscription
<1>1. acceptor = "registered" /\ published /\ Written({"error"}) = {} /\ Written({"ok"}) = {}
  BY DEF IInv, AnswerInv, WrittenInv, Publishing
<1>2. CASE WriteFails /\ AcceptorAt("registered", "failed")
  <2>1. AnswerInv' /\ FillInv' /\ acceptor' = "failed" /\ UNCHANGED <<out, sendDone>>
    BY <1>2 DEF IInv, AnswerInv, FillInv, Publishing, WriteFails, stream
  <2>2. QED
    BY <1>1, <1>2, <2>1, AcceptorMoves DEF IInv, Typed
<1>3. CASE Writes("ok", 0) /\ AcceptorAt("registered", "told")
  <2>1. /\ out' \in Seq(Sent) /\ OneEnding' /\ UpdateInv'
        /\ \A types : "ok" \notin types => Written(types)' = Written(types)
    BY <1>1, <1>3, FirstAnswer DEF Writes
  <2>2. Typed'
    BY <1>3, <2>1 DEF IInv, Typed, Publishing
  <2>3. AnswerInv' /\ CloseInv' /\ FillInv' /\ EndedInv'
    BY <1>1, <1>3 DEF IInv, AnswerInv, CloseInv, FillInv, EndedInv, Publishing
  <2>4. WrittenInv'
    BY <1>1, <1>3, <2>1 DEF IInv, WrittenInv, Publishing, Writes
  <2>5. QED
    BY <2>1, <2>2, <2>3, <2>4 DEF IInv
<1>4. QED
  BY <1>2, <1>3

LEMMA AcceptIInv == ASSUME IInv, AcceptStep PROVE IInv'
<1> USE DEF AcceptorAt, peer, stream, request, subscription
<1>1. CASE AcceptReads \/ AcceptRegisters \/ AcceptReturns
  <2>1. AnswerInv' /\ FillInv'
    BY <1>1 DEF AcceptReads, AcceptRegisters, AcceptReturns, IInv, Typed, AnswerInv, FillInv, Publishing
  <2>2. QED
    BY <1>1, <2>1, AcceptorMoves
       DEF AcceptReads, AcceptRegisters, AcceptReturns, IInv, Typed, WrittenInv, Publishing
<1>2. CASE AcceptPublishes
  <2>1. AnswerInv' /\ FillInv'
    BY <1>2 DEF AcceptPublishes, IInv, Typed, AnswerInv, FillInv, Publishing, Closing
  <2>2. QED
    BY <1>2, <2>1, AcceptorMoves DEF AcceptPublishes, IInv, Typed, WrittenInv, Publishing
<1>3. CASE AcceptWrites
  BY <1>3, AcceptWritesIInv
<1>4. CASE AcceptStartsOwnFill \/ AcceptTakesEarlyFills
  <2>1. AnswerInv'
    BY <1>4 DEF AcceptStartsOwnFill, AcceptTakesEarlyFills, IInv, AnswerInv, Publishing
  <2>2. fill' \in [Fill -> {"none", "asked", "early", "taken", "dropped", "started", "opened",
                            "open", "closed"}]
    BY <1>4 DEF AcceptStartsOwnFill, AcceptTakesEarlyFills, StartFill, IInv, Typed
  <2>3. FillInv'
    BY <1>4 DEF AcceptStartsOwnFill, AcceptTakesEarlyFills, StartFill, IInv, Typed, FillInv
  <2>4. QED
    BY <1>4, <2>1, <2>2, <2>3, AcceptorMoves
       DEF AcceptStartsOwnFill, AcceptTakesEarlyFills, IInv, Typed, WrittenInv, Publishing
<1>5. CASE \E f \in Fill : AcceptStartsFill(f)
  BY <1>5, FillStepIInv
<1>6. QED
  BY <1>1, <1>2, <1>3, <1>4, <1>5 DEF AcceptStep

-----------------------------------------------------------------------------
(* The reader. *)

ReaderPlace == Unanswered \cup {"reading", "answered", "notifying", "closing", "closingFailed",
                                "ending", "ended", "resetting", "finishing", "over", "gone"}

\* The reader goes on without writing: it takes an update, goes on with one that
\* is answered, or gives up.
LEMMA ReaderMoves ==
  ASSUME IInv, UNCHANGED <<sent, out, sendDone, streams, closed, announced, acceptor, rejector,
                           notifier, answered, published>>,
         fill' \in [Fill -> {"none", "asked", "early", "taken", "dropped", "started", "opened",
                             "open", "closed"}],
         closer' \in [Caller -> Closing \cup {"idle", "reset", "claim", "over"}],
         \A c \in Caller : closer'[c] # closer[c] => published /\ closer'[c] \in {"idle", "reset"},
         reader' \in ReaderPlace, reader' = "failing" => published,
         \/ /\ taken' = taken + 1 /\ taken < sent /\ reader = "reading" /\ reader' \in Unanswered
         \/ /\ taken' = taken /\ reader' \notin Unanswered
            /\ reader' \in {"reading", "answered", "notifying", "closing"}
                 => reader \in {"reading", "answered", "notifying", "closing"},
         FillInv', EndedInv'
  PROVE  IInv'
<1>1. Typed'
  BY ConstantsAssumption DEF IInv, Typed, ReaderPlace, Update
<1>2. AnswerInv'
  BY DEF IInv, AnswerInv
<1>3. CloseInv' /\ WrittenInv' /\ OneEnding'
  <2>1. \A c \in Caller : closer'[c] \in Closing => closer'[c] = closer[c]
    BY DEF Closing
  <2>2. \A c \in Caller : closer'[c] = "write" => closer[c] = "write"
    BY DEF Closing
  <2>3. CloseInv'
    BY <2>1 DEF IInv, CloseInv
  <2>4. QED
    BY <2>2, <2>3, SilentStep DEF IInv, WrittenInv
<1>4. UpdateInv'
  <2>1. Written({"updateOk", "updateError"})' = Written({"updateOk", "updateError"})
    BY SilentStep
  <2>2. CASE taken' = taken
    BY <2>1, <2>2 DEF IInv, UpdateInv
  <2>3. CASE taken' = taken + 1 /\ reader = "reading" /\ reader' \in Unanswered
    <3>1. taken \in Nat
      BY DEF IInv, Typed
    <3>2. \A i \in Written({"updateOk", "updateError"}) : out[i].arg \in 1 .. taken
      BY DEF IInv, UpdateInv
    <3>3. \A i, j \in Written({"updateOk", "updateError"}) : i < j => out[i].arg < out[j].arg
      BY DEF IInv, UpdateInv
    <3>4. \A u \in 1 .. taken : \E i \in Written({"updateOk", "updateError"}) : out[i].arg = u
      BY <2>3 DEF IInv, UpdateInv
    <3>5. reader' \notin {"reading", "answered", "notifying", "closing"}
      BY <2>3 DEF Unanswered
    <3>6. QED
      BY <2>1, <2>3, <3>1, <3>2, <3>3, <3>4, <3>5 DEF UpdateInv
  <2>4. QED
    BY <2>2, <2>3
<1>5. QED
  BY <1>1, <1>2, <1>3, <1>4 DEF IInv

\* The update at hand is answered.
LEMMA AnswersUpdate ==
  ASSUME IInv, NEW type \in {"updateOk", "updateError"}, Writes(type, taken),
         UNCHANGED <<sent, taken, streams, closed, announced, ended, updates, fill, acceptor,
                     rejector, notifier, answered, published>>,
         closer' \in [Caller -> Closing \cup {"idle", "reset", "claim", "over"}],
         \A c \in Caller : closer'[c] # closer[c] => published /\ closer'[c] \in {"idle", "reset"},
         reader \in Unanswered, reader' \in {"reading", "answered", "closing"}
  PROVE  IInv'
<1> DEFINE m == Message(type, taken)
<1>1. taken \in Update
  BY DEF IInv, Typed
<1>2. /\ m \in Sent /\ m.type = type /\ m.arg = taken /\ out \in Seq(Sent)
      /\ out' = Append(out, m) /\ ~sendDone /\ sendDone' = sendDone
  BY <1>1 DEF IInv, Typed, Sent, Message, Writes
<1> HIDE DEF m
<1>3. /\ out' \in Seq(Sent)
      /\ Len(out) \in Nat /\ Len(out') = Len(out) + 1
      /\ out'[Len(out')] = m
      /\ \A i \in 1 .. Len(out) : out'[i] = out[i]
      /\ \A types : Written(types)' = IF type \in types THEN Written(types) \cup {Len(out')}
                                                        ELSE Written(types)
  BY <1>2, AppendWritten
<1>4. Typed'
  BY <1>3 DEF IInv, Typed, Unanswered
<1>5. AnswerInv' /\ FillInv' /\ EndedInv'
  BY DEF IInv, AnswerInv, FillInv, EndedInv
<1>6. CloseInv' /\ WrittenInv'
  <2>1. \A c \in Caller : closer'[c] \in Closing => closer'[c] = closer[c]
    BY DEF Closing
  <2>2. \A c \in Caller : closer'[c] = "write" => closer[c] = "write"
    BY DEF Closing
  <2>3. CloseInv'
    BY <2>1 DEF IInv, CloseInv
  <2>4. WrittenInv'
    BY <1>2, <1>3, <2>2 DEF IInv, WrittenInv
  <2>5. QED
    BY <2>3, <2>4
<1>7. OneEnding'
  BY <1>2, <1>3 DEF IInv, WrittenInv, OneEnding
<1>8. UpdateInv'
  <2> DEFINE before == Written({"updateOk", "updateError"})
  <2>1. /\ \A i \in before : i \in 1 .. Len(out) /\ out'[i] = out[i]
        /\ Written({"updateOk", "updateError"})' = before \cup {Len(out')}
    BY <1>3 DEF Written
  <2>2. \A i \in before : out'[i].arg \in 1 .. taken /\ out'[i].arg < taken
    <3>1. \A i \in before : out[i].arg \in 1 .. taken /\ out[i].arg # taken
      BY DEF IInv, UpdateInv
    <3>2. taken \in Nat
      BY <1>1 DEF Update
    <3>3. QED
      BY <2>1, <3>1, <3>2
  <2>3. \A i, j \in before : i < j => out'[i].arg < out'[j].arg
    BY <2>1 DEF IInv, UpdateInv
  <2>4. out'[Len(out')].arg = taken /\ taken \in 1 .. taken /\ \A i \in before : i < Len(out')
        /\ Len(out') \notin before
    BY <1>1, <1>2, <1>3, <2>1 DEF Update
  <2>5. \A u \in 1 .. taken : u < taken => \E i \in before : out'[i].arg = u
    BY <2>1 DEF IInv, UpdateInv
  <2> HIDE DEF before
  <2>6. \A u \in 1 .. taken : u < taken \/ u = taken
    BY <1>1 DEF Update
  <2>7. \A i, j \in before \cup {Len(out')} : i < j => out'[i].arg < out'[j].arg
    <3> SUFFICES ASSUME NEW i \in before \cup {Len(out')}, NEW j \in before \cup {Len(out')}, i < j
                 PROVE  out'[i].arg < out'[j].arg
      OBVIOUS
    <3>1. i \in before
      BY <1>3, <2>1, <2>4
    <3>2. QED
      BY <2>2, <2>3, <2>4, <3>1
  <2>8. \A u \in 1 .. taken : \E i \in before \cup {Len(out')} : out'[i].arg = u
    BY <2>4, <2>5, <2>6
  <2>9. \A i \in before \cup {Len(out')} : out'[i].arg \in 1 .. taken
    BY <2>2, <2>4
  <2>10. reader' \notin Unanswered
    BY DEF Unanswered
  <2>11. QED
    BY <2>1, <2>7, <2>8, <2>9, <2>10 DEF UpdateInv
<1>9. QED
  BY <1>4, <1>5, <1>6, <1>7, <1>8 DEF IInv

LEMMA TakeIInv ==
  ASSUME IInv, NEW u \in Update, FoldUpdate(u) \/ MergeUpdate(u)
  PROVE  IInv'
<1> USE DEF Take, ReaderAt, peer, stream
<1>1. /\ UNCHANGED <<sent, out, sendDone, streams, closed, announced, ended, updates, acceptor,
                     rejector, closer, notifier, answered, published>>
      /\ taken' = taken + 1 /\ taken < sent /\ reader = "reading" /\ reader' \in Unanswered
      /\ reader' = "failing" => published
  BY DEF FoldUpdate, MergeUpdate, Unanswered, IInv, Typed
<1>2. fill' = fill \/ (~published /\ u # 0 /\ fill' = [fill EXCEPT ![u] = "early"])
  BY DEF FoldUpdate, MergeUpdate, Update
<1>3. fill' \in [Fill -> {"none", "asked", "early", "taken", "dropped", "started", "opened",
                          "open", "closed"}]
  BY <1>2 DEF IInv, Typed
<1>4. FillInv'
  <2>1. CASE fill' = fill
    BY <1>1, <2>1 DEF IInv, FillInv
  <2>2. CASE ~published /\ u # 0 /\ fill' = [fill EXCEPT ![u] = "early"]
    <3>1. acceptor \notin {"starting", "returned"}
      BY <2>2 DEF IInv, AnswerInv, Publishing
    <3>2. \A f \in Fill : fill'[f] = IF f = u THEN "early" ELSE fill[f]
      BY <2>2 DEF IInv, Typed
    <3>3. QED
      BY <1>1, <3>1, <3>2 DEF IInv, FillInv
  <2>3. QED
    BY <1>2, <2>1, <2>2
<1>5. EndedInv'
  BY <1>1 DEF IInv, EndedInv
<1>6. closer' \in [Caller -> Closing \cup {"idle", "reset", "claim", "over"}]
  BY <1>1 DEF IInv, Typed
<1>7. QED
  BY <1>1, <1>3, <1>4, <1>5, <1>6, ReaderMoves DEF ReaderPlace

LEMMA AnswerUpdateIInv ==
  ASSUME IInv, AnswerFolded \/ AnswerMerged \/ AnswerFailed
  PROVE  IInv'
<1> USE DEF ReaderAt, peer, subscription
<1>1. /\ UNCHANGED <<sent, taken, streams, closed, announced, ended, updates, fill, acceptor,
                     rejector, notifier, answered, published>>
      /\ reader \in Unanswered
  BY DEF AnswerFolded, AnswerMerged, AnswerFailed, Unanswered
<1>2. /\ closer' \in [Caller -> Closing \cup {"idle", "reset", "claim", "over"}]
      /\ \A c \in Caller : closer'[c] # closer[c] => published /\ closer'[c] \in {"idle", "reset"}
  <2>1. CASE closer' = closer
    BY <2>1 DEF IInv, Typed
  <2>2. CASE reader = "failing" /\ closer' = [closer EXCEPT !["reader"] = "reset"]
    BY <2>2 DEF IInv, Typed, AnswerInv
  <2>3. QED
    BY <2>1, <2>2 DEF AnswerFolded, AnswerMerged, AnswerFailed
<1>3. \/ /\ \E type \in {"updateOk", "updateError"} : Writes(type, taken)
         /\ reader' \in {"reading", "answered", "closing"}
      \/ WriteFails /\ reader' \in {"ending", "closingFailed"}
  BY DEF AnswerFolded, AnswerMerged, AnswerFailed
<1>4. CASE WriteFails /\ reader' \in {"ending", "closingFailed"}
  <2>1. UNCHANGED <<out, sendDone>> /\ FillInv' /\ EndedInv'
    BY <1>1, <1>4 DEF WriteFails, stream, IInv, FillInv, EndedInv
  <2>2. reader' \in ReaderPlace /\ reader' \notin Unanswered /\ reader' # "failing"
        /\ reader' \notin {"reading", "answered", "notifying", "closing"}
    BY <1>4 DEF ReaderPlace, Unanswered
  <2>3. fill' \in [Fill -> {"none", "asked", "early", "taken", "dropped", "started", "opened",
                            "open", "closed"}]
    BY <1>1 DEF IInv, Typed
  <2>4. QED
    BY <1>1, <1>2, <2>1, <2>2, <2>3, ReaderMoves
<1>5. QED
  BY <1>1, <1>2, <1>3, <1>4, AnswersUpdate

LEMMA GoesOnIInv ==
  ASSUME IInv,
         \/ FailedReturns \/ NotifyUpdate \/ ReadEnds \/ RunReturns \/ StreamEnded
         \/ ReaderStartsFill \/ StreamEndedResetsFills \/ StreamEndedClosesUpdates
  PROVE  IInv'
<1> USE DEF ReaderAt, peer, stream
<1>1. /\ UNCHANGED <<sent, taken, out, sendDone, streams, closed, announced, acceptor, rejector,
                     notifier, answered, published>>
      /\ reader' \in ReaderPlace /\ reader' \notin Unanswered /\ reader' # "failing"
      /\ reader' \in {"reading", "answered", "notifying", "closing"}
           => reader \in {"reading", "answered", "notifying", "closing"}
  BY DEF FailedReturns, NotifyUpdate, ReadEnds, RunReturns, StreamEnded, ReaderStartsFill,
         StreamEndedResetsFills, StreamEndedClosesUpdates, subscription, ReaderPlace, Unanswered
<1>2. /\ closer' \in [Caller -> Closing \cup {"idle", "reset", "claim", "over"}]
      /\ \A c \in Caller : closer'[c] # closer[c] => published /\ closer'[c] \in {"idle", "reset"}
  <2>1. CASE closer' = closer
    BY <2>1 DEF IInv, Typed
  <2>2. CASE closer["reader"] = "over" /\ closer' = [closer EXCEPT !["reader"] = "idle"]
    BY <2>2 DEF IInv, Typed, AnswerInv, Caller
  <2>3. QED
    BY <2>1, <2>2 DEF FailedReturns, NotifyUpdate, ReadEnds, RunReturns, StreamEnded,
                      ReaderStartsFill, StreamEndedResetsFills, StreamEndedClosesUpdates
<1>3. /\ fill' \in [Fill -> {"none", "asked", "early", "taken", "dropped", "started", "opened",
                             "open", "closed"}]
      /\ FillInv'
  <2>1. CASE fill' = fill
    BY <1>1, <2>1 DEF IInv, Typed, FillInv
  <2>2. CASE ReaderStartsFill
    <3>1. fill' = fill \/ \E to \in {"dropped", "started"} : fill' = [fill EXCEPT ![taken] = to]
      BY <2>2 DEF ReaderStartsFill, StartFill
    <3>2. QED
      BY <1>1, <2>1, <3>1 DEF IInv, Typed, FillInv
  <2>3. CASE StreamEndedResetsFills
    BY <1>1, <2>3, ResetFillsIInv DEF StreamEndedResetsFills
  <2>4. QED
    BY <2>1, <2>2, <2>3
       DEF FailedReturns, NotifyUpdate, ReadEnds, RunReturns, StreamEnded, StreamEndedClosesUpdates,
           subscription
<1>4. EndedInv'
  <2>1. CASE StreamEndedClosesUpdates
    BY <2>1 DEF StreamEndedClosesUpdates, EndedInv
  <2>2. CASE UNCHANGED <<ended, updates>>
    BY <2>2 DEF IInv, EndedInv
  <2>3. QED
    BY <2>1, <2>2 DEF FailedReturns, NotifyUpdate, ReadEnds, RunReturns, StreamEnded,
                      ReaderStartsFill, StreamEndedResetsFills, subscription
<1>5. QED
  BY <1>1, <1>2, <1>3, <1>4, ReaderMoves

-----------------------------------------------------------------------------

LEMMA NextIInv == IInv /\ [Next]_vars => IInv'
<1> SUFFICES ASSUME IInv, [Next]_vars PROVE IInv'
  OBVIOUS
<1>1. CASE ReaderStep
  BY <1>1, TakeIInv, AnswerUpdateIInv, GoesOnIInv DEF ReaderStep
<1>2. CASE ApplicationStep
  BY <1>2, ApplicationIInv, CallCloseIInv, NotifyIInv DEF ApplicationStep
<1>3. CASE AcceptStep \/ RejectStep
  BY <1>3, AcceptIInv, RejectIInv
<1>4. CASE (\E c \in Caller : CloseStep(c)) \/ \E f \in Fill : FillStep(f)
  BY <1>4, CloseStepIInv, FillStepIInv
<1>5. CASE PeerStep \/ EndSession \/ UNCHANGED vars
  BY <1>5, ApplicationIInv
<1>6. QED
  BY <1>1, <1>2, <1>3, <1>4, <1>5 DEF Next

\* The invariant of one subscription's request stream (subscribe.go, publish_state.go).
THEOREM Inductive == Spec => []IInv
BY InitIInv, NextIInv, PTL DEF Spec

\* Accept, Reject, Close and the reader (subscribe.go, request_stream.go): in any
\* order of their steps, and with any number of updates among them, the subscriber
\* reads one answer, at most one PUBLISH_DONE, and nothing after the end.
THEOREM OneEndingOnly == Spec => []OneEnding
<1>1. IInv => OneEnding
  BY DEF IInv
<1>2. QED
  BY <1>1, Inductive, PTL

\* applyUpdate (subscribe.go): every update is answered once and in its turn.
THEOREM EachUpdateAnsweredOnce == Spec => []OneAnswerPerUpdate
<1>1. IInv => OneAnswerPerUpdate
  BY DEF IInv, UpdateInv, OneAnswerPerUpdate
<1>2. QED
  BY <1>1, Inductive, PTL

\* earlyFills (subscribe.go): however many fills are asked for before the answer,
\* none is forgotten when Accept returns.
THEOREM EarlyFillsStarted == Spec => []EarlyFillsKept
<1>1. IInv => EarlyFillsKept
  BY DEF IInv, FillInv, EarlyFillsKept
<1>2. QED
  BY <1>1, Inductive, PTL

-----------------------------------------------------------------------------
(* The end of the updates. *)

\* The reader ends the context before it looks for a subscription to end: one that
\* was accepted in time is there.
TimeInv ==
  /\ inTime => published /\ reader # "gone"
  /\ reader \in {"ended", "resetting", "finishing", "over", "gone"} => ~ctx
  /\ reader = "over" => ended

LEMMA InitTimeInv == Init => TimeInv
BY DEF Init, TimeInv

LEMMA ReaderTimeInv == ASSUME TimeInv, ReaderStep PROVE TimeInv'
<1> USE DEF ReaderAt
<1>1. CASE RunReturns
  BY <1>1 DEF RunReturns, TimeInv, subscription
<1>2. CASE StreamEnded
  BY <1>2 DEF StreamEnded, TimeInv, subscription
<1>3. CASE StreamEndedResetsFills \/ StreamEndedClosesUpdates
  BY <1>3 DEF StreamEndedResetsFills, StreamEndedClosesUpdates, TimeInv
<1>4. CASE \E u \in Update : FoldUpdate(u) \/ MergeUpdate(u)
  BY <1>4 DEF FoldUpdate, MergeUpdate, TimeInv
<1>5. CASE \/ AnswerFolded \/ AnswerFailed \/ FailedReturns \/ AnswerMerged
           \/ ReaderStartsFill \/ NotifyUpdate \/ ReadEnds
  BY <1>5 DEF AnswerFolded, AnswerFailed, FailedReturns, AnswerMerged, ReaderStartsFill,
              NotifyUpdate, ReadEnds, TimeInv, subscription
<1>6. QED
  BY <1>1, <1>2, <1>3, <1>4, <1>5 DEF ReaderStep

LEMMA AcceptTimeInv == ASSUME TimeInv, AcceptStep PROVE TimeInv'
<1> USE DEF AcceptorAt, request, subscription
<1>1. CASE AcceptPublishes
  BY <1>1 DEF AcceptPublishes, TimeInv
<1>2. CASE AcceptReads \/ AcceptRegisters \/ AcceptWrites
  BY <1>2 DEF AcceptReads, AcceptRegisters, AcceptWrites, TimeInv
<1>3. CASE AcceptStartsOwnFill \/ AcceptTakesEarlyFills \/ AcceptReturns
  BY <1>3 DEF AcceptStartsOwnFill, AcceptTakesEarlyFills, AcceptReturns, TimeInv
<1>4. CASE \E f \in Fill : AcceptStartsFill(f)
  BY <1>4 DEF AcceptStartsFill, TimeInv, goroutines
<1>5. QED
  BY <1>1, <1>2, <1>3, <1>4 DEF AcceptStep

LEMMA NextTimeInv == TimeInv /\ [Next]_vars => TimeInv'
<1> SUFFICES ASSUME TimeInv, [Next]_vars PROVE TimeInv'
  OBVIOUS
<1> USE DEF request, subscription, goroutines
<1>1. CASE ReaderStep \/ AcceptStep
  BY <1>1, ReaderTimeInv, AcceptTimeInv
<1>2. CASE RejectStep
  BY <1>2 DEF RejectStep, RejectClaims, RejectWrites, RejectFinishes, RejectCancels, RejectorAt, TimeInv
<1>3. CASE ApplicationStep
  BY <1>3 DEF ApplicationStep, OpenSubgroup, CloseSubgroup, CallClose, CloserAt, SetState,
              NotifyState, Updates, ReceiveUpdate, TimeInv
<1>4. CASE \E c \in Caller : CloseStep(c)
  BY <1>4 DEF CloseStep, CloseResetsFills, CloseClaims, CloseWrites, CloseFinishes, CloseCancels,
              CloserAt, Cancel, TimeInv
<1>5. CASE \E f \in Fill : FillStep(f)
  BY <1>5 DEF FillStep, OpenFill, RegisterFill, CloseFill, TimeInv
<1>6. CASE PeerStep \/ EndSession \/ UNCHANGED vars
  BY <1>6 DEF PeerStep, SendUpdate, EndPeer, EndSession, vars, TimeInv
<1>7. QED
  BY <1>1, <1>2, <1>3, <1>4, <1>5, <1>6 DEF Next

\* streamEnded and Updates (subscribe.go): of a subscription accepted while its
\* request was alive the channel is closed once the reader has returned, whether
\* it was asked for before that or after.
THEOREM RangesEnd == Spec => []RangeTerminates
<1>1. TimeInv /\ IInv => RangeTerminates
  BY DEF TimeInv, IInv, EndedInv, RangeTerminates, Served
<1>2. Spec => []TimeInv
  BY InitTimeInv, NextTimeInv, PTL DEF Spec
<1>3. QED
  BY <1>1, <1>2, Inductive, PTL
==============================================================================
