----------------------------- MODULE FetchProofs ------------------------------
(***************************************************************************)
(* Theorems about Fetch, for responses and buffers of any size: a response *)
(* is read whole, its end never fails the call, and none is sent without   *)
(* an answer.                                                              *)
(***************************************************************************)
EXTENDS Fetch, TLAPS

\* The types the theorems rest on.
Typed ==
  /\ acceptor \in {"idle", "claimed", "opened", "returned", "failed"}
  /\ records \in Nat /\ ending \in {"none", "open", "fin", "reset"}
  /\ call \in {"idle", "waiting", "returned", "failed"}
  /\ ctx \in {"live"} \cup Cause
  /\ answerErr \in {"none", "refused"} \cup Cause
  /\ reader \in {"off", "reading", "answering", "settling", "lingering", "ending",
                 "establishing", "forgetting", "over"}
  /\ handler \in {"idle", "reading", "holding", "completing", "signalling", "settling", "over"}
  /\ read \in Nat /\ objects \in Nat /\ got \in Nat
  /\ outcome \in {"open", "drained", "complete", "nil", "error"}

\* How far Accept has come says what there can be of its stream.
AcceptInv ==
  /\ call = "idle" => acceptor = "idle" /\ handler = "idle"
  /\ acceptor \in {"idle", "claimed"} => ending = "none"
  /\ acceptor = "opened" => ending = "open"
  /\ acceptor = "failed" => ending \in {"none", "reset"}
  /\ acceptor # "returned" => records = 0

\* Whoever ends the request as complete has seen its answer signalled.
AnswerInv ==
  /\ ctx = "complete" => established
  /\ reader = "settling" => established
  /\ answerErr # "complete" /\ callErr # "complete"

\* A request that nobody ended, or that ended as complete.
Whole == ctx \in {"live", "complete"}

\* The handler has seen the end of the data stream, and reads nothing more.
Ended == handler \in {"settling", "over"}

\* What ended a request is known: the connection, its reader, or the end of the
\* response, after which the handler reads nothing more.
EndInv ==
  /\ ~session => ctx # "live"
  /\ reader \in {"establishing", "forgetting", "over"} => ctx # "live"
  /\ reader = "off" => call = "idle"
  /\ ctx = "live" /\ ~registered => call = "idle"
  /\ ctx = "complete" => Ended
  /\ ctx = "live" /\ responseDone => Ended

\* In such a request no record is lost between the stream, the handler, the channel
\* and the application; and it is not drained before the stream has ended.
DrainInv ==
  Whole =>
    /\ read = got + objects + (IF handler = "holding" THEN 1 ELSE 0)
    /\ handler \in {"completing", "signalling", "settling", "over"}
         => ending = "reset" \/ (ending = "fin" /\ read = records)
    /\ outcome # "open" => objects = 0 /\ Ended

IInv == Typed /\ AcceptInv /\ AnswerInv /\ EndInv /\ DrainInv

LEMMA InitIInv == Init => IInv
<1> SUFFICES ASSUME Init PROVE IInv
  OBVIOUS
<1>1. Typed /\ AcceptInv /\ AnswerInv
  BY DEF Init, Typed, AcceptInv, AnswerInv, Cause
<1>2. EndInv /\ DrainInv
  BY DEF Init, EndInv, DrainInv, Whole, Ended
<1>3. QED
  BY <1>1, <1>2 DEF IInv

\* A step that touches nothing of this.
core == <<acceptor, records, ending, call, callErr, ctx, registered, established, answerErr,
          reader, handler, read, objects, got, responseDone, session, outcome>>

LEMMA StutterIInv == IInv /\ UNCHANGED core => IInv'
BY DEF core, IInv, Typed, AcceptInv, AnswerInv, EndInv, DrainInv, Whole, Ended

-----------------------------------------------------------------------------
(* The publisher. *)

LEMMA PublisherIInv ==
  ASSUME IInv, PublisherStep
  PROVE  IInv'
<1> USE DEF IInv, Typed, AcceptInv, AnswerInv, EndInv, DrainInv, Whole, Ended,
            subscriber, fetching, request, running, handling, reading
<1>1. CASE AcceptClaims
  BY <1>1 DEF AcceptClaims, AcceptorAt
<1>2. CASE AcceptOpens
  BY <1>2 DEF AcceptOpens, AcceptorAt
<1>3. CASE AcceptWrites
  BY <1>3 DEF AcceptWrites, AcceptorAt
<1>4. CASE RejectClaims \/ RejectWrites \/ RejectFinishes \/ RejectCancels
  BY <1>4, StutterIInv DEF RejectClaims, RejectWrites, RejectFinishes, RejectCancels, RejectorAt, core
<1>5. CASE ServeEnds
  BY <1>5, StutterIInv DEF ServeEnds, core
<1>6. CASE WriteObject
  BY <1>6 DEF WriteObject
<1>7. CASE \E how \in {"fin", "reset"} : EndResponse(how)
  BY <1>7 DEF EndResponse
<1>8. CASE \E how \in {"fin", "reset"} : EndsRequest(how)
  BY <1>8, StutterIInv DEF EndsRequest, core
<1>9. QED
  BY <1>1, <1>2, <1>3, <1>4, <1>5, <1>6, <1>7, <1>8 DEF PublisherStep

-----------------------------------------------------------------------------
(* The subscriber: its calls, the reader of the request stream, the handler. *)

LEMMA CallIInv ==
  ASSUME IInv, Request \/ GiveUp \/ AwaitStep \/ Close \/ ReadStep
  PROVE  IInv'
<1> USE DEF IInv, Typed, AcceptInv, AnswerInv, EndInv, DrainInv, Whole, Ended, Cause,
            publisher, fetching, request, running, handling, reading, Fails, Cancel, CtxEnds
<1>1. CASE Request
  BY <1>1 DEF Request
<1>2. CASE GiveUp \/ RequestOver \/ Answered
  BY <1>2 DEF GiveUp, RequestOver, Answered
<1>3. CASE Close
  BY <1>3 DEF Close
<1>4. CASE ReadObject
  BY <1>4 DEF ReadObject
<1>5. CASE FindsNothing \/ ReadEnds
  BY <1>5 DEF FindsNothing, ReadEnds
<1>6. QED
  BY <1>1, <1>2, <1>3, <1>4, <1>5 DEF AwaitStep, ReadStep

LEMMA ReaderIInv ==
  ASSUME IInv, ReaderStep
  PROVE  IInv'
<1> USE DEF IInv, Typed, AcceptInv, AnswerInv, EndInv, DrainInv, Whole, Ended, Cause,
            fetching, request, handling, reading, ReaderAt, Cancel, CtxEnds
<1>1. CASE ReadAnswer \/ Establish
  <2> USE <1>1 DEF ReadAnswer, Establish
  <2>1. Typed'
    OBVIOUS
  <2>2. AcceptInv'
    OBVIOUS
  <2>3. AnswerInv'
    OBVIOUS
  <2>4. EndInv'
    OBVIOUS
  <2>5. DrainInv'
    OBVIOUS
  <2>6. QED
    BY <2>1, <2>2, <2>3, <2>4, <2>5
<1>2. CASE FinishIfComplete
  BY <1>2 DEF FinishIfComplete
<1>3. CASE ReadFails \/ Linger
  BY <1>3 DEF ReadFails, Linger
<1>4. CASE RunCancels
  BY <1>4 DEF RunCancels
<1>5. CASE RunEstablishes
  BY <1>5 DEF RunEstablishes
<1>6. CASE RunForgets
  <2> USE <1>6 DEF RunForgets
  <2>1. Typed'
    OBVIOUS
  <2>2. AcceptInv'
    OBVIOUS
  <2>3. AnswerInv'
    OBVIOUS
  <2>4. EndInv'
    OBVIOUS
  <2>5. DrainInv'
    OBVIOUS
  <2>6. QED
    BY <2>1, <2>2, <2>3, <2>4, <2>5
<1>7. QED
  BY <1>1, <1>2, <1>3, <1>4, <1>5, <1>6 DEF ReaderStep

LEMMA HandlerIInv ==
  ASSUME IInv, HandlerStep
  PROVE  IInv'
<1> USE DEF IInv, Typed, AcceptInv, AnswerInv, EndInv, DrainInv, Whole, Ended, Cause,
            publisher, fetching, request, running, reading, HandlerAt, Cancel, CtxEnds
<1>1. CASE TakeStream
  BY <1>1 DEF TakeStream
<1>2. CASE NextRecord \/ Deliver \/ DeliverFails
  BY <1>2, ConstantsAssumption DEF NextRecord, Deliver, DeliverFails
<1>3. CASE StreamEnds
  BY <1>3 DEF StreamEnds
<1>4. CASE RecordsEnding \/ SignalsEnding
  <2> USE <1>4 DEF RecordsEnding, SignalsEnding
  <2>1. Typed'
    OBVIOUS
  <2>2. AcceptInv'
    OBVIOUS
  <2>3. AnswerInv'
    OBVIOUS
  <2>4. EndInv'
    OBVIOUS
  <2>5. DrainInv'
    OBVIOUS
  <2>6. QED
    BY <2>1, <2>2, <2>3, <2>4, <2>5
<1>5. CASE SettlesEnding
  BY <1>5 DEF SettlesEnding
<1>6. QED
  BY <1>1, <1>2, <1>3, <1>4, <1>5 DEF HandlerStep

LEMMA NextIInv == IInv /\ [Next]_vars => IInv'
<1> SUFFICES ASSUME IInv, [Next]_vars PROVE IInv'
  OBVIOUS
<1>1. CASE EndSession
  <2> USE <1>1 DEF EndSession, CtxEnds, fetching, running, handling, reading, Cause,
                IInv, Typed, AcceptInv, AnswerInv, EndInv, DrainInv, Whole, Ended
  <2>1. Typed'
    OBVIOUS
  <2>2. AcceptInv'
    OBVIOUS
  <2>3. AnswerInv'
    OBVIOUS
  <2>4. EndInv'
    OBVIOUS
  <2>5. DrainInv'
    OBVIOUS
  <2>6. QED
    BY <2>1, <2>2, <2>3, <2>4, <2>5
<1>2. CASE UNCHANGED vars
  BY <1>2, StutterIInv
     DEF vars, publisher, fetching, request, running, handling, reading, core
<1>3. QED
  BY <1>1, <1>2, PublisherIInv, CallIInv, ReaderIInv, HandlerIInv DEF Next

\* The invariant the theorems about a FETCH response (fetch.go) follow from.
THEOREM Inductive == Spec => []IInv
BY InitIInv, NextIInv, PTL DEF Spec

\* ReadObject (fetch.go): however many records a response has and however small
\* the buffer is, one that finished, and whose request nobody else ended, is read
\* whole before it is reported as complete.
THEOREM WholeResponses == Spec => []ReadsWhole
<1>1. IInv => ReadsWhole
  BY DEF IInv, Typed, DrainInv, Whole, Ended, ReadsWhole
<1>2. QED
  BY <1>1, Inductive, PTL

\* responseComplete, finishIfComplete and run (fetch.go): no order of the answer and
\* the end of the response makes Fetch return ErrFetchComplete.
THEOREM CompletionFailsNoCall == Spec => []AnswerBeatsCompletion
<1>1. IInv => AnswerBeatsCompletion
  BY DEF IInv, AnswerInv, AnswerBeatsCompletion
<1>2. QED
  BY <1>1, Inductive, PTL

\* Accept (fetch.go): no Object precedes the answer, and no stream outlives an
\* Accept that failed.
THEOREM NoneUnanswered == Spec => []ResponseIsAnswered
<1>1. IInv => ResponseIsAnswered
  BY DEF IInv, Typed, AcceptInv, ResponseIsAnswered
<1>2. QED
  BY <1>1, Inductive, PTL
===============================================================================
