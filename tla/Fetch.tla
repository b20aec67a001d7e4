-------------------------------- MODULE Fetch --------------------------------
(***************************************************************************)
(* One FETCH between two endpoints of the library (fetch.go): the answer    *)
(* travels on the request stream, the records on a stream of their own, and *)
(* the two overtake each other.  Publisher: FetchRequest and FetchResponse. *)
(* Subscriber: Session.fetch, FetchStream with its reader, the handler of   *)
(* the data stream, and the application that reads.                        *)
(*                                                                         *)
(* Ranges, Joining FETCHes and REQUEST_UPDATEs (which the library does not *)
(* send for a FETCH) are not in this module.                               *)
(***************************************************************************)
EXTENDS Naturals, Sequences

CONSTANTS
    MaxRecords,   \* bound: records of the response
    Buffer,       \* fetchObjectBuffer
    Ends          \* how another publisher may end the request stream after
                  \* FETCH_OK, of "fin", "reset"; this one does not

ASSUME ConstantsAssumption ==
    MaxRecords \in Nat /\ Buffer \in Nat \ {0} /\ Ends \subseteq {"fin", "reset"}

VARIABLES
    (* The publisher. *)
    answered,    \* FetchRequest.answered
    acceptor,    \* a goroutine in Accept
    rejector,    \* a goroutine in Reject
    sendDone,    \* its half of the request stream is finished
    serving,     \* its request's context is alive
    replies,     \* written on the request stream, and not yet read
    records,     \* records written on the data stream
    ending,      \* the data stream: "none", "open", "fin" or "reset"
    (* The subscriber. *)
    call,        \* Fetch: "idle", "waiting", "returned" or "failed"
    callErr,     \* the error it returned
    withdrawn,   \* requestStream.cancel has been called
    ctx,         \* its request's context: "live", or the cause of its end
    registered,  \* the session's fetchReceivers has the fetch
    reader,      \* run, on the request stream
    okSeen,      \* FetchStream.answered
    answerErr,   \* answerErr
    established, \* established is closed
    handler,     \* handleFetchStream, on the data stream
    read,        \* records it has read
    finished,    \* it saw the FIN, the argument of responseComplete
    dataDone,    \* dataDone
    responseDone,\* responseDone is closed
    objects,     \* records in the objects channel
    got,         \* records ReadObject has returned
    outcome,     \* what ReadObject ended with
    session      \* the connection, and both sessions, are alive

publisher == <<answered, acceptor, rejector, sendDone, serving, replies, records, ending>>
fetching == <<call, callErr>>
request == <<withdrawn, ctx>>
running == <<registered, reader, okSeen, answerErr, established>>
handling == <<handler, read, finished, dataDone>>
reading == <<got, outcome>>
vars == <<publisher, fetching, request, running, handling, responseDone, objects, reading, session>>

Cause == {"complete", "closed", "abandoned", "ended", "session"}

Init ==
    /\ answered = FALSE /\ acceptor = "idle" /\ rejector = "idle"
    /\ sendDone = FALSE /\ serving = TRUE /\ replies = <<>>
    /\ records = 0 /\ ending = "none"
    /\ call = "idle" /\ callErr = "none"
    /\ withdrawn = FALSE /\ ctx = "live"
    /\ registered = FALSE /\ reader = "off" /\ okSeen = FALSE
    /\ answerErr = "none" /\ established = FALSE
    /\ handler = "idle" /\ read = 0 /\ finished = FALSE /\ dataDone = FALSE
    /\ responseDone = FALSE /\ objects = 0 /\ got = 0 /\ outcome = "open"
    /\ session = TRUE

-----------------------------------------------------------------------------
(* The publisher. *)

subscriber == <<fetching, request, running, handling, responseDone, objects, reading, session>>

\* requestStream.write on the publisher's half.
Writes(message) ==
    /\ ~sendDone /\ session
    /\ replies' = Append(replies, message)

WriteFails ==
    /\ sendDone \/ withdrawn \/ ~session
    /\ UNCHANGED replies

AcceptorAt(from, to) ==
    /\ call # "idle" /\ acceptor = from
    /\ acceptor' = to
    /\ UNCHANGED <<rejector, sendDone, serving, records, subscriber>>

\* The last disjunct: an open end that nobody resolved.
AcceptClaims ==
    /\ \/ ~answered /\ AcceptorAt("idle", "claimed") /\ answered' = TRUE
       \/ answered /\ AcceptorAt("idle", "failed") /\ UNCHANGED answered
       \/ ~answered /\ AcceptorAt("idle", "failed") /\ UNCHANGED answered
    /\ UNCHANGED <<replies, ending>>

\* openUniStream, which fails once the request is over, and the FETCH_HEADER.
AcceptOpens ==
    /\ \/ session /\ AcceptorAt("claimed", "opened") /\ ending' = "open"
       \/ ~serving /\ AcceptorAt("claimed", "failed") /\ UNCHANGED ending
       \/ ~session /\ AcceptorAt("claimed", "failed") /\ ending' = "reset"
    /\ UNCHANGED <<answered, replies>>

\* Variant of AcceptWrites: the stream of a failed Accept is left as it is.
AcceptWritesOnly ==
    /\ \/ Writes("ok") /\ AcceptorAt("opened", "returned")
       \/ WriteFails /\ AcceptorAt("opened", "failed")
    /\ UNCHANGED <<answered, ending>>

\* FETCH_OK; without it the stream is reset.
AcceptWrites ==
    /\ \/ Writes("ok") /\ AcceptorAt("opened", "returned") /\ UNCHANGED ending
       \/ WriteFails /\ AcceptorAt("opened", "failed") /\ ending' = "reset"
    /\ UNCHANGED answered

RejectorAt(from, to) ==
    /\ call # "idle" /\ rejector = from
    /\ rejector' = to
    /\ UNCHANGED <<acceptor, records, ending, subscriber>>

RejectClaims ==
    /\ \/ ~answered /\ RejectorAt("idle", "write")
       \/ answered /\ RejectorAt("idle", "over")
    /\ answered' = TRUE
    /\ UNCHANGED <<sendDone, serving, replies>>

\* finish: REQUEST_ERROR, then FIN.
RejectWrites ==
    /\ \/ Writes("error") /\ RejectorAt("write", "fin")
       \/ WriteFails /\ RejectorAt("write", "cancel")
    /\ UNCHANGED <<answered, sendDone, serving>>

RejectFinishes ==
    /\ RejectorAt("fin", "cancel")
    /\ sendDone' = TRUE
    /\ replies' = IF sendDone THEN replies ELSE Append(replies, "fin")
    /\ UNCHANGED <<answered, serving>>

RejectCancels ==
    /\ RejectorAt("cancel", "over")
    /\ serving' = FALSE
    /\ UNCHANGED <<answered, sendDone, replies>>

\* serve's reader: the subscriber's cancel, or the lost connection, ends the read.
ServeEnds ==
    /\ serving /\ (withdrawn \/ ~session)
    /\ serving' = FALSE
    /\ UNCHANGED <<answered, acceptor, rejector, sendDone, replies, records, ending, subscriber>>

WriteObject ==
    /\ acceptor = "returned" /\ ending = "open" /\ session /\ records < MaxRecords
    /\ records' = records + 1
    /\ UNCHANGED <<answered, acceptor, rejector, sendDone, serving, replies, ending, subscriber>>

\* FetchResponse.Close and Reset.
EndResponse(how) ==
    /\ acceptor = "returned" /\ ending = "open" /\ session
    /\ ending' = how
    /\ UNCHANGED <<answered, acceptor, rejector, sendDone, serving, replies, records, subscriber>>

\* A publisher that ends its half of the request stream once it has answered.
EndsRequest(how) ==
    /\ acceptor = "returned" /\ ~sendDone /\ session /\ how \in Ends
    /\ sendDone' = TRUE
    /\ replies' = IF how = "fin" THEN Append(replies, "fin") ELSE <<"reset">>
    /\ UNCHANGED <<answered, acceptor, rejector, serving, records, ending, subscriber>>

-----------------------------------------------------------------------------
(* The subscriber: Session.fetch. *)

CtxEnds(cause) == ctx' = IF ctx = "live" THEN cause ELSE ctx

\* requestStream.cancel: reset, STOP_SENDING, and the context.
Cancel(cause) == withdrawn' = TRUE /\ CtxEnds(cause)

\* The fetch is findable, and its reader runs, before the request goes out.
Request ==
    /\ session /\ call = "idle"
    /\ call' = "waiting" /\ registered' = TRUE /\ reader' = "reading"
    /\ UNCHANGED <<publisher, callErr, request, okSeen, answerErr, established, handling,
                   responseDone, objects, reading, session>>

Fails(err) ==
    /\ call' = "failed" /\ callErr' = err
    /\ UNCHANGED <<publisher, running, handling, responseDone, objects, reading, session>>

\* The write fails, or the caller's context ends, whatever has arrived by then.
GiveUp == call = "waiting" /\ Fails("abandoned") /\ Cancel("abandoned")

\* awaitEstablished, with the answer.
Answered ==
    /\ call = "waiting" /\ established
    /\ \/ answerErr # "none" /\ Fails(answerErr) /\ Cancel("abandoned")
       \/ /\ answerErr = "none"
          /\ call' = "returned"
          /\ UNCHANGED <<publisher, callErr, request, running, handling, responseDone, objects,
                         reading, session>>

\* awaitEstablished, with no answer when it looks again.
RequestOver ==
    /\ call = "waiting" /\ ~established /\ ctx # "live"
    /\ Fails(ctx) /\ Cancel("abandoned")

Close ==
    /\ call = "returned" /\ outcome = "open"
    /\ Cancel("closed")
    /\ UNCHANGED <<publisher, fetching, running, handling, responseDone, objects, reading, session>>

(* ReadObject. *)

ReadObject ==
    /\ call = "returned" /\ outcome = "open" /\ objects > 0
    /\ objects' = objects - 1 /\ got' = got + 1
    /\ UNCHANGED <<publisher, fetching, request, running, handling, responseDone, outcome, session>>

\* Variant of FindsNothing: the ending is taken as soon as it is there.
FindsEnding ==
    /\ call = "returned" /\ outcome = "open" /\ (responseDone \/ ctx # "live")
    /\ outcome' = "drained"
    /\ UNCHANGED <<publisher, fetching, request, running, handling, responseDone, objects, got, session>>

\* drained looks once more into the channel ...
FindsNothing ==
    /\ call = "returned" /\ outcome = "open" /\ objects = 0
    /\ responseDone \/ ctx # "live"
    /\ outcome' = "drained"
    /\ UNCHANGED <<publisher, fetching, request, running, handling, responseDone, objects, got, session>>

\* ... and only then at dataDone.  The cause of a live context is nil.
ReadEnds ==
    /\ outcome = "drained"
    /\ outcome' = CASE dataDone \/ ctx = "complete" -> "complete"
                    [] ~dataDone /\ ctx = "live" -> "nil"
                    [] OTHER -> "error"
    /\ UNCHANGED <<publisher, fetching, request, running, handling, responseDone, objects, got, session>>

-----------------------------------------------------------------------------
(* The request stream's reader: run and handleMessage. *)

ReaderAt(from, to) ==
    /\ reader = from
    /\ reader' = to
    /\ UNCHANGED <<answered, acceptor, rejector, sendDone, serving, records, ending, fetching,
                   handling, objects, reading, session>>

Reads(message) ==
    /\ ~withdrawn /\ session /\ replies # <<>> /\ Head(replies) = message
    /\ replies' = Tail(replies)

ReadAnswer ==
    /\ ReaderAt("reading", "answering")
    /\ \/ Reads("ok") /\ okSeen' = TRUE /\ UNCHANGED answerErr
       \/ Reads("error") /\ answerErr' = "refused" /\ UNCHANGED okSeen
    /\ UNCHANGED <<registered, established, request, responseDone>>

Establish ==
    /\ ReaderAt("answering", "settling")
    /\ established' = TRUE
    /\ UNCHANGED <<replies, request, registered, okSeen, answerErr, responseDone>>

\* Variant of FinishIfComplete: it is left to responseComplete.
FinishLater ==
    /\ ReaderAt("settling", "reading")
    /\ UNCHANGED <<replies, request, registered, okSeen, answerErr, established, responseDone>>

\* finishIfComplete.
FinishIfComplete ==
    /\ ReaderAt("settling", "reading")
    /\ IF responseDone THEN Cancel("complete") ELSE UNCHANGED request
    /\ UNCHANGED <<replies, registered, okSeen, answerErr, established, responseDone>>

\* The read loop ends: FIN, reset, our own STOP_SENDING, or no connection.
ReadFails ==
    /\ \/ Reads("fin") /\ okSeen /\ ReaderAt("reading", "lingering")
       \/ Reads("fin") /\ ~okSeen /\ ReaderAt("reading", "ending")
       \/ Reads("reset") /\ ReaderAt("reading", "ending")
       \/ (withdrawn \/ ~session) /\ ReaderAt("reading", "ending") /\ UNCHANGED replies
    /\ UNCHANGED <<request, registered, okSeen, answerErr, established, responseDone>>

\* Variant of Linger: only the data stream ends the wait.
LingerForData ==
    /\ ReaderAt("lingering", "ending") /\ responseDone
    /\ UNCHANGED <<replies, request, registered, okSeen, answerErr, established, responseDone>>

\* A FIN after FETCH_OK ends no fetch: the data stream does, or our cancel.
Linger ==
    /\ ReaderAt("lingering", "ending") /\ (responseDone \/ ctx # "live")
    /\ UNCHANGED <<replies, request, registered, okSeen, answerErr, established, responseDone>>

RunCancels ==
    /\ ReaderAt("ending", "establishing")
    /\ CtxEnds("ended")
    /\ UNCHANGED <<replies, withdrawn, registered, okSeen, answerErr, established, responseDone>>

RunEstablishes ==
    /\ ReaderAt("establishing", "forgetting")
    /\ established' = TRUE
    /\ answerErr' = IF ~established /\ answerErr = "none" THEN ctx ELSE answerErr
    /\ UNCHANGED <<replies, request, registered, okSeen, responseDone>>

RunForgets ==
    /\ ReaderAt("forgetting", "over")
    /\ registered' = FALSE /\ responseDone' = TRUE
    /\ UNCHANGED <<replies, request, okSeen, answerErr, established>>

-----------------------------------------------------------------------------
(* The data stream's handler: handleFetchStream. *)

HandlerAt(from, to) ==
    /\ handler = from
    /\ handler' = to
    /\ UNCHANGED <<publisher, fetching, running, reading, session>>

\* The FETCH_HEADER names the fetch, or one we have given up on; or it never came.
TakeStream ==
    /\ ending # "none"
    /\ \/ registered /\ HandlerAt("idle", "reading")
       \/ (~registered \/ ending = "reset") /\ HandlerAt("idle", "over")
    /\ UNCHANGED <<request, read, finished, dataDone, responseDone, objects>>

NextRecord ==
    /\ read < records /\ HandlerAt("reading", "holding")
    /\ read' = read + 1
    /\ UNCHANGED <<request, finished, dataDone, responseDone, objects>>

Deliver ==
    /\ objects < Buffer /\ HandlerAt("holding", "reading")
    /\ objects' = objects + 1
    /\ UNCHANGED <<request, read, finished, dataDone, responseDone>>

\* The handler returns, and leaves the stream as it is.
DeliverFails ==
    /\ ctx # "live" /\ HandlerAt("holding", "over")
    /\ UNCHANGED <<request, read, finished, dataDone, responseDone, objects>>

\* The FIN after the last record, or a failed read: a reset overtakes records.
StreamEnds ==
    /\ \/ ending = "fin" /\ read = records /\ finished' = TRUE
       \/ (ending = "reset" \/ ~session) /\ finished' = FALSE
    /\ HandlerAt("reading", "completing")
    /\ UNCHANGED <<request, read, dataDone, responseDone, objects>>

(* responseComplete. *)

RecordsEnding ==
    /\ HandlerAt("completing", "signalling")
    /\ dataDone' = finished
    /\ UNCHANGED <<request, read, finished, responseDone, objects>>

SignalsEnding ==
    /\ HandlerAt("signalling", "settling")
    /\ responseDone' = TRUE
    /\ UNCHANGED <<request, read, finished, dataDone, objects>>

\* Variant of SettlesEnding: an answer that has been recorded is enough.
SettlesOnAnswer ==
    /\ HandlerAt("settling", "over")
    /\ IF okSeen \/ established THEN Cancel("complete") ELSE UNCHANGED request
    /\ UNCHANGED <<read, finished, dataDone, responseDone, objects>>

SettlesEnding ==
    /\ HandlerAt("settling", "over")
    /\ IF established THEN Cancel("complete") ELSE UNCHANGED request
    /\ UNCHANGED <<read, finished, dataDone, responseDone, objects>>

-----------------------------------------------------------------------------

EndSession ==
    /\ session
    /\ session' = FALSE /\ serving' = FALSE
    /\ CtxEnds("session")
    /\ UNCHANGED <<answered, acceptor, rejector, sendDone, replies, records, ending, fetching,
                   withdrawn, running, handling, responseDone, objects, reading>>

PublisherStep ==
    \/ AcceptClaims \/ AcceptOpens \/ AcceptWrites
    \/ RejectClaims \/ RejectWrites \/ RejectFinishes \/ RejectCancels
    \/ ServeEnds \/ WriteObject
    \/ \E how \in {"fin", "reset"} : EndResponse(how) \/ EndsRequest(how)

AwaitStep == Answered \/ RequestOver

ReadStep == ReadObject \/ FindsNothing \/ ReadEnds

ReaderStep ==
    \/ ReadAnswer \/ Establish \/ FinishIfComplete \/ ReadFails \/ Linger
    \/ RunCancels \/ RunEstablishes \/ RunForgets

HandlerStep ==
    \/ TakeStream \/ NextRecord \/ Deliver \/ DeliverFails \/ StreamEnds
    \/ RecordsEnding \/ SignalsEnding \/ SettlesEnding

Next ==
    \/ PublisherStep \/ EndSession
    \/ Request \/ GiveUp \/ AwaitStep \/ Close \/ ReadStep
    \/ ReaderStep \/ HandlerStep

Spec == Init /\ [][Next]_vars

\* The subscriber's goroutines run, and its application reads.
Fairness == WF_vars(AwaitStep) /\ WF_vars(ReadStep) /\ WF_vars(ReaderStep) /\ WF_vars(HandlerStep)

FairSpec == Spec /\ Fairness

-----------------------------------------------------------------------------
(* Properties. *)

\* ReadObject: a response that finished, and whose request nobody else ended, is
\* read in full before it is complete, however late FETCH_OK comes.
ReadsWhole ==
    (outcome = "complete" /\ ending = "fin" /\ ctx \in {"live", "complete"}) => got = records

\* responseComplete: a response that is over before its answer has been seen does
\* not fail the call: Fetch never returns ErrFetchComplete.
AnswerBeatsCompletion == callErr # "complete"

\* Accept: objects cannot be written before the FETCH has been answered, and the
\* stream of an Accept that failed does not stay open.
ResponseIsAnswered ==
    /\ records > 0 => acceptor = "returned"
    /\ acceptor = "failed" => ending \in {"none", "reset"}

\* responseComplete and finishIfComplete: whichever runs second ends the request,
\* and the session then forgets the fetch: later streams with its Request ID are
\* refused.
TornDown ==
    /\ (established /\ responseDone) ~> ctx # "live"
    /\ (registered /\ ctx # "live") ~> ~registered

\* ReadObject: "It returns ErrFetchComplete once the response has been delivered
\* in full and drained, and any other error if the fetch ended without completing".
EndIsTruthful == outcome = "complete" => ending = "fin" /\ got = records
==============================================================================
