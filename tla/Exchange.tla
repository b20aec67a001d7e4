------------------------------ MODULE Exchange ------------------------------
(***************************************************************************)
(* The messages of one request stream and their Message Parameters, at     *)
(* both ends: encoding and the message tables of the two drafts            *)
(* (internal/wire2: parser.go, parameters.go, parameter_scope.go), the     *)
(* check of where a parameter may be (parameter_check.go), sending and     *)
(* reading (request_stream.go), and TRACK_STATUS as a whole                *)
(* (track_status.go).                                                      *)
(*                                                                         *)
(* A REQUEST_OK does not say what it answers.  Each end follows the        *)
(* exchange with a parameterScope of its own, and an end that takes a      *)
(* message for something else than it was sent as closes the session.      *)
(* The applications, which choose messages and parameters, do all that a   *)
(* request of the kind allows; the library itself neither opens nor        *)
(* accepts a PUBLISH or SUBSCRIBE_TRACKS.  How a request of another kind   *)
(* than TRACK_STATUS ends is in the modules of those requests.             *)
(***************************************************************************)
EXTENDS TypeDeltas

CONSTANTS
  StreamVersions,  \* drafts a session may have negotiated
  MaxSent          \* bound: messages each end sends on the stream

ASSUME StreamAssumption == StreamVersions \subseteq {18, 22} /\ MaxSent \in Nat

VARIABLES
  negotiated,  \* requestStream.version
  request,     \* [kind, include]: what opened the stream, or <<>>
  scope,       \* parameterScope of each end
  inbound,     \* messages and FINs on the way to each end
  sendDone,    \* requestStream.sendDone of each end
  sentCount,   \* messages each end has sent
  claimed,     \* the responder's "answered": "no", or how: "accepted", "rejected"
               \* or "refused" (by its own write)
  owed,        \* REQUEST_UPDATEs each end has read and not answered
  call,        \* Session.TrackStatus: "new", "written", "released", "returned"
  lastRead,    \* how the message read last was meant and taken, or <<>>
  failed       \* of the message that closed the session, or <<>>

exchangeVars == <<negotiated, request, scope, inbound, sendDone, sentCount,
                  claimed, owed, call, lastRead, failed>>

Ends == {"requester", "responder"}
PeerOf(e) == IF e = "requester" THEN "responder" ELSE "requester"

\* OpensRequestStream
RequestKinds == {"Subscribe", "Publish", "Fetch", "TrackStatus", "PublishNamespace",
                 "SubscribeNamespace", "SubscribeTracks"}

------------------------------------------------------------------------------
(* Parameters (parameters.go).  Those left out are checked as these are.   *)

Authorization == 3        \* the one that may be repeated
Expires == 8
LargestObject == 9
FillTimeout == 10
Forward == 16
FillParameters == 35      \* its value is a block with a registry of its own
NamespacePrefix == 52
IncludeProperties == 53
UnknownType == 255

Registry(version) ==
  {Authorization, Expires, LargestObject, FillTimeout, Forward, NamespacePrefix}
    \cup IF version = 22 THEN {FillParameters, IncludeProperties} ELSE {}
FillRegistry == {FillTimeout}

\* A value is the block inside FILL_PARAMETERS, and empty elsewhere: of the others
\* only INCLUDE_PROPERTIES has one that matters, and it is out of range.
One(type) == [type |-> type, value |-> <<>>]
Filling(inner) == [type |-> FillParameters, value |-> AsDeltas(inner)]
ParameterBlocks ==
  {<<>>, <<One(Authorization), One(Authorization)>>, <<One(Expires)>>,
   <<One(LargestObject), One(Expires)>>, <<One(Expires), One(Expires)>>,
   <<One(Forward)>>, <<One(FillTimeout)>>, <<One(NamespacePrefix)>>, <<One(UnknownType)>>,
   <<Filling(<<One(FillTimeout)>>)>>, <<Filling(<<One(Forward)>>)>>,
   <<One(IncludeProperties)>>}

Known(pp, registry) == \A i \in DOMAIN pp : pp[i].type \in registry
\* The types of a block, and of the block inside FILL_PARAMETERS.
Registered(pp, version) ==
  /\ Known(pp, Registry(version))
  /\ \A i \in DOMAIN pp :
       pp[i].type = FillParameters => Known(FromDeltas(pp[i].value), FillRegistry)
Duplicated(pp) ==
  \E i, j \in DOMAIN pp : i # j /\ pp[i].type = pp[j].type /\ pp[i].type # Authorization

\* newControlMessage and appendBody: the two messages only one draft has.
InDraft(type, version) ==
  /\ type = "PublishOk" => version = 18
  /\ type = "PublishStateNotify" => version = 22

\* A message has a field whose length is bounded: a reason phrase of 1024 bytes, a
\* namespace or a prefix of 32 fields.
Bounded(type, pp) ==
  \/ type \in RequestKinds \cup {"RequestError"}
  \/ \E i \in DOMAIN pp : pp[i].type = NamespacePrefix

\* AppendControlMessage does not fail; the writer looks neither for duplicates nor
\* at the length of a field.
Encodable(type, pp) == InDraft(type, negotiated) /\ Registered(pp, negotiated)
\* Parse fails: a message that is malformed, or has a field too long.
Malformed(type, pp, long) ==
  ~InDraft(type, negotiated) \/ ~Registered(pp, negotiated) \/ Duplicated(pp) \/ long

------------------------------------------------------------------------------
(* Where a parameter may be (parameter_check.go, parameter_scope.go).  A   *)
(* context is the message and, of an answer or an update, its request.     *)

NoContext == <<"none", "none">>
UpdateOk == <<"updateOk", "none">>

NewScope == [kind |-> "none", requester |-> FALSE, answered |-> FALSE]

\* okContext
OkContext(s, fromRequester) ==
  IF fromRequester \/ s.answered \/ s.kind \in {"Subscribe", "Fetch"}
  THEN UpdateOk ELSE <<"answer", s.kind>>

\* contextOf.  A REQUEST_UPDATE of a TRACK_STATUS is its handler's to refuse.
ContextOf(s, type, fromRequester) ==
  CASE type \in RequestKinds -> <<"request", type>>
    [] type = "SubscribeOk" -> <<"answer", "Subscribe">>
    [] type = "FetchOk" -> <<"answer", "Fetch">>
    [] type = "PublishStateNotify" -> <<"notify", "none">>
    [] type = "RequestUpdate" -> IF s.kind = "TrackStatus" THEN NoContext ELSE <<"update", s.kind>>
    [] type \in {"RequestOk", "PublishOk"} -> OkContext(s, fromRequester)
    [] type = "RequestError" -> NoContext

IsAnswer(type) == type \in {"SubscribeOk", "FetchOk", "RequestOk", "PublishOk", "RequestError"}

\* parameterScopes18 and parameterScopes22
AllowedIn22(c) ==
  CASE c[1] = "request" /\ c[2] = "Subscribe" ->
         {Authorization, Forward, FillParameters, IncludeProperties}
    [] c[1] = "request" /\ c[2] = "Publish" -> {Authorization, Expires, LargestObject, Forward}
    [] c[1] = "request" /\ c[2] = "Fetch" -> {Authorization, FillTimeout, IncludeProperties}
    [] c[1] = "request" /\ c[2] = "TrackStatus" -> {Authorization, IncludeProperties}
    [] c[1] = "request" /\ c[2] \in {"PublishNamespace", "SubscribeNamespace"} -> {Authorization}
    [] c[1] = "request" /\ c[2] = "SubscribeTracks" ->
         {Authorization, Forward, FillParameters, IncludeProperties}
    [] c[1] = "answer" /\ c[2] \in {"Subscribe", "TrackStatus"} -> {Expires, LargestObject}
    [] c[1] = "answer" /\ c[2] = "Fetch" -> {}
    [] c[1] = "answer" /\ c[2] \notin {"Subscribe", "TrackStatus", "Fetch"} -> {Expires}
    [] c[1] = "notify" -> {LargestObject, Forward}
    [] c[1] = "update" /\ c[2] \in {"Subscribe", "Publish"} ->
         {Authorization, Forward, FillParameters}
    [] c[1] = "update" /\ c[2] \in {"Fetch", "PublishNamespace"} -> {Authorization}
    [] c[1] = "update" /\ c[2] = "SubscribeNamespace" -> {Authorization, NamespacePrefix}
    [] c[1] = "update" /\ c[2] = "SubscribeTracks" -> {Authorization, Forward, NamespacePrefix}
    [] c = UpdateOk -> {Expires, LargestObject}

\* Draft 18 differs in what its registry lacks and in these.
AllowedIn18(c) ==
  CASE c = <<"answer", "Publish">> -> {Expires, Forward}
    [] c[1] = "answer" /\ c[2] \in {"PublishNamespace", "SubscribeNamespace", "SubscribeTracks"} -> {}
    [] c = <<"update", "SubscribeTracks">> -> {Authorization, NamespacePrefix}
    [] OTHER -> AllowedIn22(c) \cap Registry(18)

CheckParameters(c, pp) ==
  c # NoContext => Known(pp, IF negotiated = 18 THEN AllowedIn18(c) ELSE AllowedIn22(c))

\* Variant of Checked: an answer counts when it is sent and not when it is read.
CheckedWhenSending(s, type, pp, sending) ==
  LET opened == IF s.kind # "none" THEN s
                ELSE [s EXCEPT !.kind = type, !.requester = sending]
      context == ContextOf(opened, type, sending = opened.requester)
  IN [state |-> [opened EXCEPT !.answered = @ \/ (sending /\ ~opened.requester /\ IsAnswer(type))],
      context |-> context, ok |-> CheckParameters(context, pp)]

\* check: moves the exchange on even when it then refuses the parameters.
Checked(s, type, pp, sending) ==
  LET opened == IF s.kind # "none" THEN s
                ELSE [s EXCEPT !.kind = type, !.requester = sending]
      fromRequester == sending = opened.requester
      context == ContextOf(opened, type, fromRequester)
  IN [state |-> [opened EXCEPT !.answered = @ \/ (~fromRequester /\ IsAnswer(type))],
      context |-> context, ok |-> CheckParameters(context, pp)]

------------------------------------------------------------------------------
(* Sending (request_stream.go).                                            *)

ExchangeInit ==
  /\ negotiated \in StreamVersions
  /\ request = <<>>
  /\ scope = [e \in Ends |-> NewScope]
  /\ inbound = [e \in Ends |-> <<>>]
  /\ sendDone = [e \in Ends |-> FALSE]
  /\ sentCount = [e \in Ends |-> 0]
  /\ claimed = "no"
  /\ owed = [e \in Ends |-> 0]
  /\ call = "new"
  /\ lastRead = <<>> /\ failed = <<>>

\* A message on the wire, with a field longer than the reader takes or not, and
\* how its sender meant it.
Message(type, pp, context, means, long) ==
  [type |-> type, block |-> AsDeltas(pp), sentAs |-> context, pp |-> pp, means |-> means,
   long |-> long]
Fin == [type |-> "FIN"]

\* write: encoding, sendDone, then the scope.  A message that fails the first
\* two leaves no trace.
MayWrite(e, type, pp) ==
  /\ sentCount[e] < MaxSent /\ failed = <<>>
  /\ ~sendDone[e] /\ Encodable(type, pp)

\* Variant of Allowed: the parameters are not checked before they are sent.
AllowedUnchecked(e, type, pp) == TRUE

Allowed(e, type, pp) == Checked(scope[e], type, pp, TRUE).ok

\* write, and finish's closeSend if "last".
Write(e, type, pp, means, last) ==
  LET check == Checked(scope[e], type, pp, TRUE)
  IN /\ scope' = [scope EXCEPT ![e] = check.state]
     /\ IF Allowed(e, type, pp)
        THEN /\ \E long \in BOOLEAN :
                  /\ long => Bounded(type, pp)
                  /\ LET message == Message(type, pp, check.context, means, long)
                     IN inbound' = [inbound EXCEPT ![PeerOf(e)] =
                                      @ \o IF last THEN <<message, Fin>> ELSE <<message>>]
             /\ sendDone' = [sendDone EXCEPT ![e] = last]
             /\ sentCount' = [sentCount EXCEPT ![e] = @ + 1]
        ELSE UNCHANGED <<inbound, sendDone, sentCount>>

\* checkRequest comes before the stream is opened.
Open(kind, pp) ==
  /\ request = <<>> /\ MayWrite("requester", kind, pp)
  /\ Checked(NewScope, kind, pp, TRUE).ok
  /\ request' = <<[kind |-> kind, include |-> ~Known(pp, {IncludeProperties}) \/ pp = <<>>]>>
  /\ Write("requester", kind, pp, "request", FALSE)
  /\ call' = IF kind = "TrackStatus" THEN "written" ELSE call
  /\ UNCHANGED <<negotiated, claimed, owed, lastRead, failed>>

Kind == request[1].kind
OtherVars == <<negotiated, request, call, lastRead, failed>>

\* Session.TrackStatus's closeSend: the request is the only message.
CloseRequest ==
  /\ request # <<>> /\ Kind = "TrackStatus" /\ ~sendDone["requester"]
  /\ sendDone' = [sendDone EXCEPT !["requester"] = TRUE]
  /\ inbound' = [inbound EXCEPT !["responder"] = Append(@, Fin)]
  /\ UNCHANGED <<negotiated, request, scope, sentCount, claimed, owed, call, lastRead, failed>>

AnswerType ==
  CASE Kind = "Subscribe" -> "SubscribeOk"
    [] Kind = "Fetch" -> "FetchOk"
    [] Kind = "Publish" -> IF negotiated = 18 THEN "PublishOk" ELSE "RequestOk"
    [] Kind \notin {"Subscribe", "Fetch", "Publish"} -> "RequestOk"

\* Accept: claimed before it is encoded and written.  INCLUDE_PROPERTIES that is
\* neither 0 nor 1 fails it before that.  TRACK_STATUS's finishes the stream.
Accept(pp) ==
  /\ scope["responder"].kind # "none" /\ claimed = "no"
  /\ request[1].include
  /\ \/ /\ MayWrite("responder", AnswerType, pp)
        /\ claimed' = IF Allowed("responder", AnswerType, pp) THEN "accepted" ELSE "refused"
        /\ Write("responder", AnswerType, pp, "request", Kind = "TrackStatus")
     \/ /\ failed = <<>> /\ ~Encodable(AnswerType, pp)
        /\ claimed' = "refused"
        /\ UNCHANGED <<scope, inbound, sendDone, sentCount>>
  /\ UNCHANGED <<owed, OtherVars>>

Reject ==
  /\ scope["responder"].kind # "none" /\ claimed = "no"
  /\ MayWrite("responder", "RequestError", <<>>)
  /\ claimed' = "rejected"
  /\ Write("responder", "RequestError", <<>>, "request", TRUE)
  /\ UNCHANGED <<owed, OtherVars>>

\* An end knows the request to be accepted: the responder once it has answered,
\* the requester once it has read that.
Established(e) ==
  /\ claimed = "accepted"
  /\ e = "requester" =>
       \A i \in DOMAIN inbound[e] : inbound[e][i] # Fin => inbound[e][i].means # "request"

\* The subscriber of a PUBLISH updates it, and any other request's requester.
Updater == IF Kind = "Publish" THEN "responder" ELSE "requester"
Update(pp) ==
  /\ request # <<>> /\ Kind # "TrackStatus" /\ Established(Updater)
  /\ MayWrite(Updater, "RequestUpdate", pp)
  /\ Write(Updater, "RequestUpdate", pp, "update", FALSE)
  /\ UNCHANGED <<claimed, owed, OtherVars>>

\* One answer per update, in order.
AnswerUpdate(e, type, pp) ==
  /\ owed[e] > 0 /\ MayWrite(e, type, pp)
  /\ owed' = [owed EXCEPT ![e] = @ - 1]
  /\ Write(e, type, pp, "update", FALSE)
  /\ UNCHANGED <<claimed, OtherVars>>

\* The publisher's PUBLISH_STATE_NOTIFY, once the subscription is established.
Notify(pp) ==
  /\ request # <<>> /\ Kind \in {"Subscribe", "Publish"}
  /\ LET publisher == PeerOf(IF Kind = "Publish" THEN "responder" ELSE "requester")
     IN /\ Established(publisher)
        /\ MayWrite(publisher, "PublishStateNotify", pp)
        /\ Write(publisher, "PublishStateNotify", pp, "notify", FALSE)
  /\ UNCHANGED <<claimed, owed, OtherVars>>

------------------------------------------------------------------------------
(* Reading: readMessage, then the request's handler.                       *)

Released == IF call = "written" THEN "released" ELSE call

\* Variant of AfterViolation: streamEnded is left out.
NoRelease == call
\* run returns the violation, the session fails, streamEnded follows.
AfterViolation == Released

Read(e) ==
  /\ failed = <<>> /\ inbound[e] # <<>> /\ Head(inbound[e]) # Fin
  /\ inbound' = [inbound EXCEPT ![e] = Tail(@)]
  /\ LET message == Head(inbound[e])
         pp == FromDeltas(message.block)
         check == Checked(scope[e], message.type, pp, FALSE)
         malformed == Malformed(message.type, pp, message.long)
     IN IF malformed \/ ~check.ok
        THEN /\ failed' = <<[pp |-> pp, long |-> message.long]>>
             /\ scope' = [scope EXCEPT ![e] = IF malformed THEN @ ELSE check.state]
             /\ call' = AfterViolation
             /\ UNCHANGED <<lastRead, owed>>
        ELSE /\ scope' = [scope EXCEPT ![e] = check.state]
             /\ lastRead' = <<[means |-> message.means, sentAs |-> message.sentAs,
                               readAs |-> check.context, sent |-> message.pp, got |-> pp]>>
             /\ owed' = [owed EXCEPT ![e] = IF message.type = "RequestUpdate" THEN @ + 1 ELSE @]
             \* trackStatusRequest.handleMessage
             /\ call' = IF e = "requester" /\ IsAnswer(message.type) THEN Released ELSE call
             /\ UNCHANGED failed
  /\ UNCHANGED <<negotiated, request, sendDone, sentCount, claimed>>

\* The peer's FIN: run returns, and TRACK_STATUS's caller is released.
ReadFin(e) ==
  /\ failed = <<>> /\ inbound[e] = <<Fin>>
  /\ inbound' = [inbound EXCEPT ![e] = <<>>]
  /\ call' = IF e = "requester" THEN Released ELSE call
  /\ UNCHANGED <<negotiated, request, scope, sendDone, sentCount, claimed, owed, lastRead, failed>>

\* Session.TrackStatus returns: released, or its context is done.
Return ==
  /\ call = "released" /\ call' = "returned"
  /\ UNCHANGED <<negotiated, request, scope, inbound, sendDone, sentCount, claimed, owed,
                 lastRead, failed>>
GiveUp ==
  /\ call = "written" /\ call' = "returned"
  /\ inbound' = [inbound EXCEPT !["requester"] = <<>>]
  /\ UNCHANGED <<negotiated, request, scope, sendDone, sentCount, claimed, owed, lastRead, failed>>

ExchangeNext ==
  \/ \E pp \in ParameterBlocks :
       \/ \E kind \in RequestKinds : Open(kind, pp)
       \/ Accept(pp)
       \/ Update(pp)
       \/ Notify(pp)
       \/ \E e \in Ends : AnswerUpdate(e, "RequestOk", pp)
  \/ \E e \in Ends : AnswerUpdate(e, "RequestError", <<>>) \/ Read(e) \/ ReadFin(e)
  \/ CloseRequest \/ Reject \/ Return \/ GiveUp

\* Each end's reader goroutine reads what is there, and the caller is scheduled.
ExchangeFairness ==
  /\ \A e \in Ends : WF_exchangeVars(Read(e)) /\ WF_exchangeVars(ReadFin(e))
  /\ WF_exchangeVars(Return)

ExchangeSpec == ExchangeInit /\ [][ExchangeNext]_exchangeVars /\ ExchangeFairness

------------------------------------------------------------------------------
(* Properties                                                              *)

\* A message that passed its sender's checks closes the peer's session for what no
\* writer checks only: a parameter given twice, or a field longer than its reader
\* takes.  A parameter its sender allowed is one the reader allows, although each
\* end follows the exchange with a scope of its own (parameter_check.go:172,
\* "Sending it would close the session, so the write fails instead").
ScopesAgree ==
  failed # <<>> => Duplicated(failed[1].pp) \/ failed[1].long

\* Both ends take a message for the same thing, and a REQUEST_OK for the answer
\* it was meant as, whatever was refused before it was sent and however the two
\* directions cross; and the parameters read are those given, by type.
TakenAsMeant ==
  lastRead # <<>> =>
    LET m == lastRead[1]
    IN /\ m.readAs = m.sentAs
       /\ m.readAs[1] = "answer" => m.means = "request"
       /\ m.readAs = UpdateOk => m.means = "update"
       /\ m.got = SortedByType(m.sent)

\* A caller of TrackStatus returns once the application has answered, however
\* (track_status.go:216, "releases a caller still waiting for an answer that is
\* not coming").  An Accept whose parameters are refused is the exception: the
\* request is claimed, and nothing is sent and nothing ends the stream.
AnsweredCallsReturn ==
  claimed \in {"accepted", "rejected"} /\ call # "new" ~> call \in {"new", "returned"}
=============================================================================
