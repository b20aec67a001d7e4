----------------------------- MODULE DataStreams -----------------------------
(***************************************************************************)
(* The Objects of one data stream, or of one subscription's datagrams,     *)
(* from the publisher's call to the subscriber's Object: the codecs of     *)
(* internal/wire2 and the calls on either side of them (subgroup.go,       *)
(* fetch.go, SendDatagram, receiveDatagrams).                              *)
(*                                                                         *)
(* Both ends keep the prior Object that deltas refer to, each in its own   *)
(* state, and nothing on the wire says when the two differ: the Objects    *)
(* that follow just carry other IDs.  The model is the writer's state w,   *)
(* the reader's state r and the one frame between them; a frame is the     *)
(* fields that are on the wire, an optional one a sequence of at most one. *)
(*                                                                         *)
(* Groups and Objects are 0 .. MaxID; bytes, lengths and payloads are left *)
(* out, but for a payload being empty, which decides what else is there.   *)
(***************************************************************************)
EXTENDS LocationFilters, TypeDeltas

CONSTANT Drafts

ASSUME DraftsAssumption == Drafts \subseteq {18, 22}

VARIABLES
  kind,      \* "subgroup", "datagram", "ascending", "descending" (a FETCH)
  draft,     \* the session's version
  header,    \* SubgroupHeader, as the publisher fills it in
  track,     \* the track's DEFAULT_PUBLISHER_PRIORITY, or -1
  w,         \* SubgroupWriter / FetchWriter
  real,      \* subgroup and priority of the last Object of a FETCH, or <<>>
  frame,     \* the frame in flight, or <<>>
  sent,      \* the record last written, as the publisher means it
  r,         \* SubgroupReader (and its Header) / FetchReader
  got,       \* the record last read, as the application gets it
  refused    \* the reader has refused a frame: the stream is over

dataVars == <<kind, draft, header, track, w, real, frame, sent, r, got, refused>>

Option(present, value) == IF present THEN <<value>> ELSE <<>>
Fetches == {"ascending", "descending"}

------------------------------------------------------------------------------
(* Properties (properties.go).                                             *)

ObjectDeliveryTimeout == 2          \* Object scope from draft 22 on
MaxCacheDuration == 4               \* Track scope only
PriorGroupIDGap == 60               \* Object scope
PriorObjectIDGap == 62              \* Object scope
MandatoryTrackProperty == 16384
ApplicationProperty == 120

KVP(type, value) == [type |-> type, value |-> value]

\* ValidateObjectProperties: an unknown type passes, to be forwarded.
InObjectScope(type, version) ==
  /\ type # MandatoryTrackProperty
  /\ type # MaxCacheDuration
  /\ type = ObjectDeliveryTimeout => version # 18
ValidateObjectProperties(pp, version) ==
  \A i \in DOMAIN pp : InObjectScope(pp[i].type, version)

Blocks == { <<>>,
            <<KVP(PriorObjectIDGap, 0), KVP(PriorGroupIDGap, 1)>>,
            <<KVP(ApplicationProperty, 1), KVP(ApplicationProperty, 0)>>,
            <<KVP(ObjectDeliveryTimeout, 0)>>,
            <<KVP(MaxCacheDuration, 0)>>,
            <<KVP(MandatoryTrackProperty, 0)>> }

------------------------------------------------------------------------------
(* Objects.  DefaultPublisherPriority (parameter_values.go) is 128.        *)

Statuses == {"Normal", "EndOfGroup", "EndOfTrack"}
Priorities == {0, 1}
DefaultPriority(property) == IF property \in 0 .. 255 THEN property ELSE 128

\* Object of object.go, and of FetchObject: range is its EndOfRange.
Object(group, subgroup, object, priority, properties, status, empty, last) ==
  [group |-> group, subgroup |-> subgroup, object |-> object, priority |-> priority,
   properties |-> properties, status |-> status, empty |-> empty, endOfGroup |-> last,
   datagram |-> FALSE, range |-> "None"]

HasBit(t, b) == (t \div b) % 2 = 1
Bit(condition, b) == IF condition THEN b ELSE 0
\* A reader takes a field exactly where the flags say one is; where they do
\* not match what was written it reads another field's bytes.
Aligned(flag, field) == flag = (field # <<>>)

Refused == [ok |-> FALSE]
Delivers(object, state) == [ok |-> TRUE, object |-> object, state |-> state]

------------------------------------------------------------------------------
(* A subgroup stream: subgroup_header.go, subgroup_object.go, subgroup.go. *)

Zero == 0
FirstObject == 1
Explicit == 2
Headers ==
  [group : {1}, mode : {Zero, FirstObject, Explicit}, subgroup : {0, 2}, priority : {1},
   defaultPriority : BOOLEAN, hasProperties : BOOLEAN, endOfGroup : BOOLEAN,
   firstObject : BOOLEAN]

\* OpenSubgroup: explicit unless an option says FirstObject, which zeroes it.
OpenedHeaders == {h \in Headers : h.mode # Zero /\ (h.mode = FirstObject => h.subgroup = 0)}

StreamType(h) ==
  16 + Bit(h.hasProperties, 1) + 2 * h.mode + Bit(h.endOfGroup, 8)
     + Bit(h.defaultPriority, 32) + Bit(h.firstObject, 64)

\* ClassifyStreamType: FETCH_HEADER, SETUP and PADDING are values of their own.
ClassifyStreamType(t) ==
  CASE t = 5 -> "fetch"
    [] t = 12032 -> "control"
    [] t = 321601064 -> "padding"
    [] t < 128 /\ HasBit(t, 16) /\ ~HasBit(t, 128) -> "subgroup"
    [] OTHER -> "unknown"

AppendSubgroupHeader(h) ==
  [type |-> StreamType(h), group |-> h.group,
   subgroup |-> Option(h.mode = Explicit, h.subgroup),
   priority |-> Option(~h.defaultPriority, h.priority)]

ParseSubgroupHeader(f) ==
  LET mode == (f.type \div 2) % 4
      default == HasBit(f.type, 32)
  IN IF /\ ClassifyStreamType(f.type) = "subgroup"
        /\ mode \in {Zero, FirstObject, Explicit}
        /\ Aligned(mode = Explicit, f.subgroup)
        /\ Aligned(~default, f.priority)
     THEN [ok |-> TRUE,
           header |-> [group |-> f.group, mode |-> mode,
                       subgroup |-> IF mode = Explicit THEN f.subgroup[1] ELSE 0,
                       priority |-> IF default THEN 0 ELSE f.priority[1],
                       defaultPriority |-> default, hasProperties |-> HasBit(f.type, 1),
                       endOfGroup |-> HasBit(f.type, 8), firstObject |-> HasBit(f.type, 64)]]
     ELSE Refused

\* What WriteObjectWithProperties and WriteStatus hand to the writer.
SubgroupObjects ==
  [object : IDs, properties : Blocks, status : {"Normal"}, empty : BOOLEAN]
    \cup [object : IDs, properties : {<<>>}, status : Statuses, empty : {TRUE}]

\* AppendObject's errors.
SubgroupWritable(o) ==
  /\ ~o.empty => o.status = "Normal"
  /\ o.properties # <<>> => header.hasProperties /\ o.status = "Normal"
  /\ w.haveObject => o.object > w.prev

AppendSubgroupObject(o) ==
  [delta |-> IF w.haveObject THEN o.object - w.prev - 1 ELSE o.object,
   block |-> Option(header.hasProperties, AsDeltas(o.properties)),
   empty |-> o.empty,
   status |-> Option(o.empty, o.status)]

\* Variant of SubgroupObjectID: the delta is added as it is, as in a FETCH.
DeltaAsIs(delta) == IF r.haveObject THEN r.prev + delta ELSE delta

\* addObjectID
SubgroupObjectID(delta) == IF r.haveObject THEN r.prev + delta + 1 ELSE delta

\* Next and receive: the Object as the application gets it.
ReadSubgroupObject(f) ==
  LET h == r.header
      object == SubgroupObjectID(f.delta)
      properties == IF h.hasProperties THEN FromDeltas(f.block[1]) ELSE <<>>
      status == IF f.empty THEN f.status[1] ELSE "Normal"
      subgroup == IF ~r.haveObject /\ h.mode = FirstObject THEN object ELSE h.subgroup
      priority == IF h.defaultPriority THEN DefaultPriority(track) ELSE h.priority
  IN IF /\ Aligned(h.hasProperties, f.block)
        /\ Aligned(f.empty, f.status)
        /\ object \in IDs
        /\ ValidateObjectProperties(properties, draft)
        /\ status # "Normal" => properties = <<>>
     THEN Delivers(Object(h.group, subgroup, object, priority, properties, status, f.empty,
                          h.endOfGroup),
                   [r EXCEPT !.prev = object, !.haveObject = TRUE, !.header.subgroup = subgroup])
     ELSE Refused

------------------------------------------------------------------------------
(* Datagrams: object_datagram.go, SendDatagram, receiveDatagrams.  The     *)
(* library sends neither a default priority nor END_OF_GROUP; a publisher  *)
(* built on something else may.                                            *)

Datagrams ==
  [group : {1}, object : {0, 1}, priority : {1}, defaultPriority : BOOLEAN,
   properties : Blocks, endOfGroup : BOOLEAN, status : Statuses, empty : BOOLEAN]

\* Variant of DatagramWritable: a status may carry Properties.
DatagramStatusWithProperties(d) ==
  d.status # "Normal" => d.empty /\ ~d.endOfGroup

DatagramWritable(d) ==
  d.status # "Normal" => d.empty /\ ~d.endOfGroup /\ d.properties = <<>>

DatagramType(d) ==
  Bit(d.properties # <<>>, 1) + Bit(d.endOfGroup, 2) + Bit(d.object = 0, 4)
    + Bit(d.defaultPriority, 8) + Bit(d.status # "Normal", 32)

AppendObjectDatagram(d) ==
  [type |-> DatagramType(d), group |-> d.group,
   object |-> Option(d.object # 0, d.object),
   priority |-> Option(~d.defaultPriority, d.priority),
   block |-> Option(d.properties # <<>>, AsDeltas(d.properties)),
   status |-> Option(d.status # "Normal", d.status),
   empty |-> d.empty]

\* ParseObjectDatagram, and the Object receiveDatagrams makes of it.
ReadDatagram(f) ==
  LET hasStatus == HasBit(f.type, 32)
      last == HasBit(f.type, 2)
      default == HasBit(f.type, 8)
      hasProperties == HasBit(f.type, 1)
      properties == IF hasProperties THEN FromDeltas(f.block[1]) ELSE <<>>
      status == IF hasStatus THEN f.status[1] ELSE "Normal"
  IN IF /\ f.type < 48 /\ ~HasBit(f.type, 16)
        /\ ~(hasStatus /\ last)
        /\ Aligned(~HasBit(f.type, 4), f.object)
        /\ Aligned(~default, f.priority)
        /\ Aligned(hasProperties, f.block)
        /\ Aligned(hasStatus, f.status)
        /\ hasProperties => f.block[1] # <<>>
        /\ ValidateObjectProperties(properties, draft)
        /\ hasStatus => f.empty
        /\ status # "Normal" => properties = <<>>
     THEN Delivers([Object(f.group, 0, IF HasBit(f.type, 4) THEN 0 ELSE f.object[1],
                           IF default THEN DefaultPriority(track) ELSE f.priority[1],
                           properties, status, f.empty, last) EXCEPT !.datagram = TRUE],
                   r)
     ELSE Refused

------------------------------------------------------------------------------
(* A FETCH response: fetch_object.go, FetchResponse, handleFetchStream.    *)

RangeKinds == {"NonExistent", "Unknown", "TimedOut"}
ValidIn(range, version) == range = "TimedOut" => version = 22

FetchObjects ==
  [group : IDs, subgroup : {0, 1}, object : IDs, priority : Priorities,
   properties : {<<>>, <<KVP(ObjectDeliveryTimeout, 0)>>}, status : {"Normal"}, empty : {FALSE},
   endOfGroup : {FALSE}, datagram : BOOLEAN, range : {"None"}]

RangeRecord(range, group, object) ==
  [Object(group, 0, object, 0, <<>>, "Normal", TRUE, FALSE) EXCEPT !.range = range]
EndsOfRange == {RangeRecord(range, g, o) : range \in RangeKinds, g \in IDs, o \in IDs}

SameGroup(o) == w.havePrior /\ o.group = w.group

\* groupDelta's errors and errObjectIDNotIncreasing; an end of range is
\* absolute, and in no order with what went before it.
FetchWritable(o) ==
  IF o.range # "None" THEN ValidIn(o.range, draft)
  ELSE /\ SameGroup(o) => o.object > w.object
       /\ w.havePrior => IF kind = "descending" THEN o.group <= w.group
                                                ELSE o.group >= w.group

GroupDelta(group) ==
  IF ~w.havePrior THEN group
  ELSE IF kind = "descending" THEN w.group - group - 1 ELSE group - w.group - 1

\* AppendObject.  mode is the two-bit Subgroup encoding: 0 zero, 1 the prior
\* Object's, 2 that plus one, 3 explicit.
FetchFrame(o, mode, hasObject, hasPriority) ==
  [range |-> "None",
   mode |-> mode, datagram |-> o.datagram,
   group |-> Option(~SameGroup(o), GroupDelta(o.group)),
   subgroup |-> Option(mode = 3, o.subgroup),
   object |-> Option(hasObject, IF SameGroup(o) THEN o.object - w.object ELSE o.object),
   priority |-> Option(hasPriority, o.priority),
   block |-> Option(o.properties # <<>>, AsDeltas(o.properties))]
AppendFetchObject(o) ==
  FetchFrame(o, IF o.datagram \/ o.subgroup = 0 THEN 0 ELSE 3, TRUE, TRUE)
AppendEndOfRange(o) == [range |-> o.range, group |-> o.group, object |-> o.object]

\* What another publisher may write instead: fields left to the prior Object.
CompactMode(o, mode) ==
  \/ o.datagram
  \/ mode = 3
  \/ mode = 0 /\ o.subgroup = 0
  \/ mode \in {1, 2} /\ real # <<>> /\ o.subgroup = real[1].subgroup + mode - 1
CompactFrames(o) ==
  {FetchFrame(o, mode, hasObject, hasPriority) :
     mode \in {m \in 0 .. 3 : CompactMode(o, m)},
     hasObject \in {b \in BOOLEAN : ~b => w.havePrior /\ o.object = w.object + 1},
     hasPriority \in {b \in BOOLEAN : ~b => real # <<>> /\ o.priority = real[1].priority}}

\* resolveGroupID
FetchGroupID(delta) ==
  IF ~r.havePrior THEN delta
  ELSE IF kind = "descending" THEN r.group - delta - 1 ELSE r.group + delta + 1

FetchObjectID(f) ==
  IF f.object = <<>> THEN r.object + 1
  ELSE IF f.group # <<>> THEN f.object[1] ELSE r.object + f.object[1]

FetchSubgroupID(f, mode) ==
  CASE mode = 0 -> 0
    [] mode \in {1, 2} -> r.subgroup + mode - 1
    [] mode = 3 -> f.subgroup[1]

\* Variant of AfterRange: the indicator is remembered as an Object is.
RangeAsObject(f) ==
  [r EXCEPT !.group = f.group, !.object = f.object, !.havePrior = TRUE,
            !.subgroup = 0, !.priority = 0, !.havePriorObject = TRUE]

\* readEndOfRange: the Location advances, the Subgroup ID and the Priority
\* stay the last Object's.
AfterRange(f) == [r EXCEPT !.group = f.group, !.object = f.object, !.havePrior = TRUE]

ReadFetchRange(f) ==
  IF ValidIn(f.range, draft) THEN Delivers(RangeRecord(f.range, f.group, f.object), AfterRange(f))
                             ELSE Refused

\* FetchReader.Next
ReadFetchObject(f) ==
  LET mode == IF f.datagram THEN 0 ELSE f.mode
      group == IF f.group = <<>> THEN r.group ELSE FetchGroupID(f.group[1])
      subgroup == FetchSubgroupID(f, mode)
      object == FetchObjectID(f)
      priority == IF f.priority = <<>> THEN r.priority ELSE f.priority[1]
      properties == IF f.block = <<>> THEN <<>> ELSE FromDeltas(f.block[1])
  IN IF /\ ~r.havePrior => f.group # <<>> /\ f.object # <<>>
        /\ ~r.havePriorObject => mode \notin {1, 2} /\ f.priority # <<>>
        /\ group \in IDs /\ object \in IDs
        /\ ValidateObjectProperties(properties, draft)
     THEN Delivers([Object(group, subgroup, object, priority, properties, "Normal", FALSE, FALSE)
                      EXCEPT !.datagram = f.datagram],
                   [r EXCEPT !.group = group, !.object = object, !.havePrior = TRUE,
                             !.subgroup = subgroup, !.priority = priority,
                             !.havePriorObject = TRUE])
     ELSE Refused

------------------------------------------------------------------------------
(* The calls.                                                              *)

NoHeader == <<>>
NewSubgroupState == [header |-> NoHeader, prev |-> 0, haveObject |-> FALSE]
NewFetchState == [group |-> 0, object |-> 0, havePrior |-> FALSE, subgroup |-> 0,
                  priority |-> 0, havePriorObject |-> FALSE]

DataInit ==
  /\ kind \in Fetches \cup {"subgroup", "datagram"}
  /\ draft \in Drafts
  /\ track \in IF kind \in Fetches THEN {-1} ELSE {-1, 7}
  /\ header \in IF kind = "subgroup" THEN OpenedHeaders ELSE {NoHeader}
  /\ w = IF kind \in Fetches THEN NewFetchState ELSE [haveObject |-> FALSE, prev |-> 0]
  /\ r = IF kind \in Fetches THEN NewFetchState ELSE NewSubgroupState
  /\ frame = IF kind = "subgroup" THEN <<AppendSubgroupHeader(header)>> ELSE <<>>
  /\ real = <<>> /\ sent = <<>> /\ got = <<>>
  /\ refused = FALSE

\* A write whose encoding fails returns an error and leaves the state alone:
\* the model then takes no step.
Writes(record, newFrame) ==
  /\ frame = <<>> /\ ~refused
  /\ frame' = <<newFrame>>
  /\ sent' = <<record>>
  /\ got' = <<>>
  /\ UNCHANGED <<kind, draft, header, track, r, refused>>

WriteSubgroupObject(o) ==
  /\ kind = "subgroup" /\ SubgroupWritable(o)
  /\ LET subgroup == IF header.mode = Explicit THEN header.subgroup
                     ELSE IF w.haveObject THEN sent[1].subgroup ELSE o.object
     IN Writes(Object(header.group, subgroup, o.object,
                      IF header.defaultPriority THEN DefaultPriority(track) ELSE header.priority,
                      SortedByType(o.properties), o.status, o.empty, header.endOfGroup),
               AppendSubgroupObject(o))
  /\ w' = [haveObject |-> TRUE, prev |-> o.object]
  /\ UNCHANGED real

SendDatagram(d) ==
  /\ kind = "datagram" /\ DatagramWritable(d)
  /\ Writes([Object(d.group, 0, d.object,
                    IF d.defaultPriority THEN DefaultPriority(track) ELSE d.priority,
                    SortedByType(d.properties), d.status, d.empty, d.endOfGroup)
               EXCEPT !.datagram = TRUE],
            AppendObjectDatagram(d))
  /\ UNCHANGED <<w, real>>

WriteFetchObject(o, newFrame) ==
  /\ Writes([o EXCEPT !.subgroup = IF o.datagram THEN 0 ELSE @, !.properties = SortedByType(@)], newFrame)
  /\ w' = [w EXCEPT !.group = o.group, !.object = o.object, !.havePrior = TRUE]
  /\ real' = <<[subgroup |-> IF o.datagram THEN 0 ELSE o.subgroup, priority |-> o.priority]>>

WriteObject(o) ==
  kind \in Fetches /\ FetchWritable(o) /\ WriteFetchObject(o, AppendFetchObject(o))

PeerWritesObject(o) ==
  kind \in Fetches /\ FetchWritable(o) /\ \E f \in CompactFrames(o) : WriteFetchObject(o, f)

WriteEndOfRange(o) ==
  /\ kind \in Fetches /\ FetchWritable(o)
  /\ Writes(o, AppendEndOfRange(o))
  /\ w' = [w EXCEPT !.group = o.group, !.object = o.object, !.havePrior = TRUE]
  /\ UNCHANGED real

Reads(result) ==
  /\ frame' = <<>>
  /\ refused' = ~result.ok
  /\ IF result.ok THEN got' = <<result.object>> /\ r' = result.state
                  ELSE UNCHANGED <<got, r>>
  /\ UNCHANGED <<kind, draft, header, track, w, real, sent>>

ReadHeader ==
  /\ kind = "subgroup" /\ frame # <<>> /\ r.header = NoHeader
  /\ LET parsed == ParseSubgroupHeader(frame[1])
     IN /\ refused' = ~parsed.ok
        /\ r' = IF parsed.ok THEN [r EXCEPT !.header = parsed.header] ELSE r
  /\ frame' = <<>>
  /\ UNCHANGED <<kind, draft, header, track, w, real, sent, got>>

ReadObject ==
  /\ frame # <<>>
  /\ \/ kind = "subgroup" /\ r.header # NoHeader /\ Reads(ReadSubgroupObject(frame[1]))
     \/ kind = "datagram" /\ Reads(ReadDatagram(frame[1]))
     \/ /\ kind \in Fetches
        /\ Reads(IF frame[1].range = "None" THEN ReadFetchObject(frame[1])
                                            ELSE ReadFetchRange(frame[1]))

DataNext ==
  \/ \E o \in SubgroupObjects : WriteSubgroupObject(o)
  \/ \E d \in Datagrams : SendDatagram(d)
  \/ \E o \in FetchObjects : WriteObject(o) \/ PeerWritesObject(o)
  \/ \E o \in EndsOfRange : WriteEndOfRange(o)
  \/ ReadHeader
  \/ ReadObject

DataSpec == DataInit /\ [][DataNext]_dataVars

------------------------------------------------------------------------------
(* Properties                                                              *)

\* Once nothing is in flight, what the application has read is what the
\* publisher wrote: the same Object, with the IDs and the priority the deltas,
\* the omitted fields and the header leave to the reader (subgroup_object.go:27,
\* "keeping all three in one place"; fetch_object.go:137, the two prior Objects).
\* What the library's writers accept, its readers accept, after any sequence of
\* Objects and indicators: the one exception is a Property out of its scope,
\* which only the reader checks (object.go:75, ValidateObjectProperties).
ReadsWhatWasWritten ==
  /\ frame = <<>> /\ ~refused /\ got # <<>> => got = sent
  /\ refused => sent # <<>> /\ ~ValidateObjectProperties(sent[1].properties, draft)
=============================================================================
