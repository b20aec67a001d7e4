------------------------------- MODULE MCWire -------------------------------
(***************************************************************************)
(* The parts of the wire, checked beside each other: the Request IDs of    *)
(* two endpoints, the Objects of a data stream, the ranges of requests,    *)
(* and the messages of a request stream.  They share no state, so each is  *)
(* explored with the others at rest.                                       *)
(***************************************************************************)
EXTENDS RequestIDs, DataStreams, RangeRequests, Exchange

VARIABLE part

DataAtRest == /\ kind = "datagram" /\ draft = 22 /\ track = -1 /\ header = NoHeader
              /\ w = <<>> /\ r = <<>> /\ frame = <<>> /\ real = <<>> /\ sent = <<>> /\ got = <<>>
              /\ refused = FALSE
RangesAtRest == version = 22 /\ largest = NoLocation /\ sub = <<>> /\ fetch = <<>>
ExchangeAtRest == ExchangeInit /\ negotiated = 22

WireInit == /\ IDsInit
            /\ \/ part = "ids" /\ DataAtRest /\ RangesAtRest /\ ExchangeAtRest
               \/ part = "data" /\ DataInit /\ RangesAtRest /\ ExchangeAtRest
               \/ part = "ranges" /\ DataAtRest /\ RangeInit /\ ExchangeAtRest
               \/ part = "exchange" /\ DataAtRest /\ RangesAtRest /\ ExchangeInit

WireNext ==
  /\ UNCHANGED part
  /\ \/ part = "ids" /\ IDsNext /\ UNCHANGED <<dataVars, rangeVars, exchangeVars>>
     \/ part = "data" /\ DataNext /\ UNCHANGED <<idVars, rangeVars, exchangeVars>>
     \/ part = "ranges" /\ RangeNext /\ UNCHANGED <<idVars, dataVars, exchangeVars>>
     \/ part = "exchange" /\ ExchangeNext /\ UNCHANGED <<idVars, dataVars, rangeVars>>

WireSpec == /\ WireInit
            /\ [][WireNext]_<<part, idVars, dataVars, rangeVars, exchangeVars>>
            /\ ExchangeFairness
=============================================================================
