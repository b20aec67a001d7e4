-------------------------- MODULE RequestIDsProofs ---------------------------
(***************************************************************************)
(* Theorems about RequestIDs, for every MaxRequestID and every rogue peer. *)
(***************************************************************************)
EXTENDS RequestIDs, TLAPS

\* The mark and every ID ahead of it have the parity of the peer; ahead holds
\* nothing below the mark, and not the mark itself once use has returned.
TrackerInv ==
    \A e \in Perspective :
        /\ lowest[e] % 2 = FirstID(Peer(e))
        /\ \A id \in ahead[e] : id % 2 = FirstID(Peer(e)) /\ id >= lowest[e]
        /\ ~absorbing[e] => lowest[e] \notin ahead[e]

\* Every reachable state is well typed, and the tracker's mark and holes have
\* their shape: the induction both later theorems rest on.
IInv == TypeOK /\ TrackerInv

LEMMA InitIInv == IDsInit => IInv
  BY IDsAssumption DEF IDsInit, IInv, TypeOK, TrackerInv, Perspective, FirstID, Peer, Verdicts, IDMessage

\* Steps of the sender leave the tracker alone.
LEMMA SenderIInv ==
  ASSUME IInv, NEW p \in Perspective, SenderStep(p)
  PROVE  IInv'
<1> USE IDsAssumption
<1>1. ASSUME NEW stream \in 0 .. MaxRequestID, NextID(p, stream) PROVE IInv'
  BY <1>1 DEF NextID, IInv, TypeOK, TrackerInv, tracker, IDMessage
<1>2. CASE NewRequest(p)
  <2>1. next[p] \in 0 .. MaxRequestID
    BY <1>2 DEF NewRequest, NextID, IInv, TypeOK
  <2>2. QED
    BY <1>1, <1>2, <2>1 DEF NewRequest
<1>3. ASSUME NEW stream \in open[p], NewUpdate(p, stream) PROVE IInv'
  <2>1. stream \in 0 .. MaxRequestID
    BY DEF IInv, TypeOK
  <2>2. QED
    BY <1>1, <1>3, <2>1 DEF NewUpdate
<1>4. ASSUME NEW m \in allocated[p], GiveUpID(p, m) PROVE IInv'
  BY <1>4 DEF GiveUpID, IInv, TypeOK, TrackerInv, tracker
<1>5. ASSUME NEW m \in allocated[p], WriteID(p, m) PROVE IInv'
  BY <1>5 DEF WriteID, IInv, TypeOK, TrackerInv, tracker
<1>6. ASSUME NEW m \in wire[p], ResetStream(p, m) PROVE IInv'
  BY <1>6 DEF ResetStream, IInv, TypeOK, TrackerInv, tracker
<1>7. QED
  BY <1>2, <1>3, <1>4, <1>5, <1>6 DEF SenderStep

\* Judging an ID keeps the tracker's shape.
LEMMA UseTracker ==
  ASSUME IInv, NEW e \in Perspective, NEW id \in Nat, Use(e, id)
  PROVE  /\ TrackerInv'
         /\ lowest' \in [Perspective -> Nat]
         /\ ahead' \in [Perspective -> SUBSET Nat]
         /\ absorbing' \in [Perspective -> BOOLEAN]
         /\ verdict' \in [Perspective -> [id : Nat, answer : Verdicts]]
<1>1. CASE UNCHANGED <<lowest, ahead, absorbing>>
  <2>1. TrackerInv'
    BY <1>1 DEF IInv, TrackerInv
  <2>2. verdict' \in [Perspective -> [id : Nat, answer : Verdicts]]
    <3>1. PICK a \in Verdicts : Judge(e, id, a)
      BY DEF Use, Verdicts
    <3>2. [id |-> id, answer |-> a] \in [id : Nat, answer : Verdicts]
      OBVIOUS
    <3>3. QED
      BY <3>1, <3>2 DEF Judge, IInv, TypeOK
  <2>3. QED
    BY <1>1, <2>1, <2>2 DEF IInv, TypeOK
<1>2. CASE /\ id % 2 = lowest[e] % 2
           /\ id >= lowest[e] /\ id \notin ahead[e]
           /\ Judge(e, id, "ok")
           /\ ahead' = [ahead EXCEPT ![e] = @ \cup {id}]
           /\ absorbing' = [absorbing EXCEPT ![e] = TRUE]
           /\ UNCHANGED lowest
  BY <1>2 DEF IInv, TrackerInv, TypeOK, Judge, Verdicts
<1>3. QED
  BY <1>1, <1>2 DEF Use

LEMMA TrackerIInv ==
  ASSUME IInv, NEW e \in Perspective, TrackerStep(e)
  PROVE  IInv'
<1> USE IDsAssumption
<1>1. CASE Absorb(e)
  <2>1. CASE lowest[e] \in ahead[e]
    BY <1>1, <2>1 DEF Absorb, IInv, TypeOK, TrackerInv, sender, FirstID, Peer, Perspective
  <2>2. CASE lowest[e] \notin ahead[e]
    BY <1>1, <2>2 DEF Absorb, IInv, TypeOK, TrackerInv, sender
  <2>3. QED
    BY <2>1, <2>2
<1>2. ASSUME NEW m \in wire[Peer(e)], Receive(e, m) PROVE IInv'
  <2>1. Peer(e) \in Perspective /\ m \in IDMessage /\ m.id \in Nat
    BY DEF IInv, TypeOK, Peer, Perspective, IDMessage
  <2>2. wire' \in [Perspective -> SUBSET IDMessage]
    BY <1>2, <2>1 DEF Receive, IInv, TypeOK
  <2>3. open' \in [Perspective -> SUBSET (0 .. MaxRequestID)]
    BY <1>2, <2>1 DEF Receive, IInv, TypeOK, IDMessage
  <2>4. QED
    BY <1>2, <2>1, <2>2, <2>3, UseTracker DEF Receive, IInv, TypeOK
<1>3. ASSUME NEW id \in Strays, ReceiveStray(e, id) PROVE IInv'
  BY <1>3, UseTracker DEF ReceiveStray, IInv, TypeOK, sender
<1>4. QED
  BY <1>1, <1>2, <1>3 DEF TrackerStep

LEMMA NextIInv == IInv /\ [IDsNext]_idVars => IInv'
<1> SUFFICES ASSUME IInv, [IDsNext]_idVars PROVE IInv'
  OBVIOUS
<1>1. ASSUME NEW p \in Perspective, SenderStep(p) PROVE IInv'
  BY <1>1, SenderIInv
<1>2. ASSUME NEW p \in Perspective, TrackerStep(p) PROVE IInv'
  BY <1>2, TrackerIInv
<1>3. CASE UNCHANGED idVars
  BY <1>3 DEF idVars, IInv, TypeOK, TrackerInv
<1>4. QED
  BY <1>1, <1>2, <1>3 DEF IDsNext

\* The model's variables keep their types, whatever the two endpoints send.
THEOREM TypeCorrect == IDsSpec => []TypeOK
<1>1. IInv => TypeOK
  BY DEF IInv
<1>2. QED
  BY <1>1, InitIInv, NextIInv, PTL DEF IDsSpec

\* After use has returned, ahead holds IDs strictly above the mark: the run
\* that became contiguous was absorbed in full, whatever the order of arrival.
THEOREM HolesKept == IDsSpec => []OnlyHolesKept
<1>1. IInv => OnlyHolesKept
  BY DEF IInv, TypeOK, TrackerInv, OnlyHolesKept
<1>2. QED
  BY <1>1, InitIInv, NextIInv, PTL DEF IDsSpec

-----------------------------------------------------------------------------
(* The bounded memory implements the set of every ID used. *)

\* Moving the mark up by one ID of the peer adds exactly the old mark.
LEMMA BelowStep ==
  ASSUME NEW n \in Nat
  PROVE  Below(n + 2) = Below(n) \cup {n}
<1>1. ASSUME NEW m \in Nat PROVE m \in Below(n + 2) <=> m \in Below(n) \cup {n}
  <2>1. CASE m < n
    BY <2>1 DEF Below
  <2>2. CASE m >= n
    BY <2>2 DEF Below
  <2>3. QED
    BY <2>1, <2>2
<1>2. QED
  BY <1>1 DEF Below

\* A turn of the loop moves one ID from ahead under the mark: the set of used
\* IDs is unchanged.
LEMMA AbsorbKeepsUsed ==
  ASSUME IInv, NEW e \in Perspective, Absorb(e), NEW f \in Perspective
  PROVE  Used(f)' = Used(f)
<1>1. CASE lowest[e] \in ahead[e] /\ f = e
  <2>1. lowest'[f] = lowest[f] + 2 /\ ahead'[f] = ahead[f] \ {lowest[f]}
    BY <1>1 DEF Absorb, IInv, TypeOK
  <2>2. Below(lowest[f] + 2) = Below(lowest[f]) \cup {lowest[f]}
    BY BelowStep DEF IInv, TypeOK
  <2>3. lowest[f] \notin Below(lowest[f])
    BY DEF Below, IInv, TypeOK
  <2>4. QED
    BY <1>1, <2>1, <2>2 DEF Used
<1>2. CASE lowest[e] \notin ahead[e] \/ f # e
  BY <1>2 DEF Absorb, IInv, TypeOK, Used
<1>3. QED
  BY <1>1, <1>2

UsedMap == [e \in Perspective |-> Used(e)]

\* What use does with an ID is what the abstract set does with it.
LEMMA UseRefines ==
  ASSUME IInv, NEW e \in Perspective, NEW id \in Nat, Use(e, id)
  PROVE  UsedSet!Accept(e, id) \/ UsedSet!Refuse(e, id)
<1>1. id % 2 = lowest[e] % 2 <=> id % 2 = UsedSet!FirstID(UsedSet!Peer(e))
  BY DEF IInv, TrackerInv, FirstID, Peer, UsedSet!FirstID, UsedSet!Peer
<1>2. id % 2 = lowest[e] % 2 => (id \in Used(e) <=> id < lowest[e] \/ id \in ahead[e])
  BY DEF Used, Below, IInv, TypeOK
<1>3. UsedMap[e] = Used(e)
  BY DEF UsedMap
<1>4. ASSUME UNCHANGED <<lowest, ahead>> PROVE UsedMap' = UsedMap
  BY <1>4 DEF UsedMap, Used
<1>5. CASE id % 2 # lowest[e] % 2 /\ Judge(e, id, "parity") /\ UNCHANGED <<lowest, ahead, absorbing>>
  BY <1>5, <1>1, <1>4 DEF UsedMap, UsedSet!Refuse, UsedSet!Judge, Judge
<1>6. CASE /\ id % 2 = lowest[e] % 2
           /\ id < lowest[e] \/ id \in ahead[e]
           /\ Judge(e, id, "duplicate")
           /\ UNCHANGED <<lowest, ahead, absorbing>>
  BY <1>6, <1>2, <1>3, <1>4 DEF UsedMap, UsedSet!Refuse, UsedSet!Judge, Judge
<1>7. CASE /\ id % 2 = lowest[e] % 2
           /\ id >= lowest[e] /\ id \notin ahead[e]
           /\ Judge(e, id, "ok")
           /\ ahead' = [ahead EXCEPT ![e] = @ \cup {id}]
           /\ absorbing' = [absorbing EXCEPT ![e] = TRUE]
           /\ UNCHANGED lowest
  <2>1. id \notin Used(e)
    <3>1. lowest[e] \in Nat /\ id >= lowest[e] /\ id \notin ahead[e]
      BY <1>7 DEF IInv, TypeOK
    <3>2. ~(id < lowest[e])
      BY <3>1
    <3>3. QED
      BY <1>7, <1>2, <3>1, <3>2
  <2>2. \A f \in Perspective : Used(f)' = IF f = e THEN Used(e) \cup {id} ELSE Used(f)
    BY <1>7 DEF Used, IInv, TypeOK
  <2>3. UsedMap' = [UsedMap EXCEPT ![e] = @ \cup {id}]
    BY <2>2 DEF UsedMap
  <2>4. QED
    BY <1>7, <1>1, <1>3, <2>1, <2>3 DEF UsedMap, UsedSet!Accept, UsedSet!Judge, Judge
<1>8. QED
  BY <1>5, <1>6, <1>7 DEF Use

\* A session's memory of Request IDs, kept as a mark and a few holes, gives
\* every ID the answer that the set of all IDs ever used would give it.
THEOREM MemoryIsExact == IDsSpec => ExactMemory
<1>1. IDsInit => UsedSet!Init
  BY DEF IDsInit, UsedSet!Init, Used, Below, Perspective, FirstID, Peer, UsedSet!Perspective
<1>2. IInv /\ [IDsNext]_idVars => [UsedSet!Next]_(UsedSet!vars)
  <2> SUFFICES ASSUME IInv, [IDsNext]_idVars PROVE [UsedSet!Next]_(UsedSet!vars)
    OBVIOUS
  <2>1. ASSUME NEW p \in Perspective, SenderStep(p) PROVE UNCHANGED UsedSet!vars
    BY <2>1 DEF SenderStep, NewRequest, NewUpdate, NextID, GiveUpID, WriteID, ResetStream, tracker,
                UsedSet!vars, Used
  <2>2. ASSUME NEW e \in Perspective, Absorb(e) PROVE UNCHANGED UsedSet!vars
    BY <2>2, AbsorbKeepsUsed DEF UsedSet!vars, Absorb
  <2>3. ASSUME NEW e \in Perspective, NEW id \in 0 .. MaxRequestID \cup Strays, Use(e, id)
        PROVE UsedSet!Next
    <3>1. id \in Nat /\ e \in UsedSet!Perspective
      BY IDsAssumption DEF Perspective, UsedSet!Perspective
    <3>2. QED
      BY <2>3, <3>1, UseRefines DEF UsedSet!Next
  <2>4. ASSUME NEW e \in Perspective, NEW m \in wire[Peer(e)], Receive(e, m)
        PROVE UsedSet!Next
    <3>1. m.id \in 0 .. MaxRequestID
      BY DEF IInv, TypeOK, Peer, Perspective, IDMessage
    <3>2. QED
      BY <2>4, <3>1, <2>3 DEF Receive
  <2>5. ASSUME NEW e \in Perspective, NEW id \in Strays, ReceiveStray(e, id)
        PROVE UsedSet!Next
    BY <2>5, <2>3 DEF ReceiveStray
  <2>6. CASE UNCHANGED idVars
    BY <2>6 DEF idVars, UsedSet!vars, Used
  <2>7. QED
    BY <2>1, <2>2, <2>4, <2>5, <2>6 DEF IDsNext, TrackerStep
<1>3. QED
  BY <1>1, <1>2, InitIInv, NextIInv, PTL DEF IDsSpec, ExactMemory, UsedSet!Spec

-----------------------------------------------------------------------------
(* A peer that numbers as the generator does. *)

\* Every message of such a peer holds an ID of its parity, handed out once and not
\* yet used, and nothing is used that was not handed out.
ConformInv ==
    \A p \in Perspective \ Rogue :
        /\ next[p] % 2 = FirstID(p)
        /\ \A id \in Used(Peer(p)) : id < next[p]
        /\ \A m \in allocated[p] \cup wire[p] :
              m.id % 2 = FirstID(p) /\ m.id < next[p] /\ m.id \notin Used(Peer(p))
        /\ \A m, n \in allocated[p] \cup wire[p] : m.id = n.id => m = n
        /\ allocated[p] \cap wire[p] = {}

CInv == IInv /\ ConformInv /\ NeverRefused

LEMMA InitCInv == IDsInit => CInv
<1> SUFFICES ASSUME IDsInit PROVE CInv
  OBVIOUS
<1>1. \A e \in Perspective : Used(e) = {}
  BY DEF IDsInit, Used, Below, Perspective, FirstID, Peer
<1>2. ConformInv
  BY <1>1 DEF IDsInit, ConformInv, Perspective, FirstID, Peer
<1>3. NeverRefused
  BY DEF IDsInit, NeverRefused
<1>4. QED
  BY <1>2, <1>3, InitIInv DEF CInv

LEMMA SenderCInv ==
  ASSUME CInv, NEW p \in Perspective, SenderStep(p)
  PROVE  ConformInv'
<1>1. \A e \in Perspective : Used(e)' = Used(e)
  BY DEF SenderStep, NewRequest, NewUpdate, NextID, GiveUpID, WriteID, ResetStream, tracker, Used
<1>2. \A q \in Perspective : Peer(q) \in Perspective
  BY DEF Perspective, Peer
<1> USE <1>1, <1>2
<1>3. ASSUME NEW stream \in 0 .. MaxRequestID, NextID(p, stream) PROVE ConformInv'
  <2>1. next[p] \in Nat /\ next[p] <= MaxRequestID
    BY <1>3 DEF NextID, CInv, IInv, TypeOK
  <2>2. /\ next' = [next EXCEPT ![p] = @ + 2]
        /\ allocated' = [allocated EXCEPT ![p] = @ \cup {[stream |-> stream, id |-> next[p]]}]
        /\ wire' = wire
    BY <1>3 DEF NextID
  <2>3. p \notin Rogue => /\ next[p] \notin Used(Peer(p))
                         /\ \A m \in allocated[p] \cup wire[p] : m.id # next[p]
    BY <2>1 DEF CInv, ConformInv
  <2>4. ASSUME NEW q \in Perspective \ Rogue
        PROVE /\ next'[q] % 2 = FirstID(q)
              /\ \A id \in Used(Peer(q)) : id < next'[q]
              /\ \A m \in allocated'[q] \cup wire[q] :
                  m.id % 2 = FirstID(q) /\ m.id < next'[q] /\ m.id \notin Used(Peer(q))
              /\ \A m, n \in allocated'[q] \cup wire[q] : m.id = n.id => m = n
              /\ allocated'[q] \cap wire[q] = {}
    <3>1. CASE q = p
      <4>1. next'[q] = next[p] + 2 /\ allocated'[q] = allocated[p] \cup {[stream |-> stream, id |-> next[p]]}
        BY <2>2, <3>1 DEF CInv, IInv, TypeOK
      <4>2. next'[q] % 2 = FirstID(q)
        BY <4>1, <3>1, <2>1 DEF CInv, ConformInv, FirstID
      <4>3. \A id \in Used(Peer(q)) : id < next'[q]
        BY <4>1, <3>1, <2>1 DEF CInv, ConformInv, IInv, TypeOK, Used, Below
      <4>4. ASSUME NEW m \in allocated[p] \cup wire[p] PROVE m.id < next'[q]
        <5>1. m.id \in Nat
          BY DEF CInv, IInv, TypeOK, IDMessage
        <5>2. m.id < next[p]
          BY <3>1 DEF CInv, ConformInv
        <5>3. QED
          BY <5>1, <5>2, <4>1, <2>1
      <4>5. next[p] < next'[q]
        BY <4>1, <2>1
      <4>6. \A m \in allocated'[q] \cup wire[q] : m \in allocated[p] \cup wire[p] \/ m.id = next[p]
        BY <4>1, <3>1
      <4>7. \A m \in allocated'[q] \cup wire[q] :
                  m.id % 2 = FirstID(q) /\ m.id < next'[q] /\ m.id \notin Used(Peer(q))
        BY <3>1, <4>4, <4>5, <4>6, <2>3 DEF CInv, ConformInv
      <4>8. \A m, n \in allocated'[q] \cup wire[q] : m.id = n.id => m = n
        BY <3>1, <4>1, <2>3 DEF CInv, ConformInv
      <4>9. allocated'[q] \cap wire[q] = {}
        BY <3>1, <4>1, <2>3 DEF CInv, ConformInv
      <4>10. QED
        BY <4>2, <4>3, <4>7, <4>8, <4>9
    <3>2. CASE q # p
      <4>1. next'[q] = next[q] /\ allocated'[q] = allocated[q]
        BY <2>2, <3>2 DEF CInv, IInv, TypeOK
      <4>2. QED
        BY <4>1 DEF CInv, ConformInv
    <3>3. QED
      BY <3>1, <3>2
  <2>5. QED
    BY <2>2, <2>4 DEF ConformInv
<1>4. CASE NewRequest(p)
  <2>1. next[p] \in 0 .. MaxRequestID /\ NextID(p, next[p])
    BY <1>4 DEF NewRequest, NextID, CInv, IInv, TypeOK
  <2>2. QED
    BY <2>1, <1>3
<1>5. ASSUME NEW stream \in open[p], NewUpdate(p, stream) PROVE ConformInv'
  BY <1>3, <1>5 DEF NewUpdate, CInv, IInv, TypeOK
\* The other steps only drop messages or move one from allocated to wire.
<1>6. ASSUME next' = next,
             \A q \in Perspective :
                 /\ allocated'[q] \cup wire'[q] \subseteq allocated[q] \cup wire[q]
                 /\ allocated'[q] \cap wire'[q] = {}
      PROVE ConformInv'
  BY <1>6 DEF CInv, ConformInv
<1>7. ASSUME NEW m \in allocated[p], GiveUpID(p, m) PROVE ConformInv'
  <2>1. next' = next /\ allocated' = [allocated EXCEPT ![p] = @ \ {m}] /\ wire' = wire
    BY <1>7 DEF GiveUpID
  <2>2. QED
    BY <2>1, <1>6 DEF CInv, ConformInv, IInv, TypeOK
<1>8. ASSUME NEW m \in allocated[p], WriteID(p, m) PROVE ConformInv'
  <2>1. /\ next' = next /\ allocated' = [allocated EXCEPT ![p] = @ \ {m}]
        /\ wire' = [wire EXCEPT ![p] = @ \cup {m}]
    BY <1>8 DEF WriteID
  <2>2. QED
    BY <2>1, <1>6 DEF CInv, ConformInv, IInv, TypeOK
<1>9. ASSUME NEW m \in wire[p], ResetStream(p, m) PROVE ConformInv'
  <2>1. /\ next' = next /\ allocated' = allocated
        /\ wire' = [wire EXCEPT ![p] = {x \in @ : x.stream # m.stream}]
    BY <1>9 DEF ResetStream
  <2>2. QED
    BY <2>1, <1>6 DEF CInv, ConformInv, IInv, TypeOK
<1>10. QED
  BY <1>4, <1>5, <1>7, <1>8, <1>9 DEF SenderStep

\* Reading a message turns it from in flight into used, with the answer "ok".
LEMMA ReceiveCInv ==
  ASSUME CInv, NEW e \in Perspective, Peer(e) \notin Rogue,
         NEW m \in wire[Peer(e)], Receive(e, m)
  PROVE  ConformInv' /\ NeverRefused'
<1>1. Peer(e) \in Perspective /\ Peer(Peer(e)) = e /\ m.id \in Nat
  BY DEF Peer, Perspective, CInv, IInv, TypeOK, IDMessage
<1>2. m.id % 2 = FirstID(Peer(e)) /\ m.id < next[Peer(e)] /\ m.id \notin Used(e)
  BY <1>1 DEF CInv, ConformInv
<1>3. m.id % 2 = lowest[e] % 2 /\ ~(m.id < lowest[e]) /\ m.id \notin ahead[e]
  BY <1>1, <1>2 DEF CInv, IInv, TypeOK, TrackerInv, Used, Below, FirstID
<1>4. /\ Judge(e, m.id, "ok") /\ lowest' = lowest
      /\ ahead' = [ahead EXCEPT ![e] = @ \cup {m.id}]
  BY <1>3 DEF Receive, Use
<1>5. \A f \in Perspective : Used(f)' = IF f = e THEN Used(e) \cup {m.id} ELSE Used(f)
  BY <1>4 DEF Used, CInv, IInv, TypeOK
<1>6. /\ next' = next /\ allocated' = allocated
      /\ wire' = [wire EXCEPT ![Peer(e)] = @ \ {m}]
  BY DEF Receive
<1>7. NeverRefused'
  BY <1>4 DEF Judge, NeverRefused, CInv, IInv, TypeOK
<1>8. ASSUME NEW p \in Perspective \ Rogue
      PROVE /\ next[p] % 2 = FirstID(p)
            /\ \A id \in Used(Peer(p))' : id < next[p]
            /\ \A x \in allocated[p] \cup wire'[p] :
                  x.id % 2 = FirstID(p) /\ x.id < next[p] /\ x.id \notin Used(Peer(p))'
            /\ \A x, y \in allocated[p] \cup wire'[p] : x.id = y.id => x = y
            /\ allocated[p] \cap wire'[p] = {}
  <2>1. CASE p = Peer(e)
    <3>1. Used(Peer(p))' = Used(e) \cup {m.id} /\ wire'[p] = wire[p] \ {m}
      BY <1>1, <1>5, <1>6, <2>1 DEF CInv, IInv, TypeOK
    <3>2. \A x \in allocated[p] \cup wire'[p] : x.id # m.id
      BY <2>1, <3>1 DEF CInv, ConformInv
    <3>3. QED
      BY <1>1, <1>2, <2>1, <3>1, <3>2 DEF CInv, ConformInv
  <2>2. CASE p # Peer(e)
    <3>1. Peer(p) \in Perspective /\ Peer(p) # e
      BY <2>2 DEF Peer, Perspective
    <3>2. Used(Peer(p))' = Used(Peer(p)) /\ wire'[p] = wire[p]
      BY <1>5, <1>6, <2>2, <3>1 DEF CInv, IInv, TypeOK
    <3>3. QED
      BY <3>2 DEF CInv, ConformInv
  <2>3. QED
    BY <2>1, <2>2
<1>9. QED
  BY <1>6, <1>7, <1>8 DEF ConformInv

\* What a rogue peer sends is judged without touching the other endpoint.
LEMMA RogueCInv ==
  ASSUME CInv, NEW e \in Perspective, Peer(e) \in Rogue, NEW id \in Nat, Use(e, id),
         next' = next, allocated' = allocated,
         \A q \in Perspective : q # Peer(e) => wire'[q] = wire[q]
  PROVE  ConformInv' /\ NeverRefused'
<1>1. \A f \in Perspective : f # e =>
         lowest'[f] = lowest[f] /\ ahead'[f] = ahead[f] /\ verdict'[f] = verdict[f]
  BY DEF Use, Judge, CInv, IInv, TypeOK
<1>2. \A p \in Perspective \ Rogue : Peer(p) \in Perspective /\ Peer(p) # e /\ p # Peer(e)
  BY DEF Peer, Perspective
<1>3. \A p \in Perspective \ Rogue : Used(Peer(p))' = Used(Peer(p)) /\ wire'[p] = wire[p]
  BY <1>1, <1>2 DEF Used
<1>4. ConformInv'
  BY <1>3 DEF CInv, ConformInv
<1>5. NeverRefused'
  BY <1>1 DEF CInv, NeverRefused
<1>6. QED
  BY <1>4, <1>5

LEMMA NextCInv == CInv /\ [IDsNext]_idVars => CInv'
<1> SUFFICES ASSUME CInv, [IDsNext]_idVars PROVE CInv'
  OBVIOUS
<1>1. IInv'
  BY NextIInv DEF CInv
<1>2. ASSUME NEW p \in Perspective, SenderStep(p) PROVE CInv'
  <2>1. verdict' = verdict
    BY <1>2 DEF SenderStep, NewRequest, NewUpdate, NextID, GiveUpID, WriteID, ResetStream, tracker
  <2>2. QED
    BY <1>1, <1>2, <2>1, SenderCInv DEF CInv, NeverRefused
<1>3. ASSUME NEW e \in Perspective, Absorb(e) PROVE CInv'
  <2>1. \A f \in Perspective : Used(f)' = Used(f)
    BY <1>3, AbsorbKeepsUsed DEF CInv
  <2>2. \A p \in Perspective : Peer(p) \in Perspective
    BY DEF Peer, Perspective
  <2>3. next' = next /\ allocated' = allocated /\ wire' = wire /\ verdict' = verdict
    BY <1>3 DEF Absorb, sender
  <2>4. ConformInv'
    BY <2>1, <2>2, <2>3 DEF CInv, ConformInv
  <2>5. QED
    BY <1>1, <2>3, <2>4 DEF CInv, NeverRefused
<1>4. ASSUME NEW e \in Perspective, NEW m \in wire[Peer(e)], Receive(e, m) PROVE CInv'
  <2>1. CASE Peer(e) \notin Rogue
    BY <1>1, <1>4, <2>1, ReceiveCInv DEF CInv
  <2>2. CASE Peer(e) \in Rogue
    <3>1. m.id \in Nat /\ Use(e, m.id) /\ next' = next /\ allocated' = allocated
      BY <1>4 DEF Receive, CInv, IInv, TypeOK, IDMessage, Peer, Perspective
    <3>2. \A q \in Perspective : q # Peer(e) => wire'[q] = wire[q]
      BY <1>4 DEF Receive, CInv, IInv, TypeOK
    <3>3. QED
      BY <1>1, <2>2, <3>1, <3>2, RogueCInv DEF CInv
  <2>3. QED
    BY <2>1, <2>2
<1>5. ASSUME NEW e \in Perspective, NEW id \in Strays, ReceiveStray(e, id) PROVE CInv'
  <2>1. id \in Nat /\ Peer(e) \in Rogue /\ Use(e, id)
    BY <1>5, IDsAssumption DEF ReceiveStray
  <2>2. next' = next /\ allocated' = allocated /\ wire' = wire
    BY <1>5 DEF ReceiveStray, sender
  <2>3. QED
    BY <1>1, <2>1, <2>2, RogueCInv DEF CInv
<1>6. CASE UNCHANGED idVars
  BY <1>1, <1>6 DEF idVars, CInv, ConformInv, NeverRefused, Used
<1>7. QED
  BY <1>2, <1>3, <1>4, <1>5, <1>6 DEF IDsNext, TrackerStep

\* A peer that numbers its requests with requestIDGenerator is never refused an
\* ID, whatever is abandoned, reset or overtaken, and whatever the other side sends.
THEOREM ConformingPeersAgree == IDsSpec => []NeverRefused
<1>1. CInv => NeverRefused
  BY DEF CInv
<1>2. QED
  BY <1>1, InitCInv, NextCInv, PTL DEF IDsSpec
==============================================================================
