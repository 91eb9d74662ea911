------------------------- MODULE DnsResolverProofs -------------------------
(***************************************************************************)
(* Machine-checked proofs about DnsResolver, for every value of the        *)
(* constants allowed by ConstantsAssumption.                               *)
(***************************************************************************)
EXTENDS DnsResolver, FiniteSetTheorems, SequenceTheorems, WellFoundedInduction,
        TLAPS

USE ConstantsAssumption

-----------------------------------------------------------------------------
(* Lemmas about the helpers *)

\* Dropping the first occurrence of an element keeps a sequence over S.
LEMMA RemoveFirstType ==
    ASSUME NEW S, NEW s \in Seq(S), NEW x
    PROVE  RemoveFirst(s, x) \in Seq(S)
<1>0. DOMAIN s = 1..Len(s) /\ Len(s) \in Nat
  OBVIOUS
<1>1. CASE \E i \in DOMAIN s : s[i] = x
  <2>. DEFINE i == CHOOSE i \in DOMAIN s : s[i] = x /\ \A j \in 1..(i - 1) : s[j] # x
  <2>1. i \in 1..Len(s)
    <3>1. \E k \in DOMAIN s : s[k] = x /\ \A j \in 1..(k - 1) : s[j] # x
      <4>. DEFINE P == {k \in DOMAIN s : s[k] = x}
      <4>1. P # {} /\ P \subseteq Nat
        BY <1>0, <1>1
      <4>2. PICK k \in P : \A m \in P : ~(<<m, k>> \in OpToRel(<, Nat))
        BY <4>1, NatLessThanWellFounded, WFMin
      <4>3. \A m \in P : k <= m
        <5>. SUFFICES ASSUME NEW m \in P PROVE k <= m
          OBVIOUS
        <5>1. m \in Nat /\ k \in Nat
          BY <4>1
        <5>2. ~(m < k)
          BY <4>2, <5>1 DEF OpToRel
        <5>. QED BY <5>1, <5>2
      <4>4. \A j \in 1..(k - 1) : s[j] # x
        BY <1>0, <4>3
      <4>. QED BY <4>4
    <3>. QED BY <3>1, <1>0
  <2>2. SubSeq(s, 1, i - 1) \in Seq(S) /\ SubSeq(s, i + 1, Len(s)) \in Seq(S)
    <3>1. i \in Int /\ Len(s) \in Int /\ \A j \in 1..Len(s) : s[j] \in S
      BY <2>1, <1>0
    <3>2. \A j \in 1..(i - 1) : s[j] \in S
      BY <3>1, <2>1
    <3>3. \A j \in (i + 1)..Len(s) : s[j] \in S
      BY <3>1, <2>1
    <3>4. SubSeq(s, 1, i - 1) \in Seq(S)
      BY <3>1, <3>2, SubSeqProperties
    <3>5. SubSeq(s, i + 1, Len(s)) \in Seq(S)
      BY <3>1, <3>3, SubSeqProperties
    <3>. QED BY <3>4, <3>5
  <2>3. SubSeq(s, 1, i - 1) \o SubSeq(s, i + 1, Len(s)) \in Seq(S)
    BY <2>2, ConcatProperties
  <2>. QED BY <1>1, <2>3 DEF RemoveFirst
<1>2. CASE ~\E i \in DOMAIN s : s[i] = x
  BY <1>2 DEF RemoveFirst
<1>. QED BY <1>1, <1>2

\* std::map::begin() of a non-empty queue is a queued id, the smallest.
LEMMA FrontProperties ==
    ASSUME NEW S \in SUBSET Nat, S # {}
    PROVE  Front(S) \in S /\ \A x \in S : Front(S) <= x
<1>1. PICK k \in S : \A m \in S : ~(<<m, k>> \in OpToRel(<, Nat))
  BY NatLessThanWellFounded, WFMin
<1>2. \A m \in S : k <= m
  <2>. SUFFICES ASSUME NEW m \in S PROVE k <= m
    OBVIOUS
  <2>1. m \in Nat /\ k \in Nat
    OBVIOUS
  <2>2. ~(m < k)
    BY <1>1, <2>1 DEF OpToRel
  <2>. QED BY <2>1, <2>2
<1>. QED BY <1>2 DEF Front

\* The tracked wire ids form a finite set.
LEMMA InUseFinite ==
    ASSUME NEW ws \in SUBSET WireIds
    PROVE  IsFiniteSet(ws) /\ Cardinality(ws) \in Nat
BY FS_Subset, FS_CardinalityType

\* Failing transactions and queued entries keeps result counts natural.
LEMMA FailedType ==
    ASSUME TypeOK, NEW ws \in SUBSET WireIds, NEW rs
    PROVE  Failed(ws, rs) \in [Rids \X RTypes -> Nat]
<1>. SUFFICES ASSUME NEW p \in Rids \X RTypes
              PROVE  Failed(ws, rs)[p] \in Nat
  BY DEF Failed
<1>1. Cardinality({w \in ws : queries[w].id = p[1] /\ queries[w].rt = p[2]}) \in Nat
  BY InUseFinite
<1>2. delivered[p] \in Nat
  BY DEF TypeOK
<1>. QED BY <1>1, <1>2 DEF Failed

-----------------------------------------------------------------------------
(* Type correctness *)

\* The part of TypeOK that resolve_pending_domains writes.
LEMMA ResolvePendingDomainsType ==
    ASSUME TypeOK, NEW open \in BOOLEAN, NEW hs \in [ConnIds -> HostStates],
           NEW rest \in Seq(Frame), ResolvePendingDomains(open, hs, rest)
    PROVE  /\ timerArmed' \in BOOLEAN
           /\ connId' \in ConnIds \cup {NON_ID}
           /\ nextConn' \in 0..MaxConns
           /\ hostState' \in [ConnIds -> HostStates]
           /\ stack' \in Seq(Frame)
<1>1. DrainFrame(BG) \in Frame
  BY DEF DrainFrame, Frame, BG, Kinds
<1>2. <<DrainFrame(BG)>> \o rest \in Seq(Frame)
  BY <1>1
<1>3. CASE QueuesEmpty
  BY <1>3 DEF ResolvePendingDomains, TypeOK
<1>4. CASE ~QueuesEmpty /\ ~open
  <2>1. nextConn < MaxConns /\ nextConn' = nextConn + 1 /\ connId' = nextConn + 1
        /\ hostState' = [hs EXCEPT ![nextConn + 1] = "connecting"]
        /\ stack' = rest /\ timerArmed' = TRUE
    BY <1>4 DEF ResolvePendingDomains
  <2>2. nextConn + 1 \in ConnIds
    BY <2>1 DEF TypeOK, ConnIds
  <2>. QED BY <2>1, <2>2 DEF TypeOK, HostStates
<1>5. CASE ~QueuesEmpty /\ open
  BY <1>2, <1>5 DEF ResolvePendingDomains, TypeOK
<1>. QED BY <1>3, <1>4, <1>5

\* The part of TypeOK that close_connection(id, _, false) writes.
LEMMA CloseNowType ==
    ASSUME TypeOK, NEW id, CloseNow(id)
    PROVE  /\ accepting' \in Seq(ConnIds)
           /\ closing' \in Seq(ConnIds)
           /\ delivered' \in [Rids \X RTypes -> Nat]
           /\ queries' \in [WireIds -> Query \cup {NoQuery}]
           /\ queues' \in [Kinds -> SUBSET Rids]
           /\ connId' \in ConnIds \cup {NON_ID}
           /\ isOpen' \in BOOLEAN
           /\ timerArmed' \in BOOLEAN
           /\ hostState' \in [ConnIds -> HostStates]
<1>1. accepting' \in Seq(ConnIds) /\ closing' \in Seq(ConnIds)
  BY RemoveFirstType DEF CloseNow, TypeOK
<1>2. delivered' \in [Rids \X RTypes -> Nat]
  BY FailedType DEF CloseNow, InUse
<1>. QED BY <1>1, <1>2 DEF CloseNow, TypeOK, HostStates

\* The part of TypeOK that close_connection(id, _, true) writes.
LEMMA CloseAsyncType ==
    ASSUME TypeOK, NEW id \in ConnIds, CloseAsync(id)
    PROVE  /\ accepting' \in Seq(ConnIds)
           /\ closing' \in Seq(ConnIds)
           /\ closeTask' \in BOOLEAN
BY RemoveFirstType DEF CloseAsync, TypeOK

LEMMA InitTypeOK == Init => TypeOK
<1>. SUFFICES ASSUME Init PROVE TypeOK
  OBVIOUS
<1>1. nextId \in 1..(MaxResolves + 1) /\ nextConn \in 0..MaxConns
  BY DEF Init
<1>2. requested \in [Rids -> SUBSET RTypes] /\ queues \in [Kinds -> SUBSET Rids]
  BY DEF Init
<1>3. queries \in [WireIds -> Query \cup {NoQuery}]
  BY DEF Init
<1>4. connId \in ConnIds \cup {NON_ID}
  BY DEF Init
<1>5. stack \in Seq(Frame) /\ accepting \in Seq(ConnIds) /\ closing \in Seq(ConnIds)
  BY DEF Init
<1>6. hostState \in [ConnIds -> HostStates]
  BY DEF Init, HostStates
<1>7. delivered \in [Rids \X RTypes -> Nat] /\ cancelled \in SUBSET Rids
  BY DEF Init
<1>. QED BY <1>1, <1>2, <1>3, <1>4, <1>5, <1>6, <1>7 DEF Init, TypeOK

LEMMA ResolveTypeOK ==
    ASSUME TypeOK, NEW q \in Kinds, NEW types \in SUBSET RTypes, Resolve(q, types)
    PROVE  TypeOK'
BY DEF Resolve, TypeOK, Rids

LEMMA CancelTypeOK ==
    ASSUME TypeOK, NEW r \in Rids, Cancel(r)
    PROVE  TypeOK'
BY DEF Cancel, TypeOK, InUse

LEMMA StopResolvingQueuesTypeOK ==
    ASSUME TypeOK, NEW mask \in SUBSET Kinds, StopResolvingQueues(mask)
    PROVE  TypeOK'
<1>. DEFINE ws == {w \in InUse : queries[w].kind \in mask}
<1>1. ws \in SUBSET WireIds
  BY DEF InUse
<1>2. delivered' \in [Rids \X RTypes -> Nat]
  BY <1>1, FailedType DEF StopResolvingQueues
<1>. QED BY <1>2 DEF StopResolvingQueues, TypeOK

LEMMA StopResolvingTypeOK ==
    ASSUME TypeOK, StopResolving
    PROVE  TypeOK'
<1>1. delivered' \in [Rids \X RTypes -> Nat]
  BY FailedType DEF StopResolving, InUse
<1>2. hostState' \in [ConnIds -> HostStates]
  BY DEF StopResolving, TypeOK, HostStates
<1>3. queries' \in [WireIds -> Query \cup {NoQuery}] /\ queues' \in [Kinds -> SUBSET Rids]
  BY DEF StopResolving
<1>4. accepting' \in Seq(ConnIds) /\ closing' \in Seq(ConnIds)
  BY DEF StopResolving
<1>5. connId' \in ConnIds \cup {NON_ID}
  BY DEF StopResolving
<1>6. /\ isOpen' \in BOOLEAN /\ timerArmed' \in BOOLEAN /\ resolveTask' \in BOOLEAN
      /\ acceptTask' \in BOOLEAN /\ closeTask' \in BOOLEAN
  BY DEF StopResolving
<1>7. UNCHANGED <<nextId, requested, nextConn, ipv6, stack, cancelled>>
  BY DEF StopResolving
<1>. QED BY <1>1, <1>2, <1>3, <1>4, <1>5, <1>6, <1>7 DEF TypeOK

LEMMA SetIpv6TypeOK ==
    ASSUME TypeOK, NEW b \in BOOLEAN, SetIpv6Availability(b)
    PROVE  TypeOK'
BY DEF SetIpv6Availability, TypeOK

\* What resolve_queue writes when it sends the queries of one entry.
LEMMA SendQueriesType ==
    ASSUME TypeOK, NEW e \in Rids, NEW q \in Kinds, SendQueries(e, q)
    PROVE  /\ queries' \in [WireIds -> Query \cup {NoQuery}]
           /\ delivered' \in [Rids \X RTypes -> Nat]
<1>1. PICK sent \in SUBSET Attempted(e) : \E w \in [sent -> WireIds] :
           /\ queries' = [x \in WireIds |->
                 IF queries[x] = NoQuery /\ \E t \in sent : w[t] = x
                 THEN [id |-> e, rt |-> Emplaced(sent, w, x), kind |-> q]
                 ELSE queries[x]]
           /\ delivered' = [p \in Rids \X RTypes |->
                 IF p[1] = e /\ p[2] \in requested[e] \ sent
                 THEN delivered[p] + 1 ELSE delivered[p]]
  BY DEF SendQueries
<1>2. PICK w \in [sent -> WireIds] :
           /\ queries' = [x \in WireIds |->
                 IF queries[x] = NoQuery /\ \E t \in sent : w[t] = x
                 THEN [id |-> e, rt |-> Emplaced(sent, w, x), kind |-> q]
                 ELSE queries[x]]
           /\ delivered' = [p \in Rids \X RTypes |->
                 IF p[1] = e /\ p[2] \in requested[e] \ sent
                 THEN delivered[p] + 1 ELSE delivered[p]]
  BY <1>1
<1>3. \A x \in WireIds : Emplaced(sent, w, x) \in RTypes
  BY DEF Emplaced, RTypes
<1>4. queries' \in [WireIds -> Query \cup {NoQuery}]
  BY <1>2, <1>3 DEF TypeOK, Query
<1>5. delivered' \in [Rids \X RTypes -> Nat]
  BY <1>2 DEF TypeOK
<1>. QED BY <1>4, <1>5

LEMMA DrainStepTypeOK ==
    ASSUME TypeOK, DrainStep
    PROVE  TypeOK'
<1>. DEFINE q == Head(stack).q
<1>1. stack # <<>> /\ Head(stack) \in Frame /\ Tail(stack) \in Seq(Frame)
  BY DEF DrainStep, TypeOK
<1>2. q \in Kinds
  BY <1>1 DEF Frame
<1>3. CASE Admits(q) /\ queues[q] # {}
  <2>. DEFINE e == Front(queues[q])
  <2>1. queues[q] \in SUBSET Rids /\ Rids \subseteq Nat
    BY <1>2 DEF TypeOK, Rids
  <2>2. e \in queues[q]
    BY <1>3, <2>1, FrontProperties
  <2>3. /\ queues' = [queues EXCEPT ![q] = @ \ {e}]
        /\ SendQueries(e, q)
        /\ UNCHANGED stack
    BY <1>3 DEF DrainStep
  <2>4. queues' \in [Kinds -> SUBSET Rids]
    BY <1>2, <2>3 DEF TypeOK
  <2>5. queries' \in [WireIds -> Query \cup {NoQuery}]
        /\ delivered' \in [Rids \X RTypes -> Nat]
    BY <1>2, <2>1, <2>2, <2>3, SendQueriesType
  <2>. QED BY <2>3, <2>4, <2>5 DEF DrainStep, TypeOK
<1>4. CASE ~(Admits(q) /\ queues[q] # {})
  <2>1. DrainFrame(FG) \in Frame
    BY DEF DrainFrame, Frame, FG, Kinds
  <2>2. stack' = IF q = BG THEN <<DrainFrame(FG)>> \o Tail(stack) ELSE Tail(stack)
    BY <1>4 DEF DrainStep
  <2>3. stack' \in Seq(Frame)
    BY <1>1, <2>1, <2>2
  <2>. QED BY <1>4, <2>3 DEF DrainStep, TypeOK
<1>. QED BY <1>3, <1>4

LEMMA AcceptTaskRunTypeOK ==
    ASSUME TypeOK, AcceptTaskRun
    PROVE  TypeOK'
<1>1. [f |-> "accept", q |-> BG, ids |-> accepting] \in Frame
  BY DEF TypeOK, Frame, BG, Kinds
<1>2. stack' \in Seq(Frame) /\ accepting' \in Seq(ConnIds)
  BY <1>1 DEF AcceptTaskRun
<1>. QED BY <1>2 DEF AcceptTaskRun, TypeOK

LEMMA CloseTaskRunTypeOK ==
    ASSUME TypeOK, CloseTaskRun
    PROVE  TypeOK'
<1>1. [f |-> "close", q |-> BG, ids |-> closing] \in Frame
  BY DEF TypeOK, Frame, BG, Kinds
<1>2. stack' \in Seq(Frame) /\ closing' \in Seq(ConnIds)
  BY <1>1 DEF CloseTaskRun
<1>. QED BY <1>2 DEF CloseTaskRun, TypeOK

\* Dropping the first id of the loop frame on top of the stack keeps frames.
LEMMA PopIdType ==
    ASSUME NEW st \in Seq(Frame), st # <<>>, Head(st).ids # <<>>
    PROVE  /\ <<[Head(st) EXCEPT !.ids = Tail(Head(st).ids)]>> \o Tail(st) \in Seq(Frame)
           /\ Head(Head(st).ids) \in ConnIds
<1>1. Head(st) \in Frame /\ Tail(st) \in Seq(Frame)
  OBVIOUS
<1>2. Head(st).ids \in Seq(ConnIds)
  BY <1>1 DEF Frame
<1>3. Tail(Head(st).ids) \in Seq(ConnIds) /\ Head(Head(st).ids) \in ConnIds
  BY <1>2
<1>4. [Head(st) EXCEPT !.ids = Tail(Head(st).ids)] \in Frame
  BY <1>1, <1>3 DEF Frame
<1>. QED BY <1>1, <1>3, <1>4

LEMMA AcceptStepTypeOK ==
    ASSUME TypeOK, AcceptStep
    PROVE  TypeOK'
<1>1. stack \in Seq(Frame) /\ stack # <<>>
  BY DEF AcceptStep, TypeOK
<1>2. CASE Head(stack).ids = <<>>
  <2>1. stack' = Tail(stack)
    BY <1>2 DEF AcceptStep
  <2>2. stack' \in Seq(Frame)
    BY <1>1, <2>1
  <2>. QED BY <1>2, <2>2 DEF AcceptStep, TypeOK
<1>3. CASE Head(stack).ids # <<>>
  <2>. DEFINE id == Head(Head(stack).ids)
              rest == <<[Head(stack) EXCEPT !.ids = Tail(Head(stack).ids)]>> \o Tail(stack)
  <2>1. rest \in Seq(Frame) /\ id \in ConnIds
    BY <1>1, <1>3, PopIdType
  <2>2. CASE isOpen \/ connId # id
    <3>1. CloseNow(id) /\ stack' = rest /\ UNCHANGED nextConn
      BY <1>3, <2>2 DEF AcceptStep
    <3>2. stack' \in Seq(Frame)
      BY <2>1, <3>1
    <3>. QED BY <1>3, <2>2, <3>1, <3>2, CloseNowType DEF AcceptStep, TypeOK
  <2>3. CASE ~(isOpen \/ connId # id)
    <3>1. [hostState EXCEPT ![id] = "accepted"] \in [ConnIds -> HostStates]
      BY <2>1 DEF TypeOK, HostStates
    <3>2. /\ isOpen' = TRUE
          /\ ResolvePendingDomains(TRUE, [hostState EXCEPT ![id] = "accepted"], rest)
      BY <1>3, <2>3 DEF AcceptStep
    <3>3. /\ timerArmed' \in BOOLEAN
          /\ connId' \in ConnIds \cup {NON_ID}
          /\ nextConn' \in 0..MaxConns
          /\ hostState' \in [ConnIds -> HostStates]
          /\ stack' \in Seq(Frame)
      BY <2>1, <3>1, <3>2, ResolvePendingDomainsType
    <3>. QED BY <1>3, <2>3, <3>2, <3>3 DEF AcceptStep, TypeOK
  <2>. QED BY <2>2, <2>3
<1>. QED BY <1>2, <1>3

LEMMA CloseStepTypeOK ==
    ASSUME TypeOK, CloseStep
    PROVE  TypeOK'
<1>1. stack \in Seq(Frame) /\ stack # <<>>
  BY DEF CloseStep, TypeOK
<1>2. CASE Head(stack).ids = <<>>
  <2>1. stack' = Tail(stack)
    BY <1>2 DEF CloseStep
  <2>2. stack' \in Seq(Frame)
    BY <1>1, <2>1
  <2>. QED BY <1>2, <2>2 DEF CloseStep, TypeOK
<1>3. CASE Head(stack).ids # <<>>
  <2>1. <<[Head(stack) EXCEPT !.ids = Tail(Head(stack).ids)]>> \o Tail(stack) \in Seq(Frame)
    BY <1>1, <1>3, PopIdType
  <2>2. /\ CloseNow(Head(Head(stack).ids))
        /\ stack' = <<[Head(stack) EXCEPT !.ids = Tail(Head(stack).ids)]>> \o Tail(stack)
    BY <1>3 DEF CloseStep
  <2>3. stack' \in Seq(Frame)
    BY <2>1, <2>2
  <2>. QED BY <1>3, <2>2, <2>3, CloseNowType DEF CloseStep, TypeOK
<1>. QED BY <1>2, <1>3

LEMMA ResolveTimeoutTypeOK ==
    ASSUME TypeOK, ResolveTimeout
    PROVE  TypeOK'
BY CloseNowType DEF ResolveTimeout, TypeOK

LEMMA CompleteConnectRequestTypeOK ==
    ASSUME TypeOK, NEW id \in ConnIds, NEW pass \in BOOLEAN,
           CompleteConnectRequest(id, pass)
    PROVE  TypeOK'
<1>1. hostState' \in [ConnIds -> HostStates]
  BY DEF CompleteConnectRequest, TypeOK, HostStates
<1>2. CASE pass
  <2>1. accepting' = Append(accepting, id)
    BY <1>2 DEF CompleteConnectRequest
  <2>2. accepting' \in Seq(ConnIds)
    BY <2>1 DEF TypeOK
  <2>. QED BY <1>1, <1>2, <2>2 DEF CompleteConnectRequest, TypeOK
<1>3. CASE ~pass
  <2>1. CloseAsync(id)
    BY <1>3 DEF CompleteConnectRequest
  <2>2. accepting' \in Seq(ConnIds) /\ closing' \in Seq(ConnIds) /\ closeTask' \in BOOLEAN
    BY <2>1, CloseAsyncType
  <2>. QED BY <1>1, <1>3, <2>2 DEF CompleteConnectRequest, TypeOK
<1>. QED BY <1>2, <1>3

LEMMA HostCloseTypeOK ==
    ASSUME TypeOK, NEW id \in ConnIds, NEW async \in BOOLEAN, HostClose(id, async)
    PROVE  TypeOK'
<1>1. CASE async
  <2>1. CloseAsync(id)
    BY <1>1 DEF HostClose
  <2>2. accepting' \in Seq(ConnIds) /\ closing' \in Seq(ConnIds) /\ closeTask' \in BOOLEAN
    BY <2>1, CloseAsyncType
  <2>. QED BY <1>1, <2>2 DEF HostClose, TypeOK
<1>2. CASE ~async
  <2>1. CloseNow(id)
    BY <1>2 DEF HostClose
  <2>. QED BY <1>2, <2>1, CloseNowType DEF HostClose, TypeOK
<1>. QED BY <1>1, <1>2

LEMMA SendTypeOK ==
    ASSUME TypeOK, NEW w \in WireIds, Send(w)
    PROVE  TypeOK'
<1>1. /\ queries' \in [WireIds -> Query \cup {NoQuery}]
      /\ delivered' \in [Rids \X RTypes -> Nat]
  <2>1. CASE queries[w] # NoQuery
    <3>1. <<queries[w].id, queries[w].rt>> \in Rids \X RTypes
      BY <2>1 DEF TypeOK, Query
    <3>2. /\ delivered' = [delivered EXCEPT ![<<queries[w].id, queries[w].rt>>] = @ + 1]
          /\ queries' = [queries EXCEPT ![w] = NoQuery]
      BY <2>1 DEF Send
    <3>. QED BY <3>1, <3>2 DEF TypeOK
  <2>2. CASE queries[w] = NoQuery
    BY <2>2 DEF Send, TypeOK
  <2>. QED BY <2>1, <2>2
<1>2. /\ timerArmed' \in BOOLEAN
      /\ connId' \in ConnIds \cup {NON_ID}
      /\ nextConn' \in 0..MaxConns
      /\ hostState' \in [ConnIds -> HostStates]
      /\ stack' \in Seq(Frame)
  BY ResolvePendingDomainsType DEF Send, TypeOK
<1>. QED BY <1>1, <1>2 DEF Send, TypeOK

LEMMA ResolveTaskRunTypeOK ==
    ASSUME TypeOK, ResolveTaskRun
    PROVE  TypeOK'
BY ResolvePendingDomainsType DEF ResolveTaskRun, TypeOK

LEMMA NextTypeOK == TypeOK /\ [Next]_vars => TypeOK'
<1>. SUFFICES ASSUME TypeOK, [Next]_vars PROVE TypeOK'
  OBVIOUS
<1>1. CASE \E q \in Kinds, types \in SUBSET RTypes \ {{}} : Resolve(q, types)
  BY <1>1, ResolveTypeOK
<1>2. CASE \E r \in Rids : Cancel(r)
  BY <1>2, CancelTypeOK
<1>3. CASE \E mask \in SUBSET Kinds \ {{}} : StopResolvingQueues(mask)
  BY <1>3, StopResolvingQueuesTypeOK
<1>4. CASE StopResolving
  BY <1>4, StopResolvingTypeOK
<1>5. CASE \E b \in BOOLEAN : SetIpv6Availability(b)
  BY <1>5, SetIpv6TypeOK
<1>6. CASE ResolveTaskRun
  BY <1>6, ResolveTaskRunTypeOK
<1>7. CASE AcceptTaskRun
  BY <1>7, AcceptTaskRunTypeOK
<1>8. CASE CloseTaskRun
  BY <1>8, CloseTaskRunTypeOK
<1>9. CASE TaskStep
  BY <1>9, DrainStepTypeOK, AcceptStepTypeOK, CloseStepTypeOK DEF TaskStep
<1>10. CASE ResolveTimeout
  BY <1>10, ResolveTimeoutTypeOK
<1>11. CASE \E id \in ConnIds, pass \in BOOLEAN : CompleteConnectRequest(id, pass)
  BY <1>11, CompleteConnectRequestTypeOK
<1>12. CASE \E id \in ConnIds, async \in BOOLEAN : HostClose(id, async)
  BY <1>12, HostCloseTypeOK
<1>13. CASE \E w \in WireIds : Send(w)
  BY <1>13, SendTypeOK
<1>14. CASE UNCHANGED vars
  BY <1>14 DEF TypeOK, vars
<1>. QED BY <1>1, <1>2, <1>3, <1>4, <1>5, <1>6, <1>7, <1>8, <1>9, <1>10,
            <1>11, <1>12, <1>13, <1>14 DEF Next

\* Type correctness: every reachable state of the resolver is well typed,
\* for all bounds and every set of wire ids.
THEOREM TypeCorrect == Spec => []TypeOK
BY InitTypeOK, NextTypeOK, PTL DEF Spec

-----------------------------------------------------------------------------
(* Transactions live only on the open, accepted connection.                  *)
(*                                                                           *)
(* InFlightOnOpenConnection alone is not inductive: resolve_queue adds       *)
(* transactions, and it runs only from a drain frame that                    *)
(* resolve_pending_domains pushed while the connection was open. The         *)
(* strengthening says that a drain frame is only ever the innermost running  *)
(* loop (it is pushed on top and pops before the accept loop under it goes   *)
(* on) and that the connection is open while it runs.                        *)

DrainOnTop == \A i \in DOMAIN stack : stack[i].f = "drain" => i = 1 /\ isOpen

IInv == TypeOK /\ InFlightOnOpenConnection /\ DrainOnTop

\* close_connection(id, _, false) leaves nothing in flight, nothing open and
\* no timer armed.
LEMMA CloseNowClears ==
    ASSUME NEW id, CloseNow(id)
    PROVE  InUse' = {} /\ ~isOpen' /\ ~timerArmed'
BY DEF CloseNow, InUse

\* resolve_pending_domains() keeps the connection discipline, given that the
\* caller's open flag is what is_open becomes and the frames it resumes
\* hold no drain loop.
LEMMA ResolvePendingDomainsInFlight ==
    ASSUME TypeOK, NEW open \in BOOLEAN, NEW hs \in [ConnIds -> HostStates],
           NEW rest \in Seq(Frame), ResolvePendingDomains(open, hs, rest),
           isOpen' = open,
           open => connId \in ConnIds /\ hs[connId] = "accepted",
           timerArmed => connId \in ConnIds,
           InUse' # {} => open,
           \A i \in DOMAIN rest : rest[i].f # "drain"
    PROVE  InFlightOnOpenConnection' /\ DrainOnTop'
<1>1. CASE QueuesEmpty
  <2>1. stack' = rest /\ hostState' = hs /\ UNCHANGED <<timerArmed, connId>>
    BY <1>1 DEF ResolvePendingDomains
  <2>. QED BY <2>1 DEF InFlightOnOpenConnection, DrainOnTop
<1>2. CASE ~QueuesEmpty /\ ~open
  <2>1. /\ nextConn < MaxConns /\ connId' = nextConn + 1
        /\ stack' = rest /\ timerArmed' = TRUE
    BY <1>2 DEF ResolvePendingDomains
  <2>2. connId' \in ConnIds
    BY <2>1 DEF TypeOK, ConnIds
  <2>. QED BY <1>2, <2>1, <2>2 DEF InFlightOnOpenConnection, DrainOnTop
<1>3. CASE ~QueuesEmpty /\ open
  <2>1. /\ stack' = <<DrainFrame(BG)>> \o rest /\ hostState' = hs
        /\ UNCHANGED connId /\ timerArmed' = TRUE
    BY <1>3 DEF ResolvePendingDomains
  <2>2. \A i \in DOMAIN stack' : stack'[i].f = "drain" => i = 1
    <3>. SUFFICES ASSUME NEW i \in DOMAIN stack', i # 1 PROVE stack'[i].f # "drain"
      OBVIOUS
    <3>1. i - 1 \in DOMAIN rest /\ stack'[i] = rest[i - 1]
      BY <2>1
    <3>. QED BY <3>1
  <2>. QED BY <1>3, <2>1, <2>2 DEF InFlightOnOpenConnection, DrainOnTop
<1>. QED BY <1>1, <1>2, <1>3

LEMMA InitIInv == Init => IInv
BY InitTypeOK DEF Init, IInv, InFlightOnOpenConnection, DrainOnTop, InUse

\* Actions that leave connection, timer, stack and host view alone and can
\* only end transactions keep the invariant.
LEMMA QuietStep ==
    ASSUME IInv, TypeOK',
           UNCHANGED <<connId, isOpen, timerArmed, stack, hostState>>,
           InUse' \subseteq InUse
    PROVE  IInv'
BY DEF IInv, InFlightOnOpenConnection, DrainOnTop

LEMMA ResolveIInv ==
    ASSUME IInv, NEW q \in Kinds, NEW types \in SUBSET RTypes \ {{}}, Resolve(q, types)
    PROVE  IInv'
BY ResolveTypeOK, QuietStep DEF IInv, Resolve, InUse

LEMMA CancelIInv ==
    ASSUME IInv, NEW r \in Rids, Cancel(r)
    PROVE  IInv'
<1>1. InUse' \subseteq InUse
  BY DEF Cancel, InUse, IInv, TypeOK
<1>. QED BY <1>1, CancelTypeOK, QuietStep DEF IInv, Cancel

LEMMA StopResolvingQueuesIInv ==
    ASSUME IInv, NEW mask \in SUBSET Kinds \ {{}}, StopResolvingQueues(mask)
    PROVE  IInv'
<1>1. InUse' \subseteq InUse
  BY DEF StopResolvingQueues, InUse
<1>. QED BY <1>1, StopResolvingQueuesTypeOK, QuietStep DEF IInv, StopResolvingQueues

LEMMA StopResolvingIInv ==
    ASSUME IInv, StopResolving
    PROVE  IInv'
<1>1. InUse' = {} /\ ~isOpen' /\ ~timerArmed' /\ stack' = <<>>
  BY DEF StopResolving, InUse
<1>. QED BY <1>1, StopResolvingTypeOK DEF IInv, InFlightOnOpenConnection, DrainOnTop

LEMMA SetIpv6IInv ==
    ASSUME IInv, NEW b \in BOOLEAN, SetIpv6Availability(b)
    PROVE  IInv'
BY SetIpv6TypeOK, QuietStep DEF IInv, SetIpv6Availability, InUse

LEMMA ResolveTaskRunIInv ==
    ASSUME IInv, ResolveTaskRun
    PROVE  IInv'
<1>1. /\ stack = <<>>
      /\ ResolvePendingDomains(isOpen, hostState, <<>>)
      /\ UNCHANGED <<isOpen, queries>>
  BY DEF ResolveTaskRun
<1>2. /\ isOpen \in BOOLEAN /\ hostState \in [ConnIds -> HostStates]
      /\ <<>> \in Seq(Frame)
  BY DEF IInv, TypeOK
<1>3. /\ isOpen => connId \in ConnIds /\ hostState[connId] = "accepted"
      /\ timerArmed => connId \in ConnIds
      /\ InUse' # {} => isOpen
  BY <1>1 DEF IInv, InFlightOnOpenConnection, InUse
<1>4. \A i \in DOMAIN <<>> : <<>>[i].f # "drain"
  OBVIOUS
<1>5. InFlightOnOpenConnection' /\ DrainOnTop'
  BY <1>1, <1>2, <1>3, <1>4, ResolvePendingDomainsInFlight DEF IInv
<1>. QED BY <1>5, ResolveTaskRunTypeOK DEF IInv

\* The frames under the innermost loop hold no drain loop.
LEMMA TailNoDrain ==
    ASSUME TypeOK, DrainOnTop, stack # <<>>
    PROVE  \A i \in DOMAIN Tail(stack) : Tail(stack)[i].f # "drain"
<1>. SUFFICES ASSUME NEW i \in DOMAIN Tail(stack) PROVE Tail(stack)[i].f # "drain"
  OBVIOUS
<1>1. i + 1 \in DOMAIN stack /\ Tail(stack)[i] = stack[i + 1] /\ i + 1 # 1
  BY DEF TypeOK
<1>. QED BY <1>1 DEF DrainOnTop

LEMMA DrainStepIInv ==
    ASSUME IInv, DrainStep
    PROVE  IInv'
<1>. DEFINE q == Head(stack).q
<1>1. stack \in Seq(Frame) /\ stack # <<>> /\ Head(stack).f = "drain"
  BY DEF DrainStep, IInv, TypeOK
<1>2. isOpen
  BY <1>1 DEF IInv, DrainOnTop
<1>3. UNCHANGED <<connId, isOpen, timerArmed, hostState>>
  BY DEF DrainStep
<1>4. \A i \in DOMAIN Tail(stack) : Tail(stack)[i].f # "drain"
  BY <1>1, TailNoDrain DEF IInv
<1>5. DrainOnTop'
  <2>1. CASE Admits(q) /\ queues[q] # {}
    BY <1>3, <2>1 DEF DrainStep, IInv, DrainOnTop
  <2>2. CASE ~(Admits(q) /\ queues[q] # {})
    <3>1. stack' = IF q = BG THEN <<DrainFrame(FG)>> \o Tail(stack) ELSE Tail(stack)
      BY <2>2 DEF DrainStep
    <3>2. \A i \in DOMAIN stack' : stack'[i].f = "drain" => i = 1
      <4>. SUFFICES ASSUME NEW i \in DOMAIN stack', i # 1 PROVE stack'[i].f # "drain"
        OBVIOUS
      <4>1. CASE q = BG
        <5>1. i - 1 \in DOMAIN Tail(stack) /\ stack'[i] = Tail(stack)[i - 1]
          BY <1>1, <3>1, <4>1
        <5>. QED BY <1>4, <5>1
      <4>2. CASE q # BG
        BY <1>1, <1>4, <3>1, <4>2
      <4>. QED BY <4>1, <4>2
    <3>. QED BY <1>2, <1>3, <3>2 DEF DrainOnTop
  <2>. QED BY <2>1, <2>2
<1>6. InFlightOnOpenConnection'
  BY <1>2, <1>3 DEF IInv, InFlightOnOpenConnection
<1>. QED BY <1>5, <1>6, DrainStepTypeOK DEF IInv

LEMMA AcceptTaskRunIInv ==
    ASSUME IInv, AcceptTaskRun
    PROVE  IInv'
<1>1. stack' = <<[f |-> "accept", q |-> BG, ids |-> accepting]>>
  BY DEF AcceptTaskRun
<1>2. DrainOnTop'
  BY <1>1 DEF DrainOnTop
<1>. QED BY <1>2, AcceptTaskRunTypeOK
         DEF IInv, AcceptTaskRun, InFlightOnOpenConnection, InUse

LEMMA CloseTaskRunIInv ==
    ASSUME IInv, CloseTaskRun
    PROVE  IInv'
<1>1. stack' = <<[f |-> "close", q |-> BG, ids |-> closing]>>
  BY DEF CloseTaskRun
<1>2. DrainOnTop'
  BY <1>1 DEF DrainOnTop
<1>. QED BY <1>2, CloseTaskRunTypeOK
         DEF IInv, CloseTaskRun, InFlightOnOpenConnection, InUse

\* Replacing the innermost loop frame by a frame that is not a drain loop,
\* or dropping it, leaves no drain loop on the stack.
LEMMA PopIdNoDrain ==
    ASSUME TypeOK, DrainOnTop, stack # <<>>, Head(stack).f # "drain",
           Head(stack).ids # <<>>
    PROVE  LET rest == <<[Head(stack) EXCEPT !.ids = Tail(Head(stack).ids)]>> \o Tail(stack)
           IN  \A i \in DOMAIN rest : rest[i].f # "drain"
<1>. DEFINE rest == <<[Head(stack) EXCEPT !.ids = Tail(Head(stack).ids)]>> \o Tail(stack)
<1>1. \A i \in DOMAIN Tail(stack) : Tail(stack)[i].f # "drain"
  BY TailNoDrain
<1>2. Head(stack) \in Frame /\ Tail(stack) \in Seq(Frame)
  BY DEF TypeOK
<1>3. [Head(stack) EXCEPT !.ids = Tail(Head(stack).ids)].f # "drain"
  BY <1>2 DEF Frame
<1>. SUFFICES ASSUME NEW i \in DOMAIN rest PROVE rest[i].f # "drain"
  OBVIOUS
<1>4. CASE i = 1
  <2>1. rest[1] = [Head(stack) EXCEPT !.ids = Tail(Head(stack).ids)]
    BY <1>2
  <2>. QED BY <1>3, <1>4, <2>1
<1>5. CASE i # 1
  <2>1. i - 1 \in DOMAIN Tail(stack) /\ rest[i] = Tail(stack)[i - 1]
    BY <1>2, <1>5
  <2>. QED BY <1>1, <2>1
<1>. QED BY <1>4, <1>5

\* A step that closes the connection now leaves nothing to check but the
\* stack it resumes.
LEMMA CloseNowIInv ==
    ASSUME TypeOK', NEW id, CloseNow(id),
           \A i \in DOMAIN stack' : stack'[i].f # "drain"
    PROVE  IInv'
<1>1. InUse' = {} /\ ~isOpen' /\ ~timerArmed'
  BY CloseNowClears
<1>. QED BY <1>1 DEF IInv, InFlightOnOpenConnection, DrainOnTop

LEMMA AcceptStepIInv ==
    ASSUME IInv, AcceptStep
    PROVE  IInv'
<1>1. stack \in Seq(Frame) /\ stack # <<>> /\ Head(stack).f = "accept"
  BY DEF AcceptStep, IInv, TypeOK
<1>2. TypeOK'
  BY AcceptStepTypeOK DEF IInv
<1>3. CASE Head(stack).ids = <<>>
  <2>1. stack' = Tail(stack)
        /\ UNCHANGED <<queries, connId, isOpen, timerArmed, hostState>>
    BY <1>3 DEF AcceptStep
  <2>2. \A i \in DOMAIN Tail(stack) : Tail(stack)[i].f # "drain"
    BY <1>1, TailNoDrain DEF IInv
  <2>. QED BY <1>2, <2>1, <2>2 DEF IInv, InFlightOnOpenConnection, DrainOnTop, InUse
<1>4. CASE Head(stack).ids # <<>>
  <2>. DEFINE id == Head(Head(stack).ids)
              rest == <<[Head(stack) EXCEPT !.ids = Tail(Head(stack).ids)]>> \o Tail(stack)
  <2>1. \A i \in DOMAIN rest : rest[i].f # "drain"
    BY <1>1, <1>4, PopIdNoDrain DEF IInv
  <2>2. rest \in Seq(Frame) /\ id \in ConnIds
    BY <1>1, <1>4, PopIdType
  <2>3. CASE isOpen \/ connId # id
    <3>1. CloseNow(id) /\ stack' = rest
      BY <1>4, <2>3 DEF AcceptStep
    <3>. QED BY <1>2, <2>1, <3>1, CloseNowIInv
  <2>4. CASE ~(isOpen \/ connId # id)
    <3>. DEFINE hs == [hostState EXCEPT ![id] = "accepted"]
    <3>1. /\ isOpen' = TRUE
          /\ ResolvePendingDomains(TRUE, hs, rest)
          /\ UNCHANGED queries
      BY <1>4, <2>4 DEF AcceptStep
    <3>2. hs \in [ConnIds -> HostStates] /\ connId \in ConnIds /\ hs[connId] = "accepted"
      BY <2>2, <2>4 DEF IInv, TypeOK, HostStates
    <3>3. InFlightOnOpenConnection' /\ DrainOnTop'
      BY <2>1, <2>2, <3>1, <3>2, ResolvePendingDomainsInFlight DEF IInv
    <3>. QED BY <1>2, <3>3 DEF IInv
  <2>. QED BY <2>3, <2>4
<1>. QED BY <1>3, <1>4

LEMMA CloseStepIInv ==
    ASSUME IInv, CloseStep
    PROVE  IInv'
<1>1. stack \in Seq(Frame) /\ stack # <<>> /\ Head(stack).f = "close"
  BY DEF CloseStep, IInv, TypeOK
<1>2. TypeOK'
  BY CloseStepTypeOK DEF IInv
<1>3. CASE Head(stack).ids = <<>>
  <2>1. stack' = Tail(stack)
        /\ UNCHANGED <<queries, connId, isOpen, timerArmed, hostState>>
    BY <1>3 DEF CloseStep
  <2>2. \A i \in DOMAIN Tail(stack) : Tail(stack)[i].f # "drain"
    BY <1>1, TailNoDrain DEF IInv
  <2>. QED BY <1>2, <2>1, <2>2 DEF IInv, InFlightOnOpenConnection, DrainOnTop, InUse
<1>4. CASE Head(stack).ids # <<>>
  <2>1. /\ CloseNow(Head(Head(stack).ids))
        /\ stack' = <<[Head(stack) EXCEPT !.ids = Tail(Head(stack).ids)]>> \o Tail(stack)
    BY <1>4 DEF CloseStep
  <2>2. \A i \in DOMAIN stack' : stack'[i].f # "drain"
    BY <1>1, <1>4, <2>1, PopIdNoDrain DEF IInv
  <2>. QED BY <1>2, <2>1, <2>2, CloseNowIInv
<1>. QED BY <1>3, <1>4

LEMMA ResolveTimeoutIInv ==
    ASSUME IInv, ResolveTimeout
    PROVE  IInv'
<1>1. CloseNow(connId) /\ stack' = <<>>
  BY DEF ResolveTimeout
<1>. QED BY <1>1, ResolveTimeoutTypeOK, CloseNowIInv DEF IInv

LEMMA CompleteConnectRequestIInv ==
    ASSUME IInv, NEW id \in ConnIds, NEW pass \in BOOLEAN,
           CompleteConnectRequest(id, pass)
    PROVE  IInv'
<1>1. isOpen => id # connId
  BY DEF CompleteConnectRequest, IInv, InFlightOnOpenConnection
<1>2. isOpen => hostState'[connId] = "accepted"
  BY <1>1 DEF CompleteConnectRequest, IInv, InFlightOnOpenConnection, TypeOK
<1>3. UNCHANGED <<queries, connId, isOpen, timerArmed, stack>>
  BY DEF CompleteConnectRequest
<1>. QED BY <1>2, <1>3, CompleteConnectRequestTypeOK
         DEF IInv, InFlightOnOpenConnection, DrainOnTop, InUse

LEMMA HostCloseIInv ==
    ASSUME IInv, NEW id \in ConnIds, NEW async \in BOOLEAN, HostClose(id, async)
    PROVE  IInv'
<1>1. TypeOK' /\ stack' = <<>>
  BY HostCloseTypeOK DEF HostClose, IInv
<1>2. CASE async
  <2>1. UNCHANGED <<queries, connId, isOpen, timerArmed, hostState>>
    BY <1>2 DEF HostClose
  <2>. QED BY <1>1, <2>1 DEF IInv, InFlightOnOpenConnection, DrainOnTop, InUse
<1>3. CASE ~async
  <2>1. CloseNow(id)
    BY <1>3 DEF HostClose
  <2>. QED BY <1>1, <2>1, CloseNowIInv
<1>. QED BY <1>2, <1>3

LEMMA SendIInv ==
    ASSUME IInv, NEW w \in WireIds, Send(w)
    PROVE  IInv'
<1>1. /\ ResolvePendingDomains(isOpen, hostState, <<>>)
      /\ UNCHANGED isOpen
  BY DEF Send
<1>2. InUse' \subseteq InUse
  BY DEF Send, InUse, IInv, TypeOK
<1>3. /\ isOpen \in BOOLEAN /\ hostState \in [ConnIds -> HostStates]
      /\ <<>> \in Seq(Frame)
      /\ isOpen => connId \in ConnIds /\ hostState[connId] = "accepted"
      /\ timerArmed => connId \in ConnIds
      /\ InUse' # {} => isOpen
  BY <1>2 DEF IInv, TypeOK, InFlightOnOpenConnection
<1>4. \A i \in DOMAIN <<>> : <<>>[i].f # "drain"
  OBVIOUS
<1>5. InFlightOnOpenConnection' /\ DrainOnTop'
  BY <1>1, <1>3, <1>4, ResolvePendingDomainsInFlight DEF IInv
<1>. QED BY <1>5, SendTypeOK DEF IInv

LEMMA NextIInv == IInv /\ [Next]_vars => IInv'
<1>. SUFFICES ASSUME IInv, [Next]_vars PROVE IInv'
  OBVIOUS
<1>1. CASE \E q \in Kinds, types \in SUBSET RTypes \ {{}} : Resolve(q, types)
  BY <1>1, ResolveIInv
<1>2. CASE \E r \in Rids : Cancel(r)
  BY <1>2, CancelIInv
<1>3. CASE \E mask \in SUBSET Kinds \ {{}} : StopResolvingQueues(mask)
  BY <1>3, StopResolvingQueuesIInv
<1>4. CASE StopResolving
  BY <1>4, StopResolvingIInv
<1>5. CASE \E b \in BOOLEAN : SetIpv6Availability(b)
  BY <1>5, SetIpv6IInv
<1>6. CASE ResolveTaskRun
  BY <1>6, ResolveTaskRunIInv
<1>7. CASE AcceptTaskRun
  BY <1>7, AcceptTaskRunIInv
<1>8. CASE CloseTaskRun
  BY <1>8, CloseTaskRunIInv
<1>9. CASE TaskStep
  BY <1>9, DrainStepIInv, AcceptStepIInv, CloseStepIInv DEF TaskStep
<1>10. CASE ResolveTimeout
  BY <1>10, ResolveTimeoutIInv
<1>11. CASE \E id \in ConnIds, pass \in BOOLEAN : CompleteConnectRequest(id, pass)
  BY <1>11, CompleteConnectRequestIInv
<1>12. CASE \E id \in ConnIds, async \in BOOLEAN : HostClose(id, async)
  BY <1>12, HostCloseIInv
<1>13. CASE \E w \in WireIds : Send(w)
  BY <1>13, SendIInv
<1>14. CASE UNCHANGED vars
  BY <1>14 DEF IInv, TypeOK, InFlightOnOpenConnection, DrainOnTop, InUse, vars
<1>. QED BY <1>1, <1>2, <1>3, <1>4, <1>5, <1>6, <1>7, <1>8, <1>9, <1>10,
            <1>11, <1>12, <1>13, <1>14 DEF Next

\* Connection discipline: in every reachable state, DNS transactions are in
\* flight only while is_open is set, is_open implies the tracked connection
\* is one the host accepted (accept_pending_connection) and has not closed,
\* and an armed on_resolve_timeout always has a connection id to close.
THEOREM ConnectionDiscipline == Spec => []InFlightOnOpenConnection
<1>1. IInv => InFlightOnOpenConnection
  BY DEF IInv
<1>. QED BY <1>1, InitIInv, NextIInv, PTL DEF Spec

-----------------------------------------------------------------------------
(* Outstanding work is always under a timer.                                 *)
(*                                                                           *)
(* WorkIsTimed speaks only of the states between tasks. Its strengthening    *)
(* holds in every state: transactions are in flight only under the armed     *)
(* timeout, queued entries have the timeout or a pending resolve task, and a *)
(* running drain loop has the timeout armed (resolve_pending_domains arms it *)
(* before it pushes the drain, and only close_connection disarms it, which   *)
(* runs from a frame under no drain loop).                                   *)

Timed ==
    /\ InUse # {} => timerArmed
    /\ ~QueuesEmpty => timerArmed \/ resolveTask
    /\ stack # <<>> /\ Head(stack).f = "drain" => timerArmed

\* resolve_pending_domains() arms the timeout when anything is queued, and
\* either resumes the caller's frames or pushes a drain on top of them.
LEMMA ResolvePendingDomainsTimer ==
    ASSUME NEW open, NEW hs, NEW rest, ResolvePendingDomains(open, hs, rest)
    PROVE  /\ ~QueuesEmpty => timerArmed'
           /\ QueuesEmpty => timerArmed' = timerArmed /\ stack' = rest
           /\ stack' = rest \/ (timerArmed' /\ stack' = <<DrainFrame(BG)>> \o rest)
BY DEF ResolvePendingDomains

\* A call of resolve_pending_domains() that leaves the queues to the drain
\* keeps the work timed, when the frames it resumes hold no drain loop.
LEMMA ResolvePendingDomainsTimed ==
    ASSUME NEW open, NEW hs, NEW rest \in Seq(Frame),
           ResolvePendingDomains(open, hs, rest),
           queues' = queues, InUse' # {} => timerArmed,
           \A i \in DOMAIN rest : rest[i].f # "drain"
    PROVE  Timed'
<1>1. QueuesEmpty' = QueuesEmpty
  BY DEF QueuesEmpty
<1>2. timerArmed => timerArmed'
  BY ResolvePendingDomainsTimer
<1>3. (stack' # <<>> /\ Head(stack').f = "drain") => timerArmed'
  <2>1. CASE stack' = rest
    <3>1. rest # <<>> => Head(rest) = rest[1] /\ 1 \in DOMAIN rest
      OBVIOUS
    <3>. QED  BY <2>1, <3>1
  <2>. QED  BY <2>1, ResolvePendingDomainsTimer
<1>. QED  BY <1>1, <1>2, <1>3, ResolvePendingDomainsTimer DEF Timed

\* close_connection(id, _, false) leaves nothing queued or in flight.
LEMMA CloseNowTimed ==
    ASSUME NEW id, CloseNow(id),
           \A i \in DOMAIN stack' : stack'[i].f # "drain", stack' \in Seq(Frame)
    PROVE  Timed'
<1>1. InUse' = {} /\ QueuesEmpty'
  BY CloseNowClears DEF CloseNow, QueuesEmpty
<1>2. stack' # <<>> => Head(stack') = stack'[1] /\ 1 \in DOMAIN stack'
  OBVIOUS
<1>. QED  BY <1>1, <1>2 DEF Timed

\* A call that leaves the timer, the tasks and the stack alone and only
\* removes work keeps it timed.
LEMMA ShrinkTimed ==
    ASSUME TypeOK, Timed, UNCHANGED <<timerArmed, resolveTask, stack>>,
           InUse' \subseteq InUse, \A q \in Kinds : queues'[q] \subseteq queues[q]
    PROVE  Timed'
<1>1. QueuesEmpty => QueuesEmpty'
  BY DEF QueuesEmpty
<1>. QED  BY <1>1 DEF Timed

LEMMA InitTimed == Init => Timed
BY DEF Init, Timed, InUse, QueuesEmpty

LEMMA ResolveTimed ==
    ASSUME Timed, NEW q \in Kinds, NEW types, Resolve(q, types)
    PROVE  Timed'
BY DEF Resolve, Timed, InUse

LEMMA CancelTimed ==
    ASSUME TypeOK, Timed, NEW r \in Rids, Cancel(r)
    PROVE  Timed'
<1>1. UNCHANGED <<timerArmed, resolveTask, stack>>
  BY DEF Cancel
<1>2. InUse' \subseteq InUse
  BY DEF Cancel, InUse, TypeOK
<1>3. \A q \in Kinds : queues'[q] \subseteq queues[q]
  BY DEF Cancel, TypeOK
<1>. QED  BY <1>1, <1>2, <1>3, ShrinkTimed

LEMMA StopResolvingQueuesTimed ==
    ASSUME TypeOK, Timed, NEW mask \in SUBSET Kinds, StopResolvingQueues(mask)
    PROVE  Timed'
<1>1. UNCHANGED <<timerArmed, resolveTask, stack>>
  BY DEF StopResolvingQueues
<1>2. InUse' \subseteq InUse
  BY DEF StopResolvingQueues, InUse, TypeOK
<1>3. \A q \in Kinds : queues'[q] \subseteq queues[q]
  BY DEF StopResolvingQueues, TypeOK
<1>. QED  BY <1>1, <1>2, <1>3, ShrinkTimed

LEMMA StopResolvingTimed ==
    ASSUME StopResolving
    PROVE  Timed'
BY DEF StopResolving, Timed, InUse, QueuesEmpty

LEMMA ResolveTaskRunTimed ==
    ASSUME Timed, ResolveTaskRun
    PROVE  Timed'
<1>1. ResolvePendingDomains(isOpen, hostState, <<>>) /\ UNCHANGED <<queues, queries>>
  BY DEF ResolveTaskRun
<1>2. InUse' # {} => timerArmed
  BY <1>1 DEF Timed, InUse
<1>3. <<>> \in Seq(Frame) /\ \A i \in DOMAIN <<>> : <<>>[i].f # "drain"
  OBVIOUS
<1>. QED  BY <1>1, <1>2, <1>3, ResolvePendingDomainsTimed

\* The loop of resolve_queue() runs with the timeout armed and leaves it so.
LEMMA DrainStepTimed ==
    ASSUME Timed, DrainStep
    PROVE  Timed'
<1>1. timerArmed /\ timerArmed' = timerArmed
  BY DEF DrainStep, Timed
<1>. QED  BY <1>1 DEF Timed

LEMMA TaskRunTimed ==
    ASSUME Timed, AcceptTaskRun \/ CloseTaskRun
    PROVE  Timed'
<1>1. UNCHANGED <<queues, queries, timerArmed, resolveTask>>
  BY DEF AcceptTaskRun, CloseTaskRun
<1>2. Head(stack').f # "drain"
  BY DEF AcceptTaskRun, CloseTaskRun
<1>. QED  BY <1>1, <1>2 DEF Timed, InUse, QueuesEmpty

LEMMA AcceptStepTimed ==
    ASSUME IInv, Timed, AcceptStep
    PROVE  Timed'
<1>1. stack \in Seq(Frame) /\ stack # <<>> /\ Head(stack).f = "accept"
  BY DEF AcceptStep, IInv, TypeOK
<1>2. TypeOK'
  BY AcceptStepTypeOK DEF IInv
<1>3. CASE Head(stack).ids = <<>>
  <2>1. stack' = Tail(stack) /\ UNCHANGED <<queues, queries, timerArmed, resolveTask>>
    BY <1>3 DEF AcceptStep
  <2>2. \A i \in DOMAIN Tail(stack) : Tail(stack)[i].f # "drain"
    BY <1>1, TailNoDrain DEF IInv
  <2>3. Tail(stack) # <<>> => Head(Tail(stack)) = Tail(stack)[1] /\ 1 \in DOMAIN Tail(stack)
    BY <1>1
  <2>. QED  BY <2>1, <2>2, <2>3 DEF Timed, InUse, QueuesEmpty
<1>4. CASE Head(stack).ids # <<>>
  <2>. DEFINE id == Head(Head(stack).ids)
              rest == <<[Head(stack) EXCEPT !.ids = Tail(Head(stack).ids)]>> \o Tail(stack)
  <2>1. \A i \in DOMAIN rest : rest[i].f # "drain"
    BY <1>1, <1>4, PopIdNoDrain DEF IInv
  <2>2. rest \in Seq(Frame)
    BY <1>1, <1>4, PopIdType
  <2>3. CASE isOpen \/ connId # id
    <3>1. CloseNow(id) /\ stack' = rest
      BY <1>4, <2>3 DEF AcceptStep
    <3>. QED  BY <2>1, <2>2, <3>1, CloseNowTimed
  <2>4. CASE ~(isOpen \/ connId # id)
    <3>1. /\ ResolvePendingDomains(TRUE, [hostState EXCEPT ![id] = "accepted"], rest)
          /\ UNCHANGED <<queues, queries>>
      BY <1>4, <2>4 DEF AcceptStep
    <3>2. InUse' # {} => timerArmed
      BY <3>1 DEF Timed, InUse
    <3>. QED  BY <2>1, <2>2, <3>1, <3>2, ResolvePendingDomainsTimed
  <2>. QED  BY <2>3, <2>4
<1>. QED  BY <1>3, <1>4

LEMMA CloseStepTimed ==
    ASSUME IInv, Timed, CloseStep
    PROVE  Timed'
<1>1. stack \in Seq(Frame) /\ stack # <<>> /\ Head(stack).f = "close"
  BY DEF CloseStep, IInv, TypeOK
<1>2. TypeOK'
  BY CloseStepTypeOK DEF IInv
<1>3. CASE Head(stack).ids = <<>>
  <2>1. stack' = Tail(stack) /\ UNCHANGED <<queues, queries, timerArmed, resolveTask>>
    BY <1>3 DEF CloseStep
  <2>2. \A i \in DOMAIN Tail(stack) : Tail(stack)[i].f # "drain"
    BY <1>1, TailNoDrain DEF IInv
  <2>3. Tail(stack) # <<>> => Head(Tail(stack)) = Tail(stack)[1] /\ 1 \in DOMAIN Tail(stack)
    BY <1>1
  <2>. QED  BY <2>1, <2>2, <2>3 DEF Timed, InUse, QueuesEmpty
<1>4. CASE Head(stack).ids # <<>>
  <2>1. /\ CloseNow(Head(Head(stack).ids))
        /\ stack' = <<[Head(stack) EXCEPT !.ids = Tail(Head(stack).ids)]>> \o Tail(stack)
    BY <1>4 DEF CloseStep
  <2>2. \A i \in DOMAIN stack' : stack'[i].f # "drain"
    BY <1>1, <1>4, <2>1, PopIdNoDrain DEF IInv
  <2>3. stack' \in Seq(Frame)
    BY <1>2 DEF TypeOK
  <2>. QED  BY <2>1, <2>2, <2>3, CloseNowTimed
<1>. QED  BY <1>3, <1>4

LEMMA ResolveTimeoutTimed ==
    ASSUME ResolveTimeout
    PROVE  Timed'
<1>1. CloseNow(connId) /\ stack' = <<>>
  BY DEF ResolveTimeout
<1>2. <<>> \in Seq(Frame)
  OBVIOUS
<1>. QED  BY <1>1, <1>2, CloseNowTimed

LEMMA CompleteConnectRequestTimed ==
    ASSUME Timed, NEW id, NEW pass, CompleteConnectRequest(id, pass)
    PROVE  Timed'
BY DEF CompleteConnectRequest, Timed, InUse, QueuesEmpty

LEMMA HostCloseTimed ==
    ASSUME Timed, NEW id, NEW async \in BOOLEAN, HostClose(id, async)
    PROVE  Timed'
<1>1. stack' = <<>> /\ <<>> \in Seq(Frame)
  BY DEF HostClose
<1>2. CASE async
  BY <1>1, <1>2 DEF HostClose, Timed, InUse, QueuesEmpty
<1>3. CASE ~async
  <2>1. CloseNow(id)
    BY <1>3 DEF HostClose
  <2>. QED  BY <1>1, <2>1, CloseNowTimed
<1>. QED  BY <1>2, <1>3

LEMMA SendTimed ==
    ASSUME TypeOK, Timed, NEW w \in WireIds, Send(w)
    PROVE  Timed'
<1>1. ResolvePendingDomains(isOpen, hostState, <<>>) /\ UNCHANGED queues
  BY DEF Send
<1>2. InUse' \subseteq InUse
  BY DEF Send, InUse, TypeOK
<1>3. InUse' # {} => timerArmed
  BY <1>2 DEF Timed
<1>4. <<>> \in Seq(Frame) /\ \A i \in DOMAIN <<>> : <<>>[i].f # "drain"
  OBVIOUS
<1>. QED  BY <1>1, <1>3, <1>4, ResolvePendingDomainsTimed

LEMMA NextTimed == IInv /\ Timed /\ [Next]_vars => Timed'
<1>. SUFFICES ASSUME IInv, Timed, [Next]_vars PROVE Timed'
  OBVIOUS
<1>. TypeOK
  BY DEF IInv
<1>1. CASE \E q \in Kinds, types \in SUBSET RTypes \ {{}} : Resolve(q, types)
  BY <1>1, ResolveTimed
<1>2. CASE \E r \in Rids : Cancel(r)
  BY <1>2, CancelTimed
<1>3. CASE \E mask \in SUBSET Kinds \ {{}} : StopResolvingQueues(mask)
  BY <1>3, StopResolvingQueuesTimed
<1>4. CASE StopResolving
  BY <1>4, StopResolvingTimed
<1>5. CASE \E b \in BOOLEAN : SetIpv6Availability(b)
  BY <1>5 DEF SetIpv6Availability, Timed, InUse, QueuesEmpty
<1>6. CASE ResolveTaskRun
  BY <1>6, ResolveTaskRunTimed
<1>7. CASE AcceptTaskRun \/ CloseTaskRun
  BY <1>7, TaskRunTimed
<1>8. CASE TaskStep
  BY <1>8, DrainStepTimed, AcceptStepTimed, CloseStepTimed DEF TaskStep
<1>9. CASE ResolveTimeout
  BY <1>9, ResolveTimeoutTimed
<1>10. CASE \E id \in ConnIds, pass \in BOOLEAN : CompleteConnectRequest(id, pass)
  BY <1>10, CompleteConnectRequestTimed
<1>11. CASE \E id \in ConnIds, async \in BOOLEAN : HostClose(id, async)
  BY <1>11, HostCloseTimed
<1>12. CASE \E w \in WireIds : Send(w)
  BY <1>12, SendTimed
<1>13. CASE UNCHANGED vars
  BY <1>13 DEF Timed, InUse, QueuesEmpty, vars
<1>. QED  BY <1>1, <1>2, <1>3, <1>4, <1>5, <1>6, <1>7, <1>8, <1>9, <1>10,
             <1>11, <1>12, <1>13 DEF Next

\* Outstanding work is always under a timer: between tasks of the event
\* loop, an entry queued by resolve() has a pending resolve task or the armed
\* on_resolve_timeout, and a transaction sent by resolve_queue() has the
\* armed timeout, so no request is left waiting on nothing (spec 4.4).
THEOREM WorkTimed == Spec => []WorkIsTimed
<1>1. Timed => WorkIsTimed
  BY DEF Timed, WorkIsTimed
<1>2. IInv /\ Timed /\ [Next]_vars => IInv' /\ Timed'
  BY NextIInv, NextTimed
<1>3. Init => IInv /\ Timed
  BY InitIInv, InitTimed
<1>. QED  BY <1>1, <1>2, <1>3, PTL DEF Spec
====
