------------------------ MODULE DnsResolverAccounting ------------------------
(***************************************************************************)
(* Exactly-once results of VpnDnsResolver, proved for every value of the   *)
(* constants when the codec never reuses a DNS id in flight.               *)
(*                                                                         *)
(* ResultAccounting counts, for each resolve id and record type, the       *)
(* queues holding the entry and the wire transactions of it. The proof     *)
(* replaces the counts by the facts that make them 0 or 1: an entry sits   *)
(* in at most one queue, and no two transactions in flight belong to the   *)
(* same (id, type). With these, every handler moves a request from one     *)
(* place to the next (queued, on the wire, answered) without duplicating   *)
(* it or losing it.                                                        *)
(***************************************************************************)
EXTENDS DnsResolverProofs

Ind(b) == IF b THEN 1 ELSE 0

\* The entry of resolve r, for record type t, is in a queue.
Queued(r, t) == \E k \in Kinds : r \in queues[k] /\ t \in requested[r]

\* A transaction of resolve r for record type t is in flight.
Matches(w, r, t) == queries[w].id = r /\ queries[w].rt = t
Wired(r, t) == \E w \in InUse : Matches(w, r, t)

Expected(r, t) == IF r \in Issued /\ t \in requested[r] THEN 1 ELSE 0

\* Where (r, t) is, plus the results it has had.
Count(r, t) == Ind(Queued(r, t)) + Ind(Wired(r, t)) + delivered[<<r, t>>]

Balanced(r, t) ==
    IF r \in cancelled THEN Count(r, t) <= Expected(r, t)
    ELSE Count(r, t) = Expected(r, t)

\* No two transactions in flight answer the same (id, type).
UniqueWire ==
    \A v, x \in InUse : v # x => ~Matches(x, queries[v].id, queries[v].rt)

\* The inductive invariant.
Acc ==
    /\ cancelled \subseteq Issued
    /\ \A k \in Kinds : queues[k] \subseteq Issued
    /\ queues[BG] \cap queues[FG] = {}
    /\ UniqueWire
    /\ \A r \in Rids, t \in RTypes : Balanced(r, t)

-----------------------------------------------------------------------------
(* Counting *)

\* With unique transactions, the ones of (r, t) among any of them are one
\* or none.
LEMMA MatchCard ==
    ASSUME TypeOK, UniqueWire, NEW S \in SUBSET InUse, NEW r, NEW t
    PROVE  Cardinality({w \in S : Matches(w, r, t)})
             = Ind(\E w \in S : Matches(w, r, t))
<1>1. CASE \E w \in S : Matches(w, r, t)
  <2>1. PICK w0 \in S : Matches(w0, r, t)
    BY <1>1
  <2>2. {w \in S : Matches(w, r, t)} = {w0}
    BY <2>1 DEF UniqueWire, Matches
  <2>. QED  BY <1>1, <2>2, FS_Singleton DEF Ind
<1>2. CASE ~\E w \in S : Matches(w, r, t)
  <2>1. {w \in S : Matches(w, r, t)} = {}
    BY <1>2
  <2>. QED  BY <1>2, <2>1, FS_EmptySet DEF Ind
<1>. QED  BY <1>1, <1>2

\* An entry in at most one queue is counted once.
LEMMA KindCard ==
    ASSUME queues[BG] \cap queues[FG] = {}, NEW r, NEW t
    PROVE  Cardinality({k \in Kinds : r \in queues[k] /\ t \in requested[r]})
             = Ind(Queued(r, t))
<1> DEFINE K == {k \in Kinds : r \in queues[k] /\ t \in requested[r]}
<1>1. BG # FG
  BY DEF BG, FG
<1>2. CASE r \in queues[BG] /\ t \in requested[r]
  <2>1. K = {BG}
    BY <1>1, <1>2 DEF Kinds
  <2>. QED  BY <1>2, <2>1, FS_Singleton DEF Ind, Queued, Kinds
<1>3. CASE r \in queues[FG] /\ t \in requested[r]
  <2>1. K = {FG}
    BY <1>1, <1>3 DEF Kinds
  <2>. QED  BY <1>3, <2>1, FS_Singleton DEF Ind, Queued, Kinds
<1>4. CASE ~(r \in queues[BG] /\ t \in requested[r])
           /\ ~(r \in queues[FG] /\ t \in requested[r])
  <2>1. K = {}
    BY <1>4 DEF Kinds
  <2>. QED  BY <1>4, <2>1, FS_EmptySet DEF Ind, Queued, Kinds
<1>. QED  BY <1>2, <1>3, <1>4

\* The invariant gives ResultAccounting.
LEMMA AccResult ==
    ASSUME TypeOK, Acc
    PROVE  ResultAccounting
<1> SUFFICES ASSUME NEW r \in Rids, NEW t \in RTypes
             PROVE  LET n == Outstanding(r, t) + delivered[<<r, t>>]
                        expected == IF r \in Issued /\ t \in requested[r] THEN 1 ELSE 0
                    IN IF r \in cancelled THEN n <= expected ELSE n = expected
  BY DEF ResultAccounting
<1>0. Cardinality({w \in InUse : Matches(w, r, t)}) = Ind(Wired(r, t))
  BY MatchCard DEF Acc, Wired
<1>1. Cardinality({w \in InUse : queries[w].id = r /\ queries[w].rt = t})
        = Ind(Wired(r, t))
  BY <1>0 DEF Matches
<1>2. Cardinality({q \in Kinds : r \in queues[q] /\ t \in requested[r]})
        = Ind(Queued(r, t))
  BY KindCard DEF Acc
<1>3. Outstanding(r, t) + delivered[<<r, t>>] = Count(r, t)
  BY <1>1, <1>2 DEF Outstanding, Count
<1>. QED  BY <1>3 DEF Acc, Balanced, Expected

LEMMA InitAcc == Init => Acc
<1> SUFFICES ASSUME Init PROVE Acc
  OBVIOUS
<1>1. InUse = {}
  BY DEF Init, InUse
<1>2. \A r \in Rids, t \in RTypes : ~Queued(r, t) /\ ~Wired(r, t)
        /\ delivered[<<r, t>>] = 0 /\ requested[r] = {}
  BY <1>1 DEF Init, Queued, Wired
<1>3. cancelled = {} /\ \A k \in Kinds : queues[k] = {}
  BY DEF Init
<1>4. ASSUME NEW r \in Rids, NEW t \in RTypes PROVE Balanced(r, t)
  <2>1. Count(r, t) = 0 /\ Expected(r, t) = 0
    BY <1>2 DEF Count, Ind, Expected
  <2>. QED  BY <1>3, <2>1 DEF Balanced
<1>. QED  BY <1>1, <1>3, <1>4 DEF Acc, UniqueWire, Kinds

-----------------------------------------------------------------------------
(* Steps *)

\* A step that only moves requests between their places, and keeps the
\* queues and the transactions apart, keeps the accounting.
LEMMA CountStep ==
    ASSUME Acc, UNCHANGED <<nextId, requested, cancelled>>,
           \A k \in Kinds : queues'[k] \subseteq queues[k],
           UniqueWire',
           \A r \in Rids, t \in RTypes : Count(r, t)' = Count(r, t)
    PROVE  Acc'
<1>1. queues'[BG] \cap queues'[FG] = {}
  BY DEF Acc, Kinds
<1>2. \A r \in Rids, t \in RTypes : Balanced(r, t)'
  BY DEF Acc, Balanced, Expected, Issued
<1>. QED  BY <1>1, <1>2 DEF Acc, Issued

\* A step that leaves the resolves, the queues, the transactions and the
\* results alone keeps the accounting.
LEMMA FrameAcc ==
    ASSUME Acc, UNCHANGED <<nextId, requested, queues, queries, delivered, cancelled>>
    PROVE  Acc'
<1>1. InUse' = InUse
  BY DEF InUse
<1>2. UniqueWire'
  BY <1>1 DEF Acc, UniqueWire, Matches
<1>3. \A r \in Rids, t \in RTypes : Queued(r, t)' = Queued(r, t) /\ Wired(r, t)' = Wired(r, t)
  BY <1>1 DEF Queued, Wired, Matches
<1>4. \A r \in Rids, t \in RTypes : Count(r, t)' = Count(r, t)
  BY <1>3 DEF Count
<1>5. UNCHANGED <<nextId, requested, cancelled>> /\ \A k \in Kinds : queues'[k] \subseteq queues[k]
  OBVIOUS
<1>. QED  BY <1>2, <1>4, <1>5, CountStep

\* What failing transactions ws and queued ids rs adds to each result count.
LEMMA FailedCount ==
    ASSUME TypeOK, UniqueWire
    PROVE  \A ws \in SUBSET InUse, rs \in SUBSET Rids, r \in Rids, t \in RTypes :
             Failed(ws, rs)[<<r, t>>]
               = delivered[<<r, t>>] + Ind(\E w \in ws : Matches(w, r, t))
                 + Ind(r \in rs /\ t \in requested[r])
<1> SUFFICES ASSUME NEW ws \in SUBSET InUse, NEW rs \in SUBSET Rids,
                    NEW r \in Rids, NEW t \in RTypes
             PROVE  Failed(ws, rs)[<<r, t>>]
                      = delivered[<<r, t>>] + Ind(\E w \in ws : Matches(w, r, t))
                        + Ind(r \in rs /\ t \in requested[r])
  OBVIOUS
<1>1. Cardinality({w \in ws : Matches(w, r, t)}) = Ind(\E w \in ws : Matches(w, r, t))
  BY MatchCard
<1>2. Cardinality({w \in ws : queries[w].id = r /\ queries[w].rt = t})
        = Ind(\E w \in ws : Matches(w, r, t))
  BY <1>1 DEF Matches
<1>. QED  BY <1>2 DEF Failed, Ind

\* close_connection(id, _, false) fails every transaction and every queued
\* entry once, and leaves nothing in a queue or on the wire.
LEMMA CloseNowAcc ==
    ASSUME TypeOK, Acc, NEW id, CloseNow(id), UNCHANGED <<nextId, requested, cancelled>>
    PROVE  Acc'
<1>1. InUse' = {} /\ \A k \in Kinds : queues'[k] = {}
  BY CloseNowClears DEF CloseNow
<1>2. UniqueWire'
  BY <1>1 DEF UniqueWire
<1>3. ASSUME NEW r \in Rids, NEW t \in RTypes PROVE Count(r, t)' = Count(r, t)
  <2>1. ~Queued(r, t)' /\ ~Wired(r, t)'
    BY <1>1 DEF Queued, Wired
  <2>2. delivered'[<<r, t>>] = Failed(InUse, queues[BG] \cup queues[FG])[<<r, t>>]
    BY DEF CloseNow
  <2>3. Failed(InUse, queues[BG] \cup queues[FG])[<<r, t>>]
          = delivered[<<r, t>>] + Ind(Wired(r, t)) + Ind(Queued(r, t))
    <3>1. (r \in queues[BG] \cup queues[FG] /\ t \in requested[r]) <=> Queued(r, t)
      BY DEF Queued, Kinds
    <3>2. Failed(InUse, queues[BG] \cup queues[FG])[<<r, t>>]
            = delivered[<<r, t>>] + Ind(\E w \in InUse : Matches(w, r, t))
              + Ind(r \in queues[BG] \cup queues[FG] /\ t \in requested[r])
      <4>1. UniqueWire /\ InUse \in SUBSET InUse
            /\ queues[BG] \cup queues[FG] \in SUBSET Rids
        BY DEF Acc, TypeOK, Kinds
      <4>. QED  BY <4>1, FailedCount
    <3>3. Ind(r \in queues[BG] \cup queues[FG] /\ t \in requested[r]) = Ind(Queued(r, t))
      BY <3>1 DEF Ind
    <3>. QED  BY <3>2, <3>3 DEF Wired
  <2>4. delivered[<<r, t>>] \in Nat
    BY DEF TypeOK
  <2>. QED  BY <2>1, <2>2, <2>3, <2>4 DEF Count, Ind
<1>. QED  BY <1>1, <1>2, <1>3, CountStep

\* stop_resolving() fails everything and clears the queues.
LEMMA StopResolvingAcc ==
    ASSUME TypeOK, Acc, StopResolving
    PROVE  Acc'
<1>1. InUse' = {} /\ \A k \in Kinds : queues'[k] = {}
  BY DEF StopResolving, InUse
<1>2. UniqueWire'
  BY <1>1 DEF UniqueWire
<1>3. ASSUME NEW r \in Rids, NEW t \in RTypes PROVE Count(r, t)' = Count(r, t)
  <2>1. ~Queued(r, t)' /\ ~Wired(r, t)'
    BY <1>1 DEF Queued, Wired
  <2>2. delivered'[<<r, t>>] = Failed(InUse, queues[BG] \cup queues[FG])[<<r, t>>]
    BY DEF StopResolving
  <2>3. Failed(InUse, queues[BG] \cup queues[FG])[<<r, t>>]
          = delivered[<<r, t>>] + Ind(Wired(r, t)) + Ind(Queued(r, t))
    <3>1. (r \in queues[BG] \cup queues[FG] /\ t \in requested[r]) <=> Queued(r, t)
      BY DEF Queued, Kinds
    <3>2. Failed(InUse, queues[BG] \cup queues[FG])[<<r, t>>]
            = delivered[<<r, t>>] + Ind(\E w \in InUse : Matches(w, r, t))
              + Ind(r \in queues[BG] \cup queues[FG] /\ t \in requested[r])
      <4>1. UniqueWire /\ InUse \in SUBSET InUse
            /\ queues[BG] \cup queues[FG] \in SUBSET Rids
        BY DEF Acc, TypeOK, Kinds
      <4>. QED  BY <4>1, FailedCount
    <3>3. Ind(r \in queues[BG] \cup queues[FG] /\ t \in requested[r]) = Ind(Queued(r, t))
      BY <3>1 DEF Ind
    <3>. QED  BY <3>2, <3>3 DEF Wired
  <2>4. delivered[<<r, t>>] \in Nat
    BY DEF TypeOK
  <2>. QED  BY <2>1, <2>2, <2>3, <2>4 DEF Count, Ind
<1>4. UNCHANGED <<nextId, requested, cancelled>>
  BY DEF StopResolving
<1>. QED  BY <1>1, <1>2, <1>3, <1>4, CountStep

\* Every request is in one place at most: queued, on the wire, or answered.
LEMMA OnePlace ==
    ASSUME TypeOK, Acc, NEW r \in Rids, NEW t \in RTypes
    PROVE  /\ Queued(r, t) => ~Wired(r, t) /\ delivered[<<r, t>>] = 0
           /\ Wired(r, t) => delivered[<<r, t>>] = 0
<1>0. Balanced(r, t)
  BY DEF Acc
<1>2. delivered[<<r, t>>] \in Nat
  BY DEF TypeOK
<1>3. Count(r, t) \in Nat
  BY <1>2 DEF Count, Ind
<1>1. Count(r, t) <= 1
  BY <1>0, <1>3 DEF Balanced, Expected
<1>. QED  BY <1>1, <1>2 DEF Count, Ind

\* stop_resolving_queues(mask) fails what it takes out of the queues and
\* off the wire, once each.
LEMMA StopResolvingQueuesAcc ==
    ASSUME TypeOK, Acc, NEW mask \in SUBSET Kinds, StopResolvingQueues(mask)
    PROVE  Acc'
<1> DEFINE ws == {w \in InUse : queries[w].kind \in mask}
           rs == UNION {queues[k] : k \in mask}
<1>1. /\ queries' = [w \in WireIds |-> IF w \in ws THEN NoQuery ELSE queries[w]]
      /\ delivered' = Failed(ws, rs)
      /\ queues' = [k \in Kinds |-> IF k \in mask THEN {} ELSE queues[k]]
      /\ UNCHANGED <<nextId, requested, cancelled>>
  BY DEF StopResolvingQueues
<1>2. InUse' = InUse \ ws /\ \A w \in InUse' : queries'[w] = queries[w]
  BY <1>1 DEF InUse
<1>3. UniqueWire'
  BY <1>2 DEF Acc, UniqueWire, Matches
<1>4. \A k \in Kinds : queues'[k] \subseteq queues[k]
  BY <1>1
<1>5. ASSUME NEW r \in Rids, NEW t \in RTypes PROVE Count(r, t)' = Count(r, t)
  <2>1. Wired(r, t)' <=> \E w \in InUse \ ws : Matches(w, r, t)
    BY <1>2 DEF Wired, Matches
  <2>2. ~((\E w \in ws : Matches(w, r, t)) /\ (\E w \in InUse \ ws : Matches(w, r, t)))
    BY DEF Acc, UniqueWire, Matches
  <2>3. Wired(r, t) <=> (\E w \in ws : Matches(w, r, t)) \/ (\E w \in InUse \ ws : Matches(w, r, t))
    BY DEF Wired
  <2>4. Queued(r, t)' <=> \E k \in Kinds \ mask : r \in queues[k] /\ t \in requested[r]
    BY <1>1 DEF Queued
  <2>5. ~((r \in rs /\ t \in requested[r])
          /\ \E k \in Kinds \ mask : r \in queues[k] /\ t \in requested[r])
    BY DEF Acc, Kinds
  <2>6. Queued(r, t) <=> (r \in rs /\ t \in requested[r])
                         \/ \E k \in Kinds \ mask : r \in queues[k] /\ t \in requested[r]
    BY DEF Queued
  <2>7. delivered'[<<r, t>>] = delivered[<<r, t>>] + Ind(\E w \in ws : Matches(w, r, t))
                                + Ind(r \in rs /\ t \in requested[r])
    <3>1. UniqueWire /\ ws \in SUBSET InUse /\ rs \in SUBSET Rids
      BY DEF Acc, TypeOK, Kinds
    <3>. QED  BY <1>1, <3>1, FailedCount
  <2>8. delivered[<<r, t>>] \in Nat
    BY DEF TypeOK
  <2>. QED  BY <2>1, <2>2, <2>3, <2>4, <2>5, <2>6, <2>7, <2>8 DEF Count, Ind
<1>. QED  BY <1>1, <1>3, <1>4, <1>5, CountStep

\* send() on a tracked DNS id raises the one result of its transaction and
\* drops the transaction.
LEMMA SendAcc ==
    ASSUME TypeOK, Acc, NEW w \in WireIds, Send(w)
    PROVE  Acc'
<1>1. UNCHANGED <<nextId, requested, queues, cancelled>>
  BY ZenonT(30) DEF Send
<1>2. CASE queries[w] = NoQuery
  <2>1. UNCHANGED <<delivered, queries>>
    BY <1>2 DEF Send
  <2>. QED  BY <1>1, <2>1, FrameAcc
<1>3. CASE queries[w] # NoQuery
  <2> DEFINE p == <<queries[w].id, queries[w].rt>>
  <2>1. /\ delivered' = [delivered EXCEPT ![p] = @ + 1]
        /\ queries' = [queries EXCEPT ![w] = NoQuery]
    BY <1>3 DEF Send
  <2>2. w \in InUse /\ queries[w].id \in Rids /\ queries[w].rt \in RTypes
    BY <1>3 DEF InUse, TypeOK, Query, NoQuery
  <2>3. InUse' = InUse \ {w} /\ \A x \in InUse' : queries'[x] = queries[x]
    BY <2>1 DEF InUse, TypeOK
  <2>4. UniqueWire'
    BY <2>3 DEF Acc, UniqueWire, Matches
  <2>5. ASSUME NEW r \in Rids, NEW t \in RTypes PROVE Count(r, t)' = Count(r, t)
    <3>1. Queued(r, t)' = Queued(r, t)
      BY <1>1 DEF Queued
    <3>2. CASE <<r, t>> = p
      <4>1. Wired(r, t) /\ ~Wired(r, t)'
        BY <2>2, <2>3, <3>2 DEF Acc, UniqueWire, Wired, Matches
      <4>2. delivered'[<<r, t>>] = delivered[<<r, t>>] + 1
        BY <2>1, <2>2, <3>2 DEF TypeOK
      <4>3. delivered[<<r, t>>] \in Nat
        BY DEF TypeOK
      <4>. QED  BY <3>1, <4>1, <4>2, <4>3 DEF Count, Ind
    <3>3. CASE <<r, t>> # p
      <4>1. Wired(r, t)' = Wired(r, t)
        BY <2>3, <3>3 DEF Wired, Matches
      <4>2. delivered'[<<r, t>>] = delivered[<<r, t>>]
        BY <2>1, <3>3 DEF TypeOK
      <4>. QED  BY <3>1, <4>1, <4>2 DEF Count
    <3>. QED  BY <3>2, <3>3
  <2>. QED  BY <1>1, <2>4, <2>5, CountStep
<1>. QED  BY <1>2, <1>3

\* A step that marks r cancelled and drops some of r's requests without a
\* result, touching nothing else, keeps the accounting.
LEMMA DropStep ==
    ASSUME TypeOK, Acc, NEW r \in Issued,
           cancelled' = cancelled \cup {r},
           UNCHANGED <<nextId, requested, delivered>>,
           \A k \in Kinds : queues'[k] \subseteq queues[k] /\ queues[k] \ {r} \subseteq queues'[k],
           InUse' \subseteq InUse,
           \A x \in InUse' : queries'[x] = queries[x],
           \A x \in InUse \ InUse' : queries[x].id = r
    PROVE  Acc'
<1>1. UniqueWire'
  BY DEF Acc, UniqueWire, Matches
<1>2. queues'[BG] \cap queues'[FG] = {} /\ \A k \in Kinds : queues'[k] \subseteq Issued'
  BY DEF Acc, Kinds, Issued
<1>3. ASSUME NEW r0 \in Rids, NEW t \in RTypes PROVE Balanced(r0, t)'
  <2>1. (Queued(r0, t)' => Queued(r0, t)) /\ (Wired(r0, t)' => Wired(r0, t))
    BY DEF Queued, Wired, Matches
  <2>2. /\ delivered[<<r0, t>>] \in Nat /\ Expected(r0, t) \in Nat
        /\ Expected(r0, t)' = Expected(r0, t)
    BY DEF TypeOK, Expected, Issued
  <2>3. Count(r0, t)' <= Count(r0, t) /\ Count(r0, t) \in Nat /\ Count(r0, t)' \in Nat
    BY <2>1, <2>2 DEF Count, Ind
  <2>4. Balanced(r0, t)
    BY DEF Acc
  <2>5. CASE r0 \in cancelled'
    <3>1. Count(r0, t) <= Expected(r0, t)
      BY <2>2, <2>3, <2>4 DEF Balanced
    <3>2. Count(r0, t)' <= Expected(r0, t)'
      BY <2>2, <2>3, <3>1
    <3>. QED  BY <2>5, <3>2 DEF Balanced
  <2>6. CASE r0 \notin cancelled'
    <3>1. r0 # r /\ r0 \notin cancelled
      BY <2>6
    <3>2. Queued(r0, t)' = Queued(r0, t)
      BY <3>1 DEF Queued
    <3>3. Wired(r0, t)' = Wired(r0, t)
      BY <3>1 DEF Wired, Matches
    <3>. QED  BY <2>2, <2>4, <2>6, <3>1, <3>2, <3>3 DEF Balanced, Count
  <2>. QED  BY <2>5, <2>6
<1>4. cancelled' \subseteq Issued'
  BY DEF Acc, Issued
<1>. QED  BY <1>1, <1>2, <1>3, <1>4 DEF Acc

\* cancel(id) erases the entry from its queue, or one transaction of it,
\* and raises no result.
LEMMA CancelAcc ==
    ASSUME TypeOK, Acc, NEW r \in Rids, Cancel(r)
    PROVE  Acc'
<1>1. /\ r \in Issued /\ cancelled' = cancelled \cup {r}
      /\ UNCHANGED <<nextId, requested, delivered>>
  BY DEF Cancel
<1>2. CASE \E k \in Kinds : r \in queues[k]
  <2>1. queues' = [k \in Kinds |-> queues[k] \ {r}] /\ UNCHANGED queries
    BY <1>2 DEF Cancel
  <2>2. InUse' = InUse
    BY <2>1 DEF InUse
  <2>. QED  BY <1>1, <2>1, <2>2, DropStep
<1>3. CASE ~(\E k \in Kinds : r \in queues[k]) /\ \E w \in InUse : queries[w].id = r
  <2>1. PICK w \in InUse : queries[w].id = r
                           /\ queries' = [queries EXCEPT ![w] = NoQuery]
                           /\ UNCHANGED queues
    BY <1>3 DEF Cancel
  <2>2. InUse' = InUse \ {w} /\ \A x \in InUse' : queries'[x] = queries[x]
    BY <2>1 DEF InUse, TypeOK
  <2>. QED  BY <1>1, <2>1, <2>2, DropStep
<1>4. CASE ~(\E k \in Kinds : r \in queues[k]) /\ ~\E w \in InUse : queries[w].id = r
  <2>1. UNCHANGED <<queues, queries>>
    BY <1>4 DEF Cancel
  <2>2. InUse' = InUse
    BY <2>1 DEF InUse
  <2>. QED  BY <1>1, <2>1, <2>2, DropStep
<1>. QED  BY <1>2, <1>3, <1>4

\* resolve() queues a new entry for each requested record type.
LEMMA ResolveAcc ==
    ASSUME TypeOK, Acc, NEW q \in Kinds, NEW types \in SUBSET RTypes, Resolve(q, types)
    PROVE  Acc'
<1> DEFINE n == nextId
<1>1. /\ n \in Rids /\ n \notin Issued /\ Issued' = Issued \cup {n}
      /\ requested' = [requested EXCEPT ![n] = types]
      /\ queues' = [queues EXCEPT ![q] = @ \cup {n}]
      /\ UNCHANGED <<queries, delivered, cancelled>>
  BY DEF Resolve, TypeOK, Issued, Rids
<1>2. \A k \in Kinds : n \notin queues[k]
  BY <1>1 DEF Acc
<1>3. n \notin cancelled
  BY <1>1 DEF Acc
<1>4. InUse' = InUse
  BY <1>1 DEF InUse
<1>5. \A t \in RTypes : ~Wired(n, t) /\ delivered[<<n, t>>] = 0
  <2> SUFFICES ASSUME NEW t \in RTypes PROVE ~Wired(n, t) /\ delivered[<<n, t>>] = 0
    OBVIOUS
  <2>1. Balanced(n, t) /\ Expected(n, t) = 0
    BY <1>1 DEF Acc, Expected
  <2>2. delivered[<<n, t>>] \in Nat
    BY <1>1 DEF TypeOK
  <2>. QED  BY <1>3, <2>1, <2>2 DEF Balanced, Count, Ind
<1>6. \A k \in Kinds : queues'[k] = IF k = q THEN queues[k] \cup {n} ELSE queues[k]
  BY <1>1 DEF TypeOK
<1>10. queues'[BG] \cap queues'[FG] = {} /\ \A k \in Kinds : queues'[k] \subseteq Issued'
  <2>1. queues[BG] \cap queues[FG] = {} /\ \A k \in Kinds : queues[k] \subseteq Issued
    BY DEF Acc
  <2>2. BG # FG /\ q \in {BG, FG} /\ n \notin queues[BG] /\ n \notin queues[FG]
    BY <1>2 DEF Kinds, BG, FG
  <2>3. n \in Issued'
    BY <1>1
  <2>4. CASE q = BG
    BY <1>1, <1>6, <2>1, <2>2, <2>4 DEF Kinds
  <2>5. CASE q = FG
    BY <1>1, <1>6, <2>1, <2>2, <2>5 DEF Kinds
  <2>. QED  BY <2>2, <2>4, <2>5
<1>7. UniqueWire'
  BY <1>1, <1>4 DEF Acc, UniqueWire, Matches
<1>8. ASSUME NEW r0 \in Rids, NEW t \in RTypes PROVE Balanced(r0, t)'
  <2>1. Wired(r0, t)' = Wired(r0, t)
    BY <1>1, <1>4 DEF Wired, Matches
  <2>2. CASE r0 = n
    <3>1. Queued(r0, t)' <=> t \in types
      BY <1>1, <1>2, <1>6, <2>2 DEF Queued, TypeOK
    <3>2. Expected(r0, t)' = Ind(t \in types)
      BY <1>1, <2>2 DEF Expected, Ind, TypeOK
    <3>3. ~Wired(r0, t)' /\ delivered'[<<r0, t>>] = 0
      BY <1>1, <1>5, <2>1, <2>2
    <3>4. Count(r0, t)' = Ind(t \in types)
      BY <3>1, <3>3 DEF Count, Ind
    <3>. QED  BY <1>1, <1>3, <2>2, <3>2, <3>4 DEF Balanced
  <2>3. CASE r0 # n
    <3>1. Queued(r0, t)' = Queued(r0, t)
      BY <1>1, <1>6, <2>3 DEF Queued, TypeOK
    <3>2. Expected(r0, t)' = Expected(r0, t)
      BY <1>1, <2>3 DEF Expected, TypeOK
    <3>3. Count(r0, t)' = Count(r0, t)
      BY <1>1, <2>1, <3>1 DEF Count
    <3>. QED  BY <1>1, <3>2, <3>3 DEF Acc, Balanced
  <2>. QED  BY <2>2, <2>3
<1>9. cancelled' \subseteq Issued'
  BY <1>1 DEF Acc
<1>. QED  BY <1>7, <1>8, <1>9, <1>10 DEF Acc

\* One iteration of resolve_queue(q) on entry e: each requested type is
\* either put on the wire under a fresh DNS id or failed at once, so it
\* leaves the queue for exactly one other place.
LEMMA SendQueriesAcc ==
    ASSUME TypeOK, Acc, FreshWireIds, NEW e \in Rids, NEW q \in Kinds,
           e \in queues[q],
           queues' = [queues EXCEPT ![q] = @ \ {e}],
           SendQueries(e, q),
           UNCHANGED <<nextId, requested, cancelled>>
    PROVE  Acc'
<1>1. PICK sent \in SUBSET Attempted(e) : \E w \in [sent -> WireIds] :
           /\ FreshWireIds =>
                 /\ \A t \in sent : w[t] \notin InUse
                 /\ \A s, t \in sent : s # t => w[s] # w[t]
           /\ queries' = [x \in WireIds |->
                 IF queries[x] = NoQuery /\ \E t \in sent : w[t] = x
                 THEN [id |-> e, rt |-> Emplaced(sent, w, x), kind |-> q]
                 ELSE queries[x]]
           /\ delivered' = [p \in Rids \X RTypes |->
                 IF p[1] = e /\ p[2] \in requested[e] \ sent
                 THEN delivered[p] + 1 ELSE delivered[p]]
  BY DEF SendQueries
<1>2. PICK wid \in [sent -> WireIds] :
           /\ \A t \in sent : wid[t] \notin InUse
           /\ \A s, t \in sent : s # t => wid[s] # wid[t]
           /\ queries' = [x \in WireIds |->
                 IF queries[x] = NoQuery /\ \E t \in sent : wid[t] = x
                 THEN [id |-> e, rt |-> Emplaced(sent, wid, x), kind |-> q]
                 ELSE queries[x]]
           /\ delivered' = [p \in Rids \X RTypes |->
                 IF p[1] = e /\ p[2] \in requested[e] \ sent
                 THEN delivered[p] + 1 ELSE delivered[p]]
  BY <1>1
<1>3. sent \subseteq requested[e] /\ sent \subseteq RTypes
  BY DEF Attempted, TypeOK
<1>4. \A t \in sent : Emplaced(sent, wid, wid[t]) = t
  BY <1>2, <1>3 DEF Emplaced, RTypes
<1>5. \A t \in sent : wid[t] \in InUse' /\ queries'[wid[t]] = [id |-> e, rt |-> t, kind |-> q]
  BY <1>2, <1>4 DEF InUse, NoQuery, Rids
<1>13. \A t \in sent : queries'[wid[t]].id = e /\ queries'[wid[t]].rt = t
  <2> SUFFICES ASSUME NEW t \in sent
               PROVE  queries'[wid[t]].id = e /\ queries'[wid[t]].rt = t
    OBVIOUS
  <2>1. queries'[wid[t]] = [id |-> e, rt |-> t, kind |-> q]
    BY <1>5
  <2>. QED  BY <2>1
<1>6. \A x \in InUse : x \in InUse' /\ queries'[x] = queries[x]
  BY <1>2 DEF InUse
<1>7. \A x \in InUse' : x \in InUse \/ \E t \in sent : x = wid[t]
  BY <1>2 DEF InUse
<1>8. \A t \in sent : ~Wired(e, t)
  <2> SUFFICES ASSUME NEW t \in sent PROVE ~Wired(e, t)
    OBVIOUS
  <2>1. Queued(e, t)
    BY <1>3 DEF Queued
  <2>. QED  BY <1>3, <2>1, OnePlace
<1>9. \A k \in Kinds : queues'[k] = IF k = q THEN queues[k] \ {e} ELSE queues[k]
  BY DEF TypeOK
<1>10. UniqueWire'
  <2> SUFFICES ASSUME NEW v \in InUse', NEW x \in InUse', v # x,
                      Matches(x, queries[v].id, queries[v].rt)'
               PROVE  FALSE
    BY DEF UniqueWire
  <2>1. CASE v \in InUse /\ x \in InUse
    BY <1>6, <2>1 DEF Acc, UniqueWire, Matches
  <2>2. CASE v \in InUse /\ x \notin InUse
    <3>1. PICK t \in sent : x = wid[t]
      BY <1>7, <2>2
    <3>2. Matches(v, e, t)
      BY <1>13, <1>6, <2>2, <3>1 DEF Matches
    <3>. QED  BY <1>8, <2>2, <3>2 DEF Wired
  <2>3. CASE v \notin InUse /\ x \in InUse
    <3>1. PICK t \in sent : v = wid[t]
      BY <1>7, <2>3
    <3>2. Matches(x, e, t)
      BY <1>13, <1>6, <2>3, <3>1 DEF Matches
    <3>. QED  BY <1>8, <2>3, <3>2 DEF Wired
  <2>4. CASE v \notin InUse /\ x \notin InUse
    <3>1. PICK s \in sent : v = wid[s]
      BY <1>7, <2>4
    <3>2. PICK t \in sent : x = wid[t]
      BY <1>7, <2>4
    <3>3. s # t
      BY <3>1, <3>2
    <3>. QED  BY <1>13, <3>1, <3>2, <3>3 DEF Matches
  <2>. QED  BY <2>1, <2>2, <2>3, <2>4
<1>11. ASSUME NEW r \in Rids, NEW t \in RTypes PROVE Count(r, t)' = Count(r, t)
  <2>1. Wired(r, t)' <=> Wired(r, t) \/ (r = e /\ t \in sent)
    <3>1. ASSUME Wired(r, t)' PROVE Wired(r, t) \/ (r = e /\ t \in sent)
      <4>1. PICK x \in InUse' : Matches(x, r, t)'
        BY <3>1 DEF Wired
      <4>2. CASE x \in InUse
        BY <1>6, <4>1, <4>2 DEF Wired, Matches
      <4>3. CASE x \notin InUse
        <5>1. PICK s \in sent : x = wid[s]
          BY <1>7, <4>3
        <5>. QED  BY <1>13, <4>1, <5>1 DEF Matches
      <4>. QED  BY <4>2, <4>3
    <3>2. ASSUME Wired(r, t) PROVE Wired(r, t)'
      BY <1>6, <3>2 DEF Wired, Matches
    <3>3. ASSUME r = e, t \in sent PROVE Wired(r, t)'
      BY <1>5, <1>13, <3>3 DEF Wired, Matches
    <3>. QED  BY <3>1, <3>2, <3>3
  <2>2. Queued(r, t)' <=> Queued(r, t) /\ r # e
    BY <1>9 DEF Queued, Acc, Kinds
  <2>3. delivered'[<<r, t>>] = IF r = e /\ t \in requested[e] \ sent
                               THEN delivered[<<r, t>>] + 1 ELSE delivered[<<r, t>>]
    BY <1>2
  <2>4. delivered[<<r, t>>] \in Nat
    BY DEF TypeOK
  <2>5. CASE r # e
    BY <2>1, <2>2, <2>3, <2>4, <2>5 DEF Count, Ind
  <2>6. CASE r = e /\ t \in requested[e]
    <3>1. Queued(r, t)
      BY <2>6 DEF Queued
    <3>2. ~Wired(r, t) /\ delivered[<<r, t>>] = 0
      BY <3>1, OnePlace
    <3>. QED  BY <2>1, <2>2, <2>3, <2>6, <3>1, <3>2 DEF Count, Ind
  <2>7. CASE r = e /\ t \notin requested[e]
    <3>1. ~Queued(r, t) /\ t \notin sent
      BY <1>3, <2>7 DEF Queued
    <3>. QED  BY <2>1, <2>2, <2>3, <2>4, <2>7, <3>1 DEF Count, Ind
  <2>. QED  BY <2>5, <2>6, <2>7
<1>12. \A k \in Kinds : queues'[k] \subseteq queues[k]
  BY <1>9
<1>. QED  BY <1>10, <1>11, <1>12, CountStep

\* One step of the resolve_queue loop: send the front entry, or go on with
\* the next queue.
LEMMA DrainStepAcc ==
    ASSUME TypeOK, Acc, FreshWireIds, DrainStep
    PROVE  Acc'
<1> DEFINE q == Head(stack).q
<1>1. stack # <<>> /\ Head(stack) \in Frame
  BY DEF DrainStep, TypeOK
<1>2. q \in Kinds
  BY <1>1 DEF Frame
<1>3. UNCHANGED <<nextId, requested, cancelled>>
  BY DEF DrainStep
<1>4. CASE Admits(q) /\ queues[q] # {}
  <2> DEFINE e == Front(queues[q])
  <2>1. queues[q] \in SUBSET Rids /\ Rids \subseteq Nat
    BY <1>2 DEF TypeOK, Rids
  <2>2. e \in queues[q] /\ e \in Rids
    BY <1>4, <2>1, FrontProperties
  <2>3. queues' = [queues EXCEPT ![q] = @ \ {e}] /\ SendQueries(e, q)
    BY <1>4 DEF DrainStep
  <2>. QED  BY <1>2, <1>3, <2>2, <2>3, SendQueriesAcc
<1>5. CASE ~(Admits(q) /\ queues[q] # {})
  <2>1. UNCHANGED <<queues, queries, delivered>>
    BY <1>5 DEF DrainStep
  <2>. QED  BY <1>3, <2>1, FrameAcc
<1>. QED  BY <1>4, <1>5

\* accept_pending_connection(id): a stray connection is closed now (and
\* fails everything), the expected one is opened and only schedules work.
LEMMA AcceptStepAcc ==
    ASSUME TypeOK, Acc, AcceptStep
    PROVE  Acc'
<1> DEFINE ids == Head(stack).ids
<1>1. UNCHANGED <<nextId, requested, cancelled>>
  BY DEF AcceptStep
<1>2. CASE ids = <<>>
  <2>1. UNCHANGED <<queues, queries, delivered>>
    BY <1>2 DEF AcceptStep
  <2>. QED  BY <1>1, <2>1, FrameAcc
<1>3. CASE ids # <<>> /\ (isOpen \/ connId # Head(ids))
  <2>1. CloseNow(Head(ids))
    BY <1>3 DEF AcceptStep
  <2>. QED  BY <1>1, <2>1, CloseNowAcc
<1>4. CASE ids # <<>> /\ ~(isOpen \/ connId # Head(ids))
  <2>1. UNCHANGED <<queues, queries, delivered>>
    BY <1>4 DEF AcceptStep
  <2>. QED  BY <1>1, <2>1, FrameAcc
<1>. QED  BY <1>2, <1>3, <1>4

\* close_connection(id, true, false) for the next id of the close batch.
LEMMA CloseStepAcc ==
    ASSUME TypeOK, Acc, CloseStep
    PROVE  Acc'
<1> DEFINE ids == Head(stack).ids
<1>1. UNCHANGED <<nextId, requested, cancelled>>
  BY DEF CloseStep
<1>2. CASE ids = <<>>
  <2>1. UNCHANGED <<queues, queries, delivered>>
    BY <1>2 DEF CloseStep
  <2>. QED  BY <1>1, <2>1, FrameAcc
<1>3. CASE ids # <<>>
  <2>1. CloseNow(Head(ids))
    BY <1>3 DEF CloseStep
  <2>. QED  BY <1>1, <2>1, CloseNowAcc
<1>. QED  BY <1>2, <1>3

\* close_connection(id, graceful, async) from the host: deferred, or now.
LEMMA HostCloseAcc ==
    ASSUME TypeOK, Acc, NEW id \in ConnIds, NEW async \in BOOLEAN, HostClose(id, async)
    PROVE  Acc'
<1>1. UNCHANGED <<nextId, requested, cancelled>>
  BY DEF HostClose
<1>2. CASE async
  <2>1. UNCHANGED <<queues, queries, delivered>>
    BY <1>2 DEF HostClose
  <2>. QED  BY <1>1, <2>1, FrameAcc
<1>3. CASE ~async
  <2>1. CloseNow(id)
    BY <1>3 DEF HostClose
  <2>. QED  BY <1>1, <2>1, CloseNowAcc
<1>. QED  BY <1>2, <1>3

\* Every step of the resolver keeps the accounting, given fresh DNS ids.
LEMMA NextAcc ==
    ASSUME FreshWireIds, TypeOK, Acc, [Next]_vars
    PROVE  Acc'
<1>1. CASE \E q \in Kinds, types \in SUBSET RTypes \ {{}} : Resolve(q, types)
  BY <1>1, ResolveAcc
<1>2. CASE \E r \in Rids : Cancel(r)
  BY <1>2, CancelAcc
<1>3. CASE \E mask \in SUBSET Kinds \ {{}} : StopResolvingQueues(mask)
  BY <1>3, StopResolvingQueuesAcc
<1>4. CASE StopResolving
  BY <1>4, StopResolvingAcc
<1>5. CASE \E b \in BOOLEAN : SetIpv6Availability(b)
  BY <1>5, FrameAcc DEF SetIpv6Availability
<1>6. CASE ResolveTaskRun
  BY <1>6, FrameAcc DEF ResolveTaskRun
<1>7. CASE AcceptTaskRun
  BY <1>7, FrameAcc DEF AcceptTaskRun
<1>8. CASE CloseTaskRun
  BY <1>8, FrameAcc DEF CloseTaskRun
<1>9. CASE TaskStep
  BY <1>9, DrainStepAcc, AcceptStepAcc, CloseStepAcc DEF TaskStep
<1>10. CASE ResolveTimeout
  <2>1. CloseNow(connId) /\ UNCHANGED <<nextId, requested, cancelled>>
    BY <1>10 DEF ResolveTimeout
  <2>. QED  BY <2>1, CloseNowAcc
<1>11. CASE \E id \in ConnIds, pass \in BOOLEAN : CompleteConnectRequest(id, pass)
  BY <1>11, FrameAcc DEF CompleteConnectRequest
<1>12. CASE \E id \in ConnIds, async \in BOOLEAN : HostClose(id, async)
  BY <1>12, HostCloseAcc
<1>13. CASE \E w \in WireIds : Send(w)
  BY <1>13, SendAcc
<1>14. CASE UNCHANGED vars
  BY <1>14, FrameAcc DEF vars
<1>. QED  BY <1>1, <1>2, <1>3, <1>4, <1>5, <1>6, <1>7, <1>8, <1>9, <1>10,
             <1>11, <1>12, <1>13, <1>14 DEF Next

\* Exactly-once results (ResultAccounting), for every bound: while the DNS
\* codec never hands out an id that is in flight, every record type a
\* resolve asked for is queued, on the wire or answered exactly once (at
\* most once after cancel) -- across drains, replies, cancels, stops,
\* timeouts and closes in any order.
THEOREM ExactlyOnce ==
    ASSUME FreshWireIds
    PROVE  Spec => []ResultAccounting
<1>1. Init => TypeOK /\ Acc
  BY InitTypeOK, InitAcc
<1>2. TypeOK /\ Acc /\ [Next]_vars => TypeOK' /\ Acc'
  BY NextTypeOK, NextAcc
<1>3. TypeOK /\ Acc => ResultAccounting
  BY AccResult
<1>. QED  BY <1>1, <1>2, <1>3, PTL DEF Spec
=============================================================================
