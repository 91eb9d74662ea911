---------------------------- MODULE DnsResolver ----------------------------
(***************************************************************************)
(* The embedded DNS resolver of the VPN client, VpnDnsResolver            *)
(* (src/core/src/vpn_dns_resolver.cpp).                                    *)
(*                                                                         *)
(* Resolve requests wait in two admission queues (background, foreground) *)
(* keyed by their resolve id. A deferred task drains them over a single    *)
(* virtual UDP connection that the resolver asks the host tunnel to open.  *)
(* Each record type of a drained request becomes a wire transaction keyed  *)
(* by its 16-bit DNS id. Replies, the timeout, connection closes, cancel   *)
(* and stop_resolving end transactions and raise results.                  *)
(*                                                                         *)
(* Everything runs on one event loop. A deferred task whose body loops     *)
(* (the accept and close batches, resolve_queue) runs as a sequence of     *)
(* steps kept on `stack`; no other action is enabled until the stack is    *)
(* empty, so the steps of one task never interleave with anything else.   *)
(*                                                                         *)
(* Data is abstracted: names, packets and addresses are left out; a        *)
(* result is counted per (resolve id, record type) in `delivered`.        *)
(***************************************************************************)
EXTENDS Naturals, FiniteSets, Sequences

CONSTANTS
    MaxResolves,            \* bound on resolve() calls (ids 1..MaxResolves)
    MaxConns,               \* bound on connection ids from the generator
    MaxParallelBackground,  \* VpnDnsResolver::MAX_PARALLEL_BACKGROUND_RESOLVES
    WireIds,                \* DNS transaction ids the codec may choose
    FreshWireIds            \* TRUE: the codec never picks an id in use

ASSUME ConstantsAssumption ==
    /\ MaxResolves \in Nat
    /\ MaxConns \in Nat
    /\ MaxParallelBackground \in Nat \ {0}
    /\ IsFiniteSet(WireIds) /\ WireIds # {}
    /\ FreshWireIds \in BOOLEAN

\* VpnDnsResolverQueue, in enum order (the drain order of resolve_pending_domains)
BG == "background"
FG == "foreground"
Kinds == {BG, FG}
RTypes == {"A", "AAAA"}
Rids == 1..MaxResolves
ConnIds == 1..MaxConns
NON_ID == 0
NoQuery == [id |-> 0, rt |-> "none", kind |-> "none"]
Query == [id : Rids, rt : RTypes, kind : Kinds]
\* Host-side view of a connection the resolver asked for.
HostStates == {"idle", "connecting", "completed", "accepted", "closed"}
Alive == {"connecting", "completed", "accepted"}
\* A frame of the running deferred task: a pending loop over connection
\* ids ("accept", "close") or the resolve_queue loop of queue q ("drain").
Frame == [f : {"accept", "close", "drain"}, q : Kinds, ids : Seq(ConnIds)]
DrainFrame(q) == [f |-> "drain", q |-> q, ids |-> <<>>]

VARIABLES
    nextId,       \* next_id
    requested,    \* record_types of each resolve entry
    queues,       \* queues[q]: ids of the entries still queued
    queries,      \* state.queries: wire id -> transaction, or NoQuery
    connId,       \* state.connection_id
    isOpen,       \* state.is_open
    timerArmed,   \* state.timeout_task is set
    nextConn,     \* last id taken from listener_conn_id_generator
    accepting,    \* accepting_connections
    closing,      \* closing_connections
    resolveTask,  \* deferred_resolve_task is set
    acceptTask,   \* deferred_accept_task is set
    closeTask,    \* deferred_close_task is set
    ipv6,         \* m_ipv6_available
    stack,        \* remaining steps of the running deferred task
    hostState,    \* the host's view of each connection id
    delivered,    \* number of results raised per (resolve id, record type)
    cancelled     \* ids passed to cancel()

vars == <<nextId, requested, queues, queries, connId, isOpen, timerArmed,
          nextConn, accepting, closing, resolveTask, acceptTask, closeTask,
          ipv6, stack, hostState, delivered, cancelled>>

-----------------------------------------------------------------------------
(* Helpers *)

InUse == {w \in WireIds : queries[w] # NoQuery}
NumQueries == Cardinality(InUse)
Issued == 1..(nextId - 1)
QueuesEmpty == \A q \in Kinds : queues[q] = {}

\* std::map::begin(): the smallest queued id
Front(S) == CHOOSE r \in S : \A x \in S : r <= x

\* RESOLVE_CAPACITIES: the loop guard of resolve_queue
Admits(q) == q = FG \/ NumQueries < MaxParallelBackground

\* std::find + erase: drop the first occurrence of x from s
RemoveFirst(s, x) ==
    IF \E i \in DOMAIN s : s[i] = x
    THEN LET i == CHOOSE i \in DOMAIN s : s[i] = x /\ \A j \in 1..(i - 1) : s[j] # x
         IN SubSeq(s, 1, i - 1) \o SubSeq(s, i + 1, Len(s))
    ELSE s

\* Results raised for each (id, type) by failing the given transactions and
\* every requested type of the given queued ids.
Failed(ws, rs) ==
    [p \in Rids \X RTypes |->
        delivered[p]
        + Cardinality({w \in ws : queries[w].id = p[1] /\ queries[w].rt = p[2]})
        + (IF p[1] \in rs /\ p[2] \in requested[p[1]] THEN 1 ELSE 0)]

\* Record types send_request(conn_id, name, record_types) tries to send
Attempted(e) == IF ipv6 THEN requested[e] ELSE requested[e] \ {"AAAA"}

\* The type stored under wire id x: A is emplaced before AAAA, and emplace
\* keeps an existing entry.
Emplaced(sent, w, x) == IF "A" \in sent /\ w["A"] = x THEN "A" ELSE "AAAA"

-----------------------------------------------------------------------------
(* Operations shared by several handlers *)

\* Mutant: the timeout is armed only before draining an open connection,
\* not when a new connection is requested.
RPDArmsOnlyWhenOpen(open, hs, rest) ==
    IF QueuesEmpty
    THEN /\ stack' = rest
         /\ hostState' = hs
         /\ UNCHANGED <<timerArmed, connId, nextConn>>
    ELSE IF ~open
         THEN /\ nextConn < MaxConns
              /\ nextConn' = nextConn + 1
              /\ connId' = nextConn + 1
              /\ hostState' = [hs EXCEPT ![nextConn + 1] = "connecting"]
              /\ stack' = rest
              /\ UNCHANGED timerArmed
         ELSE /\ timerArmed' = TRUE
              /\ stack' = <<DrainFrame(BG)>> \o rest
              /\ hostState' = hs
              /\ UNCHANGED <<connId, nextConn>>

\* resolve_pending_domains(): `open` is is_open and `hs` the host's view
\* when it is called, `rest` the frames of the caller that follow. With
\* work queued it arms the timeout, then either requests a new connection
\* (when not open) or pushes the drain of both queues.
ResolvePendingDomains(open, hs, rest) ==
    IF QueuesEmpty
    THEN /\ stack' = rest
         /\ hostState' = hs
         /\ UNCHANGED <<timerArmed, connId, nextConn>>
    ELSE /\ timerArmed' = TRUE
         /\ IF ~open
            THEN /\ nextConn < MaxConns
                 /\ nextConn' = nextConn + 1
                 /\ connId' = nextConn + 1
                 /\ hostState' = [hs EXCEPT ![nextConn + 1] = "connecting"]
                 /\ stack' = rest
            ELSE /\ stack' = <<DrainFrame(BG)>> \o rest
                 /\ hostState' = hs
                 /\ UNCHANGED <<connId, nextConn>>

\* Mutant: the queues are cleared without failing their entries.
CloseNowDropsQueued(id) ==
    /\ accepting' = RemoveFirst(accepting, id)
    /\ closing' = RemoveFirst(closing, id)
    /\ delivered' = Failed(InUse, {})
    /\ queries' = [w \in WireIds |-> NoQuery]
    /\ queues' = [q \in Kinds |-> {}]
    /\ connId' = NON_ID
    /\ isOpen' = FALSE
    /\ timerArmed' = FALSE
    /\ hostState' = IF id \in ConnIds
                    THEN [hostState EXCEPT ![id] = "closed"] ELSE hostState

\* Mutant: the state reset forgets is_open.
CloseNowKeepsOpen(id) ==
    /\ accepting' = RemoveFirst(accepting, id)
    /\ closing' = RemoveFirst(closing, id)
    /\ delivered' = Failed(InUse, queues[BG] \cup queues[FG])
    /\ queries' = [w \in WireIds |-> NoQuery]
    /\ queues' = [q \in Kinds |-> {}]
    /\ connId' = NON_ID
    /\ UNCHANGED isOpen
    /\ timerArmed' = FALSE
    /\ hostState' = IF id \in ConnIds
                    THEN [hostState EXCEPT ![id] = "closed"] ELSE hostState

\* close_connection(id, graceful, false): fail every transaction and every
\* queued entry, reset state (cancelling the timer), notify the host.
CloseNow(id) ==
    /\ accepting' = RemoveFirst(accepting, id)
    /\ closing' = RemoveFirst(closing, id)
    /\ delivered' = Failed(InUse, queues[BG] \cup queues[FG])
    /\ queries' = [w \in WireIds |-> NoQuery]
    /\ queues' = [q \in Kinds |-> {}]
    /\ connId' = NON_ID
    /\ isOpen' = FALSE
    /\ timerArmed' = FALSE
    /\ hostState' = IF id \in ConnIds
                    THEN [hostState EXCEPT ![id] = "closed"] ELSE hostState

\* close_connection(id, graceful, true): defer the close to one batch task.
CloseAsync(id) ==
    /\ accepting' = RemoveFirst(accepting, id)
    /\ closing' = Append(closing, id)
    /\ closeTask' = TRUE

-----------------------------------------------------------------------------
(* Public facade *)

\* Mutant: the id is pre-incremented (++next_id).
ResolvePreIncrement(q, types) ==
    /\ stack = <<>>
    /\ nextId <= MaxResolves
    /\ nextId' = nextId + 1
    /\ requested' = [requested EXCEPT ![nextId + 1] = types]
    /\ queues' = [queues EXCEPT ![q] = @ \cup {nextId + 1}]
    /\ resolveTask' = TRUE
    /\ UNCHANGED <<queries, connId, isOpen, timerArmed, nextConn, accepting,
                   closing, acceptTask, closeTask, ipv6, stack, hostState,
                   delivered, cancelled>>

\* resolve(queue, name, record_types, handler)
Resolve(q, types) ==
    /\ stack = <<>>
    /\ nextId <= MaxResolves
    /\ nextId' = nextId + 1
    /\ requested' = [requested EXCEPT ![nextId] = types]
    /\ queues' = [queues EXCEPT ![q] = @ \cup {nextId}]
    /\ resolveTask' = TRUE
    /\ UNCHANGED <<queries, connId, isOpen, timerArmed, nextConn, accepting,
                   closing, acceptTask, closeTask, ipv6, stack, hostState,
                   delivered, cancelled>>

\* cancel(id): erase from the first queue holding it, else erase one
\* transaction of it; no result is raised.
Cancel(r) ==
    /\ stack = <<>>
    /\ r \in Issued \ cancelled
    /\ cancelled' = cancelled \cup {r}
    /\ IF \E q \in Kinds : r \in queues[q]
       THEN /\ queues' = [q \in Kinds |-> queues[q] \ {r}]
            /\ UNCHANGED queries
       ELSE IF \E w \in InUse : queries[w].id = r
       THEN \E w \in InUse :
               /\ queries[w].id = r
               /\ queries' = [queries EXCEPT ![w] = NoQuery]
               /\ UNCHANGED queues
       ELSE UNCHANGED <<queues, queries>>
    /\ UNCHANGED <<nextId, requested, connId, isOpen, timerArmed, nextConn,
                   accepting, closing, resolveTask, acceptTask, closeTask,
                   ipv6, stack, hostState, delivered>>

\* stop_resolving_queues(mask): fail queued entries and transactions of the
\* kinds in the mask.
StopResolvingQueues(mask) ==
    /\ stack = <<>>
    /\ LET ws == {w \in InUse : queries[w].kind \in mask}
       IN /\ delivered' = Failed(ws, UNION {queues[q] : q \in mask})
          /\ queries' = [w \in WireIds |-> IF w \in ws THEN NoQuery ELSE queries[w]]
    /\ queues' = [q \in Kinds |-> IF q \in mask THEN {} ELSE queues[q]]
    /\ UNCHANGED <<nextId, requested, connId, isOpen, timerArmed, nextConn,
                   accepting, closing, resolveTask, acceptTask, closeTask,
                   ipv6, stack, hostState, cancelled>>

\* stop_resolving(): stop both queues, close the connection now, deinit().
\* After the stop nothing is queued or in flight, so the close only
\* notifies the host.
StopResolving ==
    /\ stack = <<>>
    /\ delivered' = Failed(InUse, queues[BG] \cup queues[FG])
    /\ queries' = [w \in WireIds |-> NoQuery]
    /\ queues' = [q \in Kinds |-> {}]
    /\ hostState' = IF connId # NON_ID
                    THEN [hostState EXCEPT ![connId] = "closed"] ELSE hostState
    /\ connId' = NON_ID
    /\ isOpen' = FALSE
    /\ timerArmed' = FALSE
    /\ accepting' = <<>>
    /\ closing' = <<>>
    /\ acceptTask' = FALSE
    /\ closeTask' = FALSE
    /\ resolveTask' = FALSE
    /\ UNCHANGED <<nextId, requested, nextConn, ipv6, stack, cancelled>>

\* set_ipv6_availability(available)
SetIpv6Availability(b) ==
    /\ stack = <<>>
    /\ ipv6' = b
    /\ UNCHANGED <<nextId, requested, queues, queries, connId, isOpen,
                   timerArmed, nextConn, accepting, closing, resolveTask,
                   acceptTask, closeTask, stack, hostState, delivered,
                   cancelled>>

-----------------------------------------------------------------------------
(* Deferred tasks run by the event loop *)

\* The task submitted by resolve(): clear the marker, resolve_pending_domains().
ResolveTaskRun ==
    /\ stack = <<>>
    /\ resolveTask
    /\ resolveTask' = FALSE
    /\ ResolvePendingDomains(isOpen, hostState, <<>>)
    /\ UNCHANGED <<nextId, requested, queues, queries, isOpen, accepting,
                   closing, acceptTask, closeTask, ipv6, delivered, cancelled>>

\* Send the queries of entry e of queue q (one per record type tried) and
\* record them under their wire ids; a type not tried is failed at once.
SendQueries(e, q) ==
    \E sent \in SUBSET Attempted(e) :
    \E w \in [sent -> WireIds] :
       /\ FreshWireIds =>
             /\ \A t \in sent : w[t] \notin InUse
             /\ \A s, t \in sent : s # t => w[s] # w[t]
       /\ queries' = [x \in WireIds |->
             IF queries[x] = NoQuery /\ \E t \in sent : w[t] = x
             THEN [id |-> e, rt |-> Emplaced(sent, w, x), kind |-> q]
             ELSE queries[x]]
       /\ delivered' = [p \in Rids \X RTypes |->
             IF p[1] = e /\ p[2] \in requested[e] \ sent
             THEN delivered[p] + 1 ELSE delivered[p]]

\* One iteration of the while loop of resolve_queue(q): take the first
\* entry, send a query per record type, track those the host accepted and
\* fail the others. When the loop ends, go on with the next queue.
DrainStep ==
    /\ stack # <<>>
    /\ Head(stack).f = "drain"
    /\ LET q == Head(stack).q IN
       IF Admits(q) /\ queues[q] # {}
       THEN LET e == Front(queues[q]) IN
            /\ queues' = [queues EXCEPT ![q] = @ \ {e}]
            /\ SendQueries(e, q)
            /\ UNCHANGED stack
       ELSE /\ stack' = IF q = BG THEN <<DrainFrame(FG)>> \o Tail(stack)
                                  ELSE Tail(stack)
            /\ UNCHANGED <<queues, queries, delivered>>
    /\ UNCHANGED <<nextId, requested, connId, isOpen, timerArmed, nextConn,
                   accepting, closing, resolveTask, acceptTask, closeTask,
                   ipv6, hostState, cancelled>>

\* The accept batch task: clear the marker, take accepting_connections.
AcceptTaskRun ==
    /\ stack = <<>>
    /\ acceptTask
    /\ acceptTask' = FALSE
    /\ accepting' = <<>>
    /\ stack' = <<[f |-> "accept", q |-> BG, ids |-> accepting]>>
    /\ UNCHANGED <<nextId, requested, queues, queries, connId, isOpen,
                   timerArmed, nextConn, closing, resolveTask, closeTask,
                   ipv6, hostState, delivered, cancelled>>

\* accept_pending_connection(id) for the next id of the batch: report the
\* accept to the host; a second or unexpected connection is closed now
\* (an assert in debug builds), else the connection is open and the
\* queues are drained.
AcceptStep ==
    /\ stack # <<>>
    /\ Head(stack).f = "accept"
    /\ LET ids == Head(stack).ids
           rest == IF ids = <<>> THEN Tail(stack)
                   ELSE <<[Head(stack) EXCEPT !.ids = Tail(ids)]>> \o Tail(stack)
       IN IF ids = <<>>
          THEN /\ stack' = rest
               /\ UNCHANGED <<queues, queries, connId, isOpen, timerArmed,
                              nextConn, accepting, closing, hostState,
                              delivered>>
          ELSE LET id == Head(ids) IN
               IF isOpen \/ connId # id
               THEN /\ CloseNow(id)
                    /\ stack' = rest
                    /\ UNCHANGED nextConn
               ELSE /\ isOpen' = TRUE
                    /\ ResolvePendingDomains(TRUE,
                          [hostState EXCEPT ![id] = "accepted"], rest)
                    /\ UNCHANGED <<queues, queries, accepting, closing,
                                   delivered>>
    /\ UNCHANGED <<nextId, requested, resolveTask, acceptTask, closeTask,
                   ipv6, cancelled>>

\* The close batch task: clear the marker, take closing_connections.
CloseTaskRun ==
    /\ stack = <<>>
    /\ closeTask
    /\ closeTask' = FALSE
    /\ closing' = <<>>
    /\ stack' = <<[f |-> "close", q |-> BG, ids |-> closing]>>
    /\ UNCHANGED <<nextId, requested, queues, queries, connId, isOpen,
                   timerArmed, nextConn, accepting, resolveTask, acceptTask,
                   ipv6, hostState, delivered, cancelled>>

\* close_connection(id, true, false) for the next id of the close batch.
CloseStep ==
    /\ stack # <<>>
    /\ Head(stack).f = "close"
    /\ LET ids == Head(stack).ids IN
       IF ids = <<>>
       THEN /\ stack' = Tail(stack)
            /\ UNCHANGED <<queues, queries, connId, isOpen, timerArmed,
                           accepting, closing, hostState, delivered>>
       ELSE /\ CloseNow(Head(ids))
            /\ stack' = <<[Head(stack) EXCEPT !.ids = Tail(ids)]>> \o Tail(stack)
    /\ UNCHANGED <<nextId, requested, nextConn, resolveTask, acceptTask,
                   closeTask, ipv6, cancelled>>

\* Mutant: the timeout only closes an open connection.
TimeoutOnlyWhenOpen ==
    /\ stack = <<>>
    /\ timerArmed
    /\ IF isOpen
       THEN CloseNow(connId)
       ELSE /\ timerArmed' = FALSE
            /\ UNCHANGED <<queues, queries, connId, isOpen, accepting, closing,
                           hostState, delivered>>
    /\ UNCHANGED <<nextId, requested, nextConn, resolveTask, acceptTask,
                   closeTask, ipv6, stack, cancelled>>

\* on_resolve_timeout: close the current connection now.
ResolveTimeout ==
    /\ stack = <<>>
    /\ timerArmed
    /\ CloseNow(connId)
    /\ UNCHANGED <<nextId, requested, nextConn, resolveTask, acceptTask,
                   closeTask, ipv6, stack, cancelled>>

-----------------------------------------------------------------------------
(* Calls from the host tunnel *)

\* complete_connect_request(id, result): on CCR_PASS batch the accept,
\* otherwise close the connection asynchronously.
CompleteConnectRequest(id, pass) ==
    /\ stack = <<>>
    /\ hostState[id] = "connecting"
    /\ hostState' = [hostState EXCEPT ![id] = "completed"]
    /\ IF pass
       THEN /\ accepting' = Append(accepting, id)
            /\ acceptTask' = TRUE
            /\ UNCHANGED <<closing, closeTask>>
       ELSE /\ CloseAsync(id)
            /\ UNCHANGED acceptTask
    /\ UNCHANGED <<nextId, requested, queues, queries, connId, isOpen,
                   timerArmed, nextConn, resolveTask, ipv6, stack, delivered,
                   cancelled>>

\* close_connection(id, graceful, async) called by the tunnel on a live
\* connection it has not already asked to close.
HostClose(id, async) ==
    /\ stack = <<>>
    /\ hostState[id] \in Alive
    /\ \A i \in DOMAIN closing : closing[i] # id
    /\ IF async
       THEN /\ CloseAsync(id)
            /\ UNCHANGED <<queues, queries, connId, isOpen, timerArmed,
                           hostState, delivered, acceptTask>>
       ELSE /\ CloseNow(id)
            /\ UNCHANGED <<closeTask, acceptTask>>
    /\ UNCHANGED <<nextId, requested, nextConn, resolveTask, ipv6, stack,
                   cancelled>>

\* send(id, data, length): a decoded packet with DNS id w arrives on the
\* current connection. Any decoded kind (reply, empty reply, inapplicable
\* packet, request) ends the matching transaction with one result; an
\* unknown id is ignored. Then resolve_pending_domains(). Malformed data and
\* a wrong connection id return -1 and change nothing, so they are left out.
Send(w) ==
    /\ stack = <<>>
    /\ connId # NON_ID
    /\ hostState[connId] = "accepted"
    /\ IF queries[w] # NoQuery
       THEN /\ delivered' = [delivered EXCEPT ![<<queries[w].id, queries[w].rt>>] = @ + 1]
            /\ queries' = [queries EXCEPT ![w] = NoQuery]
       ELSE UNCHANGED <<delivered, queries>>
    /\ ResolvePendingDomains(isOpen, hostState, <<>>)
    /\ UNCHANGED <<nextId, requested, queues, isOpen, accepting, closing,
                   resolveTask, acceptTask, closeTask, ipv6, cancelled>>

-----------------------------------------------------------------------------

Init ==
    /\ nextId = 1
    /\ requested = [r \in Rids |-> {}]
    /\ queues = [q \in Kinds |-> {}]
    /\ queries = [w \in WireIds |-> NoQuery]
    /\ connId = NON_ID
    /\ isOpen = FALSE
    /\ timerArmed = FALSE
    /\ nextConn = 0
    /\ accepting = <<>>
    /\ closing = <<>>
    /\ resolveTask = FALSE
    /\ acceptTask = FALSE
    /\ closeTask = FALSE
    /\ ipv6 \in BOOLEAN
    /\ stack = <<>>
    /\ hostState = [c \in ConnIds |-> "idle"]
    /\ delivered = [p \in Rids \X RTypes |-> 0]
    /\ cancelled = {}

\* The steps of a running deferred task
TaskStep == DrainStep \/ AcceptStep \/ CloseStep

Next ==
    \/ \E q \in Kinds, types \in SUBSET RTypes \ {{}} : Resolve(q, types)
    \/ \E r \in Rids : Cancel(r)
    \/ \E mask \in SUBSET Kinds \ {{}} : StopResolvingQueues(mask)
    \/ StopResolving
    \/ \E b \in BOOLEAN : SetIpv6Availability(b)
    \/ ResolveTaskRun
    \/ AcceptTaskRun
    \/ CloseTaskRun
    \/ TaskStep
    \/ ResolveTimeout
    \/ \E id \in ConnIds, pass \in BOOLEAN : CompleteConnectRequest(id, pass)
    \/ \E id \in ConnIds, async \in BOOLEAN : HostClose(id, async)
    \/ \E w \in WireIds : Send(w)

\* The event loop runs submitted tasks in order, so a pending task runs
\* whatever else runs in between (strong fairness), and a running task
\* finishes. The timeout fires when it stays armed between tasks; each
\* resolve_pending_domains re-arms it, so only weak fairness holds for it.
Fairness ==
    /\ SF_vars(ResolveTaskRun)
    /\ SF_vars(AcceptTaskRun)
    /\ SF_vars(CloseTaskRun)
    /\ WF_vars(TaskStep)
    /\ WF_vars(ResolveTimeout)

Spec == Init /\ [][Next]_vars
FairSpec == Spec /\ Fairness

-----------------------------------------------------------------------------
(* Properties *)

TypeOK ==
    /\ nextId \in 1..(MaxResolves + 1)
    /\ requested \in [Rids -> SUBSET RTypes]
    /\ queues \in [Kinds -> SUBSET Rids]
    /\ queries \in [WireIds -> Query \cup {NoQuery}]
    /\ connId \in ConnIds \cup {NON_ID}
    /\ isOpen \in BOOLEAN
    /\ timerArmed \in BOOLEAN
    /\ nextConn \in 0..MaxConns
    /\ accepting \in Seq(ConnIds)
    /\ closing \in Seq(ConnIds)
    /\ resolveTask \in BOOLEAN
    /\ acceptTask \in BOOLEAN
    /\ closeTask \in BOOLEAN
    /\ ipv6 \in BOOLEAN
    /\ stack \in Seq(Frame)
    /\ hostState \in [ConnIds -> HostStates]
    /\ delivered \in [Rids \X RTypes -> Nat]
    /\ cancelled \in SUBSET Rids

\* Where a requested record type of a resolve can be: its entry still
\* queued, or a wire transaction of it tracked.
Outstanding(r, t) ==
    Cardinality({q \in Kinds : r \in queues[q] /\ t \in requested[r]})
    + Cardinality({w \in InUse : queries[w].id = r /\ queries[w].rt = t})

\* Exactly-once results (spec section 8): every record type requested by a
\* resolve is, at every moment, in exactly one place -- queued, on the
\* wire, or answered once -- unless the resolve was cancelled, in which
\* case it is in at most one. Catches a result raised twice (close,
\* timeout, stop and reply racing for one transaction) and a request
\* dropped without a result (drain, emplace, cancel).
ResultAccounting ==
    \A r \in Rids, t \in RTypes :
        LET n == Outstanding(r, t) + delivered[<<r, t>>]
            expected == IF r \in Issued /\ t \in requested[r] THEN 1 ELSE 0
        IN IF r \in cancelled THEN n <= expected ELSE n = expected

\* Outstanding work is always under a timer (spec 4.4): between tasks,
\* queued entries are covered by a pending resolve task or the armed
\* timeout, and tracked transactions by the armed timeout. This is what
\* guarantees that on_resolve_timeout eventually fails what no reply ends.
WorkIsTimed ==
    stack = <<>> =>
        /\ ~QueuesEmpty => timerArmed \/ resolveTask
        /\ InUse # {} => timerArmed

\* Transactions live only on the tracked connection, which the resolver
\* has marked open and the host has accepted and not yet seen closed; an
\* armed timeout always has a connection to close.
InFlightOnOpenConnection ==
    /\ InUse # {} => isOpen
    /\ isOpen => connId \in ConnIds /\ hostState[connId] = "accepted"
    /\ timerArmed => connId \in ConnIds

\* Every requested record type of every resolve eventually gets a result,
\* unless the resolve is cancelled (spec section 8, first property).
EveryRequestAnswered ==
    \A r \in Rids, t \in RTypes :
        (r \in Issued /\ t \in requested[r])
            ~> (delivered[<<r, t>>] > 0 \/ r \in cancelled)

\* The upstream eventually stops sending packets. Every packet makes send()
\* call resolve_pending_domains, which re-arms the timeout while anything
\* is queued, so without this an endless stream of stray replies postpones
\* the timeout for ever.
InboundEventuallyStops == <>[][\A w \in WireIds : ~Send(w)]_vars

\* Once inbound traffic stops, every request is answered: the timeout
\* fails whatever no reply has ended.
AnsweredOnceInboundStops == InboundEventuallyStops => EveryRequestAnswered

\* Spec 3: outstanding background transactions never exceed the background
\* capacity (resolve_queue checks the count before an entry that may add
\* two transactions).
BackgroundCapacity ==
    Cardinality({w \in InUse : queries[w].kind = BG}) <= MaxParallelBackground

\* Spec 3: at most one virtual connection is alive; a resolve while
\* connecting reuses it (resolve_pending_domains while not open).
SingleConnection ==
    Cardinality({c \in ConnIds : hostState[c] \in Alive}) <= 1

\* Spec 4.5 and 5: after cancel(id) no result is raised for id (cancel
\* erases a single transaction of the id).
NoResultAfterCancel ==
    [][\A r \in cancelled, t \in RTypes :
          delivered'[<<r, t>>] = delivered[<<r, t>>]]_vars
=============================================================================
