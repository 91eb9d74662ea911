# TLA+ models of TrustTunnelClient

This directory holds TLA+ specifications of the concurrent parts of the
TrustTunnel client, TLC configurations that model-check them on small
instances, and TLAPS proofs of their main safety properties for all values
of the constants. `PROJECT.json` lists every component, run, mutant, mapped
source range, finding, hazard and theorem.

## 1. The system and its parts

| Component | Source | State it keeps | Status |
|---|---|---|---|
| VpnDnsResolver | `src/core/src/vpn_dns_resolver.cpp` | two resolve queues, the in-flight DNS transactions keyed by 16-bit id, the resolver's UDP connection (id, open flag), a timeout, three debounced event-loop tasks and the accept/close batches | modelled: `DnsResolver` |
| DnsManager | `src/net/src/dns_manager.cpp` | the system DNS servers (behind a mutex) and a list of subscribers, each with a pending notification task on its own event loop | modelled: `DnsManager` |
| QUIC connector | `src/net/src/quic_connector.cpp` | a quiche connection, its UDP socket, a timer, a deferred report task and the result | modelled: `QuicConnector`, refining `QuicConnectorOutcome` |
| Fallbackable and single upstream connectors | `src/core/src/*_upstream_connector.h` | declarations only; the logic is not in the repository | not modelled |
| ICMP request descriptors, platform error text, JNI helpers, headers | `src/tcpip`, `src/common`, `src/platform`, `src/standalone` | allocation, formatting, conversion: no state machine | not modelled |

### VpnDnsResolver

The VPN client uses this component to resolve host names through the
tunnel. It behaves like a client application of the tunnel: it asks the
tunnel for a UDP "connection" to the DNS server (`CLIENT_EVENT_CONNECT_REQUEST`),
and the tunnel reports the outcome (`complete_connect_request`). It then
writes DNS queries as `CLIENT_EVENT_READ` events, and the tunnel passes the
replies back with `send`.

Everything runs on one event loop, so handlers never run in parallel. The
hard behaviours come from the order of the deferred tasks:

- `resolve` queues an entry in the background (BG) or foreground (FG) queue
  and submits a resolve task unless one is pending.
- The resolve task calls `resolve_pending_domains`. That function arms the
  timeout. If the connection is not open, it requests a new connection.
  Otherwise it runs `resolve_queue` on BG, then FG. That loop sends one
  query per record type and tracks each under the DNS id of its request. BG
  stops at `MAX_PARALLEL_BACKGROUND_RESOLVES` queries; FG has no limit.
- `complete_connect_request` batches accepted connections for an accept
  task and failed ones for a close task. The accept task calls
  `accept_pending_connection` for each id; that call sets `is_open`, or
  closes a second or unexpected connection.
- `close_connection` fails every in-flight query and every queued entry,
  then resets the state. The timeout, `stop_resolving` and the tunnel can
  all trigger it.
- `send` matches a packet to its query by DNS id, reports the result, and
  calls `resolve_pending_domains` again.

### DnsManager

The manager holds the system DNS servers for the whole client. Its calls
come from any thread and each holds one mutex for its whole body:

- `dns_manager_set_system_servers` stores the output of
  `prepare_system_servers`, then calls `engage_notifications`. That function
  submits a notification task to the event loop of every subscriber that
  has none pending (`notification_task` empty).
- `prepare_system_servers` drops loopback servers and AdGuard's unfiltered
  servers from a set of candidates. If nothing is left and both lists were
  given, it appends `EXTRA_FALLBACK_SYSTEM_DNS` to the fallback list.
- `dns_manager_subscribe_servers_change` adds a subscription under
  `next_dns_change_subscription_id++`.
- `dns_manager_unsubscribe_servers_change` erases it. Destroying its
  `AutoTaskId` cancels a task that is still queued.

The notification task runs on the subscriber's loop in two parts. Under the
mutex it finds the subscription, releases `notification_task` and copies the
callback. After unlocking, it calls the callback. The subscriber then reads
the servers with `dns_manager_get_system_servers`.

The hard parts are two. First, the marker that debounces notifications
must be released at exactly the right point, or a change is lost. Second,
the call runs outside the lock, so it can race an unsubscribe made on
another thread.

### QUIC connector

The connector opens a QUIC connection to an upstream for the tunnel. It
runs on one event loop; each of its handlers runs to completion.

- `quic_connector_connect` creates a UDP socket, a quiche config, a
  connection id, a timer and the quiche connection, in that order. Any of
  these may fail, and the call then returns an error. On success it sets
  the deadline and calls `drive_connection`.
- `drive_connection` reports a timeout once the deadline has passed.
  Otherwise it writes every datagram quiche produces and re-arms the timer
  for the smaller of the time left and quiche's own timeout. `on_timer`
  tells quiche that its timer expired and drives again.
- `socket_handler(READABLE)` acts on `verify_certificate`. With it off,
  the first datagram is handed off as it is and READY is reported. With it
  on, the datagram is fed to quiche, the connection is driven and the state
  becomes `ESTABLISHING`. While `ESTABLISHING`, each READABLE reads the
  socket dry into quiche, drives, and reports READY once quiche says the
  handshake is done. `UDP_SOCKET_EVENT_TIMEOUT` reports an error.
- `report_error` stores the error and submits a task that calls
  `do_report`. `report_ready` calls `do_report` at once. Both do nothing
  once `report_task` is set. `do_report` frees the timer and either frees
  the connection and the socket (ERROR) or moves them into `result`
  (READY), then calls the handler. The caller takes the result with
  `quic_connector_get_result`.

The hard parts: errors are reported later, by a task, while socket events
and the timer keep arriving. The timer must keep firing until the deadline
even when every datagram is lost. And the error paths of `connect` must
leave nothing behind.

## 2. How the model corresponds to the code

`DnsResolver.tla` is the specification and `MC_DnsResolver.tla` its TLC
instance. The main correspondences:

- **Data.** A resolve is its id in `1..MaxResolves` and the set of record
  types it asked for (`requested`). A query on the wire is
  `queries[w] = [id, rt, kind]` for a wire id `w` in `WireIds`. `delivered`
  counts the results raised per (resolve, type). Names, packet contents and
  addresses are left out: no property tells them apart.
- **The host tunnel** (outside `src/`) is abstracted by `hostState`, its
  view of each connection id. It may complete a pending connect
  (`CompleteConnectRequest`), close a live connection synchronously or
  asynchronously (`HostClose`), and deliver a decoded packet for any wire id
  on an accepted connection (`Send`). Because `Send(w)` ranges over every
  wire id, stray, duplicated and late replies are all included. Malformed
  packets and wrong connection ids return -1 and change nothing, so they
  are not modelled.
- **Tasks.**
  - The debounce markers (`deferred_*_task.has_value()`) are the booleans
    `resolveTask`, `acceptTask` and `closeTask`.
  - A task is one action: `ResolveTaskRun`, `AcceptTaskRun` or
    `CloseTaskRun`. Its loop body runs as steps over `stack`, a sequence
    of loop frames: the BG/FG drain of `resolve_queue`, and the
    accept/close loop over the swapped id vector. `DrainStep`, `AcceptStep`
    and `CloseStep` run those steps.
  - Every other action requires `stack = <<>>`, so a task body runs
    without interruption, as on the event loop. Its callbacks, such as
    `send_request` and the events raised to the host, are still observed
    at the right point inside it.
- **Shared helpers.** `ResolvePendingDomains(open, hs, rest)` and
  `CloseNow(id)`/`CloseAsync(id)` are the two helpers that several handlers
  call. Each is used inside the caller's action, never as a step of its own.
- **Sending queries.** `SendQueries(e, q)` chooses the record types whose
  `send_request` succeeds (`sent`) and the DNS id of each request (`w`). With
  `FreshWireIds` the ids of requests in flight are distinct. Without it, two
  requests may collide, as the 16-bit ids of `dns_utils::encode_request` can,
  and `std::map::emplace` keeps the older entry (`Emplaced`).

### DnsManager

`DnsManager.tla` is the specification. Its runs use it directly, with the
constants given in the `.cfg` files. The correspondence:

- **Servers.** An address is `"loopback"`, `"unfiltered"` or `"other"`: the
  three classes `prepare_system_servers` tells apart. Each list holds at
  most one entry.
- **`Filtered`** is the candidate set after both `erase_if` passes.
- **`PrepareSystemServers`** is the function itself.
- **Subscriptions.** `subs` holds the ids present in
  `dns_change_subscriptions`. `marker[s]` is `notification_task.has_value()`.
  `queued` holds the submitted tasks that have not run and not been
  cancelled. `calling` holds the tasks that have copied the callback and not
  yet called it.
- **History variables.** `version`, `since` and `seen` exist only for the
  properties. They record the server change each subscriber subscribed at
  and the one it last read.
- **Actions.** Each API call is one action: `SetSystemServers` (with
  `EngageNotifications`), `Subscribe` and `Unsubscribe`. The task is split
  at the mutex into `TaskStart` and `Notify`. `Unsubscribe` either cancels
  the queued task or finds that the loop has already taken it, and both
  outcomes are possible in the code. `TaskStart(s)` needs `s \notin calling`,
  because one loop runs its tasks one at a time.

### QUIC connector

`QuicConnector.tla` is the specification. Its runs use it directly, with the
constants given in the `.cfg` files. The state of the C++ object is one
record `q`, because a handler calls several helpers in a row. Each helper
(`Drive`, `Transfer`, `ReportError`, `ReportReady`, `DoReport`) maps a
record to the set of records it may produce, and an action composes them
in the order of the code.

- **Owned objects.** `q.sock`, `q.conn` and `q.timer` record whether the
  `DeclPtr`s are null, live or released. `q.task` is `report_task`;
  `"ran"` is a task that has run, whose id the code never resets.
  `q.result` and `q.resultConn` record whether `result` is engaged and the
  state of the connection it holds. `q.handled` is the sequence of events
  the handler received.
- **quiche.** The connection is `"handshaking"`, `"established"` or
  `"closed"`. A received datagram may complete the handshake. A timeout may
  close the connection, after which quiche sends nothing. Every
  `quiche_conn_send`, `udp_socket_write`, `udp_socket_recv` and
  `quiche_conn_recv` may fail, which leads to `report_error` at the point the
  code calls it.
- **Time** is in milliseconds, in `now`. `q.deadline` is `deadline_ns` and
  `q.due` is when the armed timer fires. `Arm` computes `due` as the code
  does: the timeout in nanoseconds, divided by 1000, used as milliseconds.
  Time advances only while the timer is armed, one millisecond at a time up
  to the deadline, or straight to `due`. Other events happen in between.
- **The server and the network.** `q.flight` says a flight was sent and
  not answered. `ServerReply` puts an answer in the socket (`q.readable`
  datagrams wait there). `LoseFlight` drops it.
- **Calls.** `Connect` has three outcomes: the socket cannot be created;
  a later step fails; or success. `GetResult` is
  `quic_connector_get_result`, and `handed` counts the results it returned.
  `Destroy` is `quic_connector_destroy`, after which no event arrives.
- **Refinement.** `QuicConnectorOutcome.tla` is the promise to the handler:
  one READY or ERROR and nothing after it. `QuicConnector` maps to it with
  `reports <- q.handled`.

## 3. Properties and runs

| Run | cfg | Checks | Result |
|---|---|---|---|
| resolver_safety | `MC_DnsResolver.cfg` | `TypeOK`, `ResultAccounting`, `WorkIsTimed`, `InFlightOnOpenConnection` | pass (268,919 states) |
| resolver_liveness | `MC_DnsResolver_live.cfg` | `AnsweredOnceInboundStops` | pass |
| resolver_bg_capacity | `MC_DnsResolver_bgcap.cfg` | `BackgroundCapacity` | violation |
| resolver_single_connection | `MC_DnsResolver_single.cfg` | `SingleConnection` | violation |
| resolver_cancel | `MC_DnsResolver_cancel.cfg` | `NoResultAfterCancel` (action property) | violation |
| resolver_id_collision | `MC_DnsResolver_collision.cfg` | `ResultAccounting` with `FreshWireIds = FALSE` | violation |

What each property says:

- **ResultAccounting.** For every resolve and record type, the queries still
  in flight plus the queued entry plus the results already delivered add up
  to exactly 1 if that type was requested, and 0 otherwise. For a cancelled
  resolve the sum is at most 1. This rules out lost and duplicated results
  across every close, stop, cancel and reply path.
- **WorkIsTimed.** Between tasks, queued work has a resolve task or an
  armed timeout, and an in-flight query has an armed timeout. Without this,
  a query could hang forever.
- **InFlightOnOpenConnection.** Queries are in flight only while `is_open`
  holds. `is_open` means the current connection is one the host accepted
  and has not closed. An armed timeout always has a connection to close.
- **AnsweredOnceInboundStops.** Every requested type eventually gets a
  result, assuming inbound packets eventually stop (`InboundEventuallyStops`).
  The assumption is needed: each `send` re-arms the timeout
  (`vpn_dns_resolver.cpp:325`), so an endless stream of unrelated packets
  postpones it forever. TLC finds that behaviour without the assumption.

### The four violation runs

Each records a finding in `PROJECT.json`:

- **bg_capacity.** The BG queue can put `MAX_PARALLEL_BACKGROUND_RESOLVES + 1`
  queries on the wire. The capacity check at line 351 runs before an entry
  that may send both A and AAAA.
- **single_connection.** A second resolve task that runs while the first
  connection is still being set up requests another connection
  (line 328 tests only `is_open`). The first connection's accept then hits
  the "unexpected connection ID" path (`assert(0)`) and fails all queries.
- **cancel.** `cancel` removes only one of a resolve's two in-flight queries
  (line 55), so the cancelled resolve's handler is still called.
- **id_collision.** When two outstanding requests share a DNS id, `emplace`
  (line 360) drops the second, and that record type never gets a result.

### Bounds and why they suffice

- `MaxResolves = 2`: two resolves are enough to reach every two-resolve race
  (two tasks, cancel against a reply, BG blocked behind capacity while FG
  proceeds).
- `MaxConns = 2`: a reconnect after a close, and a double connect request.
- `MaxParallelBackground = 1`: the smallest cap, where the off-by-one shows.
- Wire ids: four in the safety runs, enough for two resolves with A and
  AAAA each, under a symmetry set. The ids are interchangeable model values,
  and no property names one.

  The liveness run uses two wire ids and no symmetry, since symmetry is not
  sound for liveness checking. With two ids, two queries can be in flight
  at once, and a further send finds no free id and fails that type. That is
  the path where `send_request` returns nothing. It keeps the run short and
  still exercises that failure path.
- `MaxResolves = 3` did not finish within twenty minutes.

### Fairness

`FairSpec` adds the following fairness conditions:

- **Strong fairness on each task run.** The event loop runs every
  submitted task, in FIFO order. A task can be disabled for a moment
  because another task's loop is on the stack, so weak fairness would not
  match the code.
- **Weak fairness on the loop steps (`TaskStep`).** A task body, once
  started, runs to its end.
- **Weak fairness on `ResolveTimeout`.** A scheduled timer eventually fires
  unless something cancels or re-arms it first.

No fairness is assumed for the host (connect completion, close, packets) or
for the user's calls. Liveness therefore also depends on the timeout: a
connect that the host never completes is ended by the timer.

### Mutants

Each property of a passing run is broken by one plausible code change,
defined next to the operator it replaces:

| Mutant | Replaces | Code change it models | Property it breaks |
|---|---|---|---|
| `ResolvePreIncrement` | `Resolve` | `++next_id` | `TypeOK` |
| `CloseNowDropsQueued` | `CloseNow` | queues cleared without failing their entries | `ResultAccounting` |
| `TimeoutOnlyWhenOpen` | `ResolveTimeout` | the timeout only closes an open connection | `WorkIsTimed` |
| `CloseNowKeepsOpen` | `CloseNow` | `is_open` not reset | `InFlightOnOpenConnection` |
| `RPDArmsOnlyWhenOpen` | `ResolvePendingDomains` | the timeout is not armed for a connect | `AnsweredOnceInboundStops` |

### DnsManager runs

| Run | cfg | Checks | Result |
|---|---|---|---|
| manager | `MC_DnsManager.cfg` (`FairSpec`) | `TypeOK`, `NoLostUpdate`, `UsableServers`, `EventuallyNotified` | pass (43,591 states) |
| manager_unsubscribe_race | `MC_DnsManager_unsub.cfg` | `NoNotifyAfterUnsubscribe` (action property) | violation |

- **NoLostUpdate.** A live subscriber that has not read the latest servers
  has a task queued or its callback pending. This is the debounce's
  correctness. A task that never released the marker, or released it after
  the call, would lose the next change.
- **UsableServers.** Whenever both stored lists are non-empty, one stored
  server is neither loopback nor unfiltered.
- **EventuallyNotified.** Under fairness, such a subscriber reads the
  latest servers, unless it unsubscribes first.
- **manager_unsubscribe_race.** This run finds a 6-step trace: set, subscribe,
  set, the task copies the callback, another thread unsubscribes, and the
  callback runs. Nothing in the code or the spec says whether a caller may
  free `notification_arg` once unsubscribe returns. The run is recorded as a
  spec gap.

**Bounds.** `MaxSubs = 2` and `MaxSets = 3`. Two subscribers are enough for
one to be notified while the other unsubscribes. Three changes are enough
for a change to arrive while a task is queued, and again while its callback
runs; those are the states where the debounce can lose one.

**Deadlock** is not checked (`CHECK_DEADLOCK FALSE`). Once the bounds on calls
are spent and every task has run, the manager is idle, which is a legal end
state.

**Fairness.** `FairSpec` assumes weak fairness on `TaskStart(s)` and on
`Notify(s)` for each subscriber. A subscriber's event loop runs the tasks
submitted to it, and the mutex is held only for bounded time. Nothing is
assumed about the calls the client makes.

**Mutants.**

| Mutant | Replaces | Code change it models | Property it breaks |
|---|---|---|---|
| `SubscribePreIncrement` | `Subscribe` | `++next_dns_change_subscription_id` | `TypeOK` |
| `TaskStartKeepsMarker` | `TaskStart` | `notification_task.release()` missing | `NoLostUpdate`, `EventuallyNotified` |
| `FilteredLoopbackOnly` | `Filtered` | the unfiltered-servers pass missing | `UsableServers` |

### QUIC connector runs

| Run | cfg | Checks | Result |
|---|---|---|---|
| quic | `MC_QuicConnector.cfg` (`FairSpec`) | `TypeOK`, `ReadyMeansEstablished`, `ReportsOnce`, `EventuallyReported` | pass (878 states) |
| quic_timer_units | `MC_QuicConnector_timer.cfg` | `TimerWithinDeadline` | violation |
| quic_connect_failure | `MC_QuicConnector_connectfail.cfg` | `OneOutcome` | violation |
| quic_double_handoff | `MC_QuicConnector_handoff.cfg` | `SingleHandoff` | violation |

- **ReportsOnce** is `QuicConnectorOutcome!Spec` under the mapping. The
  handler gets at most one event, whatever order the socket events, the
  timer and the report task come in. Only the `report_task` checks in
  `report_error` and `report_ready` guarantee this: an error queued by a
  failed send is still pending when the same handler goes on to check
  whether the connection is established.
- **ReadyMeansEstablished.** With verification on, READY hands over a
  connection whose handshake completed.
- **EventuallyReported.** Once `connect` has returned success, the handler
  eventually hears an outcome, unless the connector is destroyed. This
  holds even if every flight is lost, because every drive re-arms the timer.
- **quic_timer_units** (line 195). `timeout_ns / 1000` is microseconds, but
  `ms_to_timeval` takes milliseconds, so the timer fires 1000 times late.
  TLC's trace is: connect, then the timer is armed for 1000 ms against a
  3 ms deadline. quiche's retransmission timer and the deadline check in
  `drive_connection` both wait for it.
- **quic_connect_failure** (lines 114-152). `connect` returns an error after the socket
  exists. The socket stays registered, and its timeout makes the connector
  report ERROR to a caller that was already told connect failed.
- **quic_double_handoff** (line 164). `std::move` of an optional leaves it
  engaged, so a second `get_result` returns the same fd.

**Bounds.** `Timeout = 3` ms and `Pto = 1` ms, so quiche's timer fires
before the deadline and a second drive happens. (With the bug, it fires
after the deadline.) `MaxDatagrams = 2` lets the ESTABLISHING loop read
more than one datagram, and fail on the second. Both values of
`verify_certificate` are initial states. `MaxGets = 1` for the passing runs
and 2 for the hand-off run.

**Deadlock** is not checked. After a report, or after `destroy`, the
connector gets no more events, and that is its normal end.

**Fairness.** `FairSpec` assumes weak fairness on `OnTimer`, `RunReportTask`
and `Tick`. libevent fires an expired timer, the event loop runs a
submitted task, and time passes. Nothing is assumed of the server, the
network or the caller.

**Mutants.**

| Mutant | Replaces | Code change it models | Property it breaks |
|---|---|---|---|
| `ArmNoDivide` | `Arm` | the nanoseconds used without `/ 1000` | `TypeOK` |
| `ReportReadyUnguarded` | `ReportReady` | the `report_task != -1` check missing | `ReportsOnce` |
| `IsEstablishedNotClosed` | `IsEstablished` | any open connection taken as established | `ReadyMeansEstablished` |
| `AfterSendArmsOnlyIfSent` | `AfterSend` | the timer re-armed only after a send | `EventuallyReported` |

## 4. What is proved

The proofs are in `DnsResolverProofs.tla` and `DnsResolverAccounting.tla`,
and are checked by `tlapm`. They
rest on one assumption, `ConstantsAssumption`:

- the bounds are naturals;
- `MaxParallelBackground > 0`;
- `WireIds` is a finite non-empty set.

- **`TypeCorrect: Spec => []TypeOK`.** There is one lemma per action.
  `ResolvePendingDomains`, `CloseNow`, `CloseAsync` and `SendQueries` each
  have a lemma for the part of the state they write. `RemoveFirstType`
  shows that `RemoveFirst` (the `find` + `erase` of `close_connection`)
  keeps a sequence of connection ids. `FrontProperties` shows that `Front`
  (`queue.begin()`) picks the smallest queued id; its proof uses the
  well-foundedness of `<` on `Nat`.
- **`ConnectionDiscipline: Spec => []InFlightOnOpenConnection`.** The
  invariant is not inductive alone. `resolve_queue` adds transactions, so
  the proof also needs to know that the loop which adds them only runs
  while the connection is open. The inductive invariant is
  `IInv == TypeOK /\ InFlightOnOpenConnection /\ DrainOnTop`, where
  `DrainOnTop` says that a `resolve_queue` frame is only ever the innermost
  loop on the stack and runs only while `is_open` holds. It holds because
  `resolve_pending_domains` pushes the drain frame on top, and only when
  `is_open` holds or has just been set; the frame pops before the accept
  loop under it continues. TLC checked `IInv` as an invariant of the safety
  run before it was proved. The step proof has one lemma per action. Its
  key lemmas:
  - `ResolvePendingDomainsInFlight`: the caller's `open` flag becomes
    `is_open`, and the resumed frames contain no drain frame;
  - `CloseNowClears`: a synchronous close leaves nothing in flight,
    nothing open and no timer armed.
- **`WorkTimed: Spec => []WorkIsTimed`.** `WorkIsTimed` speaks only of the
  states between tasks, and it is false inside them: `resolve_queue` sends
  transactions in the middle of a loop. The proof therefore uses the
  strengthening `Timed`, which holds in every state. Transactions in flight
  have the armed timeout. Queued entries have the timeout or a pending
  resolve task. A running drain loop has the timeout armed. The last
  conjunct holds because `resolve_pending_domains` arms the timer before it
  pushes the drain. Only `close_connection` disarms it, and that runs from
  an accept or close frame, never under a drain loop (this is where
  `DrainOnTop` from `IInv` is used). `NextTimed` assumes `IInv /\ Timed` and
  has one lemma per action. The shared lemmas are:
  - `ResolvePendingDomainsTimed`: a call that resumes frames with no drain
    loop keeps the work timed;
  - `CloseNowTimed`: a synchronous close empties the queues and the
    transactions;
  - `ShrinkTimed`: a call that only removes work (`cancel`,
    `stop_resolving_queues`) keeps the work timed.
  TLC checked `Timed` on the safety instance before it was proved.

- **`ExactlyOnce: FreshWireIds => (Spec => []ResultAccounting)`**, in
  `DnsResolverAccounting.tla`. `ResultAccounting` counts queued entries and
  in-flight transactions, and counts cannot be carried through a step as
  they stand. The inductive invariant `TypeOK /\ Acc` therefore replaces
  them with the facts that make each count 0 or 1:
  - every cancelled or queued id has been issued;
  - an entry is in at most one of the two queues;
  - no two transactions in flight carry the same (id, type) (`UniqueWire`);
  - for each (id, type), `Count` (queued + on the wire + results) equals
    `Expected`, or is at most `Expected` once cancelled (`Balanced`).

  `MatchCard` turns `UniqueWire` into "the matching transactions number one
  or none", and `AccResult` derives `ResultAccounting` from `Acc`. The step
  proof has one lemma per handler, and each shows that the handler moves a
  request from one place to the next without copying or losing it:
  - `SendQueriesAcc`: `resolve_queue` moves each requested type of the
    front entry onto the wire or fails it at once;
  - `CloseNowAcc`, `StopResolvingAcc` and `StopResolvingQueuesAcc`: these
    fail what they clear, once each (`FailedCount`);
  - `SendAcc`: a reply ends one transaction with one result;
  - `DropStep`/`CancelAcc`: `cancel` only removes;
  - `ResolveAcc`: `resolve` places a fresh id in one queue.

  The hypothesis `FreshWireIds` states that the DNS ids of requests in
  flight are distinct. It is the model's flag for this, set in the safety
  run, and it is needed: run `resolver_id_collision` drops it and TLC finds
  a result lost when `emplace` keeps the older entry. TLC checked `Acc` on
  the safety instance (268,919 states) before it was proved.

Liveness (`AnsweredOnceInboundStops`) is only model-checked: TLAPS cannot
prove liveness under fairness, because the proof involves `ENABLED`.

### DnsManager

The proofs are in `DnsManagerProofs.tla`. They rest on `ManagerAssumption`,
which says only that both bounds are naturals.

- **`TypeCorrect: Spec => []TypeOK`.** The lemma `PrepareType` shows that
  `prepare_system_servers` returns the stored shape.
- **`ServersUsable: Spec => []UsableServers`.** The lemma `PrepareUsable`
  covers two cases. Either a server survives the filter, or the extra
  fallbacks are appended, and the first of them (`tls://1.1.1.1`) is
  usable. Its proof uses `ConcatProperties` from `SequenceTheorems`.
  Nothing other than `set_system_servers` writes the servers.
- **`NoUpdateLost: Spec => []NoLostUpdate`.** `NoLostUpdate` alone is not
  inductive. When the servers change, a subscriber whose marker is set gets
  no new task. The proof therefore also needs `MarkerQueued`: a live
  subscription with its marker set has its task queued. The marker is set
  only together with a submit, and only that task clears it. The inductive
  invariant is `TypeOK /\ NoLostUpdate /\ MarkerQueued`, and TLC checked it
  on the safety instance first.

`EventuallyNotified` is a liveness property, so it is only model-checked.

### QUIC connector

The proofs are in `QuicConnectorProofs.tla`. They rest on `QuicAssumption`,
which says only that the timeouts and the datagram bound are positive
naturals. The invariant `IInv` of the first two theorems does not bound the
numeric fields, so they hold whatever the timer computes, the unit bug
included.

- **`Refinement: Spec => ReportsOnce`.** The connector implements
  `QuicConnectorOutcome` under `reports <- q.handled`. The inductive
  invariant `IInv` says two things. While the connector is *active* (socket
  open, timer armed or report task pending), the handler has heard nothing,
  and `connect` has been called. Once the handler has heard an event, the
  connector is no longer active. The second part is needed because every
  handler that can report is enabled only while the connector is active.
  `do_report` frees the socket and the timer, and `report_task` is never
  reset. So after a report nothing can report again, and `connect` cannot
  be called a second time.
- **`VerifiedReady: Spec => []ReadyMeansEstablished`.** This follows from
  the same invariant, which records that the report task only ever carries
  an error (`task = "pending" => err`). With verification on, READY comes
  only from the ESTABLISHING branch, after `quiche_conn_is_established`.

The proof has one lemma per helper. `ReportError`, `Arm`, `AfterSend`,
`Drive`, `RecvOk` and `Transfer` report nothing. `ReportReady` and the report
task report once and leave nothing active. `ReadFirst` and
`ReadEstablishing` compose these lemmas. `NextIInv` has one step per action.
TLC checked `IInv` on the safety instance before it was proved. TLC checked `IInv` on the safety instance before it was proved.

- **`TypeCorrect: Spec => []TypeOK`.** The bound on the timer's expiry
  (`due` within `0..Timeout*1000`) reflects the unit slip of
  `drive_connection`, which multiplies the remaining time by 1000. It holds
  because the deadline is `Timeout`, and that needs the clock to stand at 0
  when `connect` runs. So the inductive invariant is
  `IInv /\ TypeOK /\ ClockAtConnect`, where `ClockAtConnect` says that no
  time passes before `connect`: the clock advances only under an armed
  timer, and by `IInv` an armed timer means `connect` has been called.
  `DueBound` does the `\div` arithmetic. The `*Rec` lemmas show that each
  helper keeps the connector's record in `QRec`. TLC checked the
  strengthening on the safety instance before it was proved.

The liveness property `EventuallyReported` is only model-checked.

## 5. What is not modelled

- **Re-entrant result handlers** (`raise_result`, line 380). The model
  raises a result as a counter update inside the action. A user handler
  that calls `resolve` or `cancel` while `close_connection` is iterating is
  not modelled. Reading the code shows one consequence of such a call. Say
  a handler calls `resolve()` from a failure that `stop_resolving()`
  raises. `deinit()` (line 102) then clears the queues and the resolve
  task, so that request never gets a result. Modelling this would need the
  handler as an actor with a frame per `raise_result`.
- **Names, encodings and addresses.** Encode and decode failures appear
  only as their effect: a failed send, or a packet ignored with -1.
- **`flow_control_info`, `consume`, `turn_read`,
  `process_client_packets`.** These have no effect on the state.
- **The tunnel itself.** Only the calls it makes into the resolver and the
  events it receives are modelled.
- **`dns_manager_create` and `dns_manager_destroy`.** The model has one
  manager for the whole run. Destroying it while notification tasks are
  still queued would leave `ctx->self` dangling. This is listed as a hazard.
- **`dns_manager_get_system_servers`.** It is a read under the mutex. The
  model folds it into `Notify`, where the subscriber reads `version`.
- **QUIC connector: quiche's internals.** Packets, TLS, loss recovery and
  flow control are reduced to three connection states. The handshake may
  complete on any received datagram. `Pto` stands for
  `quiche_conn_timeout_as_nanos` during the handshake.
- **QUIC connector: `UDP_SOCKET_EVENT_PROTECT`.** It only forwards to the
  handler and changes no state.
- **QUIC connector: the `uint32_t` cast at line 195.** The model keeps
  the division by 1000 but not the 32-bit truncation, which only bites for
  timeouts beyond about 71 minutes, far above the bounds checked.
- **QUIC connector: the event loop's task ids.** `destroy` (line 90)
  cancels `report_task` even after the task ran. The model does not treat
  this as a hazard: nothing in this repository reuses task ids.
- **QUIC connector: establishment on the first datagram** (line 301). With
  verification on, the handler does not check establishment in that
  branch, so READY waits for another datagram. A property that READY
  eventually follows establishment would need to assume the server sends
  one. The code cannot justify that assumption, so this is listed as a
  hazard.
