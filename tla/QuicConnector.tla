---------------------------- MODULE QuicConnector ----------------------------
(***************************************************************************)
(* The QUIC connector of src/net/src/quic_connector.cpp: it opens a UDP    *)
(* socket, starts a quiche client handshake and reports READY (with the    *)
(* socket and the connection handed over) or ERROR to its handler.         *)
(*                                                                         *)
(* Everything runs on one event loop. A socket event, a timer expiry and   *)
(* the deferred report task each run to completion, and a handler calls    *)
(* several helpers in a row; so the connector's state is one record q and  *)
(* each helper maps a state to the set of states it may produce.           *)
(*                                                                         *)
(* Time is in milliseconds. It advances only while the connector's timer  *)
(* is armed: by single milliseconds up to the connect deadline, or straight *)
(* to the timer's expiry.                                                  *)
(***************************************************************************)
EXTENDS Naturals, Sequences

CONSTANTS
    Timeout,        \* QuicConnectorConnectParameters::timeout, in ms
    Pto,            \* quiche_conn_timeout_as_nanos while the handshake runs, in ms
    MaxDatagrams,   \* server datagrams waiting in the socket at once
    MaxGets         \* quic_connector_get_result calls that find a result

ASSUME QuicAssumption ==
    /\ Timeout \in Nat \ {0}
    /\ Pto \in Nat \ {0}
    /\ MaxDatagrams \in Nat \ {0}
    /\ MaxGets \in Nat

NsPerMs == 1000 * 1000

Socks   == {"none", "open", "gone"}      \* socket: null, live, destroyed or released
Conns   == {"none", "handshaking", "established", "closed"}   \* quiche_conn
Timers  == {"none", "idle", "armed"}     \* timer: null, created, pending
States  == {"IDLE", "ESTABLISHING", "ESTABLISHED"}   \* connection_state
Tasks   == {"none", "pending", "ran"}    \* report_task: -1, submitted, run
Events  == {"ready", "error"}

VARIABLES
    now,         \* ms since the connector was created
    q,           \* the QuicConnector, its quiche connection and its socket
    connectRet,  \* what quic_connector_connect returned
    handed,      \* results quic_connector_get_result has returned
    destroyed    \* quic_connector_destroy was called

vars == <<now, q, connectRet, handed, destroyed>>

MinOf(a, b) == IF a <= b THEN a ELSE b

-----------------------------------------------------------------------------
(* Reporting *)

\* do_report: an error frees the connection and the socket; success hands
\* them over in the result. Either way the timer is freed and the handler
\* is called.
DoReport(c) ==
    IF c.err
    THEN [c EXCEPT !.timer = "none", !.conn = "none", !.sock = "gone",
                   !.handled = Append(@, "error")]
    ELSE [c EXCEPT !.timer = "none", !.result = "held", !.resultConn = c.conn,
                   !.conn = "none", !.sock = "gone",
                   !.handled = Append(@, "ready")]

\* report_error: unless a report is under way, record the error and defer
\* the report to a task.
ReportError(c) ==
    IF c.task # "none" THEN c
    ELSE [c EXCEPT !.err = TRUE, !.task = "pending"]

\* Mutant: report_ready without the report_task check.
ReportReadyUnguarded(c) == DoReport(c)

\* report_ready: unless a report is under way, report at once.
ReportReady(c) ==
    IF c.task # "none" THEN c ELSE DoReport(c)

-----------------------------------------------------------------------------
(* drive_connection *)

Remaining(c) == c.deadline - now

\* min(timeout_ns, quiche_conn_timeout_as_nanos): quiche has no timeout
\* (UINT64_MAX) once the connection is closed.
TimerTimeoutNs(c) ==
    IF c.conn = "closed" THEN Remaining(c) * NsPerMs
    ELSE MinOf(Remaining(c) * NsPerMs, Pto * NsPerMs)

\* Mutant: the nanoseconds are passed on without the division.
ArmNoDivide(c) ==
    [c EXCEPT !.timer = "armed", !.due = now + TimerTimeoutNs(c)]

\* timeout_ms = ns / 1000, then evtimer_add(ms_to_timeval(timeout_ms)).
Arm(c) ==
    [c EXCEPT !.timer = "armed", !.due = now + TimerTimeoutNs(c) \div 1000]

\* Mutant: the timer is re-armed only when something was sent.
AfterSendArmsOnlyIfSent(c, sent) ==
    IF sent THEN Arm([c EXCEPT !.flight = TRUE]) ELSE c

\* After the send loop: the datagrams quiche produced are on the wire and
\* the timer is re-armed.
AfterSend(c, sent) ==
    Arm([c EXCEPT !.flight = c.flight \/ sent])

\* quiche_conn_send produces datagrams unless the connection is closed.
Sends(c) == IF c.conn = "closed" THEN {FALSE} ELSE BOOLEAN

\* drive_connection: the deadline check, then quiche_conn_send and
\* udp_socket_write until QUICHE_ERR_DONE (either may fail), then the timer.
Drive(c) ==
    IF Remaining(c) <= 0 THEN {ReportError(c)}
    ELSE {ReportError(c)} \cup {AfterSend(c, sent) : sent \in Sends(c)}

-----------------------------------------------------------------------------
(* Feeding quiche *)

\* quiche_conn_recv succeeded; the handshake may have completed.
RecvOk(c) ==
    CASE c.conn = "handshaking" -> {c, [c EXCEPT !.conn = "established"]}
      [] c.conn = "established" -> {c}
      [] OTHER -> {}

\* transfer_data_to_quiche_conn of one datagram, as seen by the caller
\* that reports its failure.
Transfer(c) == {ReportError(c)} \cup RecvOk(c)

\* Mutant: a connection that is not closed counts as established.
IsEstablishedNotClosed(c) == c.conn \in {"handshaking", "established"}

\* quiche_conn_is_established
IsEstablished(c) == c.conn = "established"

\* The part of the READABLE handler for a first datagram already read:
\* hand the raw datagram off, or feed it to quiche and continue.
ReadFirst(r) ==
    IF ~r.verify THEN {ReportReady(r)}
    ELSE {[d EXCEPT !.state = "ESTABLISHING"] :
            d \in UNION {Drive(t) : t \in Transfer(r)}}

\* The part of the READABLE handler while ESTABLISHING:
\* process_incoming_quic_packets reads the socket dry into quiche, then the
\* connection is driven and reported once established.
ReadEstablishing(c) ==
    LET failed == {ReportError([c EXCEPT !.readable = k]) : k \in 0..c.readable}
        fed    == RecvOk([c EXCEPT !.readable = 0])
        driven == UNION {Drive(f) : f \in fed}
    IN  failed \cup
        {IF IsEstablished(d) THEN ReportReady([d EXCEPT !.state = "ESTABLISHED"])
         ELSE d : d \in driven}

-----------------------------------------------------------------------------
(* Calls and events *)

Live == ~destroyed

\* quic_connector_connect: a failure after the socket exists returns an
\* error and leaves the socket (and maybe the timer) in place; success sets
\* the deadline and drives the connection.
Connect ==
    /\ Live
    /\ connectRet = "none"
    /\ \/ /\ connectRet' = "error"       \* udp_socket_create failed
          /\ UNCHANGED q
       \/ /\ connectRet' = "error"       \* config, RAND_bytes, timer or conn failed
          /\ \E t \in {"none", "idle"} : q' = [q EXCEPT !.sock = "open", !.timer = t]
       \/ /\ connectRet' = "ok"
          /\ q' \in Drive([q EXCEPT !.sock = "open", !.timer = "idle",
                                    !.conn = "handshaking",
                                    !.deadline = now + Timeout])
    /\ UNCHANGED <<now, handed, destroyed>>

\* socket_handler(UDP_SOCKET_EVENT_READABLE)
SocketReadable ==
    /\ Live
    /\ q.sock = "open"
    /\ q.readable > 0
    /\ IF q.verify /\ q.state = "ESTABLISHING"
       THEN q' \in ReadEstablishing(q)
       ELSE \/ q' = ReportError(q)                  \* udp_socket_recv < 0
            \/ q' \in ReadFirst([q EXCEPT !.readable = @ - 1])
    /\ UNCHANGED <<now, connectRet, handed, destroyed>>

\* socket_handler(UDP_SOCKET_EVENT_TIMEOUT)
SocketTimeout ==
    /\ Live
    /\ q.sock = "open"
    /\ q' = ReportError(q)
    /\ UNCHANGED <<now, connectRet, handed, destroyed>>

\* on_timer: quiche_conn_on_timeout (which may close the connection on its
\* idle timeout), then drive_connection.
OnTimer ==
    /\ Live
    /\ q.timer = "armed"
    /\ now >= q.due
    /\ \E cl \in IF q.conn = "closed" THEN {"closed"} ELSE {q.conn, "closed"} :
          q' \in Drive([q EXCEPT !.timer = "idle", !.conn = cl])
    /\ UNCHANGED <<now, connectRet, handed, destroyed>>

\* The task report_error submitted.
RunReportTask ==
    /\ Live
    /\ q.task = "pending"
    /\ q' = [DoReport(q) EXCEPT !.task = "ran"]
    /\ UNCHANGED <<now, connectRet, handed, destroyed>>

\* quic_connector_get_result returns std::move(result): the optional stays
\* engaged.
GetResult ==
    /\ Live
    /\ q.result = "held"
    /\ handed < MaxGets
    /\ handed' = handed + 1
    /\ UNCHANGED <<now, q, connectRet, destroyed>>

\* quic_connector_destroy: cancels the report task and frees everything.
Destroy ==
    /\ Live
    /\ destroyed' = TRUE
    /\ UNCHANGED <<now, q, connectRet, handed>>

-----------------------------------------------------------------------------
(* The server and the network *)

\* The server answers the client's latest flight with a datagram.
ServerReply ==
    /\ q.flight
    /\ q.sock = "open"
    /\ q.readable < MaxDatagrams
    /\ q' = [q EXCEPT !.flight = FALSE, !.readable = @ + 1]
    /\ UNCHANGED <<now, connectRet, handed, destroyed>>

\* The flight or its answer is lost.
LoseFlight ==
    /\ q.flight
    /\ q' = [q EXCEPT !.flight = FALSE]
    /\ UNCHANGED <<now, connectRet, handed, destroyed>>

\* Time passes, at most up to the timer's expiry.
Tick ==
    /\ Live
    /\ q.timer = "armed"
    /\ now < q.due
    /\ \E t \in (0..q.deadline) \cup {q.due} : t > now /\ t <= q.due /\ now' = t
    /\ UNCHANGED <<q, connectRet, handed, destroyed>>

-----------------------------------------------------------------------------

\* quic_connector_create with verify_certificate on or off.
Init ==
    /\ now = 0
    /\ q \in [verify : BOOLEAN, sock : {"none"}, conn : {"none"},
              timer : {"none"}, due : {0}, deadline : {0}, state : {"IDLE"},
              task : {"none"}, err : {FALSE}, result : {"none"},
              resultConn : {"none"}, handled : {<<>>}, flight : {FALSE},
              readable : {0}]
    /\ connectRet = "none"
    /\ handed = 0
    /\ destroyed = FALSE

Next ==
    \/ Connect \/ SocketReadable \/ SocketTimeout \/ OnTimer \/ RunReportTask
    \/ GetResult \/ Destroy
    \/ ServerReply \/ LoseFlight \/ Tick

\* libevent fires an expired timer and runs a submitted task; time passes.
\* Nothing is assumed of the server, the network or the caller.
Fairness == WF_vars(OnTimer) /\ WF_vars(RunReportTask) /\ WF_vars(Tick)

Spec == Init /\ [][Next]_vars
FairSpec == Spec /\ Fairness

-----------------------------------------------------------------------------
(* Properties *)

TypeOK ==
    /\ now \in Nat
    /\ q \in [verify : BOOLEAN, sock : Socks, conn : Conns, timer : Timers,
              due : 0..(Timeout * 1000), deadline : 0..Timeout,
              state : States, task : Tasks, err : BOOLEAN,
              result : {"none", "held"}, resultConn : Conns,
              handled : Seq(Events), flight : BOOLEAN,
              readable : 0..MaxDatagrams]
    /\ connectRet \in {"none", "ok", "error"}
    /\ handed \in 0..MaxGets
    /\ destroyed \in BOOLEAN

\* The connector implements QuicConnectorOutcome: whatever the socket, the
\* timer, quiche and the report task do, and in whatever order, the handler
\* gets READY or ERROR at most once (report_task guards both report_error
\* and report_ready).
Outcome == INSTANCE QuicConnectorOutcome WITH reports <- q.handled

ReportsOnce == Outcome!Spec

\* With verify_certificate on, READY hands over a quiche connection whose
\* handshake has completed.
ReadyMeansEstablished ==
    (q.verify /\ \E i \in DOMAIN q.handled : q.handled[i] = "ready")
        => q.resultConn = "established"

\* Once connect has succeeded, the handler eventually hears the outcome
\* (unless the connector is destroyed first), even if every datagram is
\* lost: the timer keeps firing until the deadline.
EventuallyReported ==
    connectRet = "ok" ~> (q.handled # <<>> \/ destroyed)

\* drive_connection arms the timer for min(time to the deadline, quiche's
\* timeout), so it never fires after the connect deadline.
TimerWithinDeadline ==
    q.timer = "armed" => q.due <= q.deadline

\* The caller learns the outcome of a connect once: a connect that returned
\* an error is not followed by an ERROR event.
OneOutcome ==
    connectRet = "error" => q.handled = <<>>

\* The socket and the connection of a READY result go to one owner.
SingleHandoff == handed <= 1

=============================================================================
