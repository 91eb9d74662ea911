------------------------- MODULE QuicConnectorProofs -------------------------
(***************************************************************************)
(* Proofs about the QUIC connector of src/net/src/quic_connector.cpp, for  *)
(* every connect timeout, quiche timeout and number of buffered datagrams: *)
(* the connector refines QuicConnectorOutcome, and with verification on a  *)
(* READY result holds an established connection.                           *)
(*                                                                         *)
(* Each helper of the model is shown to leave the handler unreported, or,  *)
(* for report_ready and the report task, to report once and leave nothing  *)
(* active; the handlers compose them.                                      *)
(***************************************************************************)
EXTENDS QuicConnector, SequenceTheorems, TLAPS

\* The connector record with its fields' types; the numeric fields are not
\* bounded, so the proofs hold whatever the timer computes.
Shape == [verify : BOOLEAN, sock : Socks, conn : Conns, timer : Timers,
          due : Int, deadline : Int, state : States, task : Tasks,
          err : BOOLEAN, result : {"none", "held"}, resultConn : Conns,
          handled : Seq(Events), flight : BOOLEAN, readable : Nat]

\* A record in which nothing has been reported yet.
Fresh(d) == /\ d \in Shape
            /\ d.task = "pending" => d.err
            /\ d.handled = <<>>

\* d is fresh and has c's verify_certificate.
Same(c, d) == Fresh(d) /\ d.verify = c.verify

-----------------------------------------------------------------------------
(* The helpers *)

\* report_error only records the error and submits the task.
LEMMA ReportErrorFresh ==
    ASSUME NEW c, Fresh(c)
    PROVE  Same(c, ReportError(c))
<1>1. CASE c.task # "none"
  BY <1>1 DEF ReportError, Same
<1>2. CASE c.task = "none"
  <2>1. ReportError(c) = [c EXCEPT !.err = TRUE, !.task = "pending"]
    BY <1>2 DEF ReportError
  <2>. QED  BY <2>1, ZenonT(60) DEF Same, Fresh, Shape, Tasks
<1>. QED  BY <1>1, <1>2

\* The timer expiry drive_connection computes is an integer.
LEMMA DueInt ==
    ASSUME NEW c \in Shape, now \in Int
    PROVE  now + TimerTimeoutNs(c) \div 1000 \in Int
BY QuicAssumption DEF TimerTimeoutNs, Remaining, MinOf, NsPerMs, Shape

\* Arming the timer reports nothing.
LEMMA ArmFresh ==
    ASSUME NEW c, Fresh(c), now \in Int
    PROVE  Same(c, Arm(c))
<1>1. PICK x \in Int : x = now + TimerTimeoutNs(c) \div 1000
  BY DueInt DEF Fresh
<1>2. Arm(c) = [c EXCEPT !.timer = "armed", !.due = x]
  BY <1>1 DEF Arm
<1>. QED  BY <1>2, ZenonT(60) DEF Same, Fresh, Shape, Timers

\* The send loop of drive_connection reports nothing by itself.
LEMMA AfterSendFresh ==
    ASSUME NEW c, Fresh(c), now \in Int, NEW sent \in BOOLEAN
    PROVE  Same(c, AfterSend(c, sent))
<1>1. Fresh([c EXCEPT !.flight = c.flight \/ sent])
      /\ [c EXCEPT !.flight = c.flight \/ sent].verify = c.verify
  BY ZenonT(60) DEF Fresh, Shape
<1>. QED  BY <1>1, ArmFresh DEF AfterSend, Same

\* drive_connection reports nothing at once: its errors go through the
\* task.
LEMMA DriveFresh ==
    ASSUME NEW c, Fresh(c), now \in Int
    PROVE  \A d \in Drive(c) : Same(c, d)
BY ReportErrorFresh, AfterSendFresh DEF Drive, Sends

\* quiche_conn_recv reports nothing.
LEMMA RecvOkFresh ==
    ASSUME NEW c, Fresh(c)
    PROVE  \A d \in RecvOk(c) : Same(c, d)
<1>1. Same(c, [c EXCEPT !.conn = "established"])
  BY ZenonT(60) DEF Same, Fresh, Shape, Conns
<1>2. Same(c, c)
  BY DEF Same
<1>. QED  BY <1>1, <1>2 DEF RecvOk

\* transfer_data_to_quiche_conn and the report of its failure report
\* nothing at once.
LEMMA TransferFresh ==
    ASSUME NEW c, Fresh(c)
    PROVE  \A d \in Transfer(c) : Same(c, d)
BY ReportErrorFresh, RecvOkFresh DEF Transfer

\* A record after the report: the handler has its one event, and nothing
\* is left to report again.
Reported(d) ==
    /\ d.handled \in {<<"ready">>, <<"error">>}
    /\ d.sock # "open" /\ d.timer # "armed" /\ d.task # "pending"
    /\ (d.verify /\ d.handled = <<"ready">>) => d.resultConn = "established"

\* d is what a handler may leave behind, started from c.
Ok(c, d) ==
    /\ d \in Shape
    /\ d.verify = c.verify
    /\ d.task = "pending" => d.err
    /\ d.handled = <<>> \/ Reported(d)

\* A record that has reported nothing is a possible outcome of a handler.
LEMMA FreshOk ==
    ASSUME NEW c, NEW d, Same(c, d)
    PROVE  Ok(c, d)
BY DEF Same, Fresh, Ok

\* report_ready reports once and frees the socket and the timer, or does
\* nothing while a task is pending.
LEMMA ReportReadyOk ==
    ASSUME NEW c, Fresh(c), c.verify => c.conn = "established"
    PROVE  Ok(c, ReportReady(c))
<1>1. CASE c.task # "none"
  BY <1>1, FreshOk DEF ReportReady, Same
<1>2. CASE c.task = "none"
  <2>1. CASE c.err
    <3> DEFINE d == [c EXCEPT !.timer = "none", !.conn = "none", !.sock = "gone",
                              !.handled = Append(c.handled, "error")]
    <3>1. ReportReady(c) = d
      BY <1>2, <2>1 DEF ReportReady, DoReport
    <3>2. Append(c.handled, "error") = <<"error">> /\ <<"error">> \in Seq(Events)
      BY DEF Fresh, Events
    <3>3. d \in Shape /\ d.verify = c.verify /\ d.task = "none"
          /\ d.sock = "gone" /\ d.timer = "none"
      BY <1>2, <3>2, ZenonT(60) DEF Fresh, Shape, Socks, Conns, Timers, Events
    <3>4. d.handled = <<"error">>
      BY <3>2, ZenonT(60) DEF Fresh, Shape
    <3>. QED  BY <3>1, <3>3, <3>4 DEF Ok, Reported
  <2>2. CASE ~c.err
    <3> DEFINE d == [c EXCEPT !.timer = "none", !.result = "held",
                              !.resultConn = c.conn, !.conn = "none",
                              !.sock = "gone",
                              !.handled = Append(c.handled, "ready")]
    <3>1. ReportReady(c) = d
      BY <1>2, <2>2 DEF ReportReady, DoReport
    <3>2. Append(c.handled, "ready") = <<"ready">> /\ <<"ready">> \in Seq(Events)
      BY DEF Fresh, Events
    <3>3. d \in Shape /\ d.verify = c.verify /\ d.task = "none"
          /\ d.sock = "gone" /\ d.timer = "none" /\ d.resultConn = c.conn
      BY <1>2, <3>2, ZenonT(60) DEF Fresh, Shape, Socks, Conns, Timers, Events
    <3>4. d.handled = <<"ready">>
      BY <3>2, ZenonT(60) DEF Fresh, Shape
    <3>. QED  BY <3>1, <3>3, <3>4 DEF Ok, Reported
  <2>. QED  BY <2>1, <2>2
<1>. QED  BY <1>1, <1>2

\* The report task reports the recorded error once.
LEMMA TaskReportOk ==
    ASSUME NEW c, Fresh(c), c.task = "pending"
    PROVE  Ok(c, [DoReport(c) EXCEPT !.task = "ran"])
<1> DEFINE d == [[c EXCEPT !.timer = "none", !.conn = "none", !.sock = "gone",
                           !.handled = Append(c.handled, "error")]
                 EXCEPT !.task = "ran"]
<1>1. c.err
  BY DEF Fresh
<1>2. [DoReport(c) EXCEPT !.task = "ran"] = d
  BY <1>1 DEF DoReport
<1>3. Append(c.handled, "error") = <<"error">> /\ <<"error">> \in Seq(Events)
  BY DEF Fresh, Events
<1>4. d \in Shape /\ d.verify = c.verify /\ d.task = "ran"
      /\ d.sock = "gone" /\ d.timer = "none"
  BY <1>3, ZenonT(60) DEF Fresh, Shape, Socks, Conns, Timers, Tasks
<1>5. d.handled = <<"error">>
  BY <1>3, ZenonT(60) DEF Fresh, Shape
<1>6. Ok(c, d)
  <2>1. <<"error">> # <<"ready">>
    OBVIOUS
  <2>. QED  BY <1>4, <1>5, <2>1 DEF Ok, Reported
<1>. QED  BY <1>2, <1>6

\* The READABLE handler on a first datagram, in either verify mode.
LEMMA ReadFirstOk ==
    ASSUME NEW r, Fresh(r), now \in Int
    PROVE  \A d \in ReadFirst(r) : Ok(r, d)
<1>1. CASE ~r.verify
  BY <1>1, ReportReadyOk DEF ReadFirst
<1>2. CASE r.verify
  <2> SUFFICES ASSUME NEW t \in Transfer(r), NEW e \in Drive(t)
               PROVE  Ok(r, [e EXCEPT !.state = "ESTABLISHING"])
    BY <1>2 DEF ReadFirst
  <2>1. Same(r, t)
    BY TransferFresh
  <2>2. Same(r, e)
    BY <2>1, DriveFresh DEF Same
  <2>3. Same(r, [e EXCEPT !.state = "ESTABLISHING"])
    BY <2>2, ZenonT(60) DEF Same, Fresh, Shape, States
  <2>. QED  BY <2>3, FreshOk
<1>. QED  BY <1>1, <1>2

\* The READABLE handler while ESTABLISHING reports READY only once
\* quiche_conn_is_established holds.
LEMMA ReadEstablishingOk ==
    ASSUME NEW c, Fresh(c), now \in Int
    PROVE  \A d \in ReadEstablishing(c) : Ok(c, d)
<1>1. ASSUME NEW k \in 0..c.readable
      PROVE  Ok(c, ReportError([c EXCEPT !.readable = k]))
  <2>0. k \in Nat
    BY DEF Fresh, Shape
  <2>1. Same(c, [c EXCEPT !.readable = k])
    BY <2>0, ZenonT(60) DEF Same, Fresh, Shape
  <2>2. Same(c, ReportError([c EXCEPT !.readable = k]))
    BY <2>1, ReportErrorFresh DEF Same
  <2>. QED  BY <2>2, FreshOk
<1>2. ASSUME NEW f \in RecvOk([c EXCEPT !.readable = 0]), NEW e \in Drive(f)
      PROVE  Ok(c, IF IsEstablished(e)
                   THEN ReportReady([e EXCEPT !.state = "ESTABLISHED"]) ELSE e)
  <2>0. 0 \in Nat
    OBVIOUS
  <2>1. Same(c, [c EXCEPT !.readable = 0])
    BY <2>0, ZenonT(60) DEF Same, Fresh, Shape
  <2>2. Same(c, e)
    BY <2>1, RecvOkFresh, DriveFresh DEF Same
  <2>3. CASE IsEstablished(e)
    <3> DEFINE g == [e EXCEPT !.state = "ESTABLISHED"]
    <3>1. Same(c, g) /\ g.conn = e.conn
      BY <2>2, ZenonT(60) DEF Same, Fresh, Shape, States
    <3>2. g.conn = "established"
      BY <2>3, <3>1 DEF IsEstablished
    <3>3. Ok(g, ReportReady(g))
      BY <3>1, <3>2, ReportReadyOk DEF Same
    <3>. QED  BY <2>3, <3>1, <3>3 DEF Ok, Same
  <2>4. CASE ~IsEstablished(e)
    BY <2>2, <2>4, FreshOk
  <2>. QED  BY <2>3, <2>4
<1>. QED  BY <1>1, <1>2 DEF ReadEstablishing

-----------------------------------------------------------------------------
\* The connector still owns something that can make it report.
Active(c) == c.sock = "open" \/ c.timer = "armed" \/ c.task = "pending"

\* The inductive invariant: while the connector is active the handler has
\* heard nothing and connect has been called; once it has heard something
\* it stays reported. Checked by TLC on the safety instance first.
IInv ==
    /\ now \in Int
    /\ connectRet \in {"none", "ok", "error"}
    /\ q \in Shape
    /\ q.task = "pending" => q.err
    /\ Active(q) => q.handled = <<>> /\ connectRet # "none"
    /\ q.handled = <<>> \/ (Reported(q) /\ connectRet # "none")

\* What a step does to the handler's events: nothing, or the first one.
HandledStep ==
    \/ q.handled' = q.handled
    \/ q.handled = <<>> /\ q.handled' \in {<<"ready">>, <<"error">>}

\* quic_connector_create starts in the invariant.
LEMMA InitIInv == Init => IInv
<1> SUFFICES ASSUME Init PROVE IInv
  OBVIOUS
<1>1. /\ q.sock = "none" /\ q.timer = "none" /\ q.task = "none"
      /\ q.handled = <<>> /\ now = 0 /\ connectRet = "none"
  BY DEF Init
<1>2. <<>> \in Seq(Events) /\ 0 \in Int /\ 0 \in Nat
  OBVIOUS
<1>3. q \in Shape
  BY <1>2, ZenonT(60) DEF Init, Shape, Socks, Conns, Timers, States, Tasks
<1>. QED  BY <1>1, <1>3 DEF IInv, Active

\* A step of a handler that ran while the connector was active.
LEMMA OkStep ==
    ASSUME IInv, Active(q), Ok(q, q'), connectRet' = connectRet, now' = now
    PROVE  IInv' /\ HandledStep
BY DEF IInv, Ok, Reported, Active, HandledStep

\* A step that leaves the connector as it is.
LEMMA QuietStep ==
    ASSUME IInv, q' = q, connectRet' = connectRet, now' \in Int
    PROVE  IInv' /\ HandledStep
BY DEF IInv, Reported, Active, HandledStep

\* Every handler, call and event of the environment keeps the invariant and
\* adds at most the first event.
LEMMA NextIInv == IInv /\ [Next]_vars => IInv' /\ HandledStep
<1> SUFFICES ASSUME IInv, [Next]_vars PROVE IInv' /\ HandledStep
  OBVIOUS
<1>1. CASE Connect
  <2>1. ~Active(q) /\ q.handled = <<>>
    BY <1>1 DEF Connect, IInv, Reported
  <2>2. Fresh(q)
    BY <2>1 DEF IInv, Fresh
  <2>3. CASE UNCHANGED q /\ connectRet' = "error"
    BY <1>1, <2>1, <2>3 DEF Connect, IInv, Active, HandledStep
  <2>4. ASSUME NEW t \in {"none", "idle"},
               q' = [q EXCEPT !.sock = "open", !.timer = t], connectRet' = "error"
        PROVE  IInv' /\ HandledStep
    <3>1. Same(q, [q EXCEPT !.sock = "open", !.timer = t])
      BY <2>2, ZenonT(60) DEF Same, Fresh, Shape, Socks, Timers
    <3>. QED  BY <1>1, <2>4, <3>1 DEF Connect, IInv, Same, Fresh, HandledStep
  <2>5. ASSUME connectRet' = "ok",
               q' \in Drive([q EXCEPT !.sock = "open", !.timer = "idle",
                                      !.conn = "handshaking",
                                      !.deadline = now + Timeout])
        PROVE  IInv' /\ HandledStep
    <3>0. now + Timeout \in Int
      BY QuicAssumption DEF IInv
    <3>1. Same(q, [q EXCEPT !.sock = "open", !.timer = "idle",
                            !.conn = "handshaking", !.deadline = now + Timeout])
      BY <2>2, <3>0, ZenonT(60) DEF Same, Fresh, Shape, Socks, Timers, Conns
    <3>2. Same(q, q')
      BY <2>5, <3>1, DriveFresh DEF Same, IInv
    <3>. QED  BY <1>1, <2>5, <3>2 DEF Connect, IInv, Same, Fresh, HandledStep
  <2>. QED  BY <1>1, <2>3, <2>4, <2>5 DEF Connect
<1>2. CASE SocketReadable
  <2>1. Active(q) /\ Fresh(q)
    BY <1>2 DEF SocketReadable, IInv, Active, Fresh
  <2>2. Ok(q, q')
    <3>1. CASE q.verify /\ q.state = "ESTABLISHING"
      BY <1>2, <2>1, <3>1, ReadEstablishingOk DEF SocketReadable, IInv
    <3>2. CASE ~(q.verify /\ q.state = "ESTABLISHING") /\ q' = ReportError(q)
      BY <2>1, <3>2, ReportErrorFresh, FreshOk
    <3>3. CASE ~(q.verify /\ q.state = "ESTABLISHING")
               /\ q' \in ReadFirst([q EXCEPT !.readable = @ - 1])
      <4>1. q.readable - 1 \in Nat
        BY <1>2 DEF SocketReadable, IInv, Shape
      <4>2. Same(q, [q EXCEPT !.readable = q.readable - 1])
        BY <2>1, <4>1, ZenonT(60) DEF Same, Fresh, Shape
      <4>3. Ok([q EXCEPT !.readable = q.readable - 1], q')
        BY <3>3, <4>2, ReadFirstOk DEF Same, IInv
      <4>. QED  BY <4>2, <4>3 DEF Ok, Same
    <3>. QED  BY <1>2, <3>1, <3>2, <3>3 DEF SocketReadable
  <2>. QED  BY <1>2, <2>1, <2>2, OkStep DEF SocketReadable
<1>3. CASE SocketTimeout
  <2>1. Active(q) /\ Fresh(q)
    BY <1>3 DEF SocketTimeout, IInv, Active, Fresh
  <2>2. Ok(q, q')
    BY <1>3, <2>1, ReportErrorFresh, FreshOk DEF SocketTimeout
  <2>. QED  BY <1>3, <2>1, <2>2, OkStep DEF SocketTimeout
<1>4. CASE OnTimer
  <2>1. Active(q) /\ Fresh(q)
    BY <1>4 DEF OnTimer, IInv, Active, Fresh
  <2>2. PICK cl \in Conns : q' \in Drive([q EXCEPT !.timer = "idle", !.conn = cl])
    BY <1>4 DEF OnTimer, IInv, Shape, Conns
  <2>3. Same(q, [q EXCEPT !.timer = "idle", !.conn = cl])
    BY <2>1, ZenonT(60) DEF Same, Fresh, Shape, Timers
  <2>4. Ok(q, q')
    BY <2>2, <2>3, DriveFresh, FreshOk DEF Same, IInv
  <2>. QED  BY <1>4, <2>1, <2>4, OkStep DEF OnTimer
<1>5. CASE RunReportTask
  <2>1. Active(q) /\ Fresh(q)
    BY <1>5 DEF RunReportTask, IInv, Active, Fresh
  <2>2. Ok(q, q')
    BY <1>5, <2>1, TaskReportOk DEF RunReportTask
  <2>. QED  BY <1>5, <2>1, <2>2, OkStep DEF RunReportTask
<1>6. CASE GetResult \/ Destroy \/ Tick \/ UNCHANGED vars
  <2>1. now' \in Int
    BY <1>6 DEF GetResult, Destroy, Tick, vars, IInv, Shape
  <2>. QED  BY <1>6, <2>1, QuietStep DEF GetResult, Destroy, Tick, vars
<1>7. CASE ServerReply
  <2>1. Active(q) /\ Fresh(q)
    BY <1>7 DEF ServerReply, IInv, Active, Fresh
  <2>2. q.readable + 1 \in Nat
    BY DEF IInv, Shape
  <2>3. Same(q, [q EXCEPT !.flight = FALSE, !.readable = q.readable + 1])
    BY <2>1, <2>2, ZenonT(60) DEF Same, Fresh, Shape
  <2>. QED  BY <1>7, <2>1, <2>3, FreshOk, OkStep DEF ServerReply
<1>8. CASE LoseFlight
  <2> DEFINE d == [q EXCEPT !.flight = FALSE]
  <2>1. /\ d \in Shape
        /\ d.handled = q.handled /\ d.sock = q.sock /\ d.timer = q.timer
        /\ d.task = q.task /\ d.err = q.err /\ d.verify = q.verify
        /\ d.resultConn = q.resultConn
    BY ZenonT(60) DEF IInv, Shape
  <2>. QED  BY <1>8, <2>1 DEF LoseFlight, IInv, Active, Reported, HandledStep
<1>. QED  BY <1>1, <1>2, <1>3, <1>4, <1>5, <1>6, <1>7, <1>8 DEF Next

\* The connector implements QuicConnectorOutcome: the handler hears READY
\* or ERROR at most once, because every report leaves nothing active that
\* could report again (report_task, the freed socket and timer).
THEOREM Refinement == Spec => ReportsOnce
<1>1. Init => IInv /\ Outcome!Init
  BY InitIInv DEF Init, Outcome!Init
<1>2. IInv /\ [Next]_vars => IInv'
  BY NextIInv
<1>3. IInv /\ [Next]_vars => [Outcome!Next]_(q.handled)
  <2> SUFFICES ASSUME IInv, [Next]_vars PROVE [Outcome!Next]_(q.handled)
    OBVIOUS
  <2>1. HandledStep
    BY NextIInv
  <2>. QED  BY <2>1 DEF HandledStep, Outcome!Next, Outcome!Report, Outcome!Outcomes
<1>. QED  BY <1>1, <1>2, <1>3, PTL DEF Spec, ReportsOnce, Outcome!Spec

\* With verify_certificate on, READY hands over a connection whose
\* handshake completed: report_ready is reached only after
\* quiche_conn_is_established, and the report task reports only errors.
THEOREM VerifiedReady == Spec => []ReadyMeansEstablished
<1>1. IInv => ReadyMeansEstablished
  BY DEF IInv, Reported, ReadyMeansEstablished
<1>. QED  BY <1>1, InitIInv, NextIInv, PTL DEF Spec

-----------------------------------------------------------------------------
(* Type correctness                                                          *)
(*                                                                           *)
(* TypeOK bounds the timer's expiry by Timeout * 1000 ms: the unit slip of   *)
(* drive_connection multiplies the remaining time by 1000, so that is as far *)
(* as the expiry goes. The bound rests on the deadline being Timeout, which  *)
(* needs the clock to stand at 0 when connect runs: time passes only under   *)
(* an armed timer, and the timer is armed only after connect.                *)

\* The ranges TypeOK gives the timer's expiry, the deadline and the
\* datagrams waiting in the socket.
DueRange == 0..(Timeout * 1000)
DeadlineRange == 0..Timeout
ReadableRange == 0..MaxDatagrams

\* The connector's record as TypeOK bounds it.
QRec == [verify : BOOLEAN, sock : Socks, conn : Conns, timer : Timers,
         due : DueRange, deadline : DeadlineRange,
         state : States, task : Tasks, err : BOOLEAN,
         result : {"none", "held"}, resultConn : Conns,
         handled : Seq(Events), flight : BOOLEAN,
         readable : ReadableRange]

\* No time passes before quic_connector_connect.
ClockAtConnect == connectRet = "none" => now = 0

\* report_error keeps the record's bounds.
LEMMA ReportErrorRec ==
    ASSUME NEW c \in QRec
    PROVE  ReportError(c) \in QRec
<1>1. CASE c.task # "none"
  BY <1>1 DEF ReportError
<1>2. CASE c.task = "none"
  <2>1. ReportError(c) = [c EXCEPT !.err = TRUE, !.task = "pending"]
    BY <1>2 DEF ReportError
  <2>. QED  BY <2>1, ZenonT(60) DEF QRec, Tasks
<1>. QED  BY <1>1, <1>2

\* do_report keeps the record's bounds, and so does the report task.
LEMMA DoReportRec ==
    ASSUME NEW c \in QRec
    PROVE  /\ DoReport(c) \in QRec
           /\ [DoReport(c) EXCEPT !.task = "ran"] \in QRec
<1>1. Append(c.handled, "error") \in Seq(Events)
      /\ Append(c.handled, "ready") \in Seq(Events)
  BY DEF QRec, Events
<1>2. DoReport(c) \in QRec
  <2>1. CASE c.err
    <3>1. DoReport(c) = [c EXCEPT !.timer = "none", !.conn = "none", !.sock = "gone",
                                  !.handled = Append(c.handled, "error")]
      BY <2>1 DEF DoReport
    <3>. QED  BY <1>1, <3>1, ZenonT(60) DEF QRec, Timers, Conns, Socks
  <2>2. CASE ~c.err
    <3>1. DoReport(c) = [c EXCEPT !.timer = "none", !.result = "held",
                                  !.resultConn = c.conn, !.conn = "none",
                                  !.sock = "gone",
                                  !.handled = Append(c.handled, "ready")]
      BY <2>2 DEF DoReport
    <3>. QED  BY <1>1, <3>1, ZenonT(60) DEF QRec, Timers, Conns, Socks
  <2>. QED  BY <2>1, <2>2
<1>. QED  BY <1>2, ZenonT(60) DEF QRec, Tasks

\* report_ready keeps the record's bounds.
LEMMA ReportReadyRec ==
    ASSUME NEW c \in QRec
    PROVE  ReportReady(c) \in QRec
BY DoReportRec DEF ReportReady

\* The expiry drive_connection arms lies between the clock and
\* Timeout * 1000, as long as the deadline has not passed.
LEMMA DueBound ==
    ASSUME NEW c \in QRec, now \in Nat, Remaining(c) > 0
    PROVE  now + TimerTimeoutNs(c) \div 1000 \in DueRange
<1>1. c.deadline \in 0..Timeout /\ now < c.deadline
  BY DEF QRec, Remaining, DeadlineRange
<1>2. CASE c.conn = "closed"
  <2>1. TimerTimeoutNs(c) \div 1000 = (c.deadline - now) * 1000
    BY <1>1, <1>2 DEF TimerTimeoutNs, Remaining, NsPerMs
  <2>. QED  BY <1>1, <2>1, QuicAssumption DEF DueRange
<1>3. CASE c.conn # "closed"
  <2>1. TimerTimeoutNs(c) \div 1000 = MinOf(c.deadline - now, Pto) * 1000
    BY <1>1, <1>3, QuicAssumption DEF TimerTimeoutNs, Remaining, NsPerMs, MinOf
  <2>. QED  BY <1>1, <2>1, QuicAssumption DEF MinOf, DueRange
<1>. QED  BY <1>2, <1>3

\* Arming the timer before the deadline keeps the record's bounds.
LEMMA ArmRec ==
    ASSUME NEW c \in QRec, now \in Nat, Remaining(c) > 0
    PROVE  Arm(c) \in QRec
<1>1. PICK x \in DueRange : x = now + TimerTimeoutNs(c) \div 1000
  BY DueBound
<1>2. Arm(c) = [c EXCEPT !.timer = "armed", !.due = x]
  BY <1>1 DEF Arm
<1>3. [c EXCEPT !.timer = "armed", !.due = x] \in QRec
  <2>. HIDE DEF Remaining
  <2>. QED  BY ZenonT(60) DEF QRec, Timers
<1>. QED  BY <1>2, <1>3

\* drive_connection keeps the record's bounds: it arms the timer only
\* before the deadline.
LEMMA DriveRec ==
    ASSUME NEW c \in QRec, now \in Nat
    PROVE  Drive(c) \subseteq QRec
<1>1. ReportError(c) \in QRec
  BY ReportErrorRec
<1>2. CASE Remaining(c) <= 0
  BY <1>1, <1>2 DEF Drive
<1>3. CASE ~(Remaining(c) <= 0)
  <2>1. Remaining(c) > 0
    BY <1>3 DEF Remaining, QRec, DeadlineRange
  <2>2. ASSUME NEW sent \in BOOLEAN
        PROVE  AfterSend(c, sent) \in QRec
    <3>. DEFINE f == [c EXCEPT !.flight = c.flight \/ sent]
    <3>1. f \in QRec
      BY ZenonT(60) DEF QRec
    <3>2. f.deadline = c.deadline
      BY DEF QRec
    <3>3. Remaining(f) > 0
      BY <2>1, <3>2 DEF Remaining
    <3>. QED  BY <3>1, <3>3, ArmRec DEF AfterSend
  <2>3. Sends(c) \subseteq BOOLEAN
    BY DEF Sends
  <2>4. Drive(c) = {ReportError(c)} \cup {AfterSend(c, sent) : sent \in Sends(c)}
    BY <1>3 DEF Drive
  <2>. QED  BY <1>1, <2>2, <2>3, <2>4
<1>. QED  BY <1>2, <1>3

\* quiche_conn_recv and the report of a failed transfer keep the bounds.
LEMMA TransferRec ==
    ASSUME NEW c \in QRec
    PROVE  RecvOk(c) \subseteq QRec /\ Transfer(c) \subseteq QRec
<1>1. [c EXCEPT !.conn = "established"] \in QRec
  BY ZenonT(60) DEF QRec, Conns
<1>2. RecvOk(c) \subseteq QRec
  BY <1>1 DEF RecvOk
<1>. QED  BY <1>2, ReportErrorRec DEF Transfer

\* The READABLE handler on a first datagram keeps the record's bounds.
LEMMA ReadFirstRec ==
    ASSUME NEW r \in QRec, now \in Nat
    PROVE  ReadFirst(r) \subseteq QRec
<1>1. CASE ~r.verify
  BY <1>1, ReportReadyRec DEF ReadFirst
<1>2. CASE r.verify
  <2> SUFFICES ASSUME NEW t \in Transfer(r), NEW e \in Drive(t)
               PROVE  [e EXCEPT !.state = "ESTABLISHING"] \in QRec
    BY <1>2 DEF ReadFirst
  <2>1. e \in QRec
    BY TransferRec, DriveRec
  <2>. QED  BY <2>1, ZenonT(60) DEF QRec, States
<1>. QED  BY <1>1, <1>2

\* The READABLE handler while ESTABLISHING keeps the record's bounds.
LEMMA ReadEstablishingRec ==
    ASSUME NEW c \in QRec, now \in Nat
    PROVE  ReadEstablishing(c) \subseteq QRec
<1>1. ASSUME NEW k \in 0..c.readable
      PROVE  ReportError([c EXCEPT !.readable = k]) \in QRec
  <2>0. c.readable \in ReadableRange
    BY ZenonT(60) DEF QRec
  <2>1. k \in ReadableRange
    BY <2>0, QuicAssumption DEF ReadableRange
  <2>2. [c EXCEPT !.readable = k] \in QRec
    BY <2>1, ZenonT(60) DEF QRec
  <2>. QED  BY <2>2, ReportErrorRec
<1>2. ASSUME NEW f \in RecvOk([c EXCEPT !.readable = 0]), NEW e \in Drive(f)
      PROVE  (IF IsEstablished(e)
              THEN ReportReady([e EXCEPT !.state = "ESTABLISHED"]) ELSE e) \in QRec
  <2>1. 0 \in ReadableRange
    BY QuicAssumption DEF ReadableRange
  <2>2. [c EXCEPT !.readable = 0] \in QRec
    BY <2>1, ZenonT(60) DEF QRec
  <2>3. e \in QRec
    BY <2>2, TransferRec, DriveRec
  <2>4. [e EXCEPT !.state = "ESTABLISHED"] \in QRec
    BY <2>3, ZenonT(60) DEF QRec, States
  <2>. QED  BY <2>3, <2>4, ReportReadyRec
<1>. QED  BY <1>1, <1>2 DEF ReadEstablishing

LEMMA TypeOKRec ==
    TypeOK <=> /\ now \in Nat
               /\ q \in QRec
               /\ connectRet \in {"none", "ok", "error"}
               /\ handed \in 0..MaxGets
               /\ destroyed \in BOOLEAN
BY DEF TypeOK, QRec, DueRange, DeadlineRange, ReadableRange

\* The same, for the state after a step.
LEMMA TypeOKIntro ==
    ASSUME now' \in Nat, q' \in QRec, connectRet' \in {"none", "ok", "error"},
           handed' \in 0..MaxGets, destroyed' \in BOOLEAN
    PROVE  TypeOK'
BY DEF TypeOK, QRec, DueRange, DeadlineRange, ReadableRange

LEMMA InitTypeOK == Init => TypeOK /\ ClockAtConnect
<1> SUFFICES ASSUME Init PROVE TypeOK /\ ClockAtConnect
  OBVIOUS
<1>1. /\ 0 \in DueRange /\ 0 \in DeadlineRange /\ 0 \in ReadableRange
      /\ <<>> \in Seq(Events)
  BY QuicAssumption DEF DueRange, DeadlineRange, ReadableRange
<1>2. q \in QRec
  <2>. HIDE DEF DueRange, DeadlineRange, ReadableRange
  <2>. QED  BY <1>1, ZenonT(60) DEF Init, QRec, Socks, Conns, Timers, States, Tasks
<1>3. now = 0 /\ connectRet = "none" /\ handed = 0 /\ destroyed = FALSE
  BY DEF Init
<1>4. now \in Nat /\ handed \in 0..MaxGets /\ destroyed \in BOOLEAN
  <2>1. now \in Nat
    BY <1>3
  <2>2. handed \in 0..MaxGets
    BY <1>3, QuicAssumption
  <2>3. destroyed \in BOOLEAN
    BY <1>3
  <2>. QED  BY <2>1, <2>2, <2>3
<1>. QED  BY <1>2, <1>3, <1>4, TypeOKRec DEF ClockAtConnect

\* A handler that leaves the clock, connect's result and the caller's
\* state alone keeps the types, if it keeps the record's bounds.
LEMMA QStep ==
    ASSUME TypeOK, ClockAtConnect, q' \in QRec,
           UNCHANGED <<now, connectRet, handed, destroyed>>
    PROVE  TypeOK' /\ ClockAtConnect'
BY TypeOKIntro DEF TypeOK, ClockAtConnect

LEMMA ConnectTypeOK ==
    ASSUME TypeOK, ClockAtConnect, Connect
    PROVE  TypeOK' /\ ClockAtConnect'
<1>1. q \in QRec /\ now \in Nat /\ now = 0
  BY TypeOKRec DEF Connect, ClockAtConnect
<1>2. q' \in QRec
  <2>1. CASE UNCHANGED q
    BY <1>1, <2>1
  <2>2. CASE \E t \in {"none", "idle"} : q' = [q EXCEPT !.sock = "open", !.timer = t]
    BY <1>1, <2>2, ZenonT(60) DEF QRec, Socks, Timers
  <2>3. CASE q' \in Drive([q EXCEPT !.sock = "open", !.timer = "idle",
                                    !.conn = "handshaking",
                                    !.deadline = now + Timeout])
    <3>1. PICK y \in DeadlineRange : y = now + Timeout
      BY <1>1, QuicAssumption DEF DeadlineRange
    <3>2. [q EXCEPT !.sock = "open", !.timer = "idle", !.conn = "handshaking",
                    !.deadline = y] \in QRec
      <4>. HIDE DEF DeadlineRange
      <4>. QED  BY <1>1, ZenonT(60) DEF QRec, Socks, Timers, Conns
    <3>. QED  BY <1>1, <2>3, <3>1, <3>2, DriveRec
  <2>. QED  BY <2>1, <2>2, <2>3 DEF Connect
<1>3. connectRet' \in {"ok", "error"} /\ UNCHANGED <<now, handed, destroyed>>
  BY DEF Connect
<1>. QED  BY <1>1, <1>2, <1>3, TypeOKIntro DEF TypeOK, ClockAtConnect

LEMMA SocketReadableTypeOK ==
    ASSUME TypeOK, SocketReadable
    PROVE  q' \in QRec
<1>1. q \in QRec /\ now \in Nat
  BY TypeOKRec
<1>2. CASE q.verify /\ q.state = "ESTABLISHING"
  BY <1>1, <1>2, ReadEstablishingRec DEF SocketReadable
<1>3. CASE ~(q.verify /\ q.state = "ESTABLISHING")
  <2>0. q.readable \in ReadableRange
    BY <1>1, ZenonT(60) DEF QRec
  <2>a. q.readable > 0
    BY DEF SocketReadable
  <2>1. PICK y \in ReadableRange : y = q.readable - 1
    BY <2>0, <2>a, QuicAssumption DEF ReadableRange
  <2>2. [q EXCEPT !.readable = @ - 1] = [q EXCEPT !.readable = y]
    BY <2>1
  <2>3. [q EXCEPT !.readable = y] \in QRec
    <3>. HIDE DEF ReadableRange
    <3>. QED  BY <1>1, ZenonT(60) DEF QRec
  <2>. QED  BY <1>1, <1>3, <2>2, <2>3, ReportErrorRec, ReadFirstRec DEF SocketReadable
<1>. QED  BY <1>2, <1>3

LEMMA OnTimerTypeOK ==
    ASSUME TypeOK, OnTimer
    PROVE  q' \in QRec
<1>1. q \in QRec /\ now \in Nat
  BY TypeOKRec
<1>0. q.conn \in Conns
  BY <1>1, ZenonT(60) DEF QRec
<1>2. PICK cl \in Conns : q' \in Drive([q EXCEPT !.timer = "idle", !.conn = cl])
  BY <1>0 DEF OnTimer, Conns
<1>3. [q EXCEPT !.timer = "idle", !.conn = cl] \in QRec
  BY <1>1, ZenonT(60) DEF QRec, Timers
<1>. QED  BY <1>1, <1>2, <1>3, DriveRec

LEMMA ServerReplyTypeOK ==
    ASSUME TypeOK, ServerReply
    PROVE  q' \in QRec
<1>1. q \in QRec
  BY TypeOKRec
<1>0. q.readable \in ReadableRange
  BY <1>1, ZenonT(60) DEF QRec
<1>a. q.readable < MaxDatagrams
  BY DEF ServerReply
<1>2. PICK y \in ReadableRange : y = q.readable + 1
  BY <1>0, <1>a, QuicAssumption DEF ReadableRange
<1>3. q' = [q EXCEPT !.flight = FALSE, !.readable = y]
  BY <1>2 DEF ServerReply
<1>4. [q EXCEPT !.flight = FALSE, !.readable = y] \in QRec
  <2>. HIDE DEF ReadableRange
  <2>. QED  BY <1>1, ZenonT(60) DEF QRec
<1>. QED  BY <1>3, <1>4

LEMMA NextTypeOK ==
    ASSUME IInv, TypeOK, ClockAtConnect, [Next]_vars
    PROVE  TypeOK' /\ ClockAtConnect'
<1>1. q \in QRec
  BY TypeOKRec
<1>2. CASE Connect
  BY <1>2, ConnectTypeOK
<1>3. CASE SocketReadable
  BY <1>3, SocketReadableTypeOK, QStep DEF SocketReadable
<1>4. CASE SocketTimeout
  BY <1>1, <1>4, ReportErrorRec, QStep DEF SocketTimeout
<1>5. CASE OnTimer
  BY <1>5, OnTimerTypeOK, QStep DEF OnTimer
<1>6. CASE RunReportTask
  BY <1>1, <1>6, DoReportRec, QStep DEF RunReportTask
<1>7. CASE GetResult \/ Destroy
  <2>0. handed \in 0..MaxGets /\ destroyed \in BOOLEAN
    BY DEF TypeOK
  <2>1. CASE GetResult
    <3>1. handed' \in 0..MaxGets
      BY <2>0, <2>1, QuicAssumption DEF GetResult
    <3>. QED  BY <1>1, <2>1, <3>1, TypeOKIntro DEF GetResult, TypeOK, ClockAtConnect
  <2>2. CASE Destroy
    <3>1. destroyed' \in BOOLEAN
      BY <2>2 DEF Destroy
    <3>. QED  BY <1>1, <2>0, <2>2, <3>1, TypeOKIntro DEF Destroy, TypeOK, ClockAtConnect
  <2>. QED  BY <1>7, <2>1, <2>2
<1>8. CASE ServerReply
  BY <1>8, ServerReplyTypeOK, QStep DEF ServerReply
<1>9. CASE LoseFlight
  <2>1. q' \in QRec
    BY <1>1, <1>9, ZenonT(60) DEF LoseFlight, QRec
  <2>. QED  BY <1>9, <2>1, QStep DEF LoseFlight
<1>10. CASE Tick
  <2>1. connectRet # "none"
    BY <1>10 DEF Tick, IInv, Active
  <2>2. now' \in Nat
    BY <1>10 DEF Tick, TypeOK
  <2>. QED  BY <1>1, <1>10, <2>1, <2>2, TypeOKIntro DEF Tick, TypeOK, ClockAtConnect
<1>11. CASE UNCHANGED vars
  BY <1>11 DEF vars, TypeOK, ClockAtConnect
<1>. QED  BY <1>2, <1>3, <1>4, <1>5, <1>6, <1>7, <1>8, <1>9, <1>10, <1>11 DEF Next

\* Every reachable connector state is well typed for every connect
\* timeout, quiche timeout and bound: in particular the timer's expiry that
\* drive_connection computes stays within Timeout * 1000 ms, the deadline
\* is Timeout, and the socket never holds more than MaxDatagrams datagrams.
THEOREM TypeCorrect == Spec => []TypeOK
<1>1. Init => IInv /\ TypeOK /\ ClockAtConnect
  BY InitIInv, InitTypeOK
<1>2. IInv /\ TypeOK /\ ClockAtConnect /\ [Next]_vars
        => IInv' /\ TypeOK' /\ ClockAtConnect'
  BY NextIInv, NextTypeOK
<1>. QED  BY <1>1, <1>2, PTL DEF Spec
====
