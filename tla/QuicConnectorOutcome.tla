------------------------- MODULE QuicConnectorOutcome -------------------------
(***************************************************************************)
(* What a QUIC connector promises the handler it was created with: after   *)
(* quic_connector_connect, the handler hears the connection's outcome,     *)
(* QUIC_CONNECTOR_EVENT_READY or QUIC_CONNECTOR_EVENT_ERROR, at most once,  *)
(* and nothing after it.                                                   *)
(***************************************************************************)
EXTENDS Sequences

VARIABLE reports    \* the outcome events the handler has received, in order

Outcomes == {"ready", "error"}

Init == reports = <<>>

\* The one report.
Report(r) ==
    /\ reports = <<>>
    /\ reports' = <<r>>

Next == \E r \in Outcomes : Report(r)

Spec == Init /\ [][Next]_reports

=============================================================================
