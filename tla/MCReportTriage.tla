--------------------------- MODULE MCReportTriage ---------------------------
(* The instance of ReportTriage that TLC checks: one report, the two runners. *)
EXTENDS ReportTriage

CONSTANTS r1, k

AnchorDef == [r \in Report |-> k]
=============================================================================
