--------------------------- MODULE MCReportExecutor ---------------------------
(* Three calls, so that one can work, one be cancelled in line and one come  *)
(* late; two of them ask for the same.  A report may take three pages of one  *)
(* row each; a page of four passes the row limit by itself.                  *)
EXTENDS ReportExecutor

CONSTANTS c1, c2, c3, k1, k2
AskedBy == [c \in Callers |-> IF c = c3 THEN {k2} ELSE {k1}]
=============================================================================
