--------------------------- MODULE MCStatusReports ---------------------------
(* One connector with two transactions. *)
EXTENDS StatusReports

CONSTANT c1
OneConnector == <<c1>>
=============================================================================
