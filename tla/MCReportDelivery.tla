-------------------------- MODULE MCReportDelivery --------------------------
(***************************************************************************)
(* ReportDelivery for TLC.                                                 *)
(***************************************************************************)
EXTENDS ReportDelivery
=============================================================================
