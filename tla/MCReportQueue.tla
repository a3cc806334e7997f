--------------------------- MODULE MCReportQueue ---------------------------
(* The report queue's instances.                                           *)
EXTENDS ReportQueue, TLC

\* Workers run the same code and are never compared.
WorkerSymmetry == Permutations(Workers)

===========================================================================
