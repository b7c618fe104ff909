--------------------------- MODULE PdfInfoQueueMC ---------------------------
(* Instances of PdfInfoQueue: a few queries and one quit.                   *)
EXTENDS PdfInfoQueue

CONSTANTS q1, q2, q3, quit
=============================================================================
