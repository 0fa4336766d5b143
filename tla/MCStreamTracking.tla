-------------------------- MODULE MCStreamTracking --------------------------
(* TLC instances of StreamTracking: 16 raw numbers, so that streams wrap.  *)
EXTENDS StreamTracking

(* In order a stream wraps twice, out of order once; a stream joined at a  *)
(* packet of two bytes or of three wraps once.                             *)
MCTaps ==
  {[ordered |-> TRUE, joined |-> 0, sent |-> 34], [ordered |-> FALSE, joined |-> 0, sent |-> 9],
   [ordered |-> TRUE, joined |-> 3, sent |-> 12], [ordered |-> FALSE, joined |-> 2, sent |-> 7]}
=============================================================================
