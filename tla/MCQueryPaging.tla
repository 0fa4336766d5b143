--------------------------- MODULE MCQueryPaging ---------------------------
(* TLC instances of QueryPaging.                                           *)
EXTENDS QueryPaging

ByWindow ==
  [limit |-> 2, forward |-> TRUE, byConn |-> FALSE, reordered |-> TRUE,
   epochs |-> 2, crashes |-> 0, failed |-> 0, dropped |-> {}]

Crashing == [ByWindow EXCEPT !.epochs = 1, !.crashes = 1]
OfConn == [ByWindow EXCEPT !.limit = 1, !.byConn = TRUE, !.reordered = FALSE, !.crashes = 1]
Unfrozen == [ByWindow EXCEPT !.limit = 1, !.epochs = 1, !.failed = 1]
Backward == [ByWindow EXCEPT !.forward = FALSE, !.epochs = 0]

(* Not Askable: a first page backward sees epoch 0 only.                   *)
BackwardOver == [Backward EXCEPT !.limit = 1, !.epochs = 1]

(* The first page may hold nothing the filter lets pass.                   *)
Filtered == [ByWindow EXCEPT !.epochs = 1, !.dropped = {1, 2}]

Asked == {ByWindow, Crashing, OfConn, Unfrozen, Backward, BackwardOver, Filtered}
=============================================================================
