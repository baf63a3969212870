----------------------------- MODULE StreamSizes -----------------------------
(* The sizes on which the two ends of a streamed result depend. *)
EXTENDS Integers

CONSTANTS
  BlockSize,  \* rows per block of the grid: the page size the user prefers
  OpenBlock,  \* QUERY_PAGE_SIZE, rows of the block an open call answers with
  RowBudget,  \* STREAM_MAX_ROWS, rows after which the server ends a stream
  Lengths,    \* how many rows the result may have
  MaxOpens,   \* bound: open calls of the data source
  MaxSorts,   \* bound: changes of the sort
  MaxLost     \* bound: sessions of which a request or an answer is lost

ASSUME SizesAssumption ==
  /\ BlockSize \in Nat \ {0} /\ OpenBlock \in Nat \ {0} /\ RowBudget \in Nat \ {0}
  /\ Lengths \subseteq Nat
  /\ MaxOpens \in Nat /\ MaxSorts \in Nat /\ MaxLost \in Nat
=============================================================================
