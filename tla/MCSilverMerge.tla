--------------------------- MODULE MCSilverMerge ----------------------------
(* Small instances of SilverMerge for TLC. *)
EXTENDS SilverMerge, TLC

CONSTANTS w1, w2, history, state, k1, a, b, orders, users

\* Up to renaming the values, the first of a key is a; that of an invalid row is not
\* looked at.
Cells == {<<k1, a>>, <<k1, b>>, <<NullKey, a>>}
Columns(n) ==
    {c \in [1..n -> Cells] : \A i \in 1..n : c[i] = <<k1, b>> => \E m \in 1 .. (i - 1) : c[m] = <<k1, a>>}
RowsOf(cells, order) ==
    [i \in DOMAIN cells |-> [key |-> cells[i][1], ord |-> order[i], val |-> cells[i][2]]]

\* Rows arrive in the order of their order column, or in any order, or two of
\* them share it, or the same row arrives twice.
Shuffled    == {RowsOf(c, o) : c \in Columns(3), o \in {<<1, 2, 3>>, <<3, 1, 2>>}}
Tied        == {RowsOf(c, <<1, 2, 2>>) : c \in [1..3 -> {<<k1, a>>, <<k1, b>>}]}
Twice       == {RowsOf(<<<<k1, a>>, <<k1, b>>, <<k1, a>>>>, <<1, 2, 1>>)}

\* An update that comes late, and invalid rows on either side of a valid one.
Few         == {RowsOf(<<<<k1, a>>, <<k1, b>>>>, <<2, 1>>),
                RowsOf(<<<<NullKey, a>>, <<NullKey, b>>>>, <<1, 2>>)}

OneJob      == [w \in Workers |-> history]
TwoJobs     == [w \in Workers |-> IF w = w1 THEN history ELSE state]
Types       == [j \in Jobs |-> IF j = history THEN 2 ELSE 1]
OwnSource   == [j \in Jobs |-> IF j = history THEN orders ELSE users]
OneSource   == [j \in Jobs |-> orders]
OutOfOrder  == [t \in Tables |-> IF t = orders THEN Shuffled ELSE Few]
Ties        == [t \in Tables |-> Tied]
Redelivered == [t \in Tables |-> Twice]
=============================================================================
