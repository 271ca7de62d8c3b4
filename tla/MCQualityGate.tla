---------------------------- MODULE MCQualityGate -----------------------------
(***************************************************************************)
(* Small instances of QualityGate.  With suites of twenty expectations a    *)
(* table's score falls on either side of every threshold and exactly on it: *)
(* none to four failures make 100, 95, 90, 85 and 80, against 95 and 90 for *)
(* a Silver table, 90 and 85 for a Bronze one.                             *)
(***************************************************************************)
EXTENDS QualityGate

MCNumberOf == [one |-> 1]
MCTypes == {"int"}

Default == [type |-> "exists", column |-> "c", mostly |-> 100, min |-> {}, max |-> {},
            values |-> {"one"}, pattern |-> <<>>, names |-> <<>>, want |-> ""]

Expect(ty) == [Default EXCEPT !.type = ty]

Twenty(es) == [k \in 1 .. 20 |-> IF k <= Len(es) THEN es[k] ELSE Default]

RowCount(least, most) == [Default EXCEPT !.type = "row_count", !.min = least, !.max = most]

Checks == <<Expect("not_null"), Expect("in_set"), RowCount({}, {1}), RowCount({}, {2})>>

MCFiles == [orders  |-> Twenty(Checks),
            events  |-> Twenty(<<RowCount({1}, {}), Expect("not_null")>>),
            unknown |-> Twenty(Append(Checks, Expect("unsupported")))]

(* Tables that fail none to four of the Checks.                            *)
MCTables ==
    {[columns |-> <<"c">>, rows |-> rs] :
        rs \in {<<[c |-> "one"]>>, <<[c |-> Null]>>, <<[c |-> Null], [c |-> "one"]>>,
                 <<[c |-> Null], [c |-> "text"]>>,
                 <<[c |-> Null], [c |-> "text"], [c |-> "one"]>>}}

(* An empty table, and one that lost its column as its producer did.       *)
MCEvolvedTables ==
    MCTables \cup {[columns |-> <<"c">>, rows |-> <<>>],
                   [columns |-> <<"d">>, rows |-> <<[d |-> "one"]>>]}

Table(name, layer) == [name |-> name, path |-> {}, layer |-> layer, override |-> {}]

(* Two tables share a suite, which the second has from the cache.          *)
GateSpecs == <<Table("orders", "silver"), Table("orders", "bronze")>>

FrameworkSpecs ==
    <<Table("orders", "bronze"), Table("absent", "gold"), Table("unknown", "bronze")>>

OverridingSpecs ==
    <<Table("orders", "silver"), [Table("orders", "silver") EXCEPT !.path = {"events"}]>>

(* A table is scored against the file its configuration names               *)
(* (data_quality.py:102, "Local JSON file path (overrides default          *)
(* lookup)").                                                              *)
OwnSuite ==
    pc \in {"evaluate", "report", "score"} => suite = Files[SuitePath(Current)]

ZeroSpecs == <<[Table("orders", "silver") EXCEPT !.override = {0}]>>
===============================================================================
