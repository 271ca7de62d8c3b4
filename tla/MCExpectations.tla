---------------------------- MODULE MCExpectations ----------------------------
(***************************************************************************)
(* Compares the two expectation engines over every small table and suite:  *)
(* a behaviour grows a table row by row and a suite expectation by         *)
(* expectation, so that TLC visits every combination up to the bounds.     *)
(***************************************************************************)
EXTENDS Expectations

CONSTANTS MaxRows,   \* rows of a table
          MaxSuite   \* expectations of a suite

vars == <<table, suite>>

(* Two numbers, a text that starts with "a" and contains "b", and Null.    *)
MCNumberOf == [one |-> 1, two |-> 2]
MCStarts == {<<"text", "a">>}
MCContains == {<<"text", "a">>, <<"text", "b">>}
MCPandasTypes == {"int", "int64"}
MCSparkTypes == {"int", "bigint"}

CellValues == DOMAIN NumberOf \cup {"text", Null}

Arguments ==
    [type : Dynamic \cup {"row_count", "ordered", "exists", "of_type", "unsupported"},
     column : {"c", "gone"},
     mostly : {50, 100},
     min : {{}, {1}, {2}},
     max : {{}, {1}},
     values : {{}, {"one"}, {"one", Null}},
     pattern : {<<>>, <<"a">>, <<"b">>, <<"x", "b">>},
     names : {<<>>, <<"c">>, <<"gone">>},
     want : {"", "int", "bigint"}]

(* Keyword arguments an expectation does not have are left at a default.   *)
AllExpectations ==
    {e \in Arguments :
        /\ e.column = "c" \/ e.type \in {"not_null", "unique", "exists", "of_type"}
        /\ e.mostly = 100 \/ e.type \in {"not_null", "unique", "in_set", "between"}
        /\ e.min \cup e.max = {} \/ e.type \in {"between", "row_count", "mean", "sum"}
        /\ e.values # {} <=> e.type = "in_set"
        /\ e.pattern # <<>> <=> e.type = "regex"
        /\ e.names # <<>> <=> e.type = "ordered"
        /\ e.want # "" <=> e.type = "of_type"}

Init ==
    /\ table = [columns |-> <<"c">>, rows |-> <<>>]
    /\ suite = <<>>

AddRow ==
    /\ Len(table.rows) < MaxRows
    /\ \E v \in CellValues : table' = [table EXCEPT !.rows = Append(@, [c |-> v])]
    /\ UNCHANGED suite

AddExpectation ==
    /\ Len(suite) < MaxSuite
    /\ \E e \in AllExpectations : suite' = Append(suite, e)
    /\ UNCHANGED table

Next == AddRow \/ AddExpectation

Spec == Init /\ [][Next]_vars

-------------------------------------------------------------------------------
(* Parity (README.md:92, "Parity test guarantees identical scoring to the  *)
(* pandas engine"): the engines agree on every suite the distributed one   *)
(* can evaluate.                                                           *)
Parity == ~SparkAborts(suite, table) => Agree(suite, table)

(* DuplicatesAsPandas (distributed_dq.py:169, "Matches pandas              *)
(* Series.duplicated().sum() semantics exactly").                          *)
DuplicatesAsPandas ==
    \A k \in DOMAIN suite :
        suite[k].type = "unique" /\ suite[k].column \in Columns(table)
        => SparkDuplicates(suite[k], table) = PandasDuplicates(suite[k], table)

(* EntireSuite (distributed_dq.py:300, "Evaluate an entire expectation     *)
(* suite"): every expectation of an evaluated suite gets a result.         *)
EntireSuite ==
    ~SparkAborts(suite, table) => DOMAIN SparkResults(suite, table) = DOMAIN suite
===============================================================================
