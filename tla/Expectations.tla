----------------------------- MODULE Expectations -----------------------------
(***************************************************************************)
(* The two expectation engines of the data-quality framework, as pure      *)
(* operators over a table and a suite.                                      *)
(*                                                                         *)
(*   Pandas...  DataQualityFramework._eval_*  (data_quality.py)            *)
(*   Spark...   DistributedExpectationEngine  (distributed_dq.py)          *)
(*   Flagged    ViolationExtractor            (distributed_dq.py)          *)
(*                                                                         *)
(* A table has a sequence of column names and a sequence of rows, each a   *)
(* function from column names to values; Null is the missing value and     *)
(* every other value either denotes a number (NumberOf) or is a text that  *)
(* no cast turns into one.  An expectation is a record of its type and its *)
(* keyword arguments: an optional bound is a set of at most one number,    *)
(* "mostly" is a percentage, a regular expression is a sequence of literal *)
(* alternatives ("a|b" is <<"a", "b">>).  Ratios are compared exactly; the *)
(* code compares floats.                                                   *)
(***************************************************************************)
EXTENDS Integers, Sequences, FiniteSets, FiniteSetsExt

CONSTANTS
    Null,        \* the missing value
    NumberOf,    \* the numbers the numeric values denote: value -> Int
    Starts,      \* <<value, literal>>: the value's text starts with it
    Contains,    \* <<value, literal>>: the literal occurs in the value's text
    PandasTypes, \* the type names a pandas dtype accepts ("int64" has "int")
    SparkTypes   \* the type names a Spark dtype accepts ("bigint" has "int")

ASSUME NullIsNotANumber == Null \notin DOMAIN NumberOf

ASSUME NumbersAreIntegers == \A v \in DOMAIN NumberOf : NumberOf[v] \in Int

ASSUME AStartIsContained == Starts \subseteq Contains

-------------------------------------------------------------------------------
(* Vocabulary shared by the engines.                                       *)

Columns(t) == {t.columns[k] : k \in DOMAIN t.columns}

Rows(t) == DOMAIN t.rows

NonNull(e, t) == {r \in Rows(t) : t.rows[r][e.column] # Null}

Numeric(e, t) == {r \in Rows(t) : t.rows[r][e.column] \in DOMAIN NumberOf}

Number(e, t, r) == NumberOf[t.rows[r][e.column]]

Values(e, t, rs) == {t.rows[r][e.column] : r \in rs}

Sum(e, t) == MapThenSumSet(LAMBDA r : Number(e, t, r), Numeric(e, t))

Within(x, e) == (\A m \in e.min : x >= m) /\ (\A m \in e.max : x <= m)

Bounded(e) == e.min \cup e.max # {}

(* valid / total >= mostly, and 1.0 >= mostly when nothing is evaluated.   *)
Enough(violations, total, mostly) ==
    100 * (total - violations) >= mostly * total

RowCountHolds(e, t) == Within(Len(t.rows), e)

(* The mean of the numeric rows, scaled by their number.                   *)
MeanHolds(e, t) ==
    LET n == Cardinality(Numeric(e, t))
    IN  /\ \A m \in e.min : Sum(e, t) >= m * n
        /\ \A m \in e.max : Sum(e, t) <= m * n

(* A result: the verdict, and whether unexpected_percent is a number.      *)
Result(success) == [success |-> success, percent |-> TRUE]

(* The result of an expectation that could not be evaluated.               *)
Errored == [success |-> FALSE, percent |-> FALSE]

RowLevel == {"not_null", "between", "in_set", "regex"}

Dynamic == RowLevel \cup {"unique", "mean", "sum"}

-------------------------------------------------------------------------------
(* The pandas engine.                                                      *)

PandasOutOfRange(e, t) ==
    {r \in NonNull(e, t) :
        IF r \in Numeric(e, t) THEN ~Within(Number(e, t, r), e) ELSE Bounded(e)}

PandasNotInSet(e, t) == {r \in NonNull(e, t) : t.rows[r][e.column] \notin e.values}

PandasUnmatched(e, t) ==
    {r \in NonNull(e, t) :
        \A k \in DOMAIN e.pattern : <<t.rows[r][e.column], e.pattern[k]>> \notin Starts}

(* Series.duplicated(): nulls are equal to each other.                     *)
PandasDuplicates(e, t) == Len(t.rows) - Cardinality(Values(e, t, Rows(t)))

(* float NaN, the mean of nothing, is inside no bound.                     *)
PandasMeanHolds(e, t) ==
    IF Numeric(e, t) = {} THEN ~Bounded(e) ELSE MeanHolds(e, t)

(* KeyError on a missing column, NotImplementedError on an unknown type.   *)
PandasEvaluates(e, t) ==
    \/ e.type \in {"row_count", "ordered", "exists"}
    \/ e.type \in Dynamic \cup {"of_type"} /\ e.column \in Columns(t)

PandasHolds(e, t) ==
    LET ratio(bad) == Enough(Cardinality(bad), Cardinality(NonNull(e, t)), e.mostly)
    IN CASE e.type = "not_null"  -> Enough(Cardinality(Rows(t) \ NonNull(e, t)),
                                           Len(t.rows), e.mostly)
         [] e.type = "unique"    -> Enough(PandasDuplicates(e, t), Len(t.rows), e.mostly)
         [] e.type = "in_set"    -> ratio(PandasNotInSet(e, t))
         [] e.type = "between"   -> ratio(PandasOutOfRange(e, t))
         [] e.type = "regex"     -> ratio(PandasUnmatched(e, t))
         [] e.type = "row_count" -> RowCountHolds(e, t)
         [] e.type = "ordered"   -> t.columns = e.names
         [] e.type = "exists"    -> e.column \in Columns(t)
         [] e.type = "of_type"   -> e.want \in PandasTypes
         [] e.type = "mean"      -> PandasMeanHolds(e, t)
         [] e.type = "sum"       -> Within(Sum(e, t), e)

(* _evaluate_suite: one result per expectation, an error being a failure.  *)
PandasResults(suite, t) ==
    [k \in DOMAIN suite |->
        IF PandasEvaluates(suite[k], t) THEN Result(PandasHolds(suite[k], t)) ELSE Errored]

-------------------------------------------------------------------------------
(* The distributed engine.                                                 *)

(* non_null & (~in_range | numeric.isNull()): a text always violates.      *)
SparkOutOfRange(e, t) ==
    {r \in NonNull(e, t) : r \in Numeric(e, t) => ~Within(Number(e, t, r), e)}

(* isin over a set that holds a null is never false, only true or null.    *)
SparkNotInSet(e, t) == IF Null \in e.values THEN {} ELSE PandasNotInSet(e, t)

(* The "^" put in front of "a|b" anchors the first alternative only.       *)
SparkUnmatched(e, t) ==
    {r \in NonNull(e, t) :
        \A k \in DOMAIN e.pattern :
            <<t.rows[r][e.column], e.pattern[k]>> \notin (IF k = 1 THEN Starts ELSE Contains)}

(* count(non-null) - countDistinct(non-null): nulls are no duplicates.     *)
SparkDuplicates(e, t) ==
    Cardinality(NonNull(e, t)) - Cardinality(Values(e, t, NonNull(e, t)))

(* The rows the v{i} alias of a row-level expectation counts.              *)
SparkViolations(e, t) ==
    CASE e.type = "not_null" -> Rows(t) \ NonNull(e, t)
      [] e.type = "between"  -> SparkOutOfRange(e, t)
      [] e.type = "in_set"   -> SparkNotInSet(e, t)
      [] e.type = "regex"    -> SparkUnmatched(e, t)

(* Mutant: nulls stay in the denominator of every row-level expectation.   *)
SparkDenominatorAll(e, t) == Rows(t)

(* The rows the d{i} alias counts.                                         *)
SparkDenominator(e, t) == IF e.type = "not_null" THEN Rows(t) ELSE NonNull(e, t)

(* The context of not_null carries no "mostly": _resolve reads 1.0.        *)
SparkMostly(e) == IF e.type = "not_null" THEN 100 ELSE e.mostly

(* The aggregate of no number is null, which _range_ok refuses.            *)
SparkHolds(e, t) ==
    CASE e.type \in RowLevel -> Enough(Cardinality(SparkViolations(e, t)),
                                       Cardinality(SparkDenominator(e, t)), SparkMostly(e))
      [] e.type = "unique"   -> Enough(SparkDuplicates(e, t), Len(t.rows), SparkMostly(e))
      [] e.type = "mean"     -> Numeric(e, t) # {} /\ MeanHolds(e, t)
      [] e.type = "sum"      -> Numeric(e, t) # {} /\ Within(Sum(e, t), e)
      [] e.type = "row_count" -> RowCountHolds(e, t)
      [] e.type = "ordered"  -> t.columns = e.names
      [] e.type = "exists"   -> e.column \in Columns(t)
      [] e.type = "of_type"  -> e.column \in Columns(t) /\ e.want \in SparkTypes

SparkEvaluates(e) == e.type \in Dynamic \cup {"row_count", "ordered", "exists", "of_type"}

(* evaluate keeps one row_count_ctx: an earlier one is overwritten and its *)
(* expectation gets no result.                                             *)
Superseded(suite) ==
    {k \in DOMAIN suite : /\ suite[k].type = "row_count"
                          /\ \E j \in DOMAIN suite : j > k /\ suite[j].type = "row_count"}

(* A column the table lacks makes the single df.agg raise.                 *)
SparkAborts(suite, t) ==
    \E k \in DOMAIN suite : suite[k].type \in Dynamic /\ suite[k].column \notin Columns(t)

SparkResults(suite, t) ==
    [k \in DOMAIN suite \ Superseded(suite) |->
        IF SparkEvaluates(suite[k]) THEN Result(SparkHolds(suite[k], t)) ELSE Errored]

-------------------------------------------------------------------------------
(* The violation extractor rebuilds the row-level flags on its own.        *)

(* Mutant: a null is reported as an offender of a range.                   *)
OffenderNulls(e, t, r) ==
    CASE e.type = "not_null" -> r \notin NonNull(e, t)
      [] e.type = "in_set"   -> r \in SparkNotInSet(e, t)
      [] e.type = "regex"    -> r \in SparkUnmatched(e, t)
      [] e.type = "between"  -> \/ r \notin Numeric(e, t)
                                \/ \E m \in e.min : Number(e, t, r) < m
                                \/ \E m \in e.max : Number(e, t, r) > m

Offender(e, t, r) ==
    CASE e.type = "not_null" -> r \notin NonNull(e, t)
      [] e.type = "in_set"   -> r \in SparkNotInSet(e, t)
      [] e.type = "regex"    -> r \in SparkUnmatched(e, t)
      [] e.type = "between"  -> \/ r \in NonNull(e, t) \ Numeric(e, t)
                                \/ /\ r \in Numeric(e, t)
                                   /\ \/ \E m \in e.min : Number(e, t, r) < m
                                      \/ \E m \in e.max : Number(e, t, r) > m

(* violations(): the rows with at least one violated expectation.          *)
Flagged(suite, t) ==
    {r \in Rows(t) :
        \E k \in DOMAIN suite : suite[k].type \in RowLevel /\ Offender(suite[k], t, r)}

-------------------------------------------------------------------------------
(* Where the engines agree.                                                *)

(* Comparable states for which expectations over which tables the two      *)
(* engines mean the same thing: the reverse of the differences above.      *)
Comparable(e, t) ==
    /\ e.type \in Dynamic => e.column \in Columns(t)
    /\ e.type = "not_null" => e.mostly = 100
    /\ e.type = "unique" => Cardinality(Rows(t) \ NonNull(e, t)) <= 1
    /\ e.type = "in_set" => Null \notin e.values
    /\ e.type = "between" => Bounded(e) \/ NonNull(e, t) = Numeric(e, t)
    /\ e.type = "regex" => Len(e.pattern) = 1
    /\ e.type = "mean" => Bounded(e) \/ Numeric(e, t) # {}
    /\ e.type = "sum" => Numeric(e, t) # {}
    /\ e.type = "of_type" => (e.want \in PandasTypes <=> e.want \in SparkTypes)

SuiteComparable(suite, t) ==
    Superseded(suite) = {} /\ \A k \in DOMAIN suite : Comparable(suite[k], t)

(* The engines give the suite the same verdicts.                           *)
Agree(suite, t) ==
    /\ ~SparkAborts(suite, t)
    /\ DOMAIN PandasResults(suite, t) = DOMAIN SparkResults(suite, t)
    /\ \A k \in DOMAIN suite :
           PandasResults(suite, t)[k].success <=> SparkResults(suite, t)[k].success

-------------------------------------------------------------------------------
(* What holds of the table and the suite at hand, whichever they are.      *)

VARIABLES
    table,    \* the table that was read
    suite     \* the suite that was loaded

(* SameVerdicts: on every table and suite outside the listed differences   *)
(* the distributed engine gives the verdicts of the pandas engine.         *)
SameVerdicts == SuiteComparable(suite, table) => Agree(suite, table)

(* OffendersAreCounted: the rows the extractor hands to an incident are    *)
(* exactly the rows the aggregate pass counted as violations, although the *)
(* two rebuild the flags separately.                                       *)
OffendersAreCounted ==
    ~SparkAborts(suite, table) =>
        Flagged(suite, table) =
            UNION {SparkViolations(suite[k], table) :
                     k \in {j \in DOMAIN suite : suite[j].type \in RowLevel}}
===============================================================================
