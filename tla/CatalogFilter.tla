---------------------------- MODULE CatalogFilter ----------------------------
(* The time filters a catalog may decide: a conjunction or disjunction of      *)
(* clauses, each a conjunction or disjunction of tests on the timestamp.  Two  *)
(* levels stand for the tree DuckDB pushes down.  A missing timestamp is       *)
(* NoTime.                                                                     *)
EXTENDS Naturals, FiniteSets

NoTime == 0

Ops == {"null", "notnull", "eq", "lt", "ge", "other"}
Tests == [op : Ops, value : Nat]
Clauses == [op : {"and", "or"}, tests : SUBSET Tests]
TimeFilters == [op : {"and", "or"}, clauses : SUBSET Clauses]

(* One test on a timestamp, as SQL evaluates it: a comparison with NULL keeps  *)
(* nothing.  "other" is a test of a kind the catalog does not know.            *)
TestKeeps(t, time) ==
    CASE t.op = "null"    -> time = NoTime
      [] t.op = "notnull" -> time # NoTime
      [] t.op = "eq"      -> time # NoTime /\ time = t.value
      [] t.op = "lt"      -> time # NoTime /\ time < t.value
      [] t.op = "ge"      -> time # NoTime /\ time >= t.value
      [] t.op = "other"   -> TRUE

(* What the statistics rule out for one test.                                  *)
TestAlwaysFalse(t, stats) ==
    CASE t.op = "null"    -> ~stats.nulls
      [] t.op = "notnull" -> ~stats.valid
      [] t.op = "eq"      -> stats.valid => t.value < stats.min \/ t.value > stats.max
      [] t.op = "lt"      -> stats.valid => stats.min >= t.value
      [] t.op = "ge"      -> stats.valid => stats.max < t.value
      [] t.op = "other"   -> FALSE

Holds(op, S) == IF op = "and" THEN FALSE \notin S ELSE TRUE \in S

Keeps(f, time) ==
    Holds(f.op, {Holds(c.op, {TestKeeps(t, time) : t \in c.tests}) : c \in f.clauses})

(* TableFilter::CheckStatistics: a conjunction is always false when a child    *)
(* is, a disjunction when all of them are.                                     *)
AlwaysFalse(f, stats) ==
    LET Refuted(op, S) == IF op = "and" THEN TRUE \in S ELSE FALSE \notin S
    IN Refuted(f.op, {Refuted(c.op, {TestAlwaysFalse(t, stats) : t \in c.tests}) : c \in f.clauses})

(* CatalogTimestampFilter: every test must be of a known kind and no           *)
(* conjunction may be empty.                                                   *)
CatalogTimestampFilter(f) ==
    /\ f.clauses # {}
    /\ \A c \in f.clauses : c.tests # {} /\ \A t \in c.tests : t.op # "other"

(* CatalogTimeExcludes: a summary proves that the filter keeps no packet.      *)
CatalogTimeExcludes(sum, f) ==
    \/ sum.packets = 0
    \/ AlwaysFalse(f, [nulls |-> sum.nulls > 0, valid |-> sum.packets > sum.nulls,
                       min |-> sum.min, max |-> sum.max])
=============================================================================
