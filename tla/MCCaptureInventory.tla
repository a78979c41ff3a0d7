---- MODULE MCCaptureInventory ----
EXTENDS CaptureInventory

Packet(t, o) == [time |-> t, outcome |-> o]
SmallCaptures ==
    {[packets |-> <<Packet(3, "tcp"), Packet(1, "bad")>>, tail |-> "whole"],
     [packets |-> <<Packet(NoTime, "tcp"), Packet(2, "tcp")>>, tail |-> "whole"],
     [packets |-> <<>>, tail |-> "whole"],
     [packets |-> <<Packet(3, "bad")>>, tail |-> "cut"]}

Local == [remote |-> FALSE, http |-> FALSE, stable |-> TRUE, known |-> TRUE]
Blind == [Local EXCEPT !.known = FALSE]
Http == [remote |-> TRUE, http |-> TRUE, stable |-> TRUE, known |-> TRUE]
AllKinds == {Local, Blind, Http, [Http EXCEPT !.http = FALSE]}

Test(op, v) == [op |-> op, value |-> v]
One(op, v) == [op |-> "and", tests |-> {Test(op, v)}]
SmallFilters ==
    {[op |-> "and", clauses |-> {One("ge", 2), One("lt", 3)}],
     [op |-> "or", clauses |-> {One("null", 0), One("eq", 3)}],
     [op |-> "and", clauses |-> {One("other", 0), One("eq", 1)}]}

ForeignRows ==
    {[Row("p", 1, "complete", "true", FALSE, [NoTotals(FALSE) EXCEPT !.packets = 1, !.min = 2, !.max = 2])
        EXCEPT !.compatible = FALSE],
     Row("p", 1, "complete", "true", FALSE, [NoTotals(FALSE) EXCEPT !.packets = 2, !.nulls = 1])}
Bind(i, p, r, v) == [immutable |-> i, protocols |-> p, report |-> r, previous |-> v]
SomeBinds ==
    {Bind(TRUE, TRUE, TRUE, TRUE), Bind(TRUE, FALSE, FALSE, TRUE), Bind(FALSE, FALSE, TRUE, FALSE)}
Single == {<<"p">>}
Twice == {<<"p", "p">>}
====
