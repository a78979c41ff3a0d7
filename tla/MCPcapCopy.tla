----------------------------- MODULE MCPcapCopy -----------------------------
(* Two statements with one destination: one without SNAPLEN and one with,   *)
(* rows of length 0 to 3, and a row that is refused after good ones.        *)
EXTENDS PcapCopy

Row(captured) ==
    [null |-> FALSE, stamp |-> 1, captured |-> captured, original |-> 3, link |-> 1, size |-> captured]
Bad ==
    {[Row(1) EXCEPT !.null = TRUE], [Row(1) EXCEPT !.stamp = -1], [Row(1) EXCEPT !.stamp = 3],
     [Row(1) EXCEPT !.link = 2], [Row(1) EXCEPT !.size = 0], [Row(1) EXCEPT !.original = 0]}
Plan(snaplen, rows) == [link |-> 1, snaplen |-> snaplen, rows |-> rows]
Both(p, q) == [c1 |-> p, c2 |-> q]
CopyPlans ==
    {Both(Plan(0, <<Row(0), Row(3), Row(1)>>), Plan(2, <<Row(2)>>)),
     Both(Plan(0, <<>>), Plan(2, <<Row(1), Row(3)>>)),
     Both(Plan(0, <<Row(2)>>), Plan(4, <<Row(3), Row(3), Row(1)>>))}
    \cup {Both(Plan(0, <<Row(0), b>>), Plan(0, <<>>)) : b \in Bad}
============================================================================
