----------------------- MODULE CaptureInventoryProofs -----------------------
(***************************************************************************)
(* The catalog tells the truth, for any number of files, versions, rows    *)
(* and packets: an accepted summary describes the version of the file its  *)
(* identity names (SummariesTrue), a row describes the file as it is when  *)
(* the row is made (ReportsCurrent), and a file left out of a query holds  *)
(* no packet its filter keeps (PruneSound).                                *)
(*                                                                         *)
(* The argument follows one task: while the object it reads has the        *)
(* version it had when it was opened, its totals are those of a prefix of  *)
(* that version.  Versions only grow, so an identity that is the same      *)
(* before and after says that nothing was written in between.              *)
(***************************************************************************)
EXTENDS CaptureInventory, FiniteSums

\* What the provers may take for a step.
USE SMTT(30), ZenonT(60)

-----------------------------------------------------------------------------
(* Time filters. *)

\* A summary tells of a packet with this timestamp: it is counted, as one without a
\* timestamp or as one within the range.
Covers(sum, time) ==
    /\ sum.packets > 0
    /\ time = NoTime => sum.nulls > 0
    /\ time # NoTime => sum.packets > sum.nulls /\ sum.min <= time /\ time <= sum.max

Statistics(sum) ==
    [nulls |-> sum.nulls > 0, valid |-> sum.packets > sum.nulls, min |-> sum.min, max |-> sum.max]

\* The statistics decide every test (CheckStatistics returns one of its results).
LEMMA TestBoolean ==
    ASSUME NEW t \in Tests, NEW sum
    PROVE  TestAlwaysFalse(t, Statistics(sum)) \in BOOLEAN
BY Zenon DEF Tests, Ops, Statistics, TestAlwaysFalse

\* A test the statistics refute is one that keeps no packet they cover.
LEMMA TestSound ==
    ASSUME NEW t \in Tests, NEW sum, sum.packets \in Nat, sum.nulls \in Nat, sum.min \in Nat, sum.max \in Nat,
           NEW time \in Nat, Covers(sum, time), TestAlwaysFalse(t, Statistics(sum))
    PROVE  TestKeeps(t, time) = FALSE
<1>1. /\ Statistics(sum).nulls = (sum.nulls > 0) /\ Statistics(sum).valid = (sum.packets > sum.nulls)
      /\ Statistics(sum).min = sum.min /\ Statistics(sum).max = sum.max
  BY DEF Statistics
<1>2. t.op \in Ops /\ t.value \in Nat
  BY DEF Tests
<1>3. CASE t.op = "null"
  BY <1>1, <1>3, Zenon DEF Covers, TestAlwaysFalse, TestKeeps
<1>4. CASE t.op = "notnull"
  BY <1>1, <1>4, Zenon DEF Covers, TestAlwaysFalse, TestKeeps
<1>5. CASE t.op = "eq"
  <2>1. TestKeeps(t, time) = (time # NoTime /\ time = t.value)
    BY <1>5 DEF TestKeeps
  <2>2. sum.packets > sum.nulls => t.value < sum.min \/ t.value > sum.max
    BY <1>1, <1>5, Zenon DEF TestAlwaysFalse
  <2>3. ~(time # NoTime /\ time = t.value)
    BY <1>2, <2>2 DEF Covers
  <2> QED BY <2>1, <2>3, Zenon
<1>6. CASE t.op = "lt"
  <2>1. TestKeeps(t, time) = (time # NoTime /\ time < t.value)
    BY <1>6 DEF TestKeeps
  <2>2. sum.packets > sum.nulls => sum.min >= t.value
    BY <1>1, <1>6, Zenon DEF TestAlwaysFalse
  <2>3. ~(time # NoTime /\ time < t.value)
    BY <1>2, <2>2 DEF Covers
  <2> QED BY <2>1, <2>3, Zenon
<1>7. CASE t.op = "ge"
  <2>1. TestKeeps(t, time) = (time # NoTime /\ time >= t.value)
    BY <1>7 DEF TestKeeps
  <2>2. sum.packets > sum.nulls => sum.max < t.value
    BY <1>1, <1>7, Zenon DEF TestAlwaysFalse
  <2>3. ~(time # NoTime /\ time >= t.value)
    BY <1>2, <2>2 DEF Covers
  <2> QED BY <2>1, <2>3, Zenon
<1>8. CASE t.op = "other"
  BY <1>8 DEF TestAlwaysFalse
<1> QED BY <1>2, <1>3, <1>4, <1>5, <1>6, <1>7, <1>8, Zenon DEF Ops

\* How CheckStatistics combines its children, for a clause of a filter or the filter.
Refuted(op, S) == IF op = "and" THEN TRUE \in S ELSE FALSE \notin S

\* Refuted decides, for any operator and any set of children.
LEMMA RefutedBoolean ==
    ASSUME NEW op, NEW S
    PROVE  Refuted(op, S) \in BOOLEAN
<1>1. CASE op = "and"
  <2>1. Refuted(op, S) = (TRUE \in S)
    BY <1>1, Zenon DEF Refuted
  <2>2. (TRUE \in S) \in BOOLEAN
    OBVIOUS
  <2> QED BY <2>1, <2>2, Zenon
<1>2. CASE op # "and"
  <2>1. Refuted(op, S) = ~(FALSE \in S)
    BY <1>2, Zenon DEF Refuted
  <2>2. (~(FALSE \in S)) \in BOOLEAN
    OBVIOUS
  <2> QED BY <2>1, <2>2, Zenon
<1> QED BY <1>1, <1>2

\* A disjunction none of whose children holds is false.
LEMMA NoneHolds ==
    ASSUME NEW op, NEW S, op # "and", TRUE \notin S
    PROVE  Holds(op, S) = FALSE
<1>1. Holds(op, S) = (TRUE \in S)
  BY Zenon DEF Holds
<1>2. (TRUE \in S) \in BOOLEAN
  OBVIOUS
<1>3. Holds(op, S) \in BOOLEAN
  BY <1>1, <1>2, Zenon
<1>4. ~Holds(op, S)
  BY Zenon DEF Holds
<1> QED BY <1>3, <1>4

\* A clause the statistics refute keeps no packet they cover.
LEMMA ClauseSound ==
    ASSUME NEW c \in Clauses, NEW sum, sum.packets \in Nat, sum.nulls \in Nat, sum.min \in Nat, sum.max \in Nat,
           NEW time \in Nat, Covers(sum, time),
           Refuted(c.op, {TestAlwaysFalse(t, Statistics(sum)) : t \in c.tests})
    PROVE  Holds(c.op, {TestKeeps(t, time) : t \in c.tests}) = FALSE
<1>1. c.op \in {"and", "or"} /\ c.tests \subseteq Tests
  BY DEF Clauses
<1>2. \A t \in c.tests : TestAlwaysFalse(t, Statistics(sum)) => TestKeeps(t, time) = FALSE
  BY <1>1, TestSound, Zenon
<1>3. CASE c.op = "and"
  <2>1. PICK t \in c.tests : TestAlwaysFalse(t, Statistics(sum)) = TRUE
    BY <1>3, Zenon DEF Refuted
  <2>2. FALSE \in {TestKeeps(u, time) : u \in c.tests}
    BY <1>2, <2>1, Zenon
  <2> QED BY <1>3, <2>2, Zenon DEF Holds
<1>4. CASE c.op = "or"
  <2>1. \A t \in c.tests : TestKeeps(t, time) = FALSE
    <3>1. \A t \in c.tests : TestAlwaysFalse(t, Statistics(sum)) # FALSE
      BY <1>4, Zenon DEF Refuted
    <3>2. \A t \in c.tests : TestAlwaysFalse(t, Statistics(sum)) \in BOOLEAN
      BY <1>1, TestBoolean, Zenon
    <3> QED BY <1>2, <3>1, <3>2, Zenon
  <2>2. TRUE \notin {TestKeeps(u, time) : u \in c.tests}
    BY <2>1, Zenon
  <2>3. c.op # "and"
    BY <1>4
  <2> QED BY <2>2, <2>3, NoneHolds, Zenon
<1> QED BY <1>1, <1>3, <1>4, Zenon

\* A capture that its summary excludes has no packet the filter keeps: whatever the filter's
\* clauses and tests, no packet the summary covers passes it (CatalogTimeExcludes).
THEOREM ExclusionSound ==
    ASSUME NEW f \in TimeFilters, NEW sum, sum.packets \in Nat, sum.nulls \in Nat, sum.min \in Nat, sum.max \in Nat,
           NEW time \in Nat, Covers(sum, time), CatalogTimeExcludes(sum, f)
    PROVE  ~Keeps(f, time)
<1> DEFINE Out(c) == Refuted(c.op, {TestAlwaysFalse(t, Statistics(sum)) : t \in c.tests})
           In(c) == Holds(c.op, {TestKeeps(t, time) : t \in c.tests})
<1>1. f.op \in {"and", "or"} /\ f.clauses \subseteq Clauses
  BY DEF TimeFilters
<1>2. AlwaysFalse(f, Statistics(sum))
  BY DEF Covers, CatalogTimeExcludes, Statistics
<1>3. Refuted(f.op, {Out(c) : c \in f.clauses})
  BY <1>2, Zenon DEF AlwaysFalse, Refuted
<1>4. Keeps(f, time) = Holds(f.op, {In(c) : c \in f.clauses})
  BY DEF Keeps
<1>5. \A c \in f.clauses : Out(c) => In(c) = FALSE
  BY <1>1, ClauseSound, Zenon
<1>6. \A c \in f.clauses : Out(c) \in BOOLEAN
  BY RefutedBoolean
<1> HIDE DEF Out, In
<1>7. CASE f.op = "and"
  <2>1. PICK c \in f.clauses : Out(c) = TRUE
    BY <1>3, <1>7, Zenon DEF Refuted
  <2>2. FALSE \in {In(d) : d \in f.clauses}
    BY <1>5, <2>1, Zenon
  <2> QED BY <1>4, <1>7, <2>2, Zenon DEF Holds
<1>8. CASE f.op = "or"
  <2>1. f.op # "and"
    BY <1>8
  <2>2. \A c \in f.clauses : Out(c) # FALSE
    BY <1>3, <2>1, Zenon DEF Refuted
  <2>3. \A c \in f.clauses : In(c) = FALSE
    BY <1>5, <1>6, <2>2, Zenon
  <2>4. TRUE \notin {In(c) : c \in f.clauses}
    BY <2>3, Zenon
  <2> QED BY <1>4, <2>1, <2>4, NoneHolds, Zenon
<1> QED BY <1>1, <1>7, <1>8, Zenon

-----------------------------------------------------------------------------
(* Totals: observing a capture packet by packet gives what it holds. *)

TimedOf(ps, n) == {ps[i].time : i \in {j \in 1 .. n : ps[j].time # NoTime}}
NullsOf(ps, n) == {i \in 1 .. n : ps[i].time = NoTime}
OutcomesOf(ps, n, d) == {i \in 1 .. n : ps[i].outcome = d}

LEMMA MinMember ==
    ASSUME NEW S, S \subseteq Nat, S # {}
    PROVE  Min(S) \in S /\ \A x \in S : Min(S) <= x
<1>1. \E n \in S : \A m \in S : n <= m
  BY LeastNatural
<1>2. QED
  BY <1>1, Zenon DEF Min

LEMMA MaxMember ==
    ASSUME NEW S, S \subseteq Nat, S # {}, IsFiniteSet(S)
    PROVE  Max(S) \in S /\ \A x \in S : Max(S) >= x
<1>1. \E n \in S : \A m \in S : n >= m
  <2>1. \A x \in S : x \in Int
    OBVIOUS
  <2>2. QED
    BY <2>1, GreatestMember, Zenon
<1>2. QED
  BY <1>1, Zenon DEF Max

\* The packets of a capture, its timestamps and its counts.
LEMMA TimesFinite ==
    ASSUME NEW ps \in Seq(Packets), NEW n \in Nat, n <= Len(ps)
    PROVE  /\ IsFiniteSet(TimedOf(ps, n)) /\ TimedOf(ps, n) \subseteq Nat \ {NoTime}
           /\ \A i \in 1 .. n : ps[i].time \in Nat /\ ps[i].outcome \in Dispositions
<1> DEFINE S == {j \in 1 .. n : ps[j].time # NoTime}
           f == [i \in S |-> ps[i].time]
<1>1. \A i \in 1 .. n : ps[i].time \in Nat /\ ps[i].outcome \in Dispositions
  <2>1. \A i \in 1 .. n : ps[i] \in Packets
    OBVIOUS
  <2>2. QED
    BY <2>1, Zenon DEF Packets
<1>2. IsFiniteSet(S)
  <2>1. IsFiniteSet(1 .. n) /\ S \subseteq 1 .. n
    BY FS_Interval
  <2> HIDE DEF S
  <2>2. QED
    BY <2>1, FS_Subset, Zenon
<1>3. f \in Surjection(S, TimedOf(ps, n))
  BY Zenon DEF Surjection, TimedOf
<1>4. QED
  BY <1>1, <1>2, <1>3, FS_Surjection DEF TimedOf

LEMMA CountsFinite ==
    ASSUME NEW n \in Nat, NEW S, S \subseteq 1 .. n
    PROVE  /\ IsFiniteSet(S) /\ Cardinality(S) \in Nat /\ Cardinality(S) <= n
           /\ Cardinality(S) = n <=> S = 1 .. n
           /\ Cardinality(S \cup {n + 1}) = Cardinality(S) + 1
<1>1. IsFiniteSet(1 .. n) /\ Cardinality(1 .. n) = n
  BY FS_Interval
<1>2. IsFiniteSet(S) /\ Cardinality(S) <= n /\ (Cardinality(S) = n <=> S = 1 .. n)
  BY <1>1, FS_Subset, Zenon
<1>3. n + 1 \notin S
  OBVIOUS
<1>4. QED
  BY <1>2, <1>3, FS_CardinalityType, FS_AddElement, Zenon

\* The totals of a prefix, with their parts named.
LEMMA FirstPacketsParts ==
    ASSUME NEW ps, NEW n, NEW protocols
    PROVE  FirstPackets(ps, n, protocols) =
             [present |-> TRUE, packets |-> n, nulls |-> Cardinality(NullsOf(ps, n)),
              min |-> IF TimedOf(ps, n) = {} THEN NoTime ELSE Min(TimedOf(ps, n)),
              max |-> IF TimedOf(ps, n) = {} THEN NoTime ELSE Max(TimedOf(ps, n)),
              counts |-> IF protocols THEN [d \in Dispositions |-> Cardinality(OutcomesOf(ps, n, d))]
                                      ELSE NoCounts]
BY Zenon DEF FirstPackets, TimedOf, NullsOf, OutcomesOf

\* Before the first packet the totals are those of nothing.
LEMMA NothingRead ==
    ASSUME NEW ps, NEW protocols
    PROVE  NoTotals(protocols) = FirstPackets(ps, 0, protocols)
<1>1. /\ NullsOf(ps, 0) = {} /\ TimedOf(ps, 0) = {}
      /\ \A d \in Dispositions : OutcomesOf(ps, 0, d) = {}
  BY DEF NullsOf, TimedOf, OutcomesOf
<1>2. Cardinality({}) = 0
  BY FS_EmptySet
<1>3. NoTotals(protocols) =
        [present |-> TRUE, packets |-> 0, nulls |-> 0, min |-> NoTime, max |-> NoTime,
         counts |-> IF protocols THEN [d \in Dispositions |-> 0] ELSE NoCounts]
  BY DEF NoTotals
<1>4. [d \in Dispositions |-> Cardinality(OutcomesOf(ps, 0, d))] = [d \in Dispositions |-> 0]
  BY <1>1, <1>2, Zenon
<1>5. QED
  BY <1>1, <1>2, <1>3, <1>4, FirstPacketsParts, Zenon

\* One more packet: its timestamp joins the others or it is one without, and the least and
\* the greatest follow.
LEMMA TimesGrow ==
    ASSUME NEW ps \in Seq(Packets), NEW n \in Nat, n < Len(ps)
    PROVE  LET t == ps[n + 1].time
               timed == n > Cardinality(NullsOf(ps, n))
           IN /\ t \in Nat /\ Cardinality(NullsOf(ps, n)) \in Nat
              /\ timed <=> TimedOf(ps, n) # {}
              /\ Cardinality(NullsOf(ps, n + 1)) = Cardinality(NullsOf(ps, n)) + (IF t = NoTime THEN 1 ELSE 0)
              /\ TimedOf(ps, n + 1) = IF t = NoTime THEN TimedOf(ps, n) ELSE TimedOf(ps, n) \cup {t}
<1> DEFINE t == ps[n + 1].time
<1>1. t \in Nat
  BY TimesFinite
<1>2. /\ NullsOf(ps, n) \subseteq 1 .. n
      /\ NullsOf(ps, n + 1) = IF t = NoTime THEN NullsOf(ps, n) \cup {n + 1} ELSE NullsOf(ps, n)
  BY DEF NullsOf
<1>3. TimedOf(ps, n + 1) = IF t = NoTime THEN TimedOf(ps, n) ELSE TimedOf(ps, n) \cup {t}
  <2>1. \A i : i \in 1 .. n + 1 <=> i \in 1 .. n \/ i = n + 1
    OBVIOUS
  <2>2. QED
    BY <2>1, Zenon DEF TimedOf
<1>4. /\ Cardinality(NullsOf(ps, n)) \in Nat /\ Cardinality(NullsOf(ps, n)) <= n
      /\ Cardinality(NullsOf(ps, n)) = n <=> NullsOf(ps, n) = 1 .. n
      /\ Cardinality(NullsOf(ps, n) \cup {n + 1}) = Cardinality(NullsOf(ps, n)) + 1
  BY <1>2, CountsFinite, Zenon
<1>5. NullsOf(ps, n) = 1 .. n <=> TimedOf(ps, n) = {}
  BY Zenon DEF NullsOf, TimedOf
<1>6. n > Cardinality(NullsOf(ps, n)) <=> TimedOf(ps, n) # {}
  BY <1>4, <1>5
<1>7. QED
  BY <1>1, <1>2, <1>3, <1>4, <1>6

\* The least and the greatest of the timestamps, one more added.
LEMMA ExtremesGrow ==
    ASSUME NEW S, S \subseteq Nat, S # {}, IsFiniteSet(S), NEW t \in Nat
    PROVE  /\ Min(S \cup {t}) = IF t < Min(S) THEN t ELSE Min(S)
           /\ Max(S \cup {t}) = IF t > Max(S) THEN t ELSE Max(S)
<1> DEFINE U == S \cup {t}
<1>1. U \subseteq Nat /\ U # {} /\ IsFiniteSet(U)
  BY FS_AddElement
<1>2. /\ Min(S) \in S /\ \A x \in S : Min(S) <= x
      /\ Max(S) \in S /\ \A x \in S : Max(S) >= x
  BY MinMember, MaxMember, Zenon
<1> HIDE DEF U
<1>3. /\ Min(U) \in U /\ \A x \in U : Min(U) <= x
      /\ Max(U) \in U /\ \A x \in U : Max(U) >= x
  BY <1>1, MinMember, MaxMember, Zenon
<1>4. U = S \cup {t} /\ \A x : x \in U <=> x \in S \/ x = t
  BY DEF U
<1>5. Min(S) \in Nat /\ Max(S) \in Nat /\ Min(U) \in Nat /\ Max(U) \in Nat
  BY <1>1, <1>2, <1>3, Zenon
<1>6. Min(U) = IF t < Min(S) THEN t ELSE Min(S)
  <2>1. Min(U) <= t /\ Min(U) <= Min(S) /\ (Min(U) = t \/ Min(S) <= Min(U))
    BY <1>2, <1>3, <1>4, Zenon
  <2>2. QED
    BY <1>5, <2>1
<1>7. Max(U) = IF t > Max(S) THEN t ELSE Max(S)
  BY <1>2, <1>3, <1>4, <1>5
<1>8. QED
  BY <1>4, <1>6, <1>7, Zenon

LEMMA ExtremesOfOne ==
    ASSUME NEW t \in Nat
    PROVE  Min({} \cup {t}) = t /\ Max({} \cup {t}) = t
<1>1. {t} \subseteq Nat /\ {t} # {} /\ IsFiniteSet({t})
  BY FS_Singleton
<1>2. Min({t}) \in {t} /\ Max({t}) \in {t}
  BY <1>1, MinMember, MaxMember, Zenon
<1>3. QED
  BY <1>2

\* Observing one more packet gives the totals of the longer prefix.
LEMMA ObservedOne ==
    ASSUME NEW ps \in Seq(Packets), NEW n \in Nat, n < Len(ps), NEW protocols \in BOOLEAN
    PROVE  Observe(FirstPackets(ps, n, protocols), ps[n + 1], protocols) = FirstPackets(ps, n + 1, protocols)
<1> DEFINE t == ps[n + 1].time
           o == ps[n + 1].outcome
           old == FirstPackets(ps, n, protocols)
           C(m) == [d \in Dispositions |-> Cardinality(OutcomesOf(ps, m, d))]
           timed == old.packets > old.nulls
           low == IF t # NoTime /\ (timed => t < old.min) THEN t ELSE old.min
           high == IF t # NoTime /\ (timed => t > old.max) THEN t ELSE old.max
           kinds == IF protocols THEN [old.counts EXCEPT ![o] = @ + 1] ELSE NoCounts
<1>1. /\ old.packets = n /\ old.nulls = Cardinality(NullsOf(ps, n))
      /\ old.min = IF TimedOf(ps, n) = {} THEN NoTime ELSE Min(TimedOf(ps, n))
      /\ old.max = IF TimedOf(ps, n) = {} THEN NoTime ELSE Max(TimedOf(ps, n))
      /\ old.counts = IF protocols THEN C(n) ELSE NoCounts
  BY FirstPacketsParts, Zenon
<1>2. /\ t \in Nat /\ Cardinality(NullsOf(ps, n)) \in Nat
      /\ timed <=> TimedOf(ps, n) # {}
      /\ Cardinality(NullsOf(ps, n + 1)) = old.nulls + (IF t = NoTime THEN 1 ELSE 0)
      /\ TimedOf(ps, n + 1) = IF t = NoTime THEN TimedOf(ps, n) ELSE TimedOf(ps, n) \cup {t}
  BY <1>1, TimesGrow, Zenon
<1>3. IsFiniteSet(TimedOf(ps, n)) /\ TimedOf(ps, n) \subseteq Nat
  BY TimesFinite
<1>4. /\ low = IF TimedOf(ps, n + 1) = {} THEN NoTime ELSE Min(TimedOf(ps, n + 1))
      /\ high = IF TimedOf(ps, n + 1) = {} THEN NoTime ELSE Max(TimedOf(ps, n + 1))
  <2>1. CASE t = NoTime
    BY <1>1, <1>2, <2>1, Zenon
  <2>2. CASE t # NoTime /\ TimedOf(ps, n) = {}
    BY <1>1, <1>2, <2>2, ExtremesOfOne, Zenon
  <2>3. CASE t # NoTime /\ TimedOf(ps, n) # {}
    <3>1. /\ Min(TimedOf(ps, n) \cup {t}) = IF t < Min(TimedOf(ps, n)) THEN t ELSE Min(TimedOf(ps, n))
          /\ Max(TimedOf(ps, n) \cup {t}) = IF t > Max(TimedOf(ps, n)) THEN t ELSE Max(TimedOf(ps, n))
      BY <1>2, <1>3, <2>3, ExtremesGrow, Zenon
    <3>2. QED
      BY <1>1, <1>2, <2>3, <3>1, Zenon
  <2>4. QED
    BY <2>1, <2>2, <2>3, Zenon
<1>5. kinds = IF protocols THEN C(n + 1) ELSE NoCounts
  <2>1. o \in Dispositions
    BY TimesFinite
  <2>2. ASSUME NEW d \in Dispositions
        PROVE  Cardinality(OutcomesOf(ps, n + 1, d)) =
                 IF d = o THEN Cardinality(OutcomesOf(ps, n, d)) + 1 ELSE Cardinality(OutcomesOf(ps, n, d))
    <3>1. OutcomesOf(ps, n, d) \subseteq 1 .. n
      BY DEF OutcomesOf
    <3>2. OutcomesOf(ps, n + 1, d) = IF d = o THEN OutcomesOf(ps, n, d) \cup {n + 1} ELSE OutcomesOf(ps, n, d)
      BY DEF OutcomesOf
    <3>3. Cardinality(OutcomesOf(ps, n, d) \cup {n + 1}) = Cardinality(OutcomesOf(ps, n, d)) + 1
      BY <3>1, CountsFinite, Zenon
    <3>4. QED
      BY <3>2, <3>3, Zenon
  <2>3. [C(n) EXCEPT ![o] = @ + 1] = C(n + 1)
    BY <2>1, <2>2, Zenon
  <2>4. QED
    BY <1>1, <2>3, Zenon
<1>6. Observe(old, ps[n + 1], protocols) =
        [present |-> TRUE, packets |-> old.packets + 1,
         nulls |-> old.nulls + (IF t = NoTime THEN 1 ELSE 0), min |-> low, max |-> high, counts |-> kinds]
  BY Zenon DEF Observe
<1> HIDE DEF low, high, kinds, old
<1>7. Observe(old, ps[n + 1], protocols) =
        [present |-> TRUE, packets |-> n + 1, nulls |-> Cardinality(NullsOf(ps, n + 1)),
         min |-> low, max |-> high, counts |-> kinds]
  BY <1>1, <1>2, <1>6, Zenon
<1>8. QED
  BY <1>4, <1>5, <1>7, FirstPacketsParts, Zenon DEF old

-----------------------------------------------------------------------------
(* The inductive invariant, each part of it over the values it speaks of.  A   *)
(* version is named by its stamp, an index into the contents c.                *)

\* An accepted row tells the truth about the version it names.
TrueIn(c, row) ==
    InventoryValidPrevious(row, FALSE)
    => row.id \in 1 .. Len(c) /\ row.sum = Summary(c[row.id], row.protocols)

FilesIn(c, v, b) ==
    /\ c \in Seq(CaptureType) /\ Range(c) \subseteq Captures /\ Len(c) <= MaxStamp
    /\ v \in Seq(1 .. Len(c))
    /\ b \in [Paths -> 0 .. Len(v)]

CatalogIn(c, rows) ==
    /\ rows \in Seq(Range(rows)) /\ Len(rows) <= MaxRows
    /\ \A n \in DOMAIN rows : TrueIn(c, rows[n])

SnapshotIn(c, previous) == \A p \in DOMAIN previous : TrueIn(c, previous[p].row)

\* A record with the fields of a Task.
IsTask(w) ==
    w = [pc |-> w.pc, row |-> w.row, id |-> w.id, object |-> w.object, before |-> w.before,
         after |-> w.after, sum |-> w.sum, cut |-> w.cut]

Steps == {"waiting", "claimed", "probed", "reading", "read", "after", "done"}

\* While the object has the version it was opened with, the totals are those of the packets
\* read so far; once the identities before and after agree, those of the whole capture.
TaskIn(c, v, protocols, fresh, w) ==
    /\ IsTask(w) /\ TrueIn(c, w.row) /\ w.object \in 0 .. Len(v) /\ w.pc \in Steps
    /\ w.pc \notin {"waiting", "done"} => fresh
    /\ w.pc \in {"reading", "read", "after"} =>
          w.object # 0 /\ w.before \in 0 .. v[w.object] /\ w.sum.packets \in Nat
    /\ w.pc = "reading" /\ w.before = v[w.object] =>
          /\ w.sum.packets <= Len(c[w.before].packets)
          /\ w.sum = FirstPackets(c[w.before].packets, w.sum.packets, protocols)
    /\ w.pc = "read" /\ w.before = v[w.object] => w.sum = Summary(c[w.before], protocols)
    /\ w.pc = "after" /\ w.before # Unknown /\ w.after = w.before => w.sum = Summary(c[w.before], protocols)

\* No metadata cache stands between a file and its identity.
FreshIn(kinds, cached, p) == ~(kinds[p].remote /\ cached)

InventoryIn(c, v, kinds, cached, s, tasks) ==
    /\ s.list \in Seq(Paths) /\ s.bind \in BindType /\ SnapshotIn(c, s.previous)
    /\ tasks = [i \in DOMAIN s.list |-> tasks[i]]
    /\ ~s.running => s.list = <<>>
    /\ \A i \in DOMAIN s.list :
          TaskIn(c, v, s.bind.protocols, FreshIn(kinds, cached, s.list[i]), tasks[i])

ScanIn(c, s) ==
    /\ s = [running |-> s.running, list |-> s.list, filter |-> s.filter,
            previous |-> s.previous, n |-> s.n, selected |-> s.selected]
    /\ s.list \in Seq(Paths) /\ s.filter \in TimeFilters /\ SnapshotIn(c, s.previous)
    /\ s.n \in Nat \ {0} /\ s.selected \in Seq(Nat)
    /\ \A k \in DOMAIN s.selected :
          s.selected[k] < IF k < Len(s.selected) THEN s.selected[k + 1] ELSE s.n

Inv ==
    /\ FilesIn(contents, version, bound) /\ CatalogIn(contents, catalog)
    /\ InventoryIn(contents, version, kind, cache, inv, work) /\ ScanIn(contents, scan)

\* The invariant of the next state, over the next values.
LEMMA InvNext ==
    Inv' <=> /\ FilesIn(contents', version', bound') /\ CatalogIn(contents', catalog')
             /\ InventoryIn(contents', version', kind', cache', inv', work') /\ ScanIn(contents', scan')
BY DEF Inv

-----------------------------------------------------------------------------
(* Files change: versions are added, and none that was read changes. *)

\* One version more; an object has the version it had or the new one.
Newer(c, v, d, u) ==
    /\ c \in Seq(CaptureType) /\ v \in Seq(1 .. Len(c)) /\ u \in Seq(1 .. Len(d))
    /\ Len(d) = Len(c) + 1 /\ \A n \in 1 .. Len(c) : d[n] = c[n]
    /\ Len(u) >= Len(v) /\ \A o \in 1 .. Len(v) : u[o] = v[o] \/ u[o] = Len(d)

LEMMA TrueGrows ==
    ASSUME NEW c, NEW v, NEW d, NEW u, Newer(c, v, d, u), NEW row, TrueIn(c, row)
    PROVE  TrueIn(d, row)
<1>1. /\ Len(c) \in Nat /\ Len(d) = Len(c) + 1 /\ \A n \in 1 .. Len(c) : d[n] = c[n]
  BY DEF Newer
<1>2. QED
  BY <1>1 DEF TrueIn

LEMMA TaskGrows ==
    ASSUME NEW c, NEW v, NEW d, NEW u, Newer(c, v, d, u),
           NEW protocols, NEW fresh, NEW w, TaskIn(c, v, protocols, fresh, w)
    PROVE  TaskIn(d, u, protocols, fresh, w)
<1>1. /\ Len(c) \in Nat /\ Len(d) = Len(c) + 1 /\ \A n \in 1 .. Len(c) : d[n] = c[n]
      /\ Len(v) \in Nat /\ Len(u) \in Nat /\ Len(u) >= Len(v)
      /\ \A o \in 1 .. Len(v) : v[o] \in 1 .. Len(c) /\ (u[o] = v[o] \/ u[o] = Len(d))
  <2>1. v \in Seq(1 .. Len(c)) /\ u \in Seq(1 .. Len(d)) /\ c \in Seq(CaptureType)
    BY DEF Newer
  <2>2. Len(c) \in Nat /\ Len(v) \in Nat /\ Len(u) \in Nat /\ \A o \in 1 .. Len(v) : v[o] \in 1 .. Len(c)
    BY <2>1
  <2>3. QED
    BY <2>2, Zenon DEF Newer
<1>2. IsTask(w) /\ TrueIn(d, w.row) /\ w.object \in 0 .. Len(u) /\ w.pc \in Steps
  BY <1>1, TrueGrows DEF TaskIn
<1>3. w.pc \notin {"waiting", "done"} => fresh
  BY Zenon DEF TaskIn
<1>4. ASSUME w.pc \in {"reading", "read", "after"}
      PROVE  /\ w.object \in 1 .. Len(v) /\ w.before \in 0 .. u[w.object] /\ w.sum.packets \in Nat
             /\ w.before \in 0 .. Len(c)
             /\ w.before = u[w.object] => w.before = v[w.object]
             /\ w.before # Unknown => d[w.before] = c[w.before]
  <2>1. w.object \in 1 .. Len(v) /\ w.before \in 0 .. v[w.object] /\ w.sum.packets \in Nat
    BY <1>1, <1>4 DEF TaskIn
  <2>2. /\ v[w.object] \in Nat /\ v[w.object] <= Len(c)
        /\ u[w.object] = v[w.object] \/ u[w.object] = Len(c) + 1
    <3>1. \A o \in 1 .. Len(v) : v[o] \in Nat /\ v[o] <= Len(c) /\ (u[o] = v[o] \/ u[o] = Len(c) + 1)
      BY <1>1
    <3>2. QED
      BY <2>1, <3>1, Zenon
  <2>3. w.before \in Nat /\ w.before <= v[w.object]
    BY <2>1, <2>2
  <2>4. /\ w.before \in 0 .. u[w.object] /\ w.before \in 0 .. Len(c)
        /\ w.before = u[w.object] => w.before = v[w.object]
    BY <1>1, <2>2, <2>3
  <2>5. w.before # Unknown => w.before \in 1 .. Len(c)
    BY <2>4 DEF Unknown
  <2>6. QED
    BY <1>1, <2>1, <2>4, <2>5, Zenon
<1>5. ASSUME w.pc \in {"reading", "read"}, w.before = u[w.object]
      PROVE  w.before = v[w.object] /\ d[w.before] = c[w.before]
  BY <1>1, <1>4, <1>5, Zenon DEF Unknown
<1>6. w.pc = "reading" /\ w.before = u[w.object] =>
          /\ w.sum.packets <= Len(d[w.before].packets)
          /\ w.sum = FirstPackets(d[w.before].packets, w.sum.packets, protocols)
  BY <1>5, Zenon DEF TaskIn
<1>7. w.pc = "read" /\ w.before = u[w.object] => w.sum = Summary(d[w.before], protocols)
  BY <1>5, Zenon DEF TaskIn
<1>8. w.pc = "after" /\ w.before # Unknown /\ w.after = w.before => w.sum = Summary(d[w.before], protocols)
  BY <1>4, Zenon DEF TaskIn
<1>9. QED
  BY <1>2, <1>3, <1>4, <1>6, <1>7, <1>8, Zenon DEF TaskIn

\* What is stored, what is running and what is selected is as true as before.
LEMMA CatalogGrows ==
    ASSUME NEW c, NEW v, NEW d, NEW u, Newer(c, v, d, u), NEW rows, CatalogIn(c, rows)
    PROVE  CatalogIn(d, rows)
BY TrueGrows, Zenon DEF CatalogIn

LEMMA SnapshotGrows ==
    ASSUME NEW c, NEW v, NEW d, NEW u, Newer(c, v, d, u), NEW previous, SnapshotIn(c, previous)
    PROVE  SnapshotIn(d, previous)
BY TrueGrows DEF SnapshotIn

LEMMA InventoryGrows ==
    ASSUME NEW c, NEW v, NEW d, NEW u, Newer(c, v, d, u), NEW kinds, NEW cached, NEW s, NEW tasks,
           InventoryIn(c, v, kinds, cached, s, tasks)
    PROVE  InventoryIn(d, u, kinds, cached, s, tasks)
<1>1. SnapshotIn(d, s.previous)
  BY SnapshotGrows, Zenon DEF InventoryIn
<1>2. ASSUME NEW i \in DOMAIN s.list
      PROVE  TaskIn(d, u, s.bind.protocols, FreshIn(kinds, cached, s.list[i]), tasks[i])
  <2>1. TaskIn(c, v, s.bind.protocols, FreshIn(kinds, cached, s.list[i]), tasks[i])
    BY Zenon DEF InventoryIn
  <2>2. QED
    BY <2>1, TaskGrows
<1>3. QED
  BY <1>1, <1>2, Zenon DEF InventoryIn

LEMMA ScanGrows ==
    ASSUME NEW c, NEW v, NEW d, NEW u, Newer(c, v, d, u), NEW s, ScanIn(c, s)
    PROVE  ScanIn(d, s)
BY SnapshotGrows, Zenon DEF ScanIn

\* A file is written in place or replaced.
LEMMA WrittenNewer ==
    ASSUME NEW c, NEW v, NEW b, FilesIn(c, v, b), NEW x \in Captures, Len(c) < MaxStamp, NEW p \in Paths
    PROVE  /\ b[p] # 0 => LET u == [v EXCEPT ![b[p]] = Len(c) + 1] IN
                           Newer(c, v, Append(c, x), u) /\ FilesIn(Append(c, x), u, b)
           /\ LET u == Append(v, Len(c) + 1) IN
                /\ Newer(c, v, Append(c, x), u)
                /\ FilesIn(Append(c, x), u, [b EXCEPT ![p] = Len(u)])
<1> DEFINE d == Append(c, x)
<1>1. x \in CaptureType /\ c \in Seq(CaptureType) /\ v \in Seq(1 .. Len(c)) /\ b \in [Paths -> 0 .. Len(v)]
  BY InventoryAssumption, Zenon DEF FilesIn
<1>2. /\ d \in Seq(CaptureType) /\ Len(d) = Len(c) + 1 /\ Len(c) \in Nat /\ Len(d) <= MaxStamp
      /\ \A n \in 1 .. Len(c) : d[n] = c[n]
  BY <1>1, InventoryAssumption
<1>3. Range(d) \subseteq Captures
  BY <1>1 DEF FilesIn, Range
<1>4. v \in Seq(1 .. Len(d)) /\ Len(v) \in Nat /\ \A o \in 1 .. Len(v) : v[o] \in 1 .. Len(d)
  BY <1>1, <1>2
<1>5. ASSUME b[p] # 0
      PROVE  LET u == [v EXCEPT ![b[p]] = Len(c) + 1] IN Newer(c, v, d, u) /\ FilesIn(d, u, b)
  <2> DEFINE u == [v EXCEPT ![b[p]] = Len(c) + 1]
  <2>1. b[p] \in 1 .. Len(v)
    BY <1>1, <1>4, <1>5
  <2>2. u \in Seq(1 .. Len(d)) /\ Len(u) = Len(v)
        /\ \A o \in 1 .. Len(v) : u[o] = v[o] \/ u[o] = Len(d)
    BY <1>2, <1>4, <2>1
  <2> HIDE DEF u, d
  <2>3. Newer(c, v, d, u)
    BY <1>1, <1>2, <1>4, <2>2 DEF Newer
  <2>4. FilesIn(d, u, b)
    BY <1>1, <1>2, <1>3, <2>2, Zenon DEF FilesIn
  <2>5. QED
    BY <2>3, <2>4, Zenon DEF u
<1>6. LET u == Append(v, Len(c) + 1) IN
        Newer(c, v, d, u) /\ FilesIn(d, u, [b EXCEPT ![p] = Len(u)])
  <2> DEFINE u == Append(v, Len(c) + 1)
             e == [b EXCEPT ![p] = Len(u)]
  <2>1. u \in Seq(1 .. Len(d)) /\ Len(u) = Len(v) + 1 /\ \A o \in 1 .. Len(v) : u[o] = v[o]
    BY <1>2, <1>4
  <2> HIDE DEF u, d
  <2>2. e \in [Paths -> 0 .. Len(u)]
    BY <1>1, <1>4, <2>1
  <2> HIDE DEF e
  <2>3. Newer(c, v, d, u)
    BY <1>1, <1>2, <1>4, <2>1 DEF Newer
  <2>4. FilesIn(d, u, e)
    BY <1>2, <1>3, <2>1, <2>2, Zenon DEF FilesIn
  <2>5. QED
    BY <2>3, <2>4, Zenon DEF u, e
<1>7. QED
  BY <1>5, <1>6, Zenon

-----------------------------------------------------------------------------
(* Tasks. *)

\* A row that no check accepts claims nothing.
LEMMA ErrorTrue ==
    ASSUME NEW c, NEW p, NEW id, NEW status, status # "complete", NEW stable, NEW protocols, NEW sum
    PROVE  TrueIn(c, Row(p, id, status, stable, protocols, sum))
BY Zenon DEF TrueIn, InventoryValidPrevious, Row

LEMMA NoRowTrue == ASSUME NEW c PROVE TrueIn(c, NoRow)
<1>1. "error" # "complete"
  OBVIOUS
<1>2. QED
  BY <1>1, ErrorTrue, Zenon DEF NoRow, ErrorRow

\* A task that waits, or that is done with a true row.
LEMMA RestingTask ==
    ASSUME NEW c, NEW v, v \in Seq(1 .. Len(c)), NEW protocols, NEW fresh, NEW pc \in {"waiting", "done"},
           NEW row, TrueIn(c, row)
    PROVE  TaskIn(c, v, protocols, fresh, Task(pc, row))
<1> DEFINE t == Task(pc, row)
<1>1. IsTask(t) /\ t.row = row /\ t.pc = pc /\ t.object = 0
  BY Zenon DEF Task, IsTask
<1>2. Len(v) \in Nat
  OBVIOUS
<1> HIDE DEF t
<1>3. TaskIn(c, v, protocols, fresh, t)
  BY <1>1, <1>2 DEF TaskIn, Steps
<1>4. QED
  BY <1>3 DEF t

LEMMA IdleInventory ==
    ASSUME NEW c, NEW v, NEW kinds, NEW cached
    PROVE  InventoryIn(c, v, kinds, cached, NoInventory, <<>>)
<1>1. /\ NoInventory.list = <<>> /\ NoInventory.bind = NoBind /\ NoInventory.previous = NoSnapshot
      /\ NoInventory.running = FALSE
  BY DEF NoInventory
<1>2. NoBind \in BindType
  BY DEF NoBind, BindType
<1>3. SnapshotIn(c, NoSnapshot)
  BY DEF SnapshotIn, NoSnapshot
<1>4. <<>> \in Seq(Paths) /\ DOMAIN <<>> = {} /\ <<>> = [i \in DOMAIN <<>> |-> <<>>[i]]
  OBVIOUS
<1>5. QED
  BY <1>1, <1>2, <1>3, <1>4, Zenon DEF InventoryIn

\* One task changes.
Became(tasks, i, t) == [tasks EXCEPT ![i] = t]

LEMMA BecameOK ==
    ASSUME NEW c, NEW v, NEW kinds, NEW cached, NEW s, NEW tasks, InventoryIn(c, v, kinds, cached, s, tasks),
           NEW i \in DOMAIN s.list, NEW t,
           TaskIn(c, v, s.bind.protocols, FreshIn(kinds, cached, s.list[i]), t)
    PROVE  InventoryIn(c, v, kinds, cached, s, Became(tasks, i, t))
<1> DEFINE u == Became(tasks, i, t)
<1>1. tasks = [j \in DOMAIN s.list |-> tasks[j]]
  BY Zenon DEF InventoryIn
<1>2. /\ u = [j \in DOMAIN s.list |-> u[j]]
      /\ u[i] = t /\ \A j \in DOMAIN s.list : j # i => u[j] = tasks[j]
  BY <1>1, Zenon DEF Became
<1> HIDE DEF u
<1>3. ASSUME NEW j \in DOMAIN s.list
      PROVE  TaskIn(c, v, s.bind.protocols, FreshIn(kinds, cached, s.list[j]), u[j])
  <2>1. TaskIn(c, v, s.bind.protocols, FreshIn(kinds, cached, s.list[j]), tasks[j])
    BY Zenon DEF InventoryIn
  <2>2. QED
    BY <1>2, <2>1, Zenon
<1>4. InventoryIn(c, v, kinds, cached, s, u)
  BY <1>2, <1>3, Zenon DEF InventoryIn
<1>5. QED
  BY <1>4, Zenon DEF u

\* The steps of a task, by what they set.
Claimed(w) == [w EXCEPT !.pc = "claimed"]
Probed(w, id) == [w EXCEPT !.pc = "probed", !.id = id]
Opened(w, object, id, sum) == [w EXCEPT !.pc = "reading", !.object = object, !.before = id, !.sum = sum]
Added(w, sum) == [w EXCEPT !.sum = sum]
ReadOut(w, cut) == [w EXCEPT !.pc = "read", !.cut = cut]
Compared(w, id) == [w EXCEPT !.pc = "after", !.after = id]

LEMMA TaskFields ==
    ASSUME NEW w, IsTask(w), NEW id, NEW object, NEW sum, NEW cut
    PROVE  /\ Claimed(w) =
                [pc |-> "claimed", row |-> w.row, id |-> w.id, object |-> w.object, before |-> w.before,
                 after |-> w.after, sum |-> w.sum, cut |-> w.cut]
           /\ Probed(w, id) =
                [pc |-> "probed", row |-> w.row, id |-> id, object |-> w.object, before |-> w.before,
                 after |-> w.after, sum |-> w.sum, cut |-> w.cut]
           /\ Opened(w, object, id, sum) =
                [pc |-> "reading", row |-> w.row, id |-> w.id, object |-> object, before |-> id,
                 after |-> w.after, sum |-> sum, cut |-> w.cut]
           /\ Added(w, sum) =
                [pc |-> w.pc, row |-> w.row, id |-> w.id, object |-> w.object, before |-> w.before,
                 after |-> w.after, sum |-> sum, cut |-> w.cut]
           /\ ReadOut(w, cut) =
                [pc |-> "read", row |-> w.row, id |-> w.id, object |-> w.object, before |-> w.before,
                 after |-> w.after, sum |-> w.sum, cut |-> cut]
           /\ Compared(w, id) =
                [pc |-> "after", row |-> w.row, id |-> w.id, object |-> w.object, before |-> w.before,
                 after |-> id, sum |-> w.sum, cut |-> w.cut]
<1>1. Claimed(w) =
        [pc |-> "claimed", row |-> w.row, id |-> w.id, object |-> w.object, before |-> w.before,
         after |-> w.after, sum |-> w.sum, cut |-> w.cut]
  BY DEF IsTask, Claimed
<1>2. Probed(w, id) =
        [pc |-> "probed", row |-> w.row, id |-> id, object |-> w.object, before |-> w.before,
         after |-> w.after, sum |-> w.sum, cut |-> w.cut]
  <2> DEFINE a == [w EXCEPT !.pc = "probed"]
  <2>1. a =
          [pc |-> "probed", row |-> w.row, id |-> w.id, object |-> w.object, before |-> w.before,
           after |-> w.after, sum |-> w.sum, cut |-> w.cut]
    BY DEF IsTask
  <2> HIDE DEF a
  <2> DEFINE b == [a EXCEPT !.id = id]
  <2>2. b =
          [pc |-> "probed", row |-> w.row, id |-> id, object |-> w.object, before |-> w.before,
           after |-> w.after, sum |-> w.sum, cut |-> w.cut]
    BY <2>1
  <2>3. Probed(w, id) = b
    BY DEF Probed, a, b
  <2>4. QED
    BY <2>2, <2>3, Zenon
<1>3. Opened(w, object, id, sum) =
        [pc |-> "reading", row |-> w.row, id |-> w.id, object |-> object, before |-> id,
         after |-> w.after, sum |-> sum, cut |-> w.cut]
  <2> DEFINE a == [w EXCEPT !.pc = "reading"]
  <2>1. a =
          [pc |-> "reading", row |-> w.row, id |-> w.id, object |-> w.object, before |-> w.before,
           after |-> w.after, sum |-> w.sum, cut |-> w.cut]
    BY DEF IsTask
  <2> HIDE DEF a
  <2> DEFINE b == [a EXCEPT !.object = object]
  <2>2. b =
          [pc |-> "reading", row |-> w.row, id |-> w.id, object |-> object, before |-> w.before,
           after |-> w.after, sum |-> w.sum, cut |-> w.cut]
    BY <2>1
  <2> HIDE DEF b
  <2> DEFINE c == [b EXCEPT !.before = id]
  <2>3. c =
          [pc |-> "reading", row |-> w.row, id |-> w.id, object |-> object, before |-> id,
           after |-> w.after, sum |-> w.sum, cut |-> w.cut]
    BY <2>2
  <2> HIDE DEF c
  <2> DEFINE d == [c EXCEPT !.sum = sum]
  <2>4. d =
          [pc |-> "reading", row |-> w.row, id |-> w.id, object |-> object, before |-> id,
           after |-> w.after, sum |-> sum, cut |-> w.cut]
    BY <2>3
  <2>5. Opened(w, object, id, sum) = d
    BY DEF Opened, a, b, c, d
  <2>6. QED
    BY <2>4, <2>5, Zenon
<1>4. Added(w, sum) =
        [pc |-> w.pc, row |-> w.row, id |-> w.id, object |-> w.object, before |-> w.before,
         after |-> w.after, sum |-> sum, cut |-> w.cut]
  BY DEF IsTask, Added
<1>5. ReadOut(w, cut) =
        [pc |-> "read", row |-> w.row, id |-> w.id, object |-> w.object, before |-> w.before,
         after |-> w.after, sum |-> w.sum, cut |-> cut]
  <2> DEFINE a == [w EXCEPT !.pc = "read"]
  <2>1. a =
          [pc |-> "read", row |-> w.row, id |-> w.id, object |-> w.object, before |-> w.before,
           after |-> w.after, sum |-> w.sum, cut |-> w.cut]
    BY DEF IsTask
  <2> HIDE DEF a
  <2> DEFINE b == [a EXCEPT !.cut = cut]
  <2>2. b =
          [pc |-> "read", row |-> w.row, id |-> w.id, object |-> w.object, before |-> w.before,
           after |-> w.after, sum |-> w.sum, cut |-> cut]
    BY <2>1
  <2>3. ReadOut(w, cut) = b
    BY DEF ReadOut, a, b
  <2>4. QED
    BY <2>2, <2>3, Zenon
<1>6. Compared(w, id) =
        [pc |-> "after", row |-> w.row, id |-> w.id, object |-> w.object, before |-> w.before,
         after |-> id, sum |-> w.sum, cut |-> w.cut]
  <2> DEFINE a == [w EXCEPT !.pc = "after"]
  <2>1. a =
          [pc |-> "after", row |-> w.row, id |-> w.id, object |-> w.object, before |-> w.before,
           after |-> w.after, sum |-> w.sum, cut |-> w.cut]
    BY DEF IsTask
  <2> HIDE DEF a
  <2> DEFINE b == [a EXCEPT !.after = id]
  <2>2. b =
          [pc |-> "after", row |-> w.row, id |-> w.id, object |-> w.object, before |-> w.before,
           after |-> id, sum |-> w.sum, cut |-> w.cut]
    BY <2>1
  <2>3. Compared(w, id) = b
    BY DEF Compared, a, b
  <2>4. QED
    BY <2>2, <2>3, Zenon
<1>7. QED
  BY <1>1, <1>2, <1>3, <1>4, <1>5, <1>6, Zenon

LEMMA TaskClaimed ==
    ASSUME NEW c, NEW v, NEW protocols, NEW fresh, NEW w, TaskIn(c, v, protocols, fresh, w), fresh
    PROVE  TaskIn(c, v, protocols, fresh, Claimed(w))
<1> DEFINE t == Claimed(w)
<1>1. IsTask(w)
  BY Zenon DEF TaskIn
<1>2. t.pc = "claimed" /\ t.row = w.row /\ t.object = w.object /\ IsTask(t)
  BY <1>1, TaskFields DEF IsTask
<1> HIDE DEF t
<1>3. TaskIn(c, v, protocols, fresh, t)
  BY <1>2, Zenon DEF TaskIn, Steps
<1>4. QED
  BY <1>3, Zenon DEF t

LEMMA TaskProbed ==
    ASSUME NEW c, NEW v, NEW protocols, NEW fresh, NEW w, TaskIn(c, v, protocols, fresh, w), fresh, NEW id
    PROVE  TaskIn(c, v, protocols, fresh, Probed(w, id))
<1> DEFINE t == Probed(w, id)
<1>1. IsTask(w)
  BY Zenon DEF TaskIn
<1>2. t.pc = "probed" /\ t.row = w.row /\ t.object = w.object /\ IsTask(t)
  BY <1>1, TaskFields DEF IsTask
<1> HIDE DEF t
<1>3. TaskIn(c, v, protocols, fresh, t)
  BY <1>2, Zenon DEF TaskIn, Steps
<1>4. QED
  BY <1>3, Zenon DEF t

\* A version of an object is a stamp, and what it names is a capture.
LEMMA VersionNamed ==
    ASSUME NEW c, NEW v, NEW b, FilesIn(c, v, b), NEW o \in 1 .. Len(v)
    PROVE  /\ v[o] \in 1 .. Len(c) /\ v[o] \in Nat /\ v[o] # Unknown /\ Len(c) \in Nat /\ Len(v) \in Nat
           /\ c[v[o]].packets \in Seq(Packets) /\ Len(c[v[o]].packets) \in Nat
<1>1. v \in Seq(1 .. Len(c)) /\ c \in Seq(CaptureType) /\ Len(c) \in Nat /\ Len(v) \in Nat
  BY DEF FilesIn
<1>2. v[o] \in 1 .. Len(c)
  BY <1>1
<1>3. c[v[o]] \in CaptureType
  BY <1>1, <1>2
<1>4. c[v[o]].packets \in Seq(Packets)
  BY <1>3, Zenon DEF CaptureType
<1>5. QED
  BY <1>1, <1>2, <1>4 DEF Unknown

LEMMA TaskOpened ==
    ASSUME NEW c, NEW v, NEW b, FilesIn(c, v, b),
           NEW protocols, NEW fresh, NEW w, TaskIn(c, v, protocols, fresh, w), fresh,
           NEW o \in 1 .. Len(v), NEW id \in {Unknown, v[o]}
    PROVE  TaskIn(c, v, protocols, fresh, Opened(w, o, id, NoTotals(protocols)))
<1> DEFINE t == Opened(w, o, id, NoTotals(protocols))
<1>1. IsTask(w)
  BY Zenon DEF TaskIn
<1>2. /\ t.pc = "reading" /\ t.row = w.row /\ t.object = o /\ t.before = id /\ t.sum = NoTotals(protocols)
      /\ IsTask(t)
  BY <1>1, TaskFields DEF IsTask
<1> HIDE DEF t
<1>3. NoTotals(protocols).packets = 0
  BY Zenon DEF NoTotals
<1>4. v[o] \in 1 .. Len(c) /\ v[o] \in Nat /\ v[o] # Unknown /\ Len(v) \in Nat /\ Len(c[v[o]].packets) \in Nat
  BY VersionNamed, Zenon
<1>5. o # 0 /\ id \in 0 .. v[o] /\ o \in 0 .. Len(v)
  BY <1>4 DEF Unknown
<1>6. t.before = v[t.object] =>
        /\ t.sum.packets <= Len(c[t.before].packets)
        /\ t.sum = FirstPackets(c[t.before].packets, t.sum.packets, protocols)
  BY <1>2, <1>3, <1>4, NothingRead
<1>7. TrueIn(c, t.row)
  BY <1>2, Zenon DEF TaskIn
<1>8. TaskIn(c, v, protocols, fresh, t)
  BY <1>2, <1>3, <1>5, <1>6, <1>7 DEF TaskIn, Steps
<1>9. QED
  BY <1>8, Zenon DEF t

\* The object of a task that reads.
LEMMA ReadingTask ==
    ASSUME NEW c, NEW v, NEW b, FilesIn(c, v, b),
           NEW protocols, NEW fresh, NEW w, TaskIn(c, v, protocols, fresh, w), w.pc \in {"reading", "read", "after"}
    PROVE  /\ w.object \in 1 .. Len(v) /\ w.before \in Nat /\ w.before \in 0 .. v[w.object] /\ w.sum.packets \in Nat
           /\ v[w.object] \in 1 .. Len(c) /\ v[w.object] # Unknown /\ fresh /\ IsTask(w) /\ TrueIn(c, w.row)
           /\ c[v[w.object]].packets \in Seq(Packets) /\ Len(c[v[w.object]].packets) \in Nat
<1>1. /\ w.object \in 0 .. Len(v) /\ w.object # 0 /\ w.before \in 0 .. v[w.object] /\ w.sum.packets \in Nat
      /\ fresh /\ IsTask(w) /\ TrueIn(c, w.row)
  BY Zenon DEF TaskIn
<1>2. Len(v) \in Nat
  BY DEF FilesIn
<1>3. w.object \in 1 .. Len(v)
  BY <1>1, <1>2
<1>4. /\ v[w.object] \in 1 .. Len(c) /\ v[w.object] \in Nat /\ v[w.object] # Unknown
      /\ c[v[w.object]].packets \in Seq(Packets) /\ Len(c[v[w.object]].packets) \in Nat
  BY <1>3, VersionNamed, Zenon
<1>5. QED
  BY <1>1, <1>3, <1>4

LEMMA TaskAdded ==
    ASSUME NEW c, NEW v, NEW b, FilesIn(c, v, b),
           NEW protocols \in BOOLEAN, NEW fresh, NEW w, TaskIn(c, v, protocols, fresh, w), w.pc = "reading",
           w.sum.packets < Len(c[v[w.object]].packets)
    PROVE  TaskIn(c, v, protocols, fresh,
                  Added(w, Observe(w.sum, c[v[w.object]].packets[w.sum.packets + 1], protocols)))
<1> DEFINE ps == c[v[w.object]].packets
           sum == Observe(w.sum, ps[w.sum.packets + 1], protocols)
           t == Added(w, sum)
<1>1. /\ w.object \in 1 .. Len(v) /\ w.before \in 0 .. v[w.object] /\ w.sum.packets \in Nat
      /\ fresh /\ IsTask(w) /\ TrueIn(c, w.row) /\ ps \in Seq(Packets) /\ Len(ps) \in Nat
  BY ReadingTask
<1>2. /\ t.pc = "reading" /\ t.row = w.row /\ t.object = w.object /\ t.before = w.before /\ t.sum = sum
      /\ IsTask(t)
  <2> HIDE DEF sum, ps
  <2>1. QED
    BY <1>1, TaskFields DEF IsTask
<1>3. sum.packets = w.sum.packets + 1
  BY Zenon DEF Observe
<1>4. ASSUME w.before = v[w.object]
      PROVE  sum = FirstPackets(ps, w.sum.packets + 1, protocols)
  <2>1. w.sum = FirstPackets(ps, w.sum.packets, protocols)
    BY <1>4, Zenon DEF TaskIn
  <2> DEFINE n == w.sum.packets
  <2>2. n \in Nat /\ n < Len(ps) /\ ps \in Seq(Packets)
    BY <1>1, Zenon
  <2>3. sum = Observe(FirstPackets(ps, n, protocols), ps[n + 1], protocols)
    BY <2>1, Zenon
  <2> HIDE DEF n, ps, sum
  <2>4. sum = FirstPackets(ps, n + 1, protocols)
    BY <2>2, <2>3, ObservedOne, Zenon
  <2>5. QED
    BY <2>4, Zenon DEF n
<1>5. w.sum.packets + 1 \in Nat /\ w.sum.packets + 1 <= Len(ps)
  BY <1>1
<1>6. w.object # 0 /\ w.object \in 0 .. Len(v)
  BY <1>1 DEF FilesIn
<1> HIDE DEF sum, t
<1>7. t.before = v[t.object] =>
        /\ t.sum.packets <= Len(c[t.before].packets)
        /\ t.sum = FirstPackets(c[t.before].packets, t.sum.packets, protocols)
  BY <1>2, <1>3, <1>4, <1>5, Zenon
<1> HIDE DEF ps
<1>8. TaskIn(c, v, protocols, fresh, t)
  BY <1>1, <1>2, <1>3, <1>5, <1>6, <1>7, Zenon DEF TaskIn, Steps
<1>9. QED
  BY <1>8, Zenon DEF t, sum, ps

LEMMA TaskReadOut ==
    ASSUME NEW c, NEW v, NEW b, FilesIn(c, v, b),
           NEW protocols, NEW fresh, NEW w, TaskIn(c, v, protocols, fresh, w), w.pc = "reading",
           ~(w.sum.packets < Len(c[v[w.object]].packets)), NEW cut
    PROVE  TaskIn(c, v, protocols, fresh, ReadOut(w, cut))
<1> DEFINE t == ReadOut(w, cut)
<1>1. /\ w.object \in 1 .. Len(v) /\ w.before \in 0 .. v[w.object] /\ w.sum.packets \in Nat
      /\ fresh /\ IsTask(w) /\ TrueIn(c, w.row) /\ Len(c[v[w.object]].packets) \in Nat
  BY ReadingTask
<1>2. /\ t.pc = "read" /\ t.row = w.row /\ t.object = w.object /\ t.before = w.before /\ t.sum = w.sum
      /\ IsTask(t)
  BY <1>1, TaskFields DEF IsTask
<1>3. ASSUME w.before = v[w.object]
      PROVE  w.sum = Summary(c[w.before], protocols)
  <2>1. /\ w.sum.packets <= Len(c[w.before].packets)
        /\ w.sum = FirstPackets(c[w.before].packets, w.sum.packets, protocols)
    BY <1>3, Zenon DEF TaskIn
  <2>2. w.sum.packets = Len(c[w.before].packets)
    BY <1>1, <1>3, <2>1
  <2>3. QED
    BY <2>1, <2>2, Zenon DEF Summary
<1>4. w.object # 0 /\ w.object \in 0 .. Len(v)
  BY <1>1 DEF FilesIn
<1> HIDE DEF t
<1>5. TaskIn(c, v, protocols, fresh, t)
  BY <1>1, <1>2, <1>3, <1>4, Zenon DEF TaskIn, Steps
<1>6. QED
  BY <1>5, Zenon DEF t

LEMMA TaskCompared ==
    ASSUME NEW c, NEW v, NEW b, FilesIn(c, v, b),
           NEW protocols, NEW fresh, NEW w, TaskIn(c, v, protocols, fresh, w), w.pc = "read",
           NEW id \in {Unknown, v[w.object]}
    PROVE  TaskIn(c, v, protocols, fresh, Compared(w, id))
<1> DEFINE t == Compared(w, id)
<1>1. /\ w.object \in 1 .. Len(v) /\ w.before \in 0 .. v[w.object] /\ w.sum.packets \in Nat
      /\ fresh /\ IsTask(w) /\ TrueIn(c, w.row)
  BY ReadingTask
<1>2. /\ t.pc = "after" /\ t.row = w.row /\ t.object = w.object /\ t.before = w.before /\ t.sum = w.sum
      /\ t.after = id /\ IsTask(t)
  BY <1>1, TaskFields DEF IsTask
<1>3. w.before = v[w.object] => w.sum = Summary(c[w.before], protocols)
  BY Zenon DEF TaskIn
<1>4. w.object # 0 /\ w.object \in 0 .. Len(v)
  BY <1>1 DEF FilesIn
<1> HIDE DEF t
<1>5. TaskIn(c, v, protocols, fresh, t)
  BY <1>1, <1>2, <1>3, <1>4, Zenon DEF TaskIn, Steps
<1>6. QED
  BY <1>5, Zenon DEF t

-----------------------------------------------------------------------------
(* Rows made by a task. *)

\* A stricter check accepts no more.
LEMMA ValidWeaker ==
    ASSUME NEW row, NEW protocols, InventoryValidPrevious(row, protocols)
    PROVE  InventoryValidPrevious(row, FALSE) /\ (protocols => row.protocols)
BY DEF InventoryValidPrevious

\* A summary without its protocol counts is one of a scan without protocols.
LEMMA SummaryLess ==
    ASSUME NEW capture, NEW protocols
    PROVE  [Summary(capture, protocols) EXCEPT !.counts = NoCounts] = Summary(capture, FALSE)
<1> DEFINE ps == capture.packets
           n == Len(ps)
           low == IF TimedOf(ps, n) = {} THEN NoTime ELSE Min(TimedOf(ps, n))
           high == IF TimedOf(ps, n) = {} THEN NoTime ELSE Max(TimedOf(ps, n))
           kinds == IF protocols THEN [d \in Dispositions |-> Cardinality(OutcomesOf(ps, n, d))] ELSE NoCounts
           r == Summary(capture, protocols)
           yes == TRUE
           nulls == Cardinality(NullsOf(ps, n))
<1>1. /\ r = [present |-> yes, packets |-> n, nulls |-> nulls, min |-> low, max |-> high,
              counts |-> kinds]
      /\ Summary(capture, FALSE) =
           [present |-> yes, packets |-> n, nulls |-> nulls, min |-> low, max |-> high,
            counts |-> NoCounts]
  BY FirstPacketsParts, Zenon DEF Summary
<1> HIDE DEF r, yes, nulls, low, high, kinds, n, ps
<1>2. [r EXCEPT !.counts = NoCounts] =
        [present |-> yes, packets |-> n, nulls |-> nulls, min |-> low, max |-> high, counts |-> NoCounts]
  <2>1. r = [present |-> yes, packets |-> n, nulls |-> nulls, min |-> low, max |-> high, counts |-> kinds]
    BY <1>1, Zenon
  <2>2. QED
    BY <2>1
<1>3. [r EXCEPT !.counts = NoCounts] = Summary(capture, FALSE)
  BY <1>1, <1>2, Zenon
<1>4. QED
  BY <1>3, Zenon DEF r

\* A reused row is true of the version it was reused for.
LEMMA ReusedTrue ==
    ASSUME NEW c, NEW old, TrueIn(c, old), NEW protocols \in BOOLEAN, InventoryValidPrevious(old, protocols),
           NEW id, InventoryIdentityMatches(id, old)
    PROVE  /\ id \in 1 .. Len(c)
           /\ (IF protocols THEN old.sum ELSE [old.sum EXCEPT !.counts = NoCounts]) = Summary(c[id], protocols)
<1>1. InventoryValidPrevious(old, FALSE) /\ (protocols => old.protocols) /\ id = old.id
  BY ValidWeaker, Zenon DEF InventoryIdentityMatches
<1>2. id \in 1 .. Len(c) /\ old.sum = Summary(c[id], old.protocols)
  BY <1>1, Zenon DEF TrueIn
<1>3. CASE protocols
  <2>1. Summary(c[id], old.protocols) = Summary(c[id], TRUE)
    BY <1>1, <1>3, Zenon DEF Summary, FirstPackets
  <2>2. QED
    BY <1>2, <1>3, <2>1, Zenon
<1>4. CASE ~protocols
  BY <1>2, <1>4, SummaryLess, Zenon
<1>5. QED
  BY <1>3, <1>4, Zenon

LEMMA RowParts ==
    ASSUME NEW p, NEW id, NEW status, NEW stable, NEW protocols, NEW sum
    PROVE  LET r == Row(p, id, status, stable, protocols, sum) IN
           r.path = p /\ r.id = id /\ r.status = status /\ r.stable = stable /\ r.protocols = protocols /\ r.sum = sum
BY Zenon DEF Row

LEMMA SummaryTrue ==
    ASSUME NEW c, NEW id, id \in 1 .. Len(c), NEW p, NEW status, NEW stable, NEW protocols
    PROVE  TrueIn(c, Row(p, id, status, stable, protocols, Summary(c[id], protocols)))
BY RowParts DEF TrueIn

-----------------------------------------------------------------------------
(* Every step keeps the invariant. *)

\* Without a metadata cache an identity is the present one or none.
LEMMA FreshIdentity ==
    ASSUME NEW p, NEW o, FreshIn(kind, cache, p), NEW id \in ReadCaptureIdentity(p, o)
    PROVE  id \in {Unknown, version[o]}
BY DEF ReadCaptureIdentity, FreshIn, Remote

\* A step of the inventory alone.
LEMMA InventoryMoves ==
    ASSUME Inv, InventoryUnchanged, InventoryIn(contents, version, kind, cache, inv', work')
    PROVE  Inv'
<1>1. contents' = contents /\ version' = version /\ bound' = bound /\ kind' = kind /\ cache' = cache
      /\ catalog' = catalog /\ scan' = scan
  BY DEF InventoryUnchanged, files
<1>2. QED
  BY <1>1, InvNext, Zenon DEF Inv

LEMMA FailInv == ASSUME Inv, FailStatement PROVE Inv'
<1>1. inv' = NoInventory /\ work' = <<>> /\ InventoryUnchanged
  BY DEF FailStatement
<1>2. InventoryIn(contents, version, kind, cache, NoInventory, <<>>)
  BY IdleInventory, Zenon
<1>3. QED
  BY <1>1, <1>2, InventoryMoves, Zenon

\* The task of an occurrence.
LEMMA TaskOf ==
    ASSUME Inv, NEW i \in DOMAIN work
    PROVE  /\ i \in DOMAIN inv.list /\ Path(i) \in Paths /\ inv.bind \in BindType /\ inv.bind.protocols \in BOOLEAN
           /\ FilesIn(contents, version, bound) /\ version \in Seq(1 .. Len(contents))
           /\ InventoryIn(contents, version, kind, cache, inv, work)
           /\ TaskIn(contents, version, inv.bind.protocols, FreshIn(kind, cache, Path(i)), work[i])
<1>1. InventoryIn(contents, version, kind, cache, inv, work) /\ FilesIn(contents, version, bound)
  BY DEF Inv
<1>2. i \in DOMAIN inv.list /\ inv.list \in Seq(Paths) /\ inv.bind \in BindType
  <2>1. work = [j \in DOMAIN inv.list |-> work[j]] /\ inv.list \in Seq(Paths) /\ inv.bind \in BindType
    BY <1>1, Zenon DEF InventoryIn
  <2>2. DOMAIN work = DOMAIN inv.list
    BY <2>1, Zenon
  <2>3. QED
    BY <2>1, <2>2, Zenon
<1>3. Path(i) \in Paths /\ Path(i) = inv.list[i]
  BY <1>2 DEF Path
<1>4. TaskIn(contents, version, inv.bind.protocols, FreshIn(kind, cache, inv.list[i]), work[i])
  BY <1>1, <1>2, Zenon DEF InventoryIn
<1>5. QED
  BY <1>1, <1>2, <1>3, <1>4, Zenon DEF BindType, FilesIn

LEMMA EmitInv ==
    ASSUME Inv, NEW i \in DOMAIN work, NEW row, TrueIn(contents, row),
           work' = Became(work, i, Task("done", row)), inv' = inv, InventoryUnchanged
    PROVE  Inv'
<1>1. /\ i \in DOMAIN inv.list /\ version \in Seq(1 .. Len(contents))
      /\ InventoryIn(contents, version, kind, cache, inv, work)
  BY TaskOf, Zenon
<1>2. TaskIn(contents, version, inv.bind.protocols, FreshIn(kind, cache, inv.list[i]), Task("done", row))
  BY <1>1, RestingTask, Zenon
<1>3. InventoryIn(contents, version, kind, cache, inv, Became(work, i, Task("done", row)))
  BY <1>1, <1>2, BecameOK, Zenon
<1>4. QED
  BY <1>3, InventoryMoves, Zenon

LEMMA ThrowInv ==
    ASSUME Inv, NEW i \in DOMAIN work, NEW status \in {"error", "changed"}, Throw(i, status)
    PROVE  Inv'
<1>1. CASE FailStatement
  BY <1>1, FailInv, Zenon
<1>2. CASE Emit(i, ErrorRow(Path(i), RowIdentity(work[i]), status, inv.bind.protocols))
  <2> DEFINE row == ErrorRow(Path(i), RowIdentity(work[i]), status, inv.bind.protocols)
  <2>1. status # "complete"
    OBVIOUS
  <2>2. TrueIn(contents, row)
    BY <2>1, ErrorTrue, Zenon DEF ErrorRow
  <2>3. work' = Became(work, i, Task("done", row)) /\ inv' = inv /\ InventoryUnchanged
    BY <1>2, Zenon DEF Emit, Become, Became
  <2> HIDE DEF row
  <2>4. QED
    BY <2>2, <2>3, EmitInv, Zenon
<1>3. QED
  BY <1>1, <1>2, Zenon DEF Throw

\* Taking an occurrence, and a probe that reuses a summary or goes on.
LEMMA ClaimInv == ASSUME Inv, NEW i \in DOMAIN work, Claim(i) PROVE Inv'
<1>1. CASE FailStatement
  BY <1>1, FailInv, Zenon
<1>2. CASE ~(Remote(Path(i)) /\ cache) /\ Become(i, [work[i] EXCEPT !.pc = "claimed"])
  <2>1. work' = Became(work, i, Claimed(work[i])) /\ inv' = inv /\ InventoryUnchanged
    BY <1>2, Zenon DEF Become, Became, Claimed
  <2>2. FreshIn(kind, cache, Path(i))
    BY <1>2, Zenon DEF FreshIn, Remote
  <2>3. TaskIn(contents, version, inv.bind.protocols, FreshIn(kind, cache, Path(i)), Claimed(work[i]))
    BY <2>2, TaskOf, TaskClaimed, Zenon
  <2>4. InventoryIn(contents, version, kind, cache, inv, Became(work, i, Claimed(work[i])))
    BY <2>3, TaskOf, BecameOK, Zenon DEF Path
  <2>5. QED
    BY <2>1, <2>4, InventoryMoves, Zenon
<1>3. QED
  BY <1>1, <1>2, Zenon DEF Claim

\* The row a probe may reuse is one of the snapshot, for the version the path has now.
LEMMA ReusedRowTrue ==
    ASSUME Inv, NEW i \in DOMAIN work, NEW id, Reusable(i, id)
    PROVE  /\ TrueIn(contents, ReusedRow(i, id)) /\ id \in 1 .. Len(contents)
           /\ ReusedRow(i, id).sum = Summary(contents[id], inv.bind.protocols)
<1> DEFINE old == inv.previous[Path(i)].row
           protocols == inv.bind.protocols
           sum == IF protocols THEN old.sum ELSE [old.sum EXCEPT !.counts = NoCounts]
<1>1. /\ Path(i) \in DOMAIN inv.previous /\ InventoryValidPrevious(old, protocols)
      /\ InventoryIdentityMatches(id, old)
  BY Zenon DEF Reusable
<1>2. TrueIn(contents, old) /\ protocols \in BOOLEAN
  BY <1>1, TaskOf, Zenon DEF InventoryIn, SnapshotIn
<1>3. id \in 1 .. Len(contents) /\ sum = Summary(contents[id], protocols)
  <2> HIDE DEF old, protocols
  <2>1. QED
    BY <1>1, <1>2, ReusedTrue
<1>4. ReusedRow(i, id) = Row(Path(i), id, "complete", "true", protocols, sum)
  BY DEF ReusedRow
<1> HIDE DEF sum, old, protocols
<1>5. TrueIn(contents, Row(Path(i), id, "complete", "true", protocols, sum))
  BY <1>3, SummaryTrue, Zenon
<1>6. Row(Path(i), id, "complete", "true", protocols, sum).sum = sum
  BY RowParts
<1>7. QED
  BY <1>3, <1>4, <1>5, <1>6, Zenon DEF protocols

LEMMA ProbeInv == ASSUME Inv, NEW i \in DOMAIN work, Probe(i) PROVE Inv'
<1>1. CASE Throw(i, "error")
  BY <1>1, ThrowInv, Zenon
<1>2. ASSUME NEW id \in ReadCaptureIdentity(Path(i), bound[Path(i)]), Reusable(i, id), Emit(i, ReusedRow(i, id))
      PROVE  Inv'
  <2>1. TrueIn(contents, ReusedRow(i, id))
    BY <1>2, ReusedRowTrue, Zenon
  <2>2. work' = Became(work, i, Task("done", ReusedRow(i, id))) /\ inv' = inv /\ InventoryUnchanged
    BY <1>2, Zenon DEF Emit, Become, Became
  <2>3. QED
    BY <2>1, <2>2, EmitInv, Zenon
<1>3. ASSUME NEW id \in ReadCaptureIdentity(Path(i), bound[Path(i)]),
             Become(i, [work[i] EXCEPT !.pc = "probed", !.id = id])
      PROVE  Inv'
  <2>1. work' = Became(work, i, Probed(work[i], id)) /\ inv' = inv /\ InventoryUnchanged
    BY <1>3, Zenon DEF Become, Became, Probed
  <2>2. FreshIn(kind, cache, Path(i))
    <3>1. work[i].pc = "claimed"
      BY Zenon DEF Probe
    <3>2. QED
      BY <3>1, TaskOf, Zenon DEF TaskIn
  <2>3. TaskIn(contents, version, inv.bind.protocols, FreshIn(kind, cache, Path(i)), Probed(work[i], id))
    BY <2>2, TaskOf, TaskProbed, Zenon
  <2>4. InventoryIn(contents, version, kind, cache, inv, Became(work, i, Probed(work[i], id)))
    BY <2>3, TaskOf, BecameOK, Zenon DEF Path
  <2>5. QED
    BY <2>1, <2>4, InventoryMoves, Zenon
<1>4. QED
  BY <1>1, <1>2, <1>3, Zenon DEF Probe

\* The bound object of a path that has a file.
LEMMA BoundObject ==
    ASSUME Inv, NEW p \in Paths, ~Missing(p)
    PROVE  bound[p] \in 1 .. Len(version)
<1>1. bound \in [Paths -> 0 .. Len(version)] /\ Len(version) \in Nat
  BY DEF Inv, FilesIn
<1>2. bound[p] \in 0 .. Len(version) /\ bound[p] # 0
  BY <1>1, Zenon DEF Missing
<1>3. QED
  BY <1>1, <1>2

LEMMA OpenInv == ASSUME Inv, NEW i \in DOMAIN work, Open(i) PROVE Inv'
<1>1. CASE Throw(i, "error")
  BY <1>1, ThrowInv, Zenon
<1>2. ASSUME ~Missing(Path(i)), NEW id \in ReadCaptureIdentity(Path(i), bound[Path(i)]),
             Become(i, [work[i] EXCEPT !.pc = "reading", !.object = bound[Path(i)], !.before = id,
                                       !.sum = NoTotals(inv.bind.protocols)])
      PROVE  Inv'
  <2> DEFINE o == bound[Path(i)]
             t == Opened(work[i], o, id, NoTotals(inv.bind.protocols))
  <2>1. work' = Became(work, i, t) /\ inv' = inv /\ InventoryUnchanged
    BY <1>2, Zenon DEF Become, Became, Opened
  <2>2. FreshIn(kind, cache, Path(i))
    <3>1. work[i].pc = "probed"
      BY Zenon DEF Open
    <3>2. QED
      BY <3>1, TaskOf, Zenon DEF TaskIn
  <2>3. o \in 1 .. Len(version) /\ id \in {Unknown, version[o]}
    BY <1>2, <2>2, TaskOf, BoundObject, FreshIdentity, Zenon
  <2> HIDE DEF o
  <2>4. TaskIn(contents, version, inv.bind.protocols, FreshIn(kind, cache, Path(i)), t)
    BY <2>2, <2>3, TaskOf, TaskOpened, ZenonT(60)
  <2> HIDE DEF t
  <2>5. InventoryIn(contents, version, kind, cache, inv, Became(work, i, t))
    BY <2>4, TaskOf, BecameOK, Zenon DEF Path
  <2>6. QED
    BY <2>1, <2>5, InventoryMoves, Zenon
<1>3. QED
  BY <1>1, <1>2, Zenon DEF Open

LEMMA ReadInv == ASSUME Inv, NEW i \in DOMAIN work, Read(i) PROVE Inv'
<1> DEFINE w == work[i]
           now == contents[version[w.object]]
           protocols == inv.bind.protocols
<1>1. w.pc = "reading"
  BY Zenon DEF Read
<1>2. CASE Throw(i, "error")
  BY <1>2, ThrowInv, Zenon
<1>3. CASE /\ w.sum.packets < Len(now.packets)
           /\ Become(i, [w EXCEPT !.sum = Observe(@, now.packets[w.sum.packets + 1], protocols)])
  <2> DEFINE sum == Observe(w.sum, now.packets[w.sum.packets + 1], protocols)
  <2>1. work' = Became(work, i, Added(w, sum)) /\ inv' = inv /\ InventoryUnchanged
    BY <1>3, Zenon DEF Become, Became, Added
  <2>2. TaskIn(contents, version, protocols, FreshIn(kind, cache, Path(i)), Added(w, sum))
    BY <1>1, <1>3, TaskOf, TaskAdded, Zenon
  <2> HIDE DEF sum
  <2>3. InventoryIn(contents, version, kind, cache, inv, Became(work, i, Added(w, sum)))
    BY <2>2, TaskOf, BecameOK, Zenon DEF Path
  <2>4. QED
    BY <2>1, <2>3, InventoryMoves, Zenon
<1>4. CASE /\ ~(w.sum.packets < Len(now.packets))
           /\ Become(i, [w EXCEPT !.pc = "read", !.cut = now.tail = "cut"])
  <2> DEFINE cut == now.tail = "cut"
  <2>1. work' = Became(work, i, ReadOut(w, cut)) /\ inv' = inv /\ InventoryUnchanged
    BY <1>4, Zenon DEF Become, Became, ReadOut
  <2> HIDE DEF cut
  <2>2. TaskIn(contents, version, protocols, FreshIn(kind, cache, Path(i)), ReadOut(w, cut))
    BY <1>1, <1>4, TaskOf, TaskReadOut, Zenon
  <2>3. InventoryIn(contents, version, kind, cache, inv, Became(work, i, ReadOut(w, cut)))
    BY <2>2, TaskOf, BecameOK, Zenon DEF Path
  <2>4. QED
    BY <2>1, <2>3, InventoryMoves, Zenon
<1>5. QED
  BY <1>2, <1>3, <1>4, Zenon DEF Read

LEMMA AfterInv == ASSUME Inv, NEW i \in DOMAIN work, After(i) PROVE Inv'
<1> DEFINE w == work[i]
<1>1. w.pc = "read"
  BY DEF After
<1>2. PICK id \in ReadCaptureIdentity(Path(i), w.object) : Become(i, [w EXCEPT !.pc = "after", !.after = id])
  BY Zenon DEF After
<1>3. work' = Became(work, i, Compared(w, id)) /\ inv' = inv /\ InventoryUnchanged
  BY <1>2, Zenon DEF Become, Became, Compared
<1>4. FreshIn(kind, cache, Path(i))
  BY <1>1, TaskOf, Zenon DEF TaskIn
<1>5. id \in {Unknown, version[w.object]}
  BY <1>2, <1>4, FreshIdentity, Zenon
<1>6. TaskIn(contents, version, inv.bind.protocols, FreshIn(kind, cache, Path(i)), Compared(w, id))
  BY <1>1, <1>5, TaskOf, TaskCompared, Zenon
<1>7. InventoryIn(contents, version, kind, cache, inv, Became(work, i, Compared(w, id)))
  BY <1>6, TaskOf, BecameOK, Zenon DEF Path
<1>8. QED
  BY <1>3, <1>7, InventoryMoves, Zenon

\* What a scan reports: the identity did not change, so the totals are those of the version
\* it names, which the path has now.
VerifiedRow(i) ==
    LET w == work[i]
    IN Row(Path(i), w.before, IF w.cut THEN "truncated" ELSE "complete", MetadataUnchanged(w),
           inv.bind.protocols, w.sum)

LEMMA VerifiedTrue ==
    ASSUME Inv, NEW i \in DOMAIN work, work[i].pc = "after", ~Missing(Path(i)),
           NEW current \in ReadCaptureIdentity(Path(i), bound[Path(i)]), ~Changed(work[i], current)
    PROVE  /\ TrueIn(contents, VerifiedRow(i))
           /\ VerifiedRow(i).stable = "true" =>
                VerifiedRow(i).sum = Summary(contents[version[bound[Path(i)]]], inv.bind.protocols)
<1> DEFINE w == work[i]
           protocols == inv.bind.protocols
           status == IF w.cut THEN "truncated" ELSE "complete"
<1>1. /\ FilesIn(contents, version, bound) /\ Path(i) \in Paths
      /\ TaskIn(contents, version, protocols, FreshIn(kind, cache, Path(i)), w)
  BY TaskOf, Zenon
<1>2. /\ w.object \in 1 .. Len(version) /\ w.before \in 0 .. version[w.object] /\ FreshIn(kind, cache, Path(i))
      /\ version[w.object] \in 1 .. Len(contents)
  BY <1>1, ReadingTask
<1>3. w.before = current /\ w.after = w.before
  BY Zenon DEF Changed
<1>4. current \in {Unknown, version[bound[Path(i)]]}
  BY <1>2, FreshIdentity, Zenon
<1>5. /\ VerifiedRow(i).sum = w.sum /\ VerifiedRow(i).stable = MetadataUnchanged(w)
      /\ VerifiedRow(i) = Row(Path(i), w.before, status, MetadataUnchanged(w), protocols, w.sum)
  BY RowParts DEF VerifiedRow
<1>6. CASE w.before = Unknown
  <2>1. MetadataUnchanged(w) = "null"
    BY <1>6, Zenon DEF MetadataUnchanged
  <2>2. TrueIn(contents, VerifiedRow(i))
    BY <1>5, <2>1, Zenon DEF TrueIn, InventoryValidPrevious
  <2>3. QED
    BY <1>5, <2>1, <2>2, Zenon
<1>7. CASE w.before # Unknown
  <2>1. w.sum = Summary(contents[w.before], protocols)
    BY <1>1, <1>3, <1>7, Zenon DEF TaskIn
  <2>2. w.before \in 1 .. Len(contents)
    <3>1. Len(contents) \in Nat
      BY <1>1 DEF FilesIn
    <3>2. QED
      BY <1>2, <1>7, <3>1 DEF Unknown
  <2> HIDE DEF w, protocols, status
  <2>3. TrueIn(contents, Row(Path(i), w.before, status, MetadataUnchanged(w), protocols, w.sum))
    BY <2>1, <2>2, SummaryTrue, Zenon
  <2>4. w.before = version[bound[Path(i)]]
    BY <1>3, <1>4, <1>7, Zenon
  <2>5. QED
    BY <1>5, <2>1, <2>3, <2>4, Zenon DEF protocols
<1>8. QED
  BY <1>6, <1>7, Zenon

LEMMA VerifyInv == ASSUME Inv, NEW i \in DOMAIN work, Verify(i) PROVE Inv'
<1>1. CASE Throw(i, "error") \/ Throw(i, "changed")
  BY <1>1, ThrowInv, Zenon
<1>2. ASSUME ~Missing(Path(i)), NEW current \in ReadCaptureIdentity(Path(i), bound[Path(i)]),
             ~Changed(work[i], current), Emit(i, VerifiedRow(i))
      PROVE  Inv'
  <2>1. TrueIn(contents, VerifiedRow(i))
    BY <1>2, VerifiedTrue, Zenon DEF Verify
  <2>2. work' = Became(work, i, Task("done", VerifiedRow(i))) /\ inv' = inv /\ InventoryUnchanged
    BY <1>2, Zenon DEF Emit, Become, Became
  <2>3. QED
    BY <2>1, <2>2, EmitInv, Zenon
<1>3. QED
  BY <1>1, <1>2, Zenon DEF Verify, VerifiedRow

\* A snapshot holds rows of the catalog.
LEMMA SnapshotTrue ==
    ASSUME Inv, NEW list
    PROVE  SnapshotIn(contents, Snapshot(list)) /\ SnapshotIn(contents, NoSnapshot)
<1>1. SnapshotIn(contents, NoSnapshot)
  BY DEF SnapshotIn, NoSnapshot
<1>2. ASSUME NEW p \in DOMAIN Snapshot(list)
      PROVE  TrueIn(contents, Snapshot(list)[p].row)
  <2>1. RowsOf(p) # {} /\ Snapshot(list)[p].row = FirstRow(p)
    BY <1>2, Zenon DEF Snapshot
  <2>2. CatalogIn(contents, catalog) /\ DOMAIN catalog \subseteq Nat
    BY DEF Inv, CatalogIn
  <2>3. RowsOf(p) \subseteq DOMAIN catalog
    BY DEF RowsOf
  <2>4. Min(RowsOf(p)) \in DOMAIN catalog
    BY <2>1, <2>2, <2>3, MinMember, Zenon
  <2>5. QED
    BY <2>1, <2>2, <2>4, Zenon DEF FirstRow, CatalogIn
<1>3. QED
  BY <1>1, <1>2, Zenon DEF SnapshotIn

LEMMA StartInv ==
    ASSUME Inv, NEW list \in Inventoried, NEW bind \in Binds, StartInventory(list, bind)
    PROVE  Inv'
<1> DEFINE previous == IF bind.previous THEN Snapshot(list) ELSE NoSnapshot
           s == [running |-> TRUE, list |-> list, bind |-> bind, previous |-> previous]
           tasks == [i \in DOMAIN list |-> Task("waiting", NoRow)]
<1>1. inv' = s /\ work' = tasks /\ InventoryUnchanged
  BY Zenon DEF StartInventory
<1>2. s.list = list /\ s.bind = bind /\ s.previous = previous /\ s.running = TRUE
  BY Zenon
<1>3. list \in Seq(Paths) /\ bind \in BindType
  BY InventoryAssumption, Zenon
<1>4. SnapshotIn(contents, previous)
  BY SnapshotTrue, Zenon
<1>5. version \in Seq(1 .. Len(contents))
  BY Zenon DEF Inv, FilesIn
<1>6. ASSUME NEW i \in DOMAIN list
      PROVE  /\ tasks[i] = Task("waiting", NoRow)
             /\ TaskIn(contents, version, bind.protocols, FreshIn(kind, cache, list[i]), tasks[i])
  BY <1>5, NoRowTrue, RestingTask, Zenon
<1>7. tasks = [i \in DOMAIN list |-> tasks[i]]
  OBVIOUS
<1> HIDE DEF s, tasks, previous
<1>8. InventoryIn(contents, version, kind, cache, s, tasks)
  BY <1>2, <1>3, <1>4, <1>6, <1>7, Zenon DEF InventoryIn
<1>9. QED
  BY <1>1, <1>8, InventoryMoves, Zenon

\* A table of rows that are in the catalog or were reported.
LEMMA StoreInv ==
    ASSUME Inv, NEW rows, Store(rows), rows \in Seq(Range(rows)),
           \A n \in DOMAIN rows : TrueIn(contents, rows[n])
    PROVE  Inv'
<1>1. /\ catalog' = rows /\ inv' = NoInventory /\ work' = <<>> /\ Len(rows) <= MaxRows
      /\ contents' = contents /\ version' = version /\ bound' = bound /\ kind' = kind /\ cache' = cache /\ scan' = scan
  BY DEF Store, files
<1>2. CatalogIn(contents, rows)
  BY <1>1, Zenon DEF CatalogIn
<1>3. InventoryIn(contents, version, kind, cache, NoInventory, <<>>)
  BY IdleInventory, Zenon
<1>4. QED
  BY <1>1, <1>2, <1>3, InvNext, Zenon DEF Inv

LEMMA RowsReported ==
    ASSUME Inv
    PROVE  /\ Rows \in Seq(Range(Rows)) /\ DOMAIN Rows = DOMAIN inv.list
           /\ \A n \in DOMAIN Rows : TrueIn(contents, Rows[n])
<1>1. DOMAIN work = DOMAIN inv.list
  BY Zenon DEF Inv, InventoryIn
<1>2. inv.list \in Seq(Paths)
  BY Zenon DEF Inv, InventoryIn
<1>3. Len(inv.list) \in Nat /\ DOMAIN inv.list = 1 .. Len(inv.list)
  BY <1>2
<1>4. Rows = [i \in 1 .. Len(inv.list) |-> work[i].row]
  BY <1>1, <1>3, Zenon DEF Rows
<1>5. Rows \in Seq(Range(Rows))
  BY <1>3, <1>4 DEF Range
<1>6. ASSUME NEW n \in DOMAIN work
      PROVE  TrueIn(contents, work[n].row)
  BY TaskOf, Zenon DEF TaskIn
<1>7. QED
  BY <1>1, <1>3, <1>4, <1>5, <1>6, Zenon

LEMMA RangeSeq == ASSUME NEW S, NEW s \in Seq(S) PROVE s \in Seq(Range(s))
<1>1. \A n \in 1 .. Len(s) : s[n] \in Range(s)
  BY DEF Range
<1>2. QED
  BY <1>1

\* Two tables one after the other.
LEMMA JoinedRows ==
    ASSUME NEW c, NEW r, NEW s, r \in Seq(Range(r)), s \in Seq(Range(s)),
           \A n \in DOMAIN r : TrueIn(c, r[n]), \A n \in DOMAIN s : TrueIn(c, s[n])
    PROVE  /\ r \o s \in Seq(Range(r \o s)) /\ DOMAIN (r \o s) = 1 .. Len(r) + Len(s)
           /\ \A n \in DOMAIN (r \o s) : TrueIn(c, (r \o s)[n])
<1> DEFINE U == Range(r) \cup Range(s)
<1>1. r \in Seq(U) /\ s \in Seq(U) /\ Len(r) \in Nat /\ Len(s) \in Nat
  OBVIOUS
<1>2. r \o s \in Seq(U)
  BY <1>1
<1>3. \A n \in 1 .. Len(r) + Len(s) : (r \o s)[n] = IF n <= Len(r) THEN r[n] ELSE s[n - Len(r)]
  BY <1>1
<1>4. DOMAIN (r \o s) = 1 .. Len(r) + Len(s)
  BY <1>1
<1>5. r \o s \in Seq(Range(r \o s))
  BY <1>2, RangeSeq, Zenon
<1>6. ASSUME NEW n \in 1 .. Len(r) + Len(s)
      PROVE  TrueIn(c, (r \o s)[n])
  <2>1. CASE n <= Len(r)
    BY <1>1, <1>3, <2>1
  <2>2. CASE ~(n <= Len(r))
    <3>1. n - Len(r) \in DOMAIN s
      BY <1>1, <2>2
    <3>2. QED
      BY <1>3, <2>2, <3>1, Zenon
  <2>3. QED
    BY <2>1, <2>2, Zenon
<1>7. QED
  BY <1>4, <1>5, <1>6, Zenon

LEMMA TablesInv == ASSUME Inv, Refresh \/ Insert \/ Discard PROVE Inv'
<1>1. catalog \in Seq(Range(catalog)) /\ \A n \in DOMAIN catalog : TrueIn(contents, catalog[n])
  BY Zenon DEF Inv, CatalogIn
<1>2. CASE Discard
  BY <1>1, <1>2, StoreInv, Zenon DEF Discard
<1> DEFINE all == catalog \o Rows
<1>3. /\ all \in Seq(Range(all)) /\ DOMAIN all = 1 .. Len(catalog) + Len(Rows)
      /\ \A n \in DOMAIN all : TrueIn(contents, all[n])
  BY <1>1, RowsReported, JoinedRows, Zenon
<1>4. CASE Insert
  BY <1>3, <1>4, StoreInv, ZenonT(60) DEF Insert
<1>5. CASE Refresh
  <2> DEFINE kept == {n \in DOMAIN catalog : catalog[n].path \notin Range(inv.list)}
                     \cup {Len(catalog) + j : j \in {k \in DOMAIN Rows : \A h \in 1 .. k - 1 : Path(h) # Path(k)}}
  <2>1. PICK order \in [1 .. Cardinality(kept) -> kept] : Store([n \in DOMAIN order |-> all[order[n]]])
    BY <1>5, Zenon DEF Refresh
  <2>2. Len(catalog) \in Nat /\ DOMAIN catalog = 1 .. Len(catalog)
    BY <1>1
  <2>3. Len(Rows) \in Nat /\ DOMAIN Rows = 1 .. Len(Rows)
    BY RowsReported
  <2>4. kept \subseteq DOMAIN all
    BY <1>3, <2>2, <2>3
  <2>5. Cardinality(kept) \in Nat
    <3>1. IsFiniteSet(1 .. Len(catalog) + Len(Rows))
      BY <2>2, <2>3, FS_Interval
    <3> HIDE DEF kept, all
    <3>2. QED
      BY <1>3, <2>4, <3>1, FS_Subset, FS_CardinalityType, Zenon
  <2> DEFINE rows == [n \in DOMAIN order |-> all[order[n]]]
  <2> HIDE DEF kept, all
  <2>6. rows \in Seq(Range(rows)) /\ \A n \in DOMAIN rows : TrueIn(contents, rows[n])
    <3>1. DOMAIN rows = 1 .. Cardinality(kept) /\ rows \in [1 .. Cardinality(kept) -> Range(all)]
      BY <2>4, Zenon DEF Range
    <3>2. rows \in Seq(Range(all))
      BY <2>5, <3>1
    <3>3. rows \in Seq(Range(rows))
      <4> HIDE DEF rows
      <4>1. QED
        BY <3>2, RangeSeq, Zenon
    <3>4. QED
      BY <1>3, <2>4, <3>1, <3>3, Zenon
  <2>7. Store(rows)
    BY <2>1, Zenon
  <2> HIDE DEF rows
  <2>8. QED
    BY <2>6, <2>7, StoreInv, Zenon
<1>6. QED
  BY <1>2, <1>4, <1>5, Zenon

LEMMA ForeignInv == ASSUME Inv, NEW row \in Foreign, InsertForeign(row) PROVE Inv'
<1>1. /\ catalog' = Append(catalog, row) /\ Len(catalog) < MaxRows
      /\ contents' = contents /\ version' = version /\ bound' = bound /\ kind' = kind /\ cache' = cache
      /\ scan' = scan /\ inv' = inv /\ work' = work
  BY DEF InsertForeign, files
<1>2. catalog \in Seq(Range(catalog)) /\ \A n \in DOMAIN catalog : TrueIn(contents, catalog[n])
  BY Zenon DEF Inv, CatalogIn
<1>3. TrueIn(contents, row)
  BY InventoryAssumption, Zenon DEF TrueIn
<1> DEFINE rows == Append(catalog, row)
<1>4. rows \in Seq(Range(catalog) \cup {row}) /\ Len(rows) = Len(catalog) + 1
  BY <1>2
<1>5. \A n \in DOMAIN rows : rows[n] = row \/ (n \in DOMAIN catalog /\ rows[n] = catalog[n])
  BY <1>2
<1>6. Len(rows) <= MaxRows
  BY <1>1, <1>2, <1>4, InventoryAssumption
<1> HIDE DEF rows
<1>7. CatalogIn(contents, rows)
  BY <1>2, <1>3, <1>4, <1>5, <1>6, RangeSeq, Zenon DEF CatalogIn
<1>8. QED
  BY <1>1, <1>7, InvNext, Zenon DEF Inv, rows

\* Another process writes, replaces or deletes a file.
LEMMA FilesInv ==
    ASSUME Inv, NEW p \in Paths, Delete(p) \/ \E x \in Captures : Edit(p, x) \/ Replace(p, x)
    PROVE  Inv'
<1>1. FilesIn(contents, version, bound)
  BY Zenon DEF Inv
<1>2. CASE Delete(p)
  <2>1. /\ contents' = contents /\ version' = version /\ bound' = [bound EXCEPT ![p] = 0] /\ kind' = kind
        /\ cache' = cache /\ catalog' = catalog /\ inv' = inv /\ work' = work /\ scan' = scan
    BY <1>2, Zenon DEF Delete, Quiet
  <2>2. FilesIn(contents, version, bound')
    <3>1. bound \in [Paths -> 0 .. Len(version)] /\ Len(version) \in Nat
      BY <1>1 DEF FilesIn
    <3>2. [bound EXCEPT ![p] = 0] \in [Paths -> 0 .. Len(version)]
      BY <3>1
    <3>3. QED
      BY <1>1, <2>1, <3>2, Zenon DEF FilesIn
  <2>3. QED
    BY <2>1, <2>2, InvNext, Zenon DEF Inv
<1>3. ASSUME NEW x \in Captures, Edit(p, x) \/ Replace(p, x)
      PROVE  Inv'
  <2>1. Len(contents) < MaxStamp /\ contents' = Append(contents, x)
    BY <1>3, Zenon DEF Edit, Replace
  <2>2. Len(contents') = Len(contents) + 1
    BY <1>1, <2>1 DEF FilesIn
  <2>3. Newer(contents, version, contents', version') /\ FilesIn(contents', version', bound')
    <3>1. CASE Edit(p, x)
      <4>1. /\ bound[p] # 0 /\ bound' = bound
            /\ version' = [version EXCEPT ![bound[p]] = Len(contents) + 1]
        BY <2>2, <3>1, Zenon DEF Edit, Missing
      <4>2. QED
        BY <1>1, <2>1, <4>1, WrittenNewer, Zenon
    <3>2. CASE Replace(p, x)
      <4>1. /\ version' = Append(version, Len(contents) + 1)
            /\ bound' = [bound EXCEPT ![p] = Len(version')]
        BY <2>2, <3>2, Zenon DEF Replace
      <4>2. QED
        BY <1>1, <2>1, <4>1, WrittenNewer, Zenon
    <3>3. QED
      BY <1>3, <3>1, <3>2, Zenon
  <2>4. kind' = kind /\ cache' = cache /\ catalog' = catalog /\ inv' = inv /\ work' = work /\ scan' = scan
    BY <1>3, Zenon DEF Edit, Replace, Quiet
  <2>5. CatalogIn(contents', catalog) /\ ScanIn(contents', scan)
    BY <2>3, CatalogGrows, ScanGrows, Zenon DEF Inv
  <2>6. InventoryIn(contents', version', kind, cache, inv, work)
    BY <2>3, InventoryGrows, Zenon DEF Inv
  <2>7. QED
    BY <2>3, <2>4, <2>5, <2>6, InvNext, Zenon
<1>4. QED
  BY <1>2, <1>3, Zenon

\* The setting changes only between statements.
LEMMA SetCacheInv == ASSUME Inv, SetCache PROVE Inv'
<1>1. /\ ~inv.running /\ contents' = contents /\ version' = version /\ bound' = bound /\ kind' = kind
      /\ catalog' = catalog /\ inv' = inv /\ work' = work /\ scan' = scan
  BY DEF SetCache, files
<1>2. inv.list = <<>>
  BY <1>1, Zenon DEF Inv, InventoryIn
<1>3. DOMAIN inv.list = {}
  BY <1>2
<1>4. InventoryIn(contents, version, kind, cache', inv, work)
  BY <1>3, Zenon DEF Inv, InventoryIn
<1>5. QED
  BY <1>1, <1>4, InvNext, Zenon DEF Inv

\* A step of the selection alone.
LEMMA ScanMoves ==
    ASSUME Inv, NEW to, ScanOnly(to), ScanIn(contents, to)
    PROVE  Inv'
<1>1. /\ contents' = contents /\ version' = version /\ bound' = bound /\ kind' = kind /\ cache' = cache
      /\ catalog' = catalog /\ inv' = inv /\ work' = work /\ scan' = to
  BY DEF ScanOnly, files
<1>2. QED
  BY <1>1, InvNext, Zenon DEF Inv

LEMMA SelectionOK ==
    ASSUME NEW c, NEW running, NEW list \in Seq(Paths), NEW filter \in TimeFilters, NEW previous,
           SnapshotIn(c, previous), NEW n \in Nat \ {0}, NEW selected \in Seq(Nat),
           \A k \in DOMAIN selected : selected[k] < IF k < Len(selected) THEN selected[k + 1] ELSE n
    PROVE  ScanIn(c, Selection(running, list, filter, previous, n, selected))
<1> DEFINE s == Selection(running, list, filter, previous, n, selected)
<1>1. /\ s.running = running /\ s.list = list /\ s.filter = filter /\ s.previous = previous
      /\ s.n = n /\ s.selected = selected
      /\ s = [running |-> s.running, list |-> s.list, filter |-> s.filter,
              previous |-> s.previous, n |-> s.n, selected |-> s.selected]
  BY Zenon DEF Selection
<1> HIDE DEF s
<1>2. ScanIn(c, s)
  BY <1>1, Zenon DEF ScanIn
<1>3. QED
  BY <1>2, Zenon DEF s

LEMMA NoScanInv == ASSUME Inv, ScanOnly(NoScan) PROVE Inv'
<1>1. NoFilter \in TimeFilters
  BY DEF NoFilter, TimeFilters
<1>2. <<>> \in Seq(Paths) /\ <<>> \in Seq(Nat) /\ DOMAIN <<>> = {} /\ 1 \in Nat \ {0}
  OBVIOUS
<1>3. SnapshotIn(contents, NoSnapshot)
  BY SnapshotTrue, Zenon
<1>4. ScanIn(contents, NoScan)
  BY <1>1, <1>2, <1>3, SelectionOK, Zenon DEF NoScan
<1>5. QED
  BY <1>4, ScanMoves, Zenon

LEMMA StartScanInv ==
    ASSUME Inv, NEW list \in ReadLists, NEW f \in Filters, NEW immutable \in BOOLEAN, StartScan(list, f, immutable)
    PROVE  Inv'
<1>1. list \in Seq(Paths) /\ f \in TimeFilters
  BY InventoryAssumption, Zenon
<1>2. SnapshotIn(contents, Snapshot(list)) /\ SnapshotIn(contents, NoSnapshot)
  BY SnapshotTrue, Zenon
<1>3. CASE ScanOnly(Selection(TRUE, list, f, Snapshot(list), 1, <<>>))
  <2>1. <<>> \in Seq(Nat) /\ DOMAIN <<>> = {} /\ 1 \in Nat \ {0}
    OBVIOUS
  <2>2. ScanIn(contents, Selection(TRUE, list, f, Snapshot(list), 1, <<>>))
    BY <1>1, <1>2, <2>1, SelectionOK, Zenon
  <2>3. QED
    BY <1>3, <2>2, ScanMoves, Zenon
<1>4. CASE ScanOnly(Selection(TRUE, list, f, NoSnapshot, Len(list) + 1, [i \in DOMAIN list |-> i]))
  <2> DEFINE all == [i \in DOMAIN list |-> i]
  <2>1. Len(list) \in Nat /\ DOMAIN list = 1 .. Len(list)
    BY <1>1
  <2>2. all \in Seq(Nat) /\ Len(all) = Len(list) /\ Len(list) + 1 \in Nat \ {0}
    BY <2>1
  <2>3. \A k \in DOMAIN all : all[k] < IF k < Len(all) THEN all[k + 1] ELSE Len(list) + 1
    BY <2>1, <2>2
  <2> HIDE DEF all
  <2>4. ScanIn(contents, Selection(TRUE, list, f, NoSnapshot, Len(list) + 1, all))
    BY <1>1, <1>2, <2>2, <2>3, SelectionOK, Zenon
  <2>5. QED
    BY <1>4, <2>4, ScanMoves, Zenon DEF all
<1>5. QED
  BY <1>3, <1>4, Zenon DEF StartScan

\* One occurrence decided: left out, or selected after those before it.
DecidedTo(s, selected) == [s EXCEPT !.n = @ + 1, !.selected = selected]

LEMMA DecidedParts ==
    ASSUME NEW c, NEW s, ScanIn(c, s), NEW selected
    PROVE  DecidedTo(s, selected) = Selection(s.running, s.list, s.filter, s.previous, s.n + 1, selected)
<1> DEFINE a == [s EXCEPT !.n = @ + 1]
<1>1. s = [running |-> s.running, list |-> s.list, filter |-> s.filter, previous |-> s.previous,
           n |-> s.n, selected |-> s.selected]
  BY Zenon DEF ScanIn
<1>2. a = [running |-> s.running, list |-> s.list, filter |-> s.filter, previous |-> s.previous,
           n |-> s.n + 1, selected |-> s.selected]
  BY <1>1
<1>3. DecidedTo(s, selected) = [a EXCEPT !.selected = selected]
  BY DEF DecidedTo
<1> HIDE DEF a
<1>4. [a EXCEPT !.selected = selected] =
        [running |-> s.running, list |-> s.list, filter |-> s.filter, previous |-> s.previous,
         n |-> s.n + 1, selected |-> selected]
  BY <1>2
<1>5. QED
  BY <1>3, <1>4, Zenon DEF Selection

LEMMA KeptInOrder ==
    ASSUME NEW sel \in Seq(Nat), NEW n \in Nat,
           \A k \in DOMAIN sel : sel[k] < IF k < Len(sel) THEN sel[k + 1] ELSE n
    PROVE  /\ Append(sel, n) \in Seq(Nat)
           /\ \A k \in DOMAIN Append(sel, n) :
                Append(sel, n)[k] < IF k < Len(Append(sel, n)) THEN Append(sel, n)[k + 1] ELSE n + 1
<1> DEFINE s == Append(sel, n)
<1>1. s \in Seq(Nat) /\ Len(s) = Len(sel) + 1 /\ Len(sel) \in Nat
  OBVIOUS
<1>2. s[Len(sel) + 1] = n /\ \A k \in 1 .. Len(sel) : s[k] = sel[k]
  OBVIOUS
<1> HIDE DEF s
<1>3. ASSUME NEW k \in DOMAIN s
      PROVE  s[k] < IF k < Len(s) THEN s[k + 1] ELSE n + 1
  <2>1. k \in 1 .. Len(sel) + 1
    BY <1>1
  <2>2. CASE k = Len(sel) + 1
    BY <1>1, <1>2, <2>2
  <2>3. CASE k = Len(sel)
    <3>1. k \in DOMAIN sel /\ k \in 1 .. Len(sel)
      BY <1>1, <2>1, <2>3
    <3>2. sel[k] < n /\ s[k] = sel[k] /\ s[k + 1] = n
      BY <1>1, <1>2, <2>3, <3>1
    <3>3. QED
      BY <1>1, <2>3, <3>2
  <2>4. CASE k < Len(sel)
    <3>1. k \in DOMAIN sel /\ k \in 1 .. Len(sel) /\ k + 1 \in 1 .. Len(sel)
      BY <1>1, <2>1, <2>4
    <3>2. sel[k] < sel[k + 1] /\ s[k] = sel[k] /\ s[k + 1] = sel[k + 1]
      BY <1>2, <2>4, <3>1, Zenon
    <3>3. QED
      BY <1>1, <2>4, <3>1, <3>2
  <2>5. QED
    BY <1>1, <2>1, <2>2, <2>3, <2>4
<1>4. QED
  BY <1>1, <1>3, Zenon DEF s

LEMMA DecideInv == ASSUME Inv, Decide PROVE Inv'
<1> DEFINE keep == Append(scan.selected, scan.n)
<1>1. /\ ScanIn(contents, scan) /\ scan.list \in Seq(Paths) /\ scan.filter \in TimeFilters
      /\ SnapshotIn(contents, scan.previous) /\ scan.n \in Nat \ {0} /\ scan.selected \in Seq(Nat)
      /\ \A k \in DOMAIN scan.selected :
            scan.selected[k] < IF k < Len(scan.selected) THEN scan.selected[k + 1] ELSE scan.n
  BY Zenon DEF Inv, ScanIn
<1>2. scan.n + 1 \in Nat \ {0}
  BY <1>1
<1>3. CASE ScanOnly(NoScan)
  BY <1>3, NoScanInv, Zenon
<1>4. ASSUME NEW selected \in Seq(Nat), Decided(selected),
             \A k \in DOMAIN selected :
               selected[k] < IF k < Len(selected) THEN selected[k + 1] ELSE scan.n + 1
      PROVE  Inv'
  <2>1. ScanOnly(DecidedTo(scan, selected))
    BY <1>4, Zenon DEF Decided, DecidedTo
  <2>2. ScanIn(contents, Selection(scan.running, scan.list, scan.filter, scan.previous, scan.n + 1, selected))
    BY <1>1, <1>2, <1>4, SelectionOK, Zenon
  <2>3. DecidedTo(scan, selected) = Selection(scan.running, scan.list, scan.filter, scan.previous, scan.n + 1, selected)
    BY <1>1, DecidedParts, Zenon
  <2>4. QED
    BY <2>1, <2>2, <2>3, ScanMoves, Zenon
<1>5. CASE Decided(scan.selected)
  <2>1. \A k \in DOMAIN scan.selected :
          scan.selected[k] < IF k < Len(scan.selected) THEN scan.selected[k + 1] ELSE scan.n + 1
    BY <1>1
  <2>2. QED
    BY <1>1, <1>4, <1>5, <2>1, Zenon
<1>6. CASE Decided(keep)
  <2>1. /\ keep \in Seq(Nat)
        /\ \A k \in DOMAIN keep : keep[k] < IF k < Len(keep) THEN keep[k + 1] ELSE scan.n + 1
    BY <1>1, KeptInOrder, Zenon
  <2> HIDE DEF keep
  <2>2. QED
    BY <1>4, <1>6, <2>1, Zenon
<1>7. QED
  BY <1>3, <1>5, <1>6, Zenon DEF Decide

LEMMA InitInv == Init => Inv
<1> SUFFICES ASSUME Init PROVE Inv
  OBVIOUS
<1>1. PICK x \in Captures : contents = <<x>>
  BY DEF Init
<1>2. x \in CaptureType /\ MaxStamp \in Nat \ {0} /\ MaxRows \in Nat
  BY InventoryAssumption, Zenon
<1>3. FilesIn(contents, version, bound)
  <2>1. contents \in Seq(CaptureType) /\ Len(contents) = 1 /\ Range(contents) \subseteq Captures
    BY <1>1, <1>2 DEF Range
  <2>2. version = <<1>> /\ bound = [p \in Paths |-> 1]
    BY Zenon DEF Init
  <2>3. version \in Seq(1 .. 1) /\ Len(version) = 1 /\ bound \in [Paths -> 0 .. 1]
    BY <2>2
  <2>4. QED
    BY <1>2, <2>1, <2>3 DEF FilesIn
<1>4. CatalogIn(contents, catalog)
  BY <1>2 DEF Init, CatalogIn
<1>5. InventoryIn(contents, version, kind, cache, inv, work)
  BY IdleInventory, Zenon DEF Init
<1>6. ScanIn(contents, scan)
  <2>1. NoFilter \in TimeFilters
    BY DEF NoFilter, TimeFilters
  <2>2. <<>> \in Seq(Paths) /\ <<>> \in Seq(Nat) /\ DOMAIN <<>> = {} /\ 1 \in Nat \ {0}
    OBVIOUS
  <2>3. SnapshotIn(contents, NoSnapshot)
    BY DEF SnapshotIn, NoSnapshot
  <2>4. ScanIn(contents, NoScan)
    BY <2>1, <2>2, <2>3, SelectionOK, Zenon DEF NoScan
  <2>5. QED
    BY <2>4, Zenon DEF Init
<1>7. QED
  BY <1>3, <1>4, <1>5, <1>6, Zenon DEF Inv

LEMMA NextInv == Inv /\ [Next]_vars => Inv'
<1> SUFFICES ASSUME Inv, [Next]_vars PROVE Inv'
  OBVIOUS
<1>1. CASE UNCHANGED vars
  <2>1. /\ contents' = contents /\ version' = version /\ bound' = bound /\ kind' = kind /\ cache' = cache
        /\ catalog' = catalog /\ inv' = inv /\ work' = work /\ scan' = scan
    BY <1>1, Zenon DEF vars
  <2>2. QED
    BY <2>1, InvNext, Zenon DEF Inv
<1>2. CASE \E p \in Paths : Delete(p) \/ \E c \in Captures : Edit(p, c) \/ Replace(p, c)
  BY <1>2, FilesInv, Zenon
<1>3. CASE SetCache
  BY <1>3, SetCacheInv, Zenon
<1>4. CASE Interrupt
  BY <1>4, FailInv, Zenon DEF Interrupt
<1>5. CASE Refresh \/ Insert \/ Discard
  BY <1>5, TablesInv, Zenon
<1>6. CASE Decide
  BY <1>6, DecideInv, Zenon
<1>7. CASE EndScan
  BY <1>7, NoScanInv, Zenon DEF EndScan
<1>8. CASE \E row \in Foreign : InsertForeign(row)
  BY <1>8, ForeignInv, Zenon
<1>9. CASE \E list \in Inventoried, bind \in Binds : StartInventory(list, bind)
  BY <1>9, StartInv, Zenon
<1>10. CASE \E list \in ReadLists, f \in Filters, immutable \in BOOLEAN : StartScan(list, f, immutable)
  BY <1>10, StartScanInv, Zenon
<1>11. ASSUME NEW i \in DOMAIN work,
              Claim(i) \/ Probe(i) \/ Open(i) \/ Read(i) \/ After(i) \/ Verify(i) \/ Fault(i)
       PROVE  Inv'
  <2>1. CASE Fault(i)
    BY <2>1, ThrowInv, Zenon DEF Fault
  <2>2. QED
    BY <1>11, <2>1, ClaimInv, ProbeInv, OpenInv, ReadInv, AfterInv, VerifyInv, Zenon
<1>12. QED
  BY <1>1, <1>2, <1>3, <1>4, <1>5, <1>6, <1>7, <1>8, <1>9, <1>10, <1>11, Zenon DEF Next

\* The invariant holds of every reachable state.
LEMMA Invariant == Spec => []Inv
BY InitInv, NextInv, PTL DEF Spec

-----------------------------------------------------------------------------
(* What the catalog says is true. *)

LEMMA InvTypes == Inv => TypeOK
<1> SUFFICES ASSUME Inv PROVE TypeOK
  OBVIOUS
<1>1. /\ Len(contents) <= MaxStamp /\ Range(contents) \subseteq Captures
      /\ version \in Seq(1 .. Len(contents)) /\ bound \in [Paths -> 0 .. Len(version)]
  BY Zenon DEF Inv, FilesIn
<1>2. Range(version) \subseteq Stamps
  BY <1>1 DEF Range, Stamps
<1>3. Len(catalog) <= MaxRows
  BY Zenon DEF Inv, CatalogIn
<1>4. DOMAIN work = DOMAIN inv.list
  BY Zenon DEF Inv, InventoryIn
<1>5. \A i \in DOMAIN work : work[i].object \in 0 .. Len(version)
  BY TaskOf, Zenon DEF TaskIn
<1>6. \A k \in DOMAIN scan.selected :
        scan.selected[k] < IF k < Len(scan.selected) THEN scan.selected[k + 1] ELSE scan.n
  BY Zenon DEF Inv, ScanIn
<1>7. QED
  BY <1>1, <1>2, <1>3, <1>4, <1>5, <1>6, Zenon DEF TypeOK

LEMMA InvSummaries == Inv => SummariesTrue
<1> SUFFICES ASSUME Inv PROVE SummariesTrue
  OBVIOUS
<1>1. \A row : TrueIn(contents, row) => RowTrue(row)
  BY Zenon DEF TrueIn, RowTrue, Stamps
<1>2. ASSUME NEW row \in Range(catalog)
      PROVE  RowTrue(row)
  BY <1>1, Zenon DEF Inv, CatalogIn, Range
<1>3. ASSUME NEW i \in DOMAIN work
      PROVE  RowTrue(work[i].row)
  BY <1>1, TaskOf, Zenon DEF TaskIn
<1>4. ASSUME NEW p \in DOMAIN inv.previous
      PROVE  RowTrue(inv.previous[p].row)
  BY <1>1, Zenon DEF Inv, InventoryIn, SnapshotIn
<1>5. ASSUME NEW p \in DOMAIN scan.previous
      PROVE  RowTrue(scan.previous[p].row)
  BY <1>1, Zenon DEF Inv, ScanIn, SnapshotIn
<1>6. QED
  BY <1>2, <1>3, <1>4, <1>5, InvTypes, Zenon DEF SummariesTrue

\* Every summary the code would accept, in the catalog, in a snapshot or about to be
\* returned, is true of the version its identity names, however files change while they are
\* read and through any chain of reuses (InventoryValidPrevious, ScanInventory,
\* ReuseInventorySummary).
THEOREM SummariesHold == Spec => []SummariesTrue
BY Invariant, InvSummaries, PTL

-----------------------------------------------------------------------------
(* A row describes the file as it is when the row is made. *)

LEMMA OneMoves ==
    ASSUME Inv, NEW j \in DOMAIN work, NEW t, work' = Became(work, j, t)
    PROVE  work'[j] = t /\ \A i \in DOMAIN work : i # j => work'[i] = work[i]
<1>1. work = [i \in DOMAIN inv.list |-> work[i]]
  BY Zenon DEF Inv, InventoryIn
<1>2. QED
  BY <1>1, Zenon DEF Became

\* Which steps finish a task, and with which row.
LEMMA Finishing ==
    ASSUME Inv, Next, NEW i \in DOMAIN work, i \in DOMAIN work', work'[i].pc = "done", work[i].pc # "done",
           work'[i].row.status = "complete"
    PROVE  \/ /\ ~Missing(Path(i))
              /\ \E id \in ReadCaptureIdentity(Path(i), bound[Path(i)]) :
                    work[i].pc = "claimed" /\ Reusable(i, id) /\ work'[i].row = ReusedRow(i, id)
           \/ /\ ~Missing(Path(i)) /\ work[i].pc = "after" /\ work'[i].row = VerifiedRow(i)
              /\ \E current \in ReadCaptureIdentity(Path(i), bound[Path(i)]) : ~Changed(work[i], current)
<1>1. work' # work /\ work' # <<>>
  OBVIOUS
<1>2. ~FailStatement
  BY <1>1, Zenon DEF FailStatement
<1>3. ASSUME NEW list, NEW bind, StartInventory(list, bind)
      PROVE  FALSE
  <2>1. work' = [j \in DOMAIN list |-> Task("waiting", NoRow)]
    BY <1>3, Zenon DEF StartInventory
  <2>2. work'[i] = Task("waiting", NoRow)
    BY <2>1, Zenon
  <2>3. QED
    BY <2>2 DEF Task
<1>4. PICK j \in DOMAIN work : Claim(j) \/ Probe(j) \/ Open(j) \/ Read(j) \/ After(j) \/ Verify(j) \/ Fault(j)
  <2>1. ~SetCache /\ ~Interrupt /\ ~Refresh /\ ~Insert /\ ~Discard /\ ~Decide /\ ~EndScan
    BY <1>1, <1>2, Zenon DEF SetCache, Interrupt, Refresh, Insert, Discard, Store, Decide, Decided, EndScan, ScanOnly
  <2>2. \A row, p, c : ~InsertForeign(row) /\ ~Delete(p) /\ ~Edit(p, c) /\ ~Replace(p, c)
    BY <1>1, Zenon DEF InsertForeign, Delete, Edit, Replace, Quiet
  <2>3. \A list, f, immutable : ~StartScan(list, f, immutable)
    BY <1>1, Zenon DEF StartScan, ScanOnly
  <2>4. QED
    BY <1>3, <2>1, <2>2, <2>3, Zenon DEF Next
<1>5. ASSUME NEW t, Become(j, t)
      PROVE  j = i /\ work'[i] = t
  <2>1. work' = Became(work, j, t)
    BY <1>5, Zenon DEF Become, Became
  <2>2. QED
    BY <2>1, OneMoves, Zenon
<1>6. ASSUME NEW row, Emit(j, row)
      PROVE  j = i /\ work'[i].row = row
  <2>1. j = i /\ work'[i] = Task("done", row)
    BY <1>5, <1>6, Zenon DEF Emit
  <2>2. QED
    BY <2>1 DEF Task
<1>7. ASSUME NEW status \in {"error", "changed"}
      PROVE  ~Throw(j, status)
  <2> SUFFICES ASSUME Throw(j, status) PROVE FALSE
    BY Zenon
  <2> DEFINE row == ErrorRow(Path(j), RowIdentity(work[j]), status, inv.bind.protocols)
  <2>1. Emit(j, row)
    BY <1>2, Zenon DEF Throw
  <2>2. row.status = status
    BY RowParts DEF ErrorRow
  <2> HIDE DEF row
  <2>3. work'[i].row.status = status
    BY <1>6, <2>1, <2>2, Zenon
  <2>4. QED
    BY <2>3, Zenon
<1>8. ASSUME NEW t, Become(j, t)
      PROVE  t.pc = "done"
  BY <1>5, <1>8, Zenon
<1>9. IsTask(work[j])
  BY TaskOf, Zenon DEF TaskIn
<1>10. \A t \in {"claimed", "probed", "reading", "read", "after"} : t # "done"
  OBVIOUS
<1>11. ~Claim(j)
  <2>1. Claimed(work[j]).pc = "claimed"
    BY <1>9, TaskFields
  <2>2. QED
    BY <1>2, <1>8, <1>10, <2>1, Zenon DEF Claim, Claimed
<1>12. ~Open(j)
  <2>1. \A o, id, sum : Opened(work[j], o, id, sum).pc = "reading"
    BY <1>9, TaskFields
  <2>2. QED
    BY <1>7, <1>8, <1>10, <2>1, Zenon DEF Open, Opened
<1>13. ~After(j)
  <2>1. \A id : Compared(work[j], id).pc = "after"
    BY <1>9, TaskFields
  <2>2. QED
    BY <1>8, <1>10, <2>1, Zenon DEF After, Compared
<1>14. ~Fault(j)
  BY <1>7, Zenon DEF Fault
<1>15. ~Read(j)
  <2> SUFFICES ASSUME Read(j) PROVE FALSE
    BY Zenon
  <2>1. work[j].pc = "reading"
    BY Zenon DEF Read
  <2>2. \A sum : Added(work[j], sum).pc = work[j].pc
    BY <1>9, TaskFields
  <2>3. \A cut : ReadOut(work[j], cut).pc = "read"
    BY <1>9, TaskFields
  <2>4. PICK t : Become(j, t) /\ ((\E sum : t = Added(work[j], sum)) \/ (\E cut : t = ReadOut(work[j], cut)))
    BY <1>7, Zenon DEF Read, Added, ReadOut
  <2>5. QED
    BY <1>8, <1>10, <2>1, <2>2, <2>3, <2>4, Zenon
<1>16. CASE Probe(j)
  <2>1. \A id : Probed(work[j], id).pc = "probed"
    BY <1>9, TaskFields
  <2>2. ~Missing(Path(j)) /\ work[j].pc = "claimed"
    BY <1>7, <1>16, ZenonT(60) DEF Probe
  <2>3. PICK id \in ReadCaptureIdentity(Path(j), bound[Path(j)]) :
          IF Reusable(j, id) THEN Emit(j, ReusedRow(j, id)) ELSE Become(j, Probed(work[j], id))
    BY <1>16, <2>2, Zenon DEF Probe, Probed
  <2>4. Reusable(j, id) /\ Emit(j, ReusedRow(j, id))
    BY <1>8, <1>10, <2>1, <2>3, Zenon
  <2>5. j = i /\ work'[i].row = ReusedRow(j, id)
    BY <1>6, <2>4, Zenon
  <2>6. QED
    BY <2>2, <2>3, <2>4, <2>5, Zenon
<1>17. CASE Verify(j)
  <2>1. ~Missing(Path(j)) /\ work[j].pc = "after"
    BY <1>7, <1>17, Zenon DEF Verify
  <2>2. PICK current \in ReadCaptureIdentity(Path(j), bound[Path(j)]) :
          ~Changed(work[j], current) /\ Emit(j, VerifiedRow(j))
    BY <1>7, <1>17, <2>1, Zenon DEF Verify, VerifiedRow
  <2>3. j = i /\ work'[i].row = VerifiedRow(j)
    BY <1>6, <2>2, Zenon
  <2>4. QED
    BY <2>1, <2>2, <2>3, Zenon
<1>18. QED
  BY <1>4, <1>11, <1>12, <1>13, <1>14, <1>15, <1>16, <1>17

LEMMA CurrentStep ==
    ASSUME Inv, Next, NEW i \in DOMAIN work \cap DOMAIN work', work'[i].pc = "done", work[i].pc # "done",
           work'[i].row.status = "complete", work'[i].row.stable = "true"
    PROVE  /\ ~Missing(Path(i))
           /\ work'[i].row.sum = Summary(contents[version[bound[Path(i)]]], inv.bind.protocols)
<1>1. ASSUME ~Missing(Path(i)), NEW id \in ReadCaptureIdentity(Path(i), bound[Path(i)]),
             work[i].pc = "claimed", Reusable(i, id), work'[i].row = ReusedRow(i, id)
      PROVE  work'[i].row.sum = Summary(contents[version[bound[Path(i)]]], inv.bind.protocols)
  <2>1. FreshIn(kind, cache, Path(i))
    BY <1>1, TaskOf, Zenon DEF TaskIn
  <2>2. id \in {Unknown, version[bound[Path(i)]]}
    BY <1>1, <2>1, FreshIdentity, Zenon
  <2>3. id # Unknown
    BY <1>1, Zenon DEF Reusable, InventoryIdentityMatches
  <2>4. ReusedRow(i, id).sum = Summary(contents[id], inv.bind.protocols)
    BY <1>1, ReusedRowTrue, Zenon
  <2>5. QED
    BY <1>1, <2>2, <2>3, <2>4, Zenon
<1>2. ASSUME ~Missing(Path(i)), work[i].pc = "after", work'[i].row = VerifiedRow(i),
             NEW current \in ReadCaptureIdentity(Path(i), bound[Path(i)]), ~Changed(work[i], current)
      PROVE  work'[i].row.sum = Summary(contents[version[bound[Path(i)]]], inv.bind.protocols)
  BY <1>2, VerifiedTrue, Zenon
<1>3. QED
  BY <1>1, <1>2, Finishing, Zenon

\* A complete row whose metadata was unchanged describes the file its path names at the
\* moment the row is made, whether it was scanned (ScanInventory compares the identities of
\* the probe, of the handle before and after, and of the path) or reused
\* (ReuseInventorySummary).
THEOREM RowsCurrent == Spec => ReportsCurrent
<1>1. Inv /\ [Next]_vars =>
        [\A i \in DOMAIN work \cap DOMAIN work' :
           LET row == work'[i].row IN
           work'[i].pc = "done" /\ work[i].pc # "done" /\ row.status = "complete" /\ row.stable = "true"
           => /\ ~Missing(Path(i))
              /\ row.sum = Summary(contents[version[bound[Path(i)]]], inv.bind.protocols)]_vars
  <2> SUFFICES ASSUME Inv, Next, NEW i \in DOMAIN work \cap DOMAIN work',
                      work'[i].pc = "done", work[i].pc # "done",
                      work'[i].row.status = "complete", work'[i].row.stable = "true"
               PROVE  /\ ~Missing(Path(i))
                      /\ work'[i].row.sum = Summary(contents[version[bound[Path(i)]]], inv.bind.protocols)
    BY Zenon
  <2>1. QED
    BY CurrentStep, Zenon
<1>2. QED
  BY <1>1, Invariant, PTL DEF Spec, ReportsCurrent

-----------------------------------------------------------------------------
(* A file is left out only if it holds nothing the query keeps. *)

\* The summary of a capture covers each of its packets.
LEMMA SummaryCovers ==
    ASSUME NEW capture \in CaptureType, NEW protocols, NEW packet \in Range(capture.packets)
    PROVE  LET sum == Summary(capture, protocols) IN
           /\ sum.packets \in Nat /\ sum.nulls \in Nat /\ sum.min \in Nat /\ sum.max \in Nat
           /\ packet.time \in Nat /\ Covers(sum, packet.time)
<1> DEFINE ps == capture.packets
           n == Len(ps)
           sum == Summary(capture, protocols)
<1>1. ps \in Seq(Packets) /\ n \in Nat
  BY DEF CaptureType
<1>2. PICK i \in 1 .. n : packet = ps[i]
  BY <1>1 DEF Range
<1>3. /\ IsFiniteSet(TimedOf(ps, n)) /\ TimedOf(ps, n) \subseteq Nat /\ ps[i].time \in Nat
  BY <1>1, <1>2, TimesFinite
<1>4. /\ sum.packets = n /\ sum.nulls = Cardinality(NullsOf(ps, n))
      /\ sum.min = IF TimedOf(ps, n) = {} THEN NoTime ELSE Min(TimedOf(ps, n))
      /\ sum.max = IF TimedOf(ps, n) = {} THEN NoTime ELSE Max(TimedOf(ps, n))
  BY FirstPacketsParts, Zenon DEF Summary
<1>5. NullsOf(ps, n) \subseteq 1 .. n
  BY DEF NullsOf
<1>6. /\ Cardinality(NullsOf(ps, n)) \in Nat /\ Cardinality(NullsOf(ps, n)) <= n
      /\ Cardinality(NullsOf(ps, n)) = n <=> NullsOf(ps, n) = 1 .. n
      /\ IsFiniteSet(NullsOf(ps, n))
  BY <1>1, <1>5, CountsFinite, Zenon
<1>7. TimedOf(ps, n) # {} =>
        /\ Min(TimedOf(ps, n)) \in Nat /\ Max(TimedOf(ps, n)) \in Nat
        /\ \A t \in TimedOf(ps, n) : Min(TimedOf(ps, n)) <= t /\ t <= Max(TimedOf(ps, n))
  BY <1>3, MinMember, MaxMember, Zenon
<1>8. sum.min \in Nat /\ sum.max \in Nat
  BY <1>4, <1>7 DEF NoTime
<1>9. n > 0
  BY <1>1, <1>2
<1>10. CASE packet.time = NoTime
  <2>1. i \in NullsOf(ps, n)
    BY <1>2, <1>10, Zenon DEF NullsOf
  <2>2. Cardinality(NullsOf(ps, n)) # 0
    BY <1>6, <2>1, FS_EmptySet, Zenon
  <2>3. QED
    BY <1>2, <1>3, <1>4, <1>6, <1>8, <1>9, <1>10, <2>2 DEF Covers
<1>11. CASE packet.time # NoTime
  <2>1. packet.time \in TimedOf(ps, n) /\ i \notin NullsOf(ps, n)
    BY <1>2, <1>11, Zenon DEF TimedOf, NullsOf
  <2>2. n > Cardinality(NullsOf(ps, n))
    BY <1>1, <1>2, <1>6, <2>1
  <2>3. sum.min <= packet.time /\ packet.time <= sum.max
    BY <1>4, <1>7, <2>1, Zenon
  <2>4. QED
    BY <1>1, <1>2, <1>3, <1>4, <1>6, <1>8, <1>9, <1>11, <2>2, <2>3 DEF Covers
<1>12. QED
  BY <1>10, <1>11, Zenon

LEMMA PruneStep ==
    ASSUME Inv, Next, scan.running, scan'.n = scan.n + 1, scan'.selected = scan.selected,
           NEW packet \in Range(contents[version[bound[scan.list[scan.n]]]].packets)
    PROVE  ~Keeps(scan.filter, packet.time)
<1>1. /\ ScanIn(contents, scan) /\ scan.n \in Nat \ {0} /\ scan.list \in Seq(Paths) /\ scan.selected \in Seq(Nat)
      /\ scan.filter \in TimeFilters /\ SnapshotIn(contents, scan.previous)
  BY Zenon DEF Inv, ScanIn
<1>2. scan' # scan
  BY <1>1
<1>3. scan' # NoScan
  <2>1. NoScan.n = 1
    BY Zenon DEF NoScan, Selection
  <2>2. QED
    BY <1>1, <2>1
<1>4. Decide
  <2>1. \A i : ~(Claim(i) \/ Probe(i) \/ Open(i) \/ Read(i) \/ After(i) \/ Verify(i) \/ Fault(i))
    <3>1. ASSUME NEW i, NEW t PROVE ~Become(i, t)
      BY <1>2, Zenon DEF Become, InventoryUnchanged
    <3>2. ~FailStatement
      BY <1>2, Zenon DEF FailStatement, InventoryUnchanged
    <3>3. ASSUME NEW i, NEW status PROVE ~Throw(i, status)
      BY <3>1, <3>2, Zenon DEF Throw, Emit
    <3>4. QED
      BY <3>1, <3>2, <3>3, Zenon DEF Claim, Probe, Open, Read, After, Verify, Fault, Emit
  <2>2. ~SetCache /\ ~Interrupt /\ ~Refresh /\ ~Insert /\ ~Discard /\ ~EndScan
    BY <1>2, <1>3, ZenonT(40) DEF SetCache, Interrupt, FailStatement, InventoryUnchanged, Refresh, Insert, Discard, Store,
                      EndScan, ScanOnly
  <2>3. \A row, p, c, list, bind, f, immutable :
          /\ ~InsertForeign(row) /\ ~Delete(p) /\ ~Edit(p, c) /\ ~Replace(p, c)
          /\ ~StartInventory(list, bind) /\ ~StartScan(list, f, immutable)
    BY <1>2 DEF InsertForeign, Delete, Edit, Replace, Quiet, StartInventory, InventoryUnchanged, StartScan
  <2>4. QED
    BY <2>1, <2>2, <2>3, Zenon DEF Next
<1> DEFINE p == scan.list[scan.n]
           row == scan.previous[p].row
<1>5. scan.n <= Len(scan.list)
  BY <1>4, Zenon DEF Decide
<1>6. p \in Paths
  BY <1>1, <1>5
<1>7. ~Decided(Append(scan.selected, scan.n))
  <2>1. ASSUME Decided(Append(scan.selected, scan.n))
        PROVE  FALSE
    <3>1. scan' = DecidedTo(scan, Append(scan.selected, scan.n))
      BY <2>1, Zenon DEF Decided, DecidedTo, ScanOnly
    <3>2. scan'.selected = Append(scan.selected, scan.n)
      <4> DEFINE keep == Append(scan.selected, scan.n)
      <4> HIDE DEF keep
      <4>1. DecidedTo(scan, keep) = Selection(scan.running, scan.list, scan.filter, scan.previous, scan.n + 1, keep)
        BY <1>1, DecidedParts, ZenonT(60)
      <4>2. DecidedTo(scan, keep).selected = keep
        BY <4>1 DEF Selection
      <4>3. QED
        BY <3>1, <4>2, Zenon DEF keep
    <3>3. Len(Append(scan.selected, scan.n)) # Len(scan.selected)
      BY <1>1
    <3>4. QED
      BY <3>2, <3>3, Zenon
  <2>2. QED
    BY <2>1, Zenon
<1>8. Considered(p) /\ ~Missing(p) /\ \E id \in ReadCaptureIdentity(p, bound[p]) : Excludes(p, id)
  BY <1>3, <1>4, <1>7, Zenon DEF Decide, ScanOnly
<1>9. PICK id \in ReadCaptureIdentity(p, bound[p]) : Excludes(p, id)
  BY <1>8, Zenon
<1>10. FreshIn(kind, cache, p)
  BY <1>8, ZenonT(60) DEF Considered, BackendTrusted, FreshIn, Remote
<1>11. id = version[bound[p]] /\ id = row.id
  BY <1>9, <1>10, FreshIdentity, ZenonT(60) DEF Excludes, InventoryIdentityMatches
<1>12. row.sum = Summary(contents[id], row.protocols)
  <2>1. InventoryValidPrevious(row, FALSE) /\ p \in DOMAIN scan.previous
    BY <1>8, Zenon DEF Considered
  <2>2. QED
    BY <1>1, <1>11, <2>1, ZenonT(60) DEF SnapshotIn, TrueIn
<1>13. CatalogTimeExcludes(row.sum, scan.filter)
  BY <1>9, Zenon DEF Excludes
<1>14. contents[id] \in CaptureType
  <2>1. bound[p] \in 1 .. Len(version)
    BY <1>6, <1>8, BoundObject, Zenon
  <2>2. version \in Seq(1 .. Len(contents)) /\ contents \in Seq(CaptureType)
    BY Zenon DEF Inv, FilesIn
  <2>3. id \in 1 .. Len(contents)
    <3>1. \A o \in 1 .. Len(version) : version[o] \in 1 .. Len(contents)
      BY <2>2
    <3>2. QED
      BY <1>11, <2>1, <3>1, Zenon
  <2>4. QED
    BY <2>2, <2>3
<1>15. packet \in Range(contents[id].packets)
  BY <1>11, ZenonT(60)
<1> HIDE DEF p, row
<1>16. /\ row.sum.packets \in Nat /\ row.sum.nulls \in Nat /\ row.sum.min \in Nat /\ row.sum.max \in Nat
       /\ packet.time \in Nat /\ Covers(row.sum, packet.time)
  BY <1>12, <1>14, <1>15, SummaryCovers, Zenon
<1>17. QED
  BY <1>1, <1>13, <1>16, ExclusionSound, Zenon

\* A file left out of a reading query holds, when it is left out, no packet the query's
\* filter keeps (SelectCatalogFiles, CatalogDecision, CatalogTimeExcludes).
THEOREM PruningSound == Spec => PruneSound
<1>1. Inv /\ [Next]_vars =>
        [scan.running /\ scan'.n = scan.n + 1 /\ scan'.selected = scan.selected
         => LET p == scan.list[scan.n] IN
            \A packet \in Range(contents[version[bound[p]]].packets) : ~Keeps(scan.filter, packet.time)]_vars
  <2> SUFFICES ASSUME Inv, Next, scan.running, scan'.n = scan.n + 1, scan'.selected = scan.selected,
                      NEW packet \in Range(contents[version[bound[scan.list[scan.n]]]].packets)
               PROVE  ~Keeps(scan.filter, packet.time)
    BY Zenon
  <2>1. QED
    BY PruneStep, ZenonT(60)
<1>2. QED
  BY <1>1, Invariant, PTL DEF Spec, PruneSound
=============================================================================
