------------------------ MODULE ScanAdmissionProofs -------------------------
(***************************************************************************)
(* Budgets, buffers and files of ScanAdmission, for every set of           *)
(* statements, files and threads.                                          *)
(***************************************************************************)
EXTENDS ScanAdmission, FiniteSetTheorems, TLAPS

\* What the provers may take for a step.
USE SMTT(30), ZenonT(60)

-----------------------------------------------------------------------------
(* The inductive invariant: what it says, that it holds at first, and that the *)
(* query, plan and start steps keep it.                                        *)

\* Which budget generation an execution uses, and when it has one: a generation
\* belongs to one query, and a query that has no budget yet has started no scan.
GenInv ==
    /\ budget # None => active /\ budget = query
    /\ query = 0 => ~active
    /\ \A x \in Execs :
        /\ gen[x] # None => gen[x] = x[1] /\ x[1] <= query
        /\ gen[x] # None /\ active /\ x[1] = query => budget # None
        /\ status[x] = "none" <=> gen[x] = None

\* Who holds a reservation: exactly the admitted workers, and executions whose
\* `initial' has not been taken over.
HoldInv ==
    /\ \A g \in Gens : \A h \in lease[g] : gen[h[1]] = g
    /\ \A x \in Execs, t \in Threads :
        /\ pc[<<x, t>>] = "admitted" => gen[x] # None /\ <<x, t>> \in lease[gen[x]]
        /\ gen[x] # None /\ <<x, t>> \in lease[gen[x]] => pc[<<x, t>>] = "admitted"
        /\ file[<<x, t>>] # None => pc[<<x, t>>] = "admitted"
        /\ pc[<<x, t>>] \notin {"new"} => status[x] # "none"
    /\ \A x \in Execs : gen[x] # None /\ <<x, Starter>> \in lease[gen[x]] => status[x] = "running"

Ledger ==
    /\ \A g \in Gens : used[g] = WORKER_BYTES * Cardinality(lease[g])
    /\ reserved = WORKER_BYTES * Cardinality(Live)
Within == \A g \in Gens : used[g] <= limit[g]

\* A plan count in somebody's bind data has counted at least that scan.
PlanInv == \A s \in Scans : plan[s] # None => scans[plan[s]] > 0

IInv == TypeOK /\ PlanInv /\ GenInv /\ HoldInv /\ Ledger /\ Within

-----------------------------------------------------------------------------
\* The type invariant by the object that owns the state: a step looks at one or two.
QueryType == query \in 0..Len(Queries) /\ active \in BOOLEAN /\ stopped \subseteq Gens
PlanType ==
    /\ current \in Scans \cup {None} /\ plan \in [Scans -> Scans \cup {None}]
    /\ scans \in [Scans -> Nat] /\ sealed \in [Scans -> BOOLEAN] /\ copies \in Nat
LimitType == budget \in Gens \cup {None} /\ limit \in [Gens -> Nat]
LeaseType == used \in [Gens -> Nat] /\ reserved \in Nat /\ lease \in [Gens -> SUBSET Holders]
GlobalType ==
    /\ status \in [Execs -> Statuses] /\ gen \in [Execs -> Gens \cup {None}]
    /\ max_workers \in [Execs -> Nat]
CountType ==
    /\ admitted \in [Execs -> Nat]
    /\ next_file \in [Execs -> Nat] /\ drained \in [Execs -> Nat]
    /\ finished \in [Execs -> BOOLEAN] /\ done \in [Execs -> SUBSET Nat] /\ lost \in [Execs -> SUBSET Nat]
WorkerType ==
    /\ pc \in [Workers -> WorkerStates] /\ file \in [Workers -> Nat \cup {None}]
    /\ rows \in [Workers -> BOOLEAN]

\* The seven parts are the type invariant.
LEMMA Types ==
    TypeOK <=> /\ QueryType /\ PlanType /\ LimitType /\ LeaseType
               /\ GlobalType /\ CountType /\ WorkerType
  BY Zenon DEF TypeOK, QueryType, PlanType, LimitType, LeaseType, GlobalType, CountType, WorkerType

\* So they are after a step.
LEMMA TypesAfter ==
    TypeOK' <=> /\ QueryType' /\ PlanType' /\ LimitType' /\ LeaseType'
                /\ GlobalType' /\ CountType' /\ WorkerType'
  BY Zenon DEF TypeOK, QueryType, PlanType, LimitType, LeaseType, GlobalType, CountType, WorkerType

\* A count that goes up by one stays a count.
LEMMA CountUp ==
    ASSUME NEW S, NEW f \in [S -> Nat], NEW x \in S
    PROVE  [f EXCEPT ![x] = @ + 1] \in [S -> Nat]
  OBVIOUS

-----------------------------------------------------------------------------
\* There are finitely many holders of reservations, so they can be counted.
LEMMA FiniteHolders == IsFiniteSet(Holders) /\ IsFiniteSet(Gens \X Holders)
<1>1. Len(Queries) \in Nat
  BY AdmissionAssumption
<1>2. IsFiniteSet(1..Len(Queries))
  BY <1>1, FS_Interval
<1>3. IsFiniteSet((1..Len(Queries)) \X Scans)
  BY <1>2, AdmissionAssumption, FS_Product, Zenon
<1>4. IsFiniteSet(Execs)
  BY <1>3, FS_Subset DEF Execs
<1>5. IsFiniteSet(Threads \cup {Starter})
  BY AdmissionAssumption, FS_AddElement, Zenon
<1>6. IsFiniteSet(Holders)
  BY <1>4, <1>5, FS_Product, Zenon DEF Holders
<1>7. QED
  BY <1>2, <1>6, FS_Product, Zenon DEF Gens

\* What the sets of reservations lose or gain is counted exactly.
LEMMA LeaseFinite ==
    ASSUME lease \in [Gens -> SUBSET Holders]
    PROVE  /\ \A g \in Gens : IsFiniteSet(lease[g]) /\ Cardinality(lease[g]) \in Nat
           /\ IsFiniteSet(Live) /\ Cardinality(Live) \in Nat
<1>1. \A g \in Gens : IsFiniteSet(lease[g])
  BY FiniteHolders, FS_Subset
<1>2. IsFiniteSet(Live)
  BY FiniteHolders, FS_Subset DEF Live
<1>3. QED
  BY <1>1, <1>2, FS_CardinalityType, Zenon

\* A reservation Acquire() hands out adds WORKER_BYTES to its budget and to the buffer manager.
LEMMA AcquireLedger ==
    ASSUME TypeOK, Ledger, NEW g \in Gens, NEW h \in Holders, h \notin lease[g], Acquire(g, h)
    PROVE  Ledger' /\ used' \in [Gens -> Nat] /\ reserved' \in Nat /\ lease' \in [Gens -> SUBSET Holders]
<1>1. /\ lease \in [Gens -> SUBSET Holders] /\ used \in [Gens -> Nat] /\ reserved \in Nat
      /\ WORKER_BYTES \in Nat \ {0}
  BY AdmissionAssumption, Types, Zenon DEF LeaseType
<1>2. lease' \in [Gens -> SUBSET Holders]
  BY <1>1 DEF Acquire
<1>3. Live' = Live \cup {<<g, h>>}
  BY <1>1, <1>2 DEF Acquire, Live
<1>4. <<g, h>> \notin Live
  BY DEF Live
<1>5. Cardinality(Live') = Cardinality(Live) + 1
  BY <1>1, <1>3, <1>4, LeaseFinite, FS_AddElement, Zenon
<1>6. Cardinality(lease[g] \cup {h}) = Cardinality(lease[g]) + 1
  BY <1>1, LeaseFinite, FS_AddElement, Zenon
<1>7. reserved' = WORKER_BYTES * Cardinality(Live')
  BY <1>1, <1>5, LeaseFinite DEF Acquire, Ledger
<1>8. \A k \in Gens : used'[k] = WORKER_BYTES * Cardinality(lease'[k])
  <2> SUFFICES ASSUME NEW k \in Gens PROVE used'[k] = WORKER_BYTES * Cardinality(lease'[k])
    OBVIOUS
  <2>1. CASE k = g
    BY <2>1, <1>1, <1>6, LeaseFinite DEF Acquire, Ledger
  <2>2. CASE k # g
    BY <2>2, <1>1, Zenon DEF Acquire, Ledger
  <2>3. QED
    BY <2>1, <2>2
<1>9. Ledger'
  BY <1>7, <1>8, Zenon DEF Ledger
<1>10. QED
  BY <1>1, <1>2, <1>9 DEF Acquire

\* A reservation Release() takes back subtracts WORKER_BYTES from both.
LEMMA ReleaseLedger ==
    ASSUME TypeOK, Ledger, NEW g \in Gens, NEW h \in Holders, h \in lease[g], Release(g, h)
    PROVE  Ledger' /\ used' \in [Gens -> Nat] /\ reserved' \in Nat /\ lease' \in [Gens -> SUBSET Holders]
<1>1. /\ lease \in [Gens -> SUBSET Holders] /\ used \in [Gens -> Nat] /\ reserved \in Nat
      /\ WORKER_BYTES \in Nat \ {0}
  BY AdmissionAssumption, Types, Zenon DEF LeaseType
<1>2. lease' \in [Gens -> SUBSET Holders]
  BY <1>1 DEF Release
<1>3. Live' = Live \ {<<g, h>>}
  BY <1>1, <1>2 DEF Release, Live
<1>4. <<g, h>> \in Live
  BY DEF Live
<1>5. Cardinality(Live') = Cardinality(Live) - 1
  BY <1>1, <1>3, <1>4, LeaseFinite, FS_RemoveElement, Zenon
<1>6. Cardinality(lease[g] \ {h}) = Cardinality(lease[g]) - 1
  BY <1>1, LeaseFinite, FS_RemoveElement, Zenon
<1>a. Cardinality(Live) # 0 /\ Cardinality(lease[g]) # 0
  BY <1>1, <1>4, LeaseFinite, FS_EmptySet, Zenon
<1>7. reserved' = WORKER_BYTES * Cardinality(Live') /\ reserved' \in Nat
  <2>1. WORKER_BYTES * (Cardinality(Live) - 1) = WORKER_BYTES * Cardinality(Live) - WORKER_BYTES
    BY <1>1, LeaseFinite
  <2>2. Cardinality(Live) - 1 \in Nat
    BY <1>1, <1>a, LeaseFinite
  <2>3. WORKER_BYTES * (Cardinality(Live) - 1) \in Nat
    BY <1>1, <2>2
  <2>4. QED
    BY <1>1, <1>5, <2>1, <2>3, Zenon DEF Release, Ledger
<1>8. \A k \in Gens : used'[k] = WORKER_BYTES * Cardinality(lease'[k]) /\ used'[k] \in Nat
  <2> SUFFICES ASSUME NEW k \in Gens
               PROVE  used'[k] = WORKER_BYTES * Cardinality(lease'[k]) /\ used'[k] \in Nat
    OBVIOUS
  <2>1. CASE k = g
    <3>1. WORKER_BYTES * (Cardinality(lease[g]) - 1) = WORKER_BYTES * Cardinality(lease[g]) - WORKER_BYTES
      BY <1>1, LeaseFinite
    <3>2. Cardinality(lease[g]) - 1 \in Nat
      BY <1>1, <1>a, LeaseFinite
    <3>3. WORKER_BYTES * (Cardinality(lease[g]) - 1) \in Nat
      BY <1>1, <3>2
    <3>4. QED
      BY <2>1, <1>1, <1>6, <3>1, <3>3, Zenon DEF Release, Ledger
  <2>2. CASE k # g
    BY <2>2, <1>1, Zenon DEF Release, Ledger
  <2>3. QED
    BY <2>1, <2>2, Zenon
<1>9. Ledger'
  BY <1>7, <1>8, Zenon DEF Ledger
<1>10. QED
  BY <1>1, <1>2, <1>7, <1>8, <1>9, Zenon DEF Release

\* Moving `initial' into the first admitted worker changes no count.
LEMMA MoveLedger ==
    ASSUME TypeOK, Ledger, NEW g \in Gens, NEW h \in Holders, NEW k \in Holders,
           h \in lease[g], k \notin lease[g],
           lease' = [lease EXCEPT ![g] = (@ \ {h}) \cup {k}], UNCHANGED <<used, reserved>>
    PROVE  Ledger' /\ lease' \in [Gens -> SUBSET Holders]
<1>1. /\ lease \in [Gens -> SUBSET Holders] /\ used \in [Gens -> Nat] /\ reserved \in Nat
  BY Types DEF LeaseType
<1>2. lease' \in [Gens -> SUBSET Holders]
  BY <1>1
<1>3. Live' = (Live \ {<<g, h>>}) \cup {<<g, k>>}
  BY <1>1, <1>2 DEF Live
<1>4. <<g, h>> \in Live /\ <<g, k>> \notin Live
  BY DEF Live
<1>5. IsFiniteSet(Live \ {<<g, h>>}) /\ Cardinality(Live \ {<<g, h>>}) = Cardinality(Live) - 1
  BY <1>1, <1>4, LeaseFinite, FS_RemoveElement, Zenon
<1>6. Cardinality(Live') = Cardinality(Live \ {<<g, h>>}) + 1
  BY <1>3, <1>4, <1>5, FS_AddElement, Zenon
<1>7. Cardinality(Live') = Cardinality(Live)
  BY <1>1, <1>5, <1>6, LeaseFinite
<1>8. IsFiniteSet(lease[g] \ {h}) /\ Cardinality(lease[g] \ {h}) = Cardinality(lease[g]) - 1
  BY <1>1, LeaseFinite, FS_RemoveElement, Zenon
<1>9. Cardinality((lease[g] \ {h}) \cup {k}) = Cardinality(lease[g] \ {h}) + 1
  BY <1>8, FS_AddElement, Zenon
<1>10. \A j \in Gens : Cardinality(lease'[j]) = Cardinality(lease[j])
  BY <1>1, <1>8, <1>9, LeaseFinite
<1>11. Ledger'
  BY <1>7, <1>10, Zenon DEF Ledger
<1>12. QED
  BY <1>2, <1>11

\* A step that leaves the budgets alone keeps the ledger.
LEMMA SameLedger ==
    ASSUME Ledger, UNCHANGED <<used, reserved, lease>>
    PROVE  Ledger'
BY DEF Ledger, Live

-----------------------------------------------------------------------------
\* An execution is a scan of one of the queries.
LEMMA ExecFacts ==
    /\ \A x \in Execs : x[1] \in Gens /\ x[2] \in Scans /\ x[2] \in Queries[x[1]] /\ x = <<x[1], x[2]>>
    /\ \A q \in Gens, s \in Scans : s \in Queries[q] => <<q, s>> \in Execs
    /\ \A x \in Execs, t \in Threads : <<x, t>> \in Workers /\ <<x, t>> \in Holders /\ <<x, t>> # <<x, Starter>>
    /\ \A x \in Execs : <<x, Starter>> \in Holders
    /\ None \notin Gens /\ Len(Queries) \in Nat
    /\ \A h \in Holders : h[1] \in Execs /\ h = <<h[1], h[2]>> /\ h[2] \in Threads \cup {Starter}
<1>1. Starter \notin Threads /\ None \notin Nat /\ Len(Queries) \in Nat
  BY AdmissionAssumption
<1>2. QED
  BY <1>1 DEF Execs, Gens, Workers, Holders

\* The worker ceiling computed when a scan starts is a positive number.
LEMMA CeilingType ==
    ASSUME NEW l \in Nat, NEW n \in Nat, n > 0, NEW files \in Nat
    PROVE  WorkerCeiling(l, n, files) \in Nat \ {0}
<1> DEFINE a == Slots(l) \div n
<1>1. Slots(l) \in Nat /\ a \in Nat
  BY AdmissionAssumption DEF Slots
<1>2. \A m, k \in Nat : Max({m, k}) \in {m, k} /\ Max({m, k}) >= m
  <2> SUFFICES ASSUME NEW m \in Nat, NEW k \in Nat
               PROVE  Max({m, k}) \in {m, k} /\ Max({m, k}) >= m
    OBVIOUS
  <2>1. \E z \in {m, k} : \A y \in {m, k} : z >= y
    BY SMT
  <2>2. QED
    BY <2>1 DEF Max
<1>3. \A m, k \in Nat : Min({m, k}) \in {m, k}
  <2> SUFFICES ASSUME NEW m \in Nat, NEW k \in Nat PROVE Min({m, k}) \in {m, k}
    OBVIOUS
  <2>1. \E z \in {m, k} : \A y \in {m, k} : z <= y
    BY SMT
  <2>2. QED
    BY <2>1 DEF Min
<1>4. Max({1, a}) \in Nat \ {0} /\ Max({1, files}) \in Nat \ {0}
  BY <1>1, <1>2
<1>5. QED
  BY <1>3, <1>4, Zenon DEF WorkerCeiling

\* Before any query nothing is planned, reserved or scanned: the inductive invariant holds.
THEOREM InitInv == Init => IInv
<1> SUFFICES ASSUME Init PROVE IInv
  OBVIOUS
<1>1. TypeOK
  <2>1. 0 \in 0..Len(Queries) /\ {} \subseteq Gens
    BY ExecFacts
  <2>2. QED
    BY <2>1, Zenon DEF Init, TypeOK, Statuses, WorkerStates
<1>2. PlanInv /\ GenInv /\ HoldInv /\ Within
  BY ExecFacts DEF Init, PlanInv, GenInv, HoldInv, Within, Workers
<1>3. Live = {}
  BY DEF Init, Live
<1>4. Ledger
  BY <1>3, FS_EmptySet, AdmissionAssumption DEF Init, Ledger
<1>5. QED
  BY <1>1, <1>2, <1>4, Zenon DEF IInv

-----------------------------------------------------------------------------
(* Every action preserves the invariant. *)

\* The actions on the query and on the plan counts touch neither reservations nor workers.
LEMMA QueryStepInv ==
    ASSUME IInv, QueryBegin \/ StopQuery \/ QueryEnd
    PROVE  IInv'
<1>0. TypeOK /\ PlanInv /\ GenInv /\ HoldInv /\ Ledger /\ Within
  BY DEF IInv
<1> USE <1>0 DEF queryVars, planVars, budgetVars, globalVars, workVars
<1>1. UNCHANGED <<used, reserved, lease, limit, scans, globalVars, workVars>>
  BY Zenon DEF QueryBegin, StopQuery, QueryEnd
<1>2. TypeOK'
  <2>1. CASE QueryBegin
    BY <2>1, ExecFacts, Types, TypesAfter
        DEF QueryType, PlanType, LimitType, LeaseType, GlobalType, CountType, WorkerType, QueryBegin
  <2>2. CASE StopQuery
    BY <2>2, ExecFacts, Types, TypesAfter
        DEF QueryType, PlanType, LimitType, LeaseType, GlobalType, CountType, WorkerType,
            StopQuery, Gens, GenInv
  <2>3. CASE QueryEnd
    <3>1. plan' \in [Scans -> Scans \cup {None}]
      BY <2>3, Types, Zenon DEF PlanType, QueryEnd
    <3>2. query \in Gens
      BY <2>3, ExecFacts, Types DEF QueryType, QueryEnd, Gens, GenInv
    <3>3. QED
      BY <2>3, <3>1, <3>2, Types, TypesAfter, Zenon
          DEF QueryType, PlanType, LimitType, LeaseType, GlobalType, CountType, WorkerType, QueryEnd
  <2>4. QED
    BY <2>1, <2>2, <2>3, Zenon
<1>3. PlanInv'
  BY ExecFacts DEF QueryBegin, StopQuery, QueryEnd, PlanInv
<1>4. GenInv'
  <2>1. \A x \in Execs : x[1] \in Nat
    BY ExecFacts DEF Gens
  <2>2. CASE QueryBegin
    BY <2>1, <2>2, ExecFacts, Types DEF QueryBegin, GenInv, QueryType, LimitType
  <2>3. CASE StopQuery \/ QueryEnd
    BY <2>3, Zenon DEF StopQuery, QueryEnd, GenInv
  <2>4. QED
    BY <2>2, <2>3
<1>5. HoldInv' /\ Within'
  BY <1>1, Zenon DEF HoldInv, Within
<1>6. Ledger'
  BY <1>1, SameLedger, Zenon
<1>7. QED
  BY <1>2, <1>3, <1>4, <1>5, <1>6, Zenon DEF IInv

\* Registering a scan at bind and copying its plan keep the invariant.
LEMMA PlanStepInv ==
    ASSUME IInv, NEW s \in Scans, Bind(s) \/ CopyPlan(s)
    PROVE  IInv'
<1>0. TypeOK /\ PlanInv /\ GenInv /\ HoldInv /\ Ledger /\ Within
  BY DEF IInv
<1> USE <1>0 DEF queryVars, planVars, budgetVars, globalVars, workVars
<1>1. UNCHANGED <<queryVars, budgetVars, globalVars, workVars>>
  BY Zenon DEF Bind, CopyPlan
<1>2. Registered(s) \in Scans /\ None \notin Scans
  BY AdmissionAssumption, Types, Zenon DEF PlanType, Registered
<1>3. TypeOK'
  <2>1. CASE Bind(s)
    <3>1. /\ plan' \in [Scans -> Scans \cup {None}]
          /\ scans' \in [Scans -> Nat] /\ sealed' \in [Scans -> BOOLEAN]
          /\ current' \in Scans \cup {None} /\ copies' = copies
      BY <1>2, <2>1, Types DEF PlanType, Bind
    <3>2. QED
      BY <1>1, <3>1, Types, TypesAfter, Zenon
          DEF QueryType, PlanType, LimitType, LeaseType, GlobalType, CountType, WorkerType
  <2>2. CASE CopyPlan(s)
    <3>1. scans' \in [Scans -> Nat] /\ copies' \in Nat /\ UNCHANGED <<current, sealed, plan>>
      BY <1>2, <2>2, Types DEF PlanType, CopyPlan
    <3>2. QED
      BY <1>1, <3>1, Types, TypesAfter, Zenon
          DEF QueryType, PlanType, LimitType, LeaseType, GlobalType, CountType, WorkerType
  <2>3. QED
    BY <2>1, <2>2
<1>4. PlanInv'
  <2>1. CASE Bind(s)
    BY <1>2, <2>1, Types DEF PlanType, Bind, PlanInv
  <2>2. CASE CopyPlan(s)
    BY <1>2, <2>2, Types DEF PlanType, CopyPlan, PlanInv
  <2>3. QED
    BY <2>1, <2>2
<1>5. GenInv' /\ HoldInv' /\ Within'
  BY <1>1 DEF GenInv, HoldInv, Within
<1>6. Ledger'
  BY <1>1, SameLedger, Zenon
<1>7. QED
  BY <1>3, <1>4, <1>5, <1>6, Zenon DEF IInv

\* Starting a scan, whether its first reservation is granted or not, keeps the invariant.
LEMMA StartScanInv ==
    ASSUME IInv, NEW s \in Scans, StartScan(s)
    PROVE  IInv'
<1> DEFINE x == <<query, s>>
           g == Generation
           p == plan[s]
<1>0. TypeOK /\ PlanInv /\ GenInv /\ HoldInv /\ Ledger /\ Within
  BY DEF IInv
<1> USE <1>0
<1>1. /\ x \in Execs /\ query \in Gens /\ g \in Gens /\ p \in Scans /\ g = query /\ x[1] = query
      /\ gen[x] = None /\ status[x] = "none" /\ active
      /\ scans[p] > 0 /\ scans[p] \in Nat
      /\ FileCount[s] \in Nat /\ <<x, Starter>> \in Holders
  <2>1. query \in Gens
    BY ExecFacts, Types DEF StartScan, QueryType, GenInv, Gens
  <2>2. s \in Queries[query] /\ x \in Execs
    BY <2>1, ExecFacts, Zenon DEF StartScan
  <2>3. p \in Scans /\ scans[p] > 0 /\ scans[p] \in Nat
    BY <2>2, Types DEF StartScan, PlanType, PlanInv
  <2>4. gen[x] = None /\ status[x] = "none" /\ active
    BY <2>2, Zenon DEF StartScan, GenInv
  <2>5. QED
    BY <2>1, <2>2, <2>3, <2>4, ExecFacts, AdmissionAssumption DEF Generation, GenInv
<1>2. PICK l \in Limits :
        /\ budget # None => l = limit[g]
        /\ budget' = g
        /\ limit' = [limit EXCEPT ![g] = l]
        /\ sealed' = [sealed EXCEPT ![p] = TRUE]
        /\ gen' = [gen EXCEPT ![x] = g]
        /\ max_workers' = [max_workers EXCEPT ![x] = WorkerCeiling(l, scans[p], FileCount[s])]
        /\ \/ /\ status' = [status EXCEPT ![x] = "running"]
              /\ Fits(l, used[g])
              /\ Acquire(g, <<x, Starter>>)
              /\ UNCHANGED stopped
           \/ /\ \E c \in {"running", "starved", "refused"} : status' = [status EXCEPT ![x] = c]
              /\ UNCHANGED <<used, reserved, lease>>
              /\ stopped' \in {stopped, stopped \cup {query}}
  BY Zenon DEF StartScan
<1>3. UNCHANGED <<query, active, current, scans, plan, copies, workVars>>
  BY Zenon DEF StartScan
<1>4. l \in Nat /\ WorkerCeiling(l, scans[p], FileCount[s]) \in Nat
  BY <1>1, CeilingType, AdmissionAssumption, Zenon
<1>5. <<x, Starter>> \notin lease[g]
  <2>1. <<x, Starter>>[1] = x /\ g # None
    BY <1>1, ExecFacts, Zenon
  <2>2. QED
    BY <1>1, <2>1, Zenon DEF HoldInv
<1>6. Ledger' /\ used' \in [Gens -> Nat] /\ reserved' \in Nat /\ lease' \in [Gens -> SUBSET Holders]
  <2>1. CASE Acquire(g, <<x, Starter>>)
    BY <2>1, <1>1, <1>5, AcquireLedger, Zenon
  <2>2. CASE UNCHANGED <<used, reserved, lease>>
    BY <2>2, SameLedger, Types, Zenon DEF LeaseType
  <2>3. QED
    BY <1>2, <2>1, <2>2, Zenon
<1>7. TypeOK'
  <2>1. status' \in [Execs -> Statuses] /\ gen' \in [Execs -> Gens \cup {None}]
    BY <1>1, <1>2, Types, Zenon DEF GlobalType, Statuses
  <2>2. limit' \in [Gens -> Nat] /\ sealed' \in [Scans -> BOOLEAN] /\ max_workers' \in [Execs -> Nat]
    BY <1>1, <1>2, <1>4, Types, Zenon DEF LimitType, PlanType, GlobalType
  <2>3. budget' \in Gens \cup {None} /\ stopped' \subseteq Gens
    BY <1>1, <1>2, Types, Zenon DEF QueryType, LimitType
  <2>4. QED
    BY <1>3, <1>6, <2>1, <2>2, <2>3, Types, TypesAfter, Zenon
        DEF QueryType, PlanType, LimitType, LeaseType, GlobalType, CountType, WorkerType, workVars
<1>8. PlanInv'
  BY <1>3 DEF PlanInv
<1>9. GenInv'
  <2>1. \A y \in Execs : y # x => gen'[y] = gen[y] /\ status'[y] = status[y]
    BY <1>1, <1>2, Types, Zenon DEF GlobalType
  <2>2. gen'[x] = g /\ status'[x] # "none" /\ g # None
    BY <1>1, <1>2, ExecFacts, Types, Zenon DEF GlobalType
  <2>3. query \in Nat
    BY <1>1, ExecFacts DEF Gens
  <2>4. QED
    BY <1>1, <1>2, <1>3, <2>1, <2>2, <2>3 DEF GenInv
<1>10. HoldInv'
  <2>1. \A y \in Execs : y # x => gen'[y] = gen[y] /\ status'[y] = status[y]
    BY <1>1, <1>2, Types, Zenon DEF GlobalType
  <2>2. gen'[x] = g /\ status'[x] # "none"
    BY <1>1, <1>2, Types, Zenon DEF GlobalType
  <2>3. \A k \in Gens : \A h \in lease'[k] : h \in lease[k] \/ (h = <<x, Starter>> /\ k = g)
    BY <1>1, <1>2, Types DEF LeaseType, Acquire
  <2>4. \A k \in Gens : lease[k] \subseteq lease'[k]
    BY <1>1, <1>2, Types DEF LeaseType, Acquire
  <2>5. ASSUME NEW k \in Gens, NEW h \in lease[k] PROVE h[1] \in Execs /\ h[1] # x
    <3>1. h \in Holders /\ k # None
      BY ExecFacts, Types, Zenon DEF LeaseType
    <3>2. QED
      BY <1>1, <3>1, ExecFacts DEF HoldInv
  <2>6. <<x, Starter>> \in lease'[g] => status'[x] = "running"
    BY <1>1, <1>2, <1>5, Types, Zenon DEF LeaseType, GlobalType
  <2>7. \A k \in Gens : \A h \in lease'[k] : gen'[h[1]] = k
    BY <1>1, <2>1, <2>2, <2>3, <2>5 DEF HoldInv
  <2>8. ASSUME NEW y \in Execs, NEW t \in Threads
        PROVE  /\ pc'[<<y, t>>] = "admitted" => gen'[y] # None /\ <<y, t>> \in lease'[gen'[y]]
               /\ gen'[y] # None /\ <<y, t>> \in lease'[gen'[y]] => pc'[<<y, t>>] = "admitted"
               /\ file'[<<y, t>>] # None => pc'[<<y, t>>] = "admitted"
               /\ pc'[<<y, t>>] \notin {"new"} => status'[y] # "none"
    <3>1. pc' = pc /\ file' = file
      BY <1>3, Zenon DEF workVars
    <3>2. CASE y = x
      BY <1>1, <2>2, <2>3, <2>5, <3>1, <3>2, ExecFacts DEF HoldInv
    <3>3. CASE y # x
      <4>1. gen[y] # None => gen[y] \in Gens
        BY Types, Zenon DEF GlobalType
      <4>2. <<y, t>> # <<x, Starter>>
        BY <3>3
      <4>3. gen'[y] = gen[y] /\ status'[y] = status[y]
        BY <2>1, <3>3, Zenon
      <4>4. gen[y] # None => (<<y, t>> \in lease'[gen[y]] <=> <<y, t>> \in lease[gen[y]])
        BY <2>3, <2>4, <4>1, <4>2, Zenon
      <4>5. QED
        BY <3>1, <4>3, <4>4, Zenon DEF HoldInv
    <3>4. QED
      BY <3>2, <3>3, Zenon
  <2>9. ASSUME NEW y \in Execs, gen'[y] # None, <<y, Starter>> \in lease'[gen'[y]]
        PROVE  status'[y] = "running"
    <3>1. CASE y = x
      BY <2>2, <2>6, <2>9, <3>1, Zenon
    <3>2. CASE y # x
      <4>1. gen[y] \in Gens /\ <<y, Starter>> # <<x, Starter>>
        BY <2>1, <2>9, <3>2, Types, Zenon DEF GlobalType
      <4>2. QED
        BY <2>1, <2>3, <2>9, <3>2, <4>1, Zenon DEF HoldInv
    <3>3. QED
      BY <3>1, <3>2, Zenon
  <2>10. QED
    BY <2>7, <2>8, <2>9, Zenon DEF HoldInv
<1>11. Within'
  <2>1. budget = None => lease[g] = {}
    <3>1. SUFFICES ASSUME budget = None, NEW h \in lease[g] PROVE FALSE
      OBVIOUS
    <3>2. h[1] \in Execs /\ gen[h[1]] = g
      BY <1>1, ExecFacts, Types, Zenon DEF LeaseType, HoldInv
    <3>3. QED
      BY <1>1, <3>1, <3>2, ExecFacts, Zenon DEF GenInv
  <2>2. budget = None => used[g] = 0
    <3>1. Cardinality({}) = 0 /\ WORKER_BYTES * 0 = 0
      BY FS_EmptySet, AdmissionAssumption
    <3>2. QED
      BY <1>1, <2>1, <3>1, Zenon DEF Ledger
  <2>3. used[g] <= l
    BY <1>1, <1>2, <1>4, <2>2 DEF Within
  <2>4. used[g] \in Nat /\ WORKER_BYTES \in Nat
    BY <1>1, AdmissionAssumption, Types, Zenon DEF LeaseType
  <2>5. used'[g] <= l /\ \A k \in Gens : k # g => used'[k] = used[k]
    BY <1>1, <1>2, <1>4, <2>3, <2>4, Types DEF LeaseType, Acquire, Fits
  <2>6. limit'[g] = l /\ \A k \in Gens : k # g => limit'[k] = limit[k]
    BY <1>1, <1>2, Types, Zenon DEF LimitType
  <2>7. QED
    BY <2>5, <2>6, Zenon DEF Within
<1>12. QED
  BY <1>6, <1>7, <1>8, <1>9, <1>10, <1>11, Zenon DEF IInv

-----------------------------------------------------------------------------
(* The steps of workers keep the invariant, and what follows from it for       *)
(* budgets and buffers.                                                        *)

\* A worker's step changes one worker and leaves query, plans and globals alone, so
\* GenInv and PlanInv carry over; HoldInv needs only the worker that moved.
LEMMA LocalStepInv ==
    ASSUME IInv, NEW x \in Execs, NEW t \in Threads,
           UNCHANGED <<queryVars, planVars, budget, limit, globalVars>>,
           Ledger', Within', used' \in [Gens -> Nat], reserved' \in Nat,
           lease' \in [Gens -> SUBSET Holders],
           admitted' \in [Execs -> Nat], next_file' \in [Execs -> Nat], drained' \in [Execs -> Nat],
           finished' \in [Execs -> BOOLEAN], done' \in [Execs -> SUBSET Nat], lost' \in [Execs -> SUBSET Nat],
           rows' \in [Workers -> BOOLEAN],
           NEW c \in WorkerStates, pc' = [pc EXCEPT ![<<x, t>>] = c],
           NEW f \in Nat \cup {None}, file' = [file EXCEPT ![<<x, t>>] = f],
           status[x] # "none",
           f # None => c = "admitted",
           c = "admitted" <=> <<x, t>> \in lease'[gen[x]],
           \A g \in Gens, h \in Holders :
               h # <<x, t>> /\ h # <<x, Starter>> => (h \in lease'[g] <=> h \in lease[g]),
           \A g \in Gens : g # gen[x] => lease'[g] = lease[g],
           <<x, Starter>> \in lease'[gen[x]] => <<x, Starter>> \in lease[gen[x]]
    PROVE  IInv'
<1>0. TypeOK /\ PlanInv /\ GenInv /\ HoldInv /\ Ledger /\ Within
  BY Zenon DEF IInv
<1> USE <1>0 DEF queryVars, planVars, globalVars
<1>1. TypeOK'
  <2>1. pc' \in [Workers -> WorkerStates] /\ file' \in [Workers -> Nat \cup {None}]
    BY Types, Zenon DEF WorkerType
  <2>2. QED
    BY <2>1, Types, TypesAfter, Zenon
        DEF QueryType, PlanType, LimitType, LeaseType, GlobalType, CountType, WorkerType
<1>2. PlanInv' /\ GenInv'
  BY Zenon DEF PlanInv, GenInv
<1>3. <<x, t>> \in Workers /\ gen[x] \in Gens /\ gen[x] # None
  BY ExecFacts, Types, Zenon DEF GlobalType, GenInv
<1>4. ASSUME NEW g \in Gens, NEW h \in lease'[g] PROVE gen'[h[1]] = g
  <2>1. h \in Holders
    BY Zenon
  <2>2. CASE h = <<x, t>> \/ h = <<x, Starter>>
    <3>1. h[1] = x
      BY <2>2
    <3>2. CASE g = gen[x]
      BY <3>1, <3>2, Zenon
    <3>3. CASE g # gen[x]
      BY <3>3, Zenon DEF HoldInv
    <3>4. QED
      BY <3>2, <3>3, Zenon
  <2>3. CASE h # <<x, t>> /\ h # <<x, Starter>>
    BY <2>1, <2>3, Zenon DEF HoldInv
  <2>4. QED
    BY <2>2, <2>3, Zenon
<1>5. ASSUME NEW y \in Execs, NEW u \in Threads
      PROVE  /\ pc'[<<y, u>>] = "admitted" => gen'[y] # None /\ <<y, u>> \in lease'[gen'[y]]
             /\ gen'[y] # None /\ <<y, u>> \in lease'[gen'[y]] => pc'[<<y, u>>] = "admitted"
             /\ file'[<<y, u>>] # None => pc'[<<y, u>>] = "admitted"
             /\ pc'[<<y, u>>] \notin {"new"} => status'[y] # "none"
  <2>1. <<y, u>> \in Workers /\ <<y, u>> \in Holders
    BY ExecFacts, Zenon
  <2>2. CASE <<y, u>> = <<x, t>>
    <3>1. y = x /\ u = t
      BY <2>2, Zenon
    <3>2. pc'[<<x, t>>] = c /\ file'[<<x, t>>] = f
      BY <1>3, Types, Zenon DEF WorkerType
    <3>3. QED
      BY <1>3, <3>1, <3>2, Zenon
  <2>3. CASE <<y, u>> # <<x, t>>
    <3>1. pc'[<<y, u>>] = pc[<<y, u>>] /\ file'[<<y, u>>] = file[<<y, u>>]
      BY <2>1, <2>3, Types, Zenon DEF WorkerType
    <3>2. <<y, u>> # <<x, Starter>>
      BY ExecFacts, Zenon
    <3>3. gen[y] # None => (<<y, u>> \in lease'[gen[y]] <=> <<y, u>> \in lease[gen[y]])
      BY <2>1, <2>3, <3>2, Types, Zenon DEF LeaseType, GlobalType
    <3>4. QED
      BY <3>1, <3>3 DEF HoldInv
  <2>4. QED
    BY <2>2, <2>3, Zenon
<1>6. ASSUME NEW y \in Execs, gen'[y] # None, <<y, Starter>> \in lease'[gen'[y]]
      PROVE  status'[y] = "running"
  <2>1. CASE y = x
    BY <1>6, <2>1, Zenon DEF HoldInv
  <2>2. CASE y # x
    <3>1. <<y, Starter>> # <<x, t>> /\ <<y, Starter>> # <<x, Starter>> /\ <<y, Starter>> \in Holders
      BY <2>2, ExecFacts, Zenon
    <3>2. <<y, Starter>> \in lease[gen[y]]
      BY <1>6, <3>1, Types, Zenon DEF GlobalType
    <3>3. QED
      BY <1>6, <3>2, Zenon DEF HoldInv
  <2>3. QED
    BY <2>1, <2>2, Zenon
<1>7. HoldInv'
  BY <1>4, <1>5, <1>6, Zenon DEF HoldInv
<1>8. QED
  BY <1>1, <1>2, <1>7, Zenon DEF IInv

\* What acquiring and releasing do to the other reservations and to the limit.
LEMMA AcquireEffect ==
    ASSUME IInv, NEW g \in Gens, NEW h \in Holders, h \notin lease[g],
           Acquire(g, h), Fits(limit[g], used[g]), limit' = limit
    PROVE  /\ Ledger' /\ Within' /\ used' \in [Gens -> Nat] /\ reserved' \in Nat
           /\ lease' \in [Gens -> SUBSET Holders] /\ h \in lease'[g]
           /\ \A k \in Gens, j \in Holders : j # h => (j \in lease'[k] <=> j \in lease[k])
           /\ \A k \in Gens : k # g => lease'[k] = lease[k]
<1>0. TypeOK /\ PlanInv /\ GenInv /\ HoldInv /\ Ledger /\ Within
  BY DEF IInv
<1> USE <1>0
<1>1. Ledger' /\ used' \in [Gens -> Nat] /\ reserved' \in Nat /\ lease' \in [Gens -> SUBSET Holders]
  BY AcquireLedger
<1>2. Within'
  <2>1. /\ used \in [Gens -> Nat] /\ limit \in [Gens -> Nat] /\ WORKER_BYTES \in Nat
        /\ used' = [used EXCEPT ![g] = @ + WORKER_BYTES] /\ WORKER_BYTES <= limit[g] - used[g]
    BY AdmissionAssumption, Types, Zenon DEF LeaseType, LimitType, Acquire, Fits
  <2>2. ASSUME NEW k \in Gens PROVE used'[k] <= limit[k]
    BY <2>1 DEF Within
  <2>3. QED
    BY <2>2, Zenon DEF Within
<1>3. QED
  BY <1>1, <1>2, Types, Zenon DEF LeaseType, Acquire

\* Releasing one reservation leaves every other one alone.
LEMMA ReleaseEffect ==
    ASSUME IInv, NEW g \in Gens, NEW h \in Holders, h \in lease[g], Release(g, h), limit' = limit
    PROVE  /\ Ledger' /\ Within' /\ used' \in [Gens -> Nat] /\ reserved' \in Nat
           /\ lease' \in [Gens -> SUBSET Holders] /\ h \notin lease'[g]
           /\ \A k \in Gens, j \in Holders : j # h => (j \in lease'[k] <=> j \in lease[k])
           /\ \A k \in Gens : k # g => lease'[k] = lease[k]
<1>0. TypeOK /\ PlanInv /\ GenInv /\ HoldInv /\ Ledger /\ Within
  BY DEF IInv
<1> USE <1>0
<1>1. Ledger' /\ used' \in [Gens -> Nat] /\ reserved' \in Nat /\ lease' \in [Gens -> SUBSET Holders]
  BY ReleaseLedger
<1>2. Within'
  BY AdmissionAssumption, Types DEF LeaseType, LimitType, Within, Release
<1>3. QED
  BY <1>1, <1>2, Types, Zenon DEF LeaseType, Release

\* Admit(), by the initial reservation, by a new one or not at all, keeps the invariant.
LEMMA AdmitInv ==
    ASSUME IInv, NEW x \in Execs, NEW t \in Threads, Admit(x, t)
    PROVE  IInv'
<1> DEFINE g == gen[x]
<1>0. TypeOK /\ PlanInv /\ GenInv /\ HoldInv /\ Ledger /\ Within
  BY DEF IInv
<1> USE <1>0
<1>1. /\ g \in Gens /\ <<x, t>> \in Holders /\ <<x, Starter>> \in Holders /\ <<x, t>> # <<x, Starter>>
      /\ status[x] # "none" /\ pc[<<x, t>>] = "new" /\ <<x, t>> \in Workers
  BY ExecFacts, Types, Zenon DEF GlobalType, WorkerType, Admit, GenInv
<1>2. <<x, t>> \notin lease[g] /\ file[<<x, t>>] = None
  BY <1>1, ExecFacts, Zenon DEF HoldInv, GenInv
<1>3. /\ UNCHANGED <<queryVars, planVars, budget, limit, globalVars>>
      /\ UNCHANGED <<next_file, drained, finished, done, lost, file, rows>>
  BY DEF Admit
<1>4. file' = [file EXCEPT ![<<x, t>>] = None]
  BY <1>1, <1>2, <1>3, Types, Zenon DEF WorkerType
<1>5. CASE AdmitInitial(x, t)
  <2>1. Ledger' /\ lease' \in [Gens -> SUBSET Holders]
    BY <1>1, <1>2, <1>5, MoveLedger, Zenon DEF AdmitInitial, HasInitial
  <2>2. Within' /\ used' \in [Gens -> Nat] /\ reserved' \in Nat /\ admitted' \in [Execs -> Nat]
    <3>1. UNCHANGED <<used, reserved, limit>> /\ admitted' = [admitted EXCEPT ![x] = @ + 1]
      BY <1>3, <1>5, Zenon DEF AdmitInitial
    <3>2. admitted' \in [Execs -> Nat]
      BY <3>1, CountUp, Types, Zenon DEF CountType
    <3>3. QED
      BY <3>1, <3>2, Types, Zenon DEF Within, LeaseType
  <2>3. /\ <<x, t>> \in lease'[g] /\ <<x, Starter>> \in lease[g]
        /\ \A k \in Gens : k # g => lease'[k] = lease[k]
        /\ \A k \in Gens, h \in Holders :
              h # <<x, t>> /\ h # <<x, Starter>> => (h \in lease'[k] <=> h \in lease[k])
    BY <1>1, <1>5, Types, Zenon DEF AdmitInitial, LeaseType, HasInitial
  <2>4. pc' = [pc EXCEPT ![<<x, t>>] = "admitted"] /\ "admitted" \in WorkerStates
    BY <1>5, Zenon DEF AdmitInitial, WorkerStates
  <2>5. QED
    BY <1>1, <1>3, <1>4, <2>1, <2>2, <2>3, <2>4, LocalStepInv, Types, Zenon
        DEF QueryType, PlanType, LimitType, LeaseType, GlobalType, CountType, WorkerType
<1>6. CASE AdmitOptional(x, t)
  <2>1. /\ Ledger' /\ Within' /\ used' \in [Gens -> Nat] /\ reserved' \in Nat
        /\ lease' \in [Gens -> SUBSET Holders] /\ <<x, t>> \in lease'[g]
        /\ \A k \in Gens, j \in Holders : j # <<x, t>> => (j \in lease'[k] <=> j \in lease[k])
        /\ \A k \in Gens : k # g => lease'[k] = lease[k]
    BY <1>1, <1>2, <1>3, <1>6, AcquireEffect, Zenon DEF AdmitOptional
  <2>2. admitted' \in [Execs -> Nat]
    BY <1>6, CountUp, Types, Zenon DEF AdmitOptional, CountType
  <2>3. pc' = [pc EXCEPT ![<<x, t>>] = "admitted"] /\ "admitted" \in WorkerStates
    BY <1>6, Zenon DEF AdmitOptional, WorkerStates
  <2>4. QED
    BY <1>1, <1>3, <1>4, <2>1, <2>2, <2>3, LocalStepInv, Types, Zenon
        DEF QueryType, PlanType, LimitType, LeaseType, GlobalType, CountType, WorkerType
<1>7. CASE Deny(x, t)
  <2>1. UNCHANGED <<admitted, lease, used, reserved>>
    BY <1>7, Zenon DEF Deny
  <2>2. Ledger' /\ Within'
    BY <1>3, <2>1, SameLedger, Zenon DEF Within
  <2>3. pc' = [pc EXCEPT ![<<x, t>>] = "denied"] /\ "denied" \in WorkerStates /\ "denied" # "admitted"
    BY <1>7, Zenon DEF Deny, WorkerStates
  <2>4. QED
    BY <1>1, <1>2, <1>3, <1>4, <2>1, <2>2, <2>3, LocalStepInv, Types, Zenon
        DEF QueryType, PlanType, LimitType, LeaseType, GlobalType, CountType, WorkerType
<1>8. QED
  BY <1>5, <1>6, <1>7, Zenon DEF Admit

\* Claiming, draining and returning a batch keep every reservation where it is.
LEMMA ScanStepInv ==
    ASSUME IInv, NEW x \in Execs, NEW t \in Threads,
           ClaimFile(x, t) \/ DrainFile(x, t) \/ ReturnBatch(x, t)
    PROVE  IInv'
<1>0. TypeOK /\ PlanInv /\ GenInv /\ HoldInv /\ Ledger /\ Within
  BY DEF IInv
<1> USE <1>0
<1>1. /\ gen[x] \in Gens /\ <<x, t>> \in Holders /\ <<x, t>> \in Workers
      /\ status[x] # "none" /\ pc[<<x, t>>] = "admitted"
  BY ExecFacts, Types, Zenon DEF ClaimFile, DrainFile, ReturnBatch, Scanning, GenInv, GlobalType
<1>2. <<x, t>> \in lease[gen[x]]
  BY <1>1, Zenon DEF HoldInv
<1>3. UNCHANGED <<queryVars, planVars, budgetVars, globalVars, admitted, lost, pc>>
  BY Zenon DEF ClaimFile, DrainFile, ReturnBatch
<1>4. Ledger' /\ Within'
  BY <1>3, SameLedger, Zenon DEF budgetVars, Within
<1>5. pc' = [pc EXCEPT ![<<x, t>>] = "admitted"] /\ "admitted" \in WorkerStates
  BY <1>1, <1>3, Types, Zenon DEF CountType, WorkerType, WorkerStates
<1>6. \E f \in Nat \cup {None} : file' = [file EXCEPT ![<<x, t>>] = f]
  <2>1. CASE ClaimFile(x, t)
    BY <2>1, Types, Zenon DEF ClaimFile, CountType
  <2>2. CASE DrainFile(x, t)
    BY <2>2, Zenon DEF DrainFile
  <2>3. CASE ReturnBatch(x, t)
    BY <1>1, <2>3, Types, ZenonT(40) DEF ReturnBatch, WorkerType
  <2>4. QED
    BY <2>1, <2>2, <2>3, Zenon
<1>7. /\ next_file' \in [Execs -> Nat] /\ drained' \in [Execs -> Nat]
      /\ finished' \in [Execs -> BOOLEAN] /\ done' \in [Execs -> SUBSET Nat]
      /\ rows' \in [Workers -> BOOLEAN]
  <2>1. CASE ClaimFile(x, t)
    BY <2>1, Types DEF ClaimFile, CountType, WorkerType
  <2>2. CASE DrainFile(x, t)
    <3>1. file[<<x, t>>] \in Nat
      BY <1>1, <2>2, Types, Zenon DEF DrainFile, WorkerType
    <3>2. done' \in [Execs -> SUBSET Nat]
      BY <2>2, <3>1, Types, Zenon DEF DrainFile, CountType
    <3>3. PICK some \in BOOLEAN : rows' = [rows EXCEPT ![<<x, t>>] = some]
      BY <2>2, Zenon DEF DrainFile
    <3>4. rows' \in [Workers -> BOOLEAN]
      BY <3>3, Types, Zenon DEF WorkerType
    <3>5. next_file' = next_file /\ drained' \in [Execs -> Nat]
      BY <2>2, CountUp, Types, Zenon DEF DrainFile, CountType
    <3>6. finished' \in [Execs -> BOOLEAN]
      BY <2>2, Types, Zenon DEF DrainFile, CountType
    <3>7. QED
      BY <3>2, <3>4, <3>5, <3>6, Types, Zenon DEF CountType
  <2>3. CASE ReturnBatch(x, t)
    <3>1. rows' \in [Workers -> BOOLEAN]
      BY <2>3, Types, Zenon DEF WorkerType, ReturnBatch
    <3>2. next_file' \in [Execs -> Nat] /\ UNCHANGED <<drained, finished, done>>
      BY <2>3, CountUp, Types, Zenon DEF ReturnBatch, CountType
    <3>3. QED
      BY <3>1, <3>2, Types, Zenon DEF CountType
  <2>4. QED
    BY <2>1, <2>2, <2>3, Zenon
<1>8. QED
  BY <1>1, <1>2, <1>3, <1>4, <1>5, <1>6, <1>7, LocalStepInv, Types, Zenon
      DEF QueryType, PlanType, LimitType, LeaseType, GlobalType, CountType, WorkerType, budgetVars

\* A worker that frees its buffers and then its reservation keeps the invariant.
LEMMA ReleaseWorkerInv ==
    ASSUME IInv, NEW x \in Execs, NEW t \in Threads, ReleaseWorker(x, t) \/ DestroyWorker(x, t)
    PROVE  IInv'
<1>0. TypeOK /\ PlanInv /\ GenInv /\ HoldInv /\ Ledger /\ Within
  BY DEF IInv
<1> USE <1>0
<1>1. /\ gen[x] \in Gens /\ <<x, t>> \in Holders /\ <<x, t>> \in Workers
      /\ status[x] # "none"
  BY ExecFacts, Types, Zenon DEF ReleaseWorker, DestroyWorker, Scanning, GenInv, GlobalType
<1>2. /\ UNCHANGED <<queryVars, planVars, budget, limit, globalVars>>
      /\ UNCHANGED <<admitted, drained, finished, done, rows>>
      /\ next_file' \in [Execs -> Nat] /\ lost' \in [Execs -> SUBSET Nat]
  <2>1. CASE ReleaseWorker(x, t)
    BY <2>1, CountUp, Types, Zenon DEF ReleaseWorker, CountType
  <2>2. CASE DestroyWorker(x, t)
    <3>1. {file[<<x, t>>]} \ {None} \subseteq Nat
      BY <1>1, Types, Zenon DEF WorkerType
    <3>2. lost' \in [Execs -> SUBSET Nat]
      BY <2>2, <3>1, Types, Zenon DEF DestroyWorker, CountType
    <3>3. QED
      BY <2>2, <3>2, Types, Zenon DEF DestroyWorker, CountType
  <2>3. QED
    BY <2>1, <2>2, Zenon
<1>3. file' = [file EXCEPT ![<<x, t>>] = None]
  BY <1>1, Types, Zenon DEF ReleaseWorker, DestroyWorker, WorkerType
<1>4. PICK c \in {"released", "gone"} : pc' = [pc EXCEPT ![<<x, t>>] = c]
  BY Zenon DEF ReleaseWorker, DestroyWorker
<1>5. c \in WorkerStates /\ c # "admitted"
  BY DEF WorkerStates
<1>6. CASE pc[<<x, t>>] = "admitted"
  <2>1. Release(gen[x], <<x, t>>)
    BY <1>6, Zenon DEF ReleaseWorker, DestroyWorker
  <2>2. <<x, t>> \in lease[gen[x]]
    BY <1>6, Zenon DEF HoldInv
  <2>3. /\ Ledger' /\ Within' /\ used' \in [Gens -> Nat] /\ reserved' \in Nat
        /\ lease' \in [Gens -> SUBSET Holders] /\ <<x, t>> \notin lease'[gen[x]]
        /\ \A k \in Gens, j \in Holders : j # <<x, t>> => (j \in lease'[k] <=> j \in lease[k])
        /\ \A k \in Gens : k # gen[x] => lease'[k] = lease[k]
    BY <1>1, <1>2, <2>1, <2>2, ReleaseEffect, Zenon
  <2>4. <<x, Starter>> \in Holders /\ <<x, Starter>> # <<x, t>>
    BY ExecFacts, Zenon
  <2>5. QED
    BY <1>1, <1>2, <1>3, <1>4, <1>5, <2>3, <2>4, LocalStepInv, Types, Zenon
        DEF QueryType, PlanType, LimitType, LeaseType, GlobalType, CountType, WorkerType
<1>7. CASE pc[<<x, t>>] # "admitted"
  <2>1. UNCHANGED <<used, reserved, lease>>
    BY <1>7, Zenon DEF ReleaseWorker, DestroyWorker, Scanning
  <2>2. <<x, t>> \notin lease[gen[x]]
    BY <1>1, <1>7, ExecFacts DEF HoldInv
  <2>3. Ledger' /\ Within'
    BY <1>2, <2>1, SameLedger, Zenon DEF Within
  <2>4. QED
    BY <1>1, <1>2, <1>3, <1>4, <1>5, <2>1, <2>2, <2>3, LocalStepInv, Types, Zenon
        DEF QueryType, PlanType, LimitType, LeaseType, GlobalType, CountType, WorkerType
<1>8. QED
  BY <1>6, <1>7, Zenon

\* Destroying a scan's global state with whatever it still holds keeps the invariant.
LEMMA DestroyScanInv ==
    ASSUME IInv, NEW x \in Execs, DestroyScan(x)
    PROVE  IInv'
<1>0. TypeOK /\ PlanInv /\ GenInv /\ HoldInv /\ Ledger /\ Within
  BY DEF IInv
<1> USE <1>0 DEF queryVars, planVars, globalVars, workVars
<1>1. gen[x] \in Gens /\ gen[x] # None /\ <<x, Starter>> \in Holders
  BY ExecFacts, Types, Zenon DEF GlobalType, DestroyScan, GenInv
<1>2. UNCHANGED <<queryVars, planVars, budget, limit, gen, max_workers, workVars>>
  BY Zenon DEF DestroyScan
<1>3. /\ Ledger' /\ Within' /\ used' \in [Gens -> Nat] /\ reserved' \in Nat
      /\ lease' \in [Gens -> SUBSET Holders] /\ <<x, Starter>> \notin lease'[gen[x]]
      /\ \A k \in Gens, j \in Holders : j # <<x, Starter>> => (j \in lease'[k] <=> j \in lease[k])
      /\ \A k \in Gens : lease'[k] \subseteq lease[k]
  <2>1. CASE HasInitial(x)
    <3>1. Release(gen[x], <<x, Starter>>) /\ <<x, Starter>> \in lease[gen[x]]
      BY <2>1, Zenon DEF DestroyScan, HasInitial
    <3>2. \A k \in Gens : lease'[k] \subseteq lease[k]
      BY <1>1, <3>1, Types, Zenon DEF LeaseType, Release
    <3>3. QED
      BY <1>1, <1>2, <3>1, <3>2, ReleaseEffect, Zenon
  <2>2. CASE ~HasInitial(x)
    <3>1. UNCHANGED <<used, reserved, lease>> /\ <<x, Starter>> \notin lease[gen[x]]
      BY <2>2, Zenon DEF DestroyScan, HasInitial
    <3>2. QED
      BY <1>1, <1>2, <3>1, SameLedger, Types, Zenon DEF LeaseType, Within
  <2>3. QED
    BY <2>1, <2>2, Zenon
<1>4. status' = [status EXCEPT ![x] = "gone"] /\ status[x] # "none"
  BY Zenon DEF DestroyScan
<1>5. TypeOK'
  <2>1. status' \in [Execs -> Statuses]
    BY <1>4, Types, Zenon DEF GlobalType, Statuses
  <2>2. QED
    BY <1>2, <1>3, <2>1, Types, TypesAfter, Zenon
        DEF QueryType, PlanType, LimitType, LeaseType, GlobalType, CountType, WorkerType
<1>6. PlanInv'
  BY <1>2, Zenon DEF PlanInv
<1>7. GenInv'
  BY <1>2, <1>4, Types, Zenon DEF GenInv, GlobalType
<1>8. HoldInv'
  <2>1. \A g \in Gens : \A h \in lease'[g] : gen'[h[1]] = g
    BY <1>2, <1>3, Zenon DEF HoldInv
  <2>2. ASSUME NEW y \in Execs, NEW t \in Threads
        PROVE  /\ <<y, t>> # <<x, Starter>> /\ <<y, t>> \in Holders
               /\ gen[y] # None => (<<y, t>> \in lease'[gen[y]] <=> <<y, t>> \in lease[gen[y]])
    <3>1. <<y, t>> # <<x, Starter>> /\ <<y, t>> \in Holders
      BY AdmissionAssumption, ExecFacts, Zenon
    <3>2. QED
      BY <1>3, <3>1, Types, Zenon DEF GlobalType
  <2>3. \A y \in Execs : status[y] # "none" => status'[y] # "none"
    BY <1>4, Types, Zenon DEF GlobalType
  <2>4. ASSUME NEW y \in Execs, gen'[y] # None, <<y, Starter>> \in lease'[gen'[y]]
        PROVE  status'[y] = "running"
    <3>1. y # x
      BY <1>2, <1>3, <2>4, Zenon
    <3>2. <<y, Starter>> \in lease[gen[y]]
      BY <1>2, <1>3, <2>4, Types, Zenon DEF GlobalType
    <3>3. QED
      BY <1>2, <1>4, <2>4, <3>1, <3>2, Types, Zenon DEF GlobalType, HoldInv
  <2>5. QED
    BY <1>2, <2>1, <2>2, <2>3, <2>4 DEF HoldInv
<1>9. QED
  BY <1>3, <1>5, <1>6, <1>7, <1>8, Zenon DEF IInv

\* Every step keeps the inductive invariant.
LEMMA StepInv == IInv /\ [Next]_vars => IInv'
<1> SUFFICES ASSUME IInv, [Next]_vars PROVE IInv'
  OBVIOUS
<1>1. CASE UNCHANGED vars
  <2>1. Ledger'
    BY <1>1, SameLedger, Zenon DEF IInv, vars, budgetVars
  <2>2. TypeOK'
    BY <1>1, Zenon DEF IInv, vars, queryVars, planVars, budgetVars, globalVars, workVars, TypeOK
  <2>3. PlanInv' /\ Within'
    BY <1>1, Zenon DEF IInv, vars, planVars, budgetVars, PlanInv, Within
  <2>4. GenInv'
    BY <1>1, Zenon DEF IInv, vars, queryVars, budgetVars, globalVars, GenInv
  <2>5. HoldInv'
    BY <1>1, Zenon DEF IInv, vars, budgetVars, globalVars, workVars, HoldInv
  <2>6. QED
    BY <2>1, <2>2, <2>3, <2>4, <2>5, Zenon DEF IInv
<1>2. CASE QueryBegin \/ StopQuery \/ QueryEnd
  BY <1>2, QueryStepInv
<1>3. ASSUME NEW s \in Scans, Bind(s) \/ CopyPlan(s) \/ StartScan(s) PROVE IInv'
  BY <1>3, PlanStepInv, StartScanInv, Zenon
<1>4. ASSUME NEW x \in Execs, DestroyScan(x) PROVE IInv'
  BY <1>4, DestroyScanInv, Zenon
<1>5. ASSUME NEW x \in Execs, NEW t \in Threads, WorkerStep(x, t) \/ DestroyWorker(x, t) PROVE IInv'
  BY <1>5, AdmitInv, ScanStepInv, ReleaseWorkerInv, Zenon DEF WorkerStep
<1>6. QED
  BY <1>1, <1>2, <1>3, <1>4, <1>5, Zenon DEF Next, Quiet

\* The inductive invariant holds in every state: plan counts are positive where a scan is
\* bound, reservations belong to the generation their scan started with, every open file is
\* covered, and each budget's `used' is the bytes of its live reservations, within its limit.
THEOREM Invariance == Spec => []IInv
<1>1. QED
  BY InitInv, StepInv, PTL DEF Spec

\* Every variable keeps its type, for every choice of statements, files and threads.
THEOREM TypeCorrect == Spec => []TypeOK
<1>1. IInv => TypeOK
  BY DEF IInv
<1>2. QED
  BY <1>1, Invariance, PTL

\* Acquire, Release, the hand-over of `initial' and every destructor keep `used' and
\* the buffer manager's total equal to the live reservations, and within the limit.
THEOREM BudgetSafe == Spec => []BudgetExact
<1>1. IInv => BudgetExact
  BY DEF IInv, Ledger, Within, BudgetExact
<1>2. QED
  BY <1>1, Invariance, PTL

\* A worker with a file open holds a reservation of its own query's budget.
THEOREM BuffersSafe == Spec => []BuffersCovered
<1>1. IInv => BuffersCovered
  BY Zenon DEF IInv, HoldInv, BuffersCovered
<1>2. QED
  BY <1>1, Invariance, PTL

-----------------------------------------------------------------------------
(* The files a scan claims, drains and counts.                                 *)

\* What is open and drained in one execution, with what makes it and FinishedExact
\* inductive: only listed files are claimed, and `finished' is set by the last of them.
ExecFiles(x) ==
    /\ \A t, u \in Threads : file[<<x, t>>] # None /\ file[<<x, t>>] = file[<<x, u>>] => t = u
    /\ \A t \in Threads : file[<<x, t>>] # None =>
          /\ file[<<x, t>>] < next_file[x] /\ file[<<x, t>>] \notin done[x]
          /\ file[<<x, t>>] < FileCount[x[2]]
    /\ \A f \in done[x] : f < next_file[x]
    /\ drained[x] = Cardinality(done[x])
    /\ done[x] \subseteq 0..FileCount[x[2]] - 1
    /\ finished[x] <=> FileCount[x[2]] > 0 /\ drained[x] = FileCount[x[2]]
FilesInv == \A x \in Execs : ExecFiles(x)

\* The files a scan has drained are finitely many.
LEMMA DoneFinite ==
    ASSUME NEW x \in Execs, ExecFiles(x)
    PROVE  /\ IsFiniteSet(done[x]) /\ Cardinality(done[x]) \in Nat
           /\ FileCount[x[2]] \in Nat
           /\ IsFiniteSet(0..FileCount[x[2]] - 1)
           /\ Cardinality(0..FileCount[x[2]] - 1) = FileCount[x[2]]
<1>1. FileCount[x[2]] \in Nat
  BY ExecFacts, AdmissionAssumption, Zenon
<1>2. /\ IsFiniteSet(0..FileCount[x[2]] - 1)
      /\ Cardinality(0..FileCount[x[2]] - 1) = FileCount[x[2]]
  <2>1. ASSUME NEW n \in Nat PROVE IsFiniteSet(0..n - 1) /\ Cardinality(0..n - 1) = n
    <3>1. 0 \in Int /\ n - 1 \in Int
      OBVIOUS
    <3>2. IsFiniteSet(0..n - 1) /\ Cardinality(0..n - 1) = IF 0 > n - 1 THEN 0 ELSE (n - 1) - 0 + 1
      BY <3>1, FS_Interval, Zenon
    <3>3. QED
      BY <3>2
  <2>2. QED
    BY <1>1, <2>1, Zenon
<1>3. done[x] \subseteq 0..FileCount[x[2]] - 1
  BY Zenon DEF ExecFiles
<1>4. IsFiniteSet(done[x])
  BY <1>2, <1>3, FS_Subset, Zenon
<1>5. QED
  BY <1>1, <1>2, <1>4, FS_CardinalityType, Zenon

\* An execution whose files nobody touched keeps its invariant.
LEMMA SameFiles ==
    ASSUME NEW x \in Execs, ExecFiles(x),
           \A t \in Threads : file'[<<x, t>>] = file[<<x, t>>],
           next_file'[x] = next_file[x], done'[x] = done[x],
           drained'[x] = drained[x], finished'[x] = finished[x]
    PROVE  ExecFiles(x)'
  BY Zenon DEF ExecFiles

\* Drained() counts the file it closes and no other.
LEMMA DrainFiles ==
    ASSUME TypeOK, FilesInv, NEW x \in Execs, NEW t \in Threads, DrainFile(x, t)
    PROVE  FilesInv'
<1> DEFINE f == file[<<x, t>>]
<1>1. ExecFiles(x)
  BY DEF FilesInv
<1>2. f \in Nat /\ <<x, t>> \in Workers /\ drained[x] \in Nat
  BY ExecFacts, Types, Zenon DEF CountType, WorkerType, DrainFile
<1>3. f < FileCount[x[2]] /\ f \notin done[x] /\ f < next_file[x]
  <2>1. f # None
    BY Zenon DEF DrainFile
  <2>2. QED
    BY <1>1, <2>1, Zenon DEF ExecFiles
<1>4. /\ done' = [done EXCEPT ![x] = @ \cup {f}] /\ drained' = [drained EXCEPT ![x] = @ + 1]
      /\ finished' = [finished EXCEPT ![x] = @ \/ drained[x] + 1 = FileCount[x[2]]]
      /\ file' = [file EXCEPT ![<<x, t>>] = None] /\ next_file' = next_file
  BY Zenon DEF DrainFile
<1>5. /\ file \in [Workers -> Nat \cup {None}] /\ done \in [Execs -> SUBSET Nat]
      /\ drained \in [Execs -> Nat] /\ finished \in [Execs -> BOOLEAN]
  BY Types, Zenon DEF CountType, WorkerType
<1>6. ASSUME NEW y \in Execs, NEW u \in Threads
      PROVE  file'[<<y, u>>] = IF y = x /\ u = t THEN None ELSE file[<<y, u>>]
  BY <1>4, <1>5, ExecFacts, Zenon
<1>7. ASSUME NEW y \in Execs, y # x PROVE ExecFiles(y)'
  <2>1. done'[y] = done[y] /\ drained'[y] = drained[y] /\ finished'[y] = finished[y]
    BY <1>4, <1>5, <1>7, Zenon
  <2>2. next_file'[y] = next_file[y] /\ \A u \in Threads : file'[<<y, u>>] = file[<<y, u>>]
    BY <1>4, <1>6, <1>7, Zenon
  <2>3. ExecFiles(y)
    BY DEF FilesInv
  <2>4. QED
    BY <2>1, <2>2, <2>3, SameFiles, Zenon
<1>8. ExecFiles(x)'
  <2>1. done'[x] = done[x] \cup {f} /\ drained'[x] = drained[x] + 1 /\ next_file'[x] = next_file[x]
    BY <1>4, <1>5, Zenon
  <2>2. finished'[x] = (finished[x] \/ drained[x] + 1 = FileCount[x[2]])
    BY <1>4, <1>5, Zenon
  <2>3. Cardinality(done[x] \cup {f}) = Cardinality(done[x]) + 1
    BY <1>1, <1>3, DoneFinite, FS_AddElement, Zenon
  <2>4. FileCount[x[2]] \in Nat
    BY <1>1, DoneFinite, Zenon
  <2>5. done[x] \cup {f} \subseteq 0..FileCount[x[2]] - 1
    <3>1. done[x] \subseteq 0..FileCount[x[2]] - 1
      BY <1>1, Zenon DEF ExecFiles
    <3>2. f \in 0..FileCount[x[2]] - 1
      BY <1>2, <1>3, <2>4
    <3>3. QED
      BY <3>1, <3>2, Zenon
  <2>6. drained[x] = Cardinality(done[x])
    BY <1>1, Zenon DEF ExecFiles
  <2>7. Cardinality(done[x] \cup {f}) <= FileCount[x[2]]
    BY <1>1, <2>5, DoneFinite, FS_Subset
  <2>8. drained[x] + 1 <= FileCount[x[2]]
    BY <2>3, <2>6, <2>7, Zenon
  <2>9. ~finished[x]
    <3>1. drained[x] # FileCount[x[2]]
      BY <1>2, <2>4, <2>8
    <3>2. QED
      BY <1>1, <3>1, Zenon DEF ExecFiles
  <2>10. finished'[x] <=> FileCount[x[2]] > 0 /\ drained'[x] = FileCount[x[2]]
    <3>1. finished'[x] <=> drained[x] + 1 = FileCount[x[2]]
      BY <2>2, <2>9, Zenon
    <3>2. FileCount[x[2]] > 0
      BY <1>2, <2>4, <2>8
    <3>3. QED
      BY <2>1, <3>1, <3>2, Zenon
  <2>11. drained'[x] = Cardinality(done'[x])
    BY <2>1, <2>3, <2>6, Zenon
  <2>12. \A k \in done'[x] : k < next_file'[x]
    BY <1>1, <1>3, <2>1, Zenon DEF ExecFiles
  <2>13. \A u, v \in Threads : file'[<<x, u>>] # None /\ file'[<<x, u>>] = file'[<<x, v>>] => u = v
    BY <1>1, <1>6 DEF ExecFiles
  <2>14. ASSUME NEW u \in Threads, file'[<<x, u>>] # None
         PROVE  /\ file'[<<x, u>>] < next_file'[x] /\ file'[<<x, u>>] \notin done'[x]
                /\ file'[<<x, u>>] < FileCount[x[2]]
    <3>1. u # t /\ file'[<<x, u>>] = file[<<x, u>>]
      BY <1>6, <2>14, Zenon
    <3>2. file[<<x, u>>] # f /\ file[<<x, u>>] \notin done[x]
      BY <1>1, <2>14, <3>1, Zenon DEF ExecFiles
    <3>3. file[<<x, u>>] < next_file[x] /\ file[<<x, u>>] < FileCount[x[2]]
      BY <1>1, <2>14, <3>1, Zenon DEF ExecFiles
    <3>4. QED
      BY <2>1, <3>1, <3>2, <3>3, Zenon
  <2>15. QED
    BY <2>1, <2>5, <2>10, <2>11, <2>12, <2>13, <2>14, Zenon DEF ExecFiles
<1>9. QED
  BY <1>7, <1>8, Zenon DEF FilesInv

\* Claim() opens the next file and no other.
LEMMA ClaimFiles ==
    ASSUME TypeOK, FilesInv, NEW x \in Execs, NEW t \in Threads, ClaimFile(x, t)
    PROVE  FilesInv'
<1> DEFINE n == next_file[x]
<1>1. ExecFiles(x)
  BY DEF FilesInv
<1>2. /\ file \in [Workers -> Nat \cup {None}] /\ next_file \in [Execs -> Nat] /\ done \in [Execs -> SUBSET Nat]
      /\ <<x, t>> \in Workers
  BY ExecFacts, Types, Zenon DEF CountType, WorkerType
<1>3. /\ UNCHANGED <<done, drained, finished>> /\ n < FileCount[x[2]]
      /\ file' = [file EXCEPT ![<<x, t>>] = n] /\ next_file' = [next_file EXCEPT ![x] = @ + 1]
  BY DEF ClaimFile
<1>4. ASSUME NEW y \in Execs, NEW u \in Threads
      PROVE  file'[<<y, u>>] = IF y = x /\ u = t THEN n ELSE file[<<y, u>>]
  BY <1>2, <1>3, ExecFacts, Zenon
<1>5. ASSUME NEW y \in Execs, y # x PROVE ExecFiles(y)'
  <2>1. next_file'[y] = next_file[y] /\ \A u \in Threads : file'[<<y, u>>] = file[<<y, u>>]
    BY <1>2, <1>3, <1>4, <1>5, Zenon
  <2>2. ExecFiles(y)
    BY DEF FilesInv
  <2>3. QED
    BY <1>3, <2>1, <2>2, SameFiles, Zenon
<1>6. ExecFiles(x)'
  <2>1. n \in Nat /\ next_file'[x] = n + 1 /\ FileCount[x[2]] \in Nat
    BY <1>1, <1>2, <1>3, DoneFinite, Zenon
  <2>2. \A k \in done[x] : k \in Nat /\ k < n
    BY <1>1, <1>2, Zenon DEF ExecFiles
  <2>3. ASSUME NEW u \in Threads, u # t, file[<<x, u>>] # None
        PROVE  /\ file[<<x, u>>] \in Nat /\ file[<<x, u>>] < n /\ file[<<x, u>>] \notin done[x]
               /\ file[<<x, u>>] < FileCount[x[2]]
    <3>1. file[<<x, u>>] \in Nat
      BY <1>2, <2>3, ExecFacts, Zenon
    <3>2. QED
      BY <1>1, <2>3, <3>1, Zenon DEF ExecFiles
  <2>4. \A u, v \in Threads : file'[<<x, u>>] # None /\ file'[<<x, u>>] = file'[<<x, v>>] => u = v
    <3>1. SUFFICES ASSUME NEW u \in Threads, NEW v \in Threads,
                          file'[<<x, u>>] # None, file'[<<x, u>>] = file'[<<x, v>>], u # v
                   PROVE  FALSE
      OBVIOUS
    <3>2. CASE u = t
      <4>1. file'[<<x, u>>] = n /\ file'[<<x, v>>] = file[<<x, v>>]
        BY <1>4, <3>1, <3>2, Zenon
      <4>2. file[<<x, v>>] \in Nat /\ file[<<x, v>>] < n /\ file[<<x, v>>] = n
        BY <2>3, <3>1, <3>2, <4>1, Zenon
      <4>3. QED
        BY <2>1, <4>2
    <3>3. CASE v = t
      <4>1. file'[<<x, v>>] = n /\ file'[<<x, u>>] = file[<<x, u>>]
        BY <1>4, <3>1, <3>3, Zenon
      <4>2. file[<<x, u>>] \in Nat /\ file[<<x, u>>] < n /\ file[<<x, u>>] = n
        BY <2>3, <3>1, <3>3, <4>1, Zenon
      <4>3. QED
        BY <2>1, <4>2
    <3>4. CASE u # t /\ v # t
      BY <1>1, <1>4, <3>1, <3>4, Zenon DEF ExecFiles
    <3>5. QED
      BY <3>2, <3>3, <3>4, Zenon
  <2>5. ASSUME NEW u \in Threads, file'[<<x, u>>] # None
        PROVE  /\ file'[<<x, u>>] < next_file'[x] /\ file'[<<x, u>>] \notin done'[x]
               /\ file'[<<x, u>>] < FileCount[x[2]]
    <3>1. CASE u = t
      <4>1. file'[<<x, u>>] = n
        BY <1>4, <3>1, Zenon
      <4>2. n \notin done[x]
        BY <2>1, <2>2
      <4>3. QED
        BY <1>3, <2>1, <4>1, <4>2
    <3>2. CASE u # t
      <4>1. file'[<<x, u>>] = file[<<x, u>>]
        BY <1>4, <3>2, Zenon
      <4>2. QED
        BY <1>3, <2>1, <2>3, <2>5, <3>2, <4>1
    <3>3. QED
      BY <3>1, <3>2, Zenon
  <2>6. \A k \in done'[x] : k < next_file'[x]
    BY <1>3, <2>1, <2>2
  <2>7. /\ drained'[x] = Cardinality(done'[x]) /\ done'[x] \subseteq 0..FileCount[x[2]] - 1
        /\ finished'[x] <=> FileCount[x[2]] > 0 /\ drained'[x] = FileCount[x[2]]
    BY <1>1, <1>3, Zenon DEF ExecFiles
  <2>8. QED
    BY <2>4, <2>5, <2>6, <2>7, Zenon DEF ExecFiles
<1>7. QED
  BY <1>5, <1>6, Zenon DEF FilesInv

\* The other actions open no file and drain none.
LEMMA OtherFiles ==
    ASSUME TypeOK, FilesInv, UNCHANGED <<done, drained, finished>>,
           \A x \in Execs : next_file'[x] \in Nat /\ next_file'[x] >= next_file[x],
           \A x \in Execs, t \in Threads : file'[<<x, t>>] \in {None, file[<<x, t>>]}
    PROVE  FilesInv'
<1> SUFFICES ASSUME NEW x \in Execs PROVE ExecFiles(x)'
  BY DEF FilesInv
<1>1. ExecFiles(x)
  BY DEF FilesInv
<1>2. next_file[x] \in Nat /\ done[x] \subseteq Nat /\ next_file'[x] \in Nat /\ next_file'[x] >= next_file[x]
  BY Types, Zenon DEF CountType
<1>3. \A u \in Threads : file'[<<x, u>>] # None => file'[<<x, u>>] = file[<<x, u>>]
  OBVIOUS
<1>4. \A u, v \in Threads : file'[<<x, u>>] # None /\ file'[<<x, u>>] = file'[<<x, v>>] => u = v
  BY <1>1, <1>3, Zenon DEF ExecFiles
<1>5. ASSUME NEW u \in Threads, file'[<<x, u>>] # None
      PROVE  /\ file'[<<x, u>>] < next_file'[x] /\ file'[<<x, u>>] \notin done'[x]
             /\ file'[<<x, u>>] < FileCount[x[2]]
  <2>1. file'[<<x, u>>] = file[<<x, u>>] /\ file[<<x, u>>] # None
    BY <1>3, <1>5, Zenon
  <2>2. file[<<x, u>>] \in Nat
    <3>1. file \in [Workers -> Nat \cup {None}] /\ <<x, u>> \in Workers
      BY ExecFacts, Types, Zenon DEF WorkerType
    <3>2. QED
      BY <2>1, <3>1, Zenon
  <2>3. file[<<x, u>>] < next_file[x] /\ file[<<x, u>>] \notin done[x] /\ file[<<x, u>>] < FileCount[x[2]]
    BY <1>1, <2>1, Zenon DEF ExecFiles
  <2>4. QED
    BY <1>2, <2>1, <2>2, <2>3
<1>6. \A k \in done'[x] : k < next_file'[x]
  <2>1. \A k \in done[x] : k \in Nat /\ k < next_file[x]
    BY <1>1, <1>2, Zenon DEF ExecFiles
  <2>2. QED
    BY <1>2, <2>1
<1>7. /\ drained'[x] = Cardinality(done'[x]) /\ done'[x] \subseteq 0..FileCount[x[2]] - 1
      /\ finished'[x] <=> FileCount[x[2]] > 0 /\ drained'[x] = FileCount[x[2]]
  BY <1>1, Zenon DEF ExecFiles
<1>8. QED
  BY <1>4, <1>5, <1>6, <1>7, Zenon DEF ExecFiles

\* Every step keeps what is known of the files.
LEMMA FilesStep == IInv /\ FilesInv /\ [Next]_vars => FilesInv'
<1> SUFFICES ASSUME IInv, FilesInv, [Next]_vars PROVE FilesInv'
  OBVIOUS
<1>1. TypeOK
  BY DEF IInv
<1>2. ASSUME NEW x \in Execs, NEW t \in Threads, ClaimFile(x, t) PROVE FilesInv'
  BY <1>1, <1>2, ClaimFiles, Zenon
<1>3. ASSUME NEW x \in Execs, NEW t \in Threads, DrainFile(x, t) PROVE FilesInv'
  BY <1>1, <1>3, DrainFiles, Zenon
<1>4. CASE UNCHANGED <<done, drained, finished, next_file, file>>
  <2>1. \A x \in Execs : next_file'[x] \in Nat /\ next_file'[x] >= next_file[x]
    BY <1>1, <1>4, Types DEF CountType
  <2>2. QED
    BY <1>1, <1>4, <2>1, OtherFiles, Zenon
<1>5. ASSUME NEW x \in Execs, NEW t \in Threads,
             ReturnBatch(x, t) \/ ReleaseWorker(x, t) \/ DestroyWorker(x, t)
      PROVE  FilesInv'
  <2>1. UNCHANGED <<done, drained, finished>>
    BY <1>5, Zenon DEF ReturnBatch, ReleaseWorker, DestroyWorker
  <2>2. \A y \in Execs : next_file'[y] \in Nat /\ next_file'[y] >= next_file[y]
    <3>1. next_file' = next_file \/ next_file' = [next_file EXCEPT ![x] = @ + 1]
      BY <1>5, Zenon DEF ReturnBatch, ReleaseWorker, DestroyWorker
    <3>2. next_file \in [Execs -> Nat]
      BY <1>1, Types, Zenon DEF CountType
    <3>3. QED
      BY <3>1, <3>2
  <2>3. \A y \in Execs, u \in Threads : file'[<<y, u>>] \in {None, file[<<y, u>>]}
    <3>1. file' = file \/ file' = [file EXCEPT ![<<x, t>>] = None]
      BY <1>5, Zenon DEF ReturnBatch, ReleaseWorker, DestroyWorker
    <3>2. file \in [Workers -> Nat \cup {None}]
      BY <1>1, Types, Zenon DEF WorkerType
    <3>3. ASSUME NEW w \in Workers PROVE file'[w] = None \/ file'[w] = file[w]
      BY <3>1, <3>2, Zenon
    <3>4. ASSUME NEW y \in Execs, NEW u \in Threads
          PROVE  file'[<<y, u>>] = None \/ file'[<<y, u>>] = file[<<y, u>>]
      <4>1. <<y, u>> \in Workers
        BY ExecFacts, Zenon
      <4>2. QED
        BY <3>3, <4>1, Zenon
    <3>5. QED
      BY <3>4, Zenon
  <2>4. QED
    BY <1>1, <2>1, <2>2, <2>3, OtherFiles, Zenon
<1>6. ASSUME NEW x \in Execs, NEW t \in Threads, Admit(x, t)
      PROVE  UNCHANGED <<done, drained, finished, next_file, file>>
  BY <1>6, Zenon DEF Admit
<1>7. ASSUME NEW s \in Scans, Bind(s) \/ CopyPlan(s) \/ StartScan(s)
      PROVE  UNCHANGED <<done, drained, finished, next_file, file>>
  BY <1>7, Zenon DEF Bind, CopyPlan, StartScan, workVars
<1>8. ASSUME NEW x \in Execs, DestroyScan(x)
      PROVE  UNCHANGED <<done, drained, finished, next_file, file>>
  BY <1>8, Zenon DEF DestroyScan, workVars
<1>9. ASSUME QueryBegin \/ StopQuery \/ QueryEnd \/ UNCHANGED vars
      PROVE  UNCHANGED <<done, drained, finished, next_file, file>>
  BY <1>9, Zenon DEF QueryBegin, StopQuery, QueryEnd, vars, workVars
<1>10. QED
  BY <1>2, <1>3, <1>4, <1>5, <1>6, <1>7, <1>8, <1>9, Zenon DEF Next, Quiet, WorkerStep

\* No file is open or drained at first.
LEMMA FilesInit == Init => FilesInv
<1> SUFFICES ASSUME Init PROVE FilesInv
  OBVIOUS
<1>1. \A x \in Execs : FileCount[x[2]] \in Nat
  BY ExecFacts, AdmissionAssumption, Zenon
<1>2. SUFFICES ASSUME NEW x \in Execs PROVE ExecFiles(x)
  BY DEF FilesInv
<1>3. /\ done[x] = {} /\ drained[x] = 0 /\ next_file[x] = 0 /\ finished[x] = FALSE
      /\ \A t \in Threads : file[<<x, t>>] = None
  BY ExecFacts, Zenon DEF Init
<1>4. Cardinality({}) = 0
  BY FS_EmptySet
<1>5. QED
  BY <1>1, <1>3, <1>4 DEF ExecFiles

-----------------------------------------------------------------------------
(* No file is passed over.                                                     *)

\* A file of x that was claimed and where it went.
Placed(x, f) == f \in done[x] \/ f \in lost[x] \/ \E t \in Threads : file[<<x, t>>] = f
\* The files of x below next_file are the placed ones; a lost file is nowhere else, and
\* only unwinding loses one.
ExecClaims(x) ==
    /\ \A f \in Nat : f < next_file[x] /\ f < FileCount[x[2]] <=> Placed(x, f)
    /\ \A f \in lost[x] : f \notin done[x] /\ \A t \in Threads : file[<<x, t>>] # f
    /\ lost[x] # {} => x[1] \in stopped
ClaimsInv == \A x \in Execs : ExecClaims(x)

\* The two invariants of the executions contain the property.
LEMMA FilesInvOnce == TypeOK /\ FilesInv /\ ClaimsInv => FilesOnce
<1> SUFFICES ASSUME TypeOK, FilesInv, ClaimsInv, NEW x \in Execs
             PROVE  LET open == {t \in Threads : file[<<x, t>>] # None}
                        claimed == {f \in 0..FileCount[x[2]] - 1 : f < next_file[x]}
                    IN  /\ \A t, u \in open : file[<<x, t>>] = file[<<x, u>>] => t = u
                        /\ claimed = {file[<<x, t>>] : t \in open} \cup done[x] \cup lost[x]
                        /\ \A t \in open : file[<<x, t>>] \notin done[x] \cup lost[x]
                        /\ done[x] \cap lost[x] = {} /\ drained[x] = Cardinality(done[x])
                        /\ lost[x] # {} => x[1] \in stopped
  BY Zenon DEF FilesOnce
<1> DEFINE open == {t \in Threads : file[<<x, t>>] # None}
           claimed == {f \in 0..FileCount[x[2]] - 1 : f < next_file[x]}
           placed == {file[<<x, t>>] : t \in open} \cup done[x] \cup lost[x]
<1>1. ExecFiles(x) /\ ExecClaims(x)
  BY DEF FilesInv, ClaimsInv
<1>2. /\ FileCount[x[2]] \in Nat /\ done[x] \subseteq Nat /\ lost[x] \subseteq Nat
      /\ \A t \in Threads : file[<<x, t>>] \in Nat \cup {None}
  BY ExecFacts, AdmissionAssumption, Types, Zenon DEF CountType, WorkerType
<1>3. ASSUME NEW f PROVE f \in claimed <=> f \in Nat /\ f < next_file[x] /\ f < FileCount[x[2]]
  BY <1>2
<1>4. ASSUME NEW f PROVE f \in placed <=> f \in Nat /\ Placed(x, f)
  BY <1>2, AdmissionAssumption, Zenon DEF Placed
<1>5. claimed = placed
  BY <1>1, <1>3, <1>4, Zenon DEF ExecClaims
<1>6. /\ \A t, u \in open : file[<<x, t>>] = file[<<x, u>>] => t = u
      /\ \A t \in open : file[<<x, t>>] \notin done[x] \cup lost[x]
  BY <1>1, Zenon DEF ExecFiles, ExecClaims
<1>7. /\ done[x] \cap lost[x] = {} /\ drained[x] = Cardinality(done[x])
      /\ lost[x] # {} => x[1] \in stopped
  BY <1>1, Zenon DEF ExecFiles, ExecClaims
<1>8. QED
  BY <1>5, <1>6, <1>7, Zenon

\* A failed claim only moves next_file further past the last file.
LEMMA SameClaims ==
    ASSUME TypeOK, NEW x \in Execs, ExecClaims(x), stopped \subseteq stopped',
           \A t \in Threads : file'[<<x, t>>] = file[<<x, t>>],
           done'[x] = done[x], lost'[x] = lost[x],
           \/ next_file'[x] = next_file[x]
           \/ next_file[x] >= FileCount[x[2]] /\ next_file'[x] = next_file[x] + 1
    PROVE  ExecClaims(x)'
<1>1. next_file[x] \in Nat /\ FileCount[x[2]] \in Nat
  BY ExecFacts, AdmissionAssumption, Types, Zenon DEF CountType
<1>2. \A f \in Nat : f < next_file'[x] /\ f < FileCount[x[2]] <=> f < next_file[x] /\ f < FileCount[x[2]]
  BY <1>1
<1>3. \A f : Placed(x, f)' <=> Placed(x, f)
  BY Zenon DEF Placed
<1>4. QED
  BY <1>2, <1>3, Zenon DEF ExecClaims

\* Claim() places the file it gives out.
LEMMA ClaimClaims ==
    ASSUME TypeOK, FilesInv, ClaimsInv, NEW x \in Execs, NEW t \in Threads, ClaimFile(x, t)
    PROVE  ClaimsInv'
<1> DEFINE n == next_file[x]
<1>1. ExecFiles(x) /\ ExecClaims(x) /\ \A y \in Execs : ExecClaims(y)
  BY DEF FilesInv, ClaimsInv
<1>2. /\ file \in [Workers -> Nat \cup {None}] /\ next_file \in [Execs -> Nat] /\ <<x, t>> \in Workers
      /\ lost[x] \subseteq Nat
  BY ExecFacts, Types, ZenonT(40) DEF CountType, WorkerType
<1>3. /\ UNCHANGED <<done, lost, stopped>> /\ n < FileCount[x[2]] /\ file[<<x, t>>] = None
      /\ file' = [file EXCEPT ![<<x, t>>] = n] /\ next_file' = [next_file EXCEPT ![x] = @ + 1]
  BY DEF ClaimFile, queryVars
<1>4. ASSUME NEW y \in Execs, NEW u \in Threads
      PROVE  file'[<<y, u>>] = IF y = x /\ u = t THEN n ELSE file[<<y, u>>]
  BY <1>2, <1>3, ExecFacts, Zenon
<1>5. ASSUME NEW y \in Execs, y # x PROVE ExecClaims(y)'
  <2>1. next_file'[y] = next_file[y] /\ \A u \in Threads : file'[<<y, u>>] = file[<<y, u>>]
    BY <1>2, <1>3, <1>4, <1>5, Zenon
  <2>2. QED
    BY <1>1, <1>3, <2>1, SameClaims, Zenon
<1>6. ExecClaims(x)'
  <2>1. n \in Nat /\ next_file'[x] = n + 1 /\ FileCount[x[2]] \in Nat
    BY <1>2, <1>3, ExecFacts, AdmissionAssumption, Zenon
  <2>2. ASSUME NEW f \in Nat PROVE Placed(x, f)' <=> Placed(x, f) \/ f = n
    <3>1. f # None
      BY AdmissionAssumption
    <3>2. (\E u \in Threads : file'[<<x, u>>] = f) <=> (\E u \in Threads : file[<<x, u>>] = f) \/ f = n
      BY <1>3, <1>4, <3>1, Zenon
    <3>3. QED
      BY <1>3, <3>2, Zenon DEF Placed
  <2>3. ASSUME NEW f \in Nat
        PROVE  f < next_file'[x] /\ f < FileCount[x[2]] <=> (f < n /\ f < FileCount[x[2]]) \/ f = n
    <3>1. ASSUME NEW c \in Nat, n < c PROVE f < n + 1 /\ f < c <=> (f < n /\ f < c) \/ f = n
      BY <2>1, <3>1
    <3>2. QED
      BY <1>3, <2>1, <3>1, Zenon
  <2>4. \A f \in Nat : f < next_file'[x] /\ f < FileCount[x[2]] <=> Placed(x, f)'
    BY <1>1, <2>2, <2>3, Zenon DEF ExecClaims
  <2>5. ~(n < n)
    BY <2>1
  <2>6. n \notin lost[x]
    BY <1>1, <2>1, <2>5, Zenon DEF ExecClaims, Placed
  <2>7. \A f \in lost'[x] : f \notin done'[x] /\ \A u \in Threads : file'[<<x, u>>] # f
    <3>1. lost'[x] = lost[x] /\ done'[x] = done[x]
      BY <1>3, Zenon
    <3>2. \A u \in Threads : file'[<<x, u>>] = n \/ file'[<<x, u>>] = file[<<x, u>>]
      BY <1>4, Zenon
    <3>3. \A f \in lost[x] : f # n /\ f \notin done[x] /\ \A u \in Threads : file[<<x, u>>] # f
      BY <1>1, <2>6, Zenon DEF ExecClaims
    <3>4. QED
      BY <3>1, <3>2, <3>3, Zenon
  <2>8. lost'[x] # {} => x[1] \in stopped'
    BY <1>1, <1>3, Zenon DEF ExecClaims
  <2>9. QED
    BY <2>4, <2>7, <2>8, Zenon DEF ExecClaims
<1>7. QED
  BY <1>5, <1>6, Zenon DEF ClaimsInv

\* Draining a file, or destroying the worker that has it open, only moves it.
LEMMA CloseClaims ==
    ASSUME TypeOK, FilesInv, ClaimsInv, NEW x \in Execs, NEW t \in Threads,
           DrainFile(x, t) \/ DestroyWorker(x, t)
    PROVE  ClaimsInv'
<1> DEFINE k == {file[<<x, t>>]} \ {None}
<1>1. ExecFiles(x) /\ ExecClaims(x) /\ \A y \in Execs : ExecClaims(y)
  BY DEF FilesInv, ClaimsInv
<1>2. /\ file \in [Workers -> Nat \cup {None}] /\ <<x, t>> \in Workers
      /\ done \in [Execs -> SUBSET Nat] /\ lost \in [Execs -> SUBSET Nat]
  BY ExecFacts, Types, Zenon DEF CountType, WorkerType
<1>3. UNCHANGED <<next_file, stopped>> /\ file' = [file EXCEPT ![<<x, t>>] = None]
  BY Zenon DEF DrainFile, DestroyWorker, queryVars
<1>4. \/ done' = [done EXCEPT ![x] = @ \cup k] /\ lost' = lost
      \/ done' = done /\ lost' = [lost EXCEPT ![x] = @ \cup k] /\ x[1] \in stopped
  <2>1. CASE DrainFile(x, t)
    <3>1. k = {file[<<x, t>>]}
      BY <2>1, Zenon DEF DrainFile
    <3>2. QED
      BY <2>1, <3>1, Zenon DEF DrainFile
  <2>2. CASE DestroyWorker(x, t)
    BY <2>2, Zenon DEF DestroyWorker
  <2>3. QED
    BY <2>1, <2>2, Zenon
<1>5. ASSUME NEW y \in Execs, NEW u \in Threads
      PROVE  file'[<<y, u>>] = IF y = x /\ u = t THEN None ELSE file[<<y, u>>]
  BY <1>2, <1>3, ExecFacts, Zenon
<1>6. ASSUME NEW y \in Execs, y # x PROVE ExecClaims(y)'
  <2>1. /\ next_file'[y] = next_file[y] /\ done'[y] = done[y] /\ lost'[y] = lost[y]
        /\ \A u \in Threads : file'[<<y, u>>] = file[<<y, u>>]
    BY <1>2, <1>3, <1>4, <1>5, <1>6, Zenon
  <2>2. QED
    BY <1>1, <1>3, <2>1, SameClaims, Zenon
<1>7. ExecClaims(x)'
  <2>1. \/ done'[x] = done[x] \cup k /\ lost'[x] = lost[x]
        \/ done'[x] = done[x] /\ lost'[x] = lost[x] \cup k /\ x[1] \in stopped
    BY <1>2, <1>4, Zenon
  <2>2. \A f \in k : f \notin done[x] /\ f \notin lost[x] /\ \A u \in Threads : u # t => file[<<x, u>>] # f
    BY <1>1, Zenon DEF ExecFiles, ExecClaims
  <2>3. ASSUME NEW f \in Nat PROVE Placed(x, f)' <=> Placed(x, f)
    <3>1. f # None
      BY AdmissionAssumption
    <3>2. (\E u \in Threads : file[<<x, u>>] = f) <=> (\E u \in Threads : file'[<<x, u>>] = f) \/ f \in k
      BY <1>5, <3>1, Zenon
    <3>3. f \in done'[x] \cup lost'[x] <=> f \in done[x] \cup lost[x] \cup k
      BY <2>1, Zenon
    <3>4. QED
      BY <3>2, <3>3, Zenon DEF Placed
  <2>4. \A f \in Nat : f < next_file'[x] /\ f < FileCount[x[2]] <=> Placed(x, f)'
    BY <1>1, <1>3, <2>3, Zenon DEF ExecClaims
  <2>5. \A f \in lost[x] : f \notin k /\ f \notin done[x] /\ \A u \in Threads : file[<<x, u>>] # f
    BY <1>1, <2>2, Zenon DEF ExecClaims
  <2>6. \A f \in lost[x] \cup k : f # None
    BY <1>2, AdmissionAssumption, Zenon
  <2>7. \A f \in lost'[x] : f \notin done'[x] /\ \A u \in Threads : file'[<<x, u>>] # f
    BY <1>5, <2>1, <2>2, <2>5, <2>6, ZenonT(40)
  <2>8. lost'[x] # {} => x[1] \in stopped'
    BY <1>1, <1>3, <2>1, Zenon DEF ExecClaims
  <2>9. QED
    BY <2>4, <2>7, <2>8, Zenon DEF ExecClaims
<1>8. QED
  BY <1>6, <1>7, Zenon DEF ClaimsInv

\* Every step keeps what is known of the claimed files.
LEMMA ClaimsStep == IInv /\ FilesInv /\ ClaimsInv /\ [Next]_vars => ClaimsInv'
<1> SUFFICES ASSUME IInv, FilesInv, ClaimsInv, [Next]_vars PROVE ClaimsInv'
  OBVIOUS
<1>1. TypeOK /\ \A x \in Execs : ExecClaims(x)
  BY DEF IInv, ClaimsInv
<1>2. ASSUME NEW x \in Execs, NEW t \in Threads, ClaimFile(x, t) PROVE ClaimsInv'
  BY <1>1, <1>2, ClaimClaims, Zenon
<1>3. ASSUME NEW x \in Execs, NEW t \in Threads, DrainFile(x, t) \/ DestroyWorker(x, t) PROVE ClaimsInv'
  BY <1>1, <1>3, CloseClaims, Zenon
<1>4. CASE UNCHANGED <<done, lost, next_file, file>> /\ stopped \subseteq stopped'
  BY <1>1, <1>4, SameClaims, Zenon DEF ClaimsInv
<1>5. ASSUME NEW x \in Execs, NEW t \in Threads, ReturnBatch(x, t) \/ ReleaseWorker(x, t) PROVE ClaimsInv'
  <2>1. /\ UNCHANGED <<done, lost, file, stopped>> /\ next_file[x] >= FileCount[x[2]]
        /\ next_file' = [next_file EXCEPT ![x] = @ + 1]
    BY <1>5, Zenon DEF ReturnBatch, ReleaseWorker, queryVars
  <2>2. next_file \in [Execs -> Nat]
    BY <1>1, Types, Zenon DEF CountType
  <2>3. ASSUME NEW y \in Execs
        PROVE  \/ next_file'[y] = next_file[y]
               \/ next_file[y] >= FileCount[y[2]] /\ next_file'[y] = next_file[y] + 1
    BY <2>1, <2>2, Zenon
  <2>4. QED
    BY <1>1, <2>1, <2>3, SameClaims, Zenon DEF ClaimsInv
<1>6. ASSUME NEW x \in Execs, NEW t \in Threads, Admit(x, t)
      PROVE  UNCHANGED <<done, lost, next_file, file>> /\ stopped \subseteq stopped'
  BY <1>6, Zenon DEF Admit, queryVars
<1>7. ASSUME NEW s \in Scans, Bind(s) \/ CopyPlan(s)
      PROVE  UNCHANGED <<done, lost, next_file, file>> /\ stopped \subseteq stopped'
  BY <1>7, Zenon DEF Bind, CopyPlan, workVars, queryVars
<1>8. ASSUME NEW s \in Scans, StartScan(s)
      PROVE  UNCHANGED <<done, lost, next_file, file>> /\ stopped \subseteq stopped'
  BY <1>8, Zenon DEF StartScan, workVars
<1>9. ASSUME NEW x \in Execs, DestroyScan(x)
      PROVE  UNCHANGED <<done, lost, next_file, file>> /\ stopped \subseteq stopped'
  BY <1>9, Zenon DEF DestroyScan, workVars, queryVars
<1>10. ASSUME QueryBegin \/ StopQuery \/ QueryEnd \/ UNCHANGED vars
       PROVE  UNCHANGED <<done, lost, next_file, file>> /\ stopped \subseteq stopped'
  BY <1>10, Zenon DEF QueryBegin, StopQuery, QueryEnd, vars, workVars, queryVars
<1>11. QED
  BY <1>2, <1>3, <1>4, <1>5, <1>6, <1>7, <1>8, <1>9, <1>10, Zenon DEF Next, Quiet, WorkerStep

\* Nothing is claimed at first.
LEMMA ClaimsInit == Init => ClaimsInv
<1> SUFFICES ASSUME Init, NEW x \in Execs PROVE ExecClaims(x)
  BY DEF ClaimsInv
<1>1. /\ done[x] = {} /\ lost[x] = {} /\ next_file[x] = 0
      /\ \A t \in Threads : file[<<x, t>>] = None
  BY ExecFacts, Zenon DEF Init
<1>2. \A f \in Nat : ~(f < next_file[x]) /\ f # None
  BY <1>1, AdmissionAssumption
<1>3. QED
  BY <1>1, <1>2, Zenon DEF ExecClaims, Placed

\* However the workers interleave, FileScheduler::Claim gives every file to one worker
\* and passes none over: a file below next_file is open in one worker, drained, or lost
\* with a worker that unwinding destroyed, and the drained counter counts each once.
THEOREM FilesSafe == Spec => []FilesOnce
<1>1. Spec => []ClaimsInv
  BY ClaimsInit, ClaimsStep, FilesInit, FilesStep, Invariance, PTL DEF Spec
<1>2. QED
  BY <1>1, FilesInvOnce, FilesInit, FilesStep, Invariance, TypeCorrect, PTL DEF Spec

\* Drained() finishes the progress exactly when the last file has been drained.
THEOREM FinishedSafe == Spec => []FinishedExact
<1>1. TypeOK /\ FilesInv => FinishedExact
  <2> SUFFICES ASSUME TypeOK, FilesInv, NEW x \in Execs, FileCount[x[2]] > 0
               PROVE  finished[x] <=> done[x] = 0..FileCount[x[2]] - 1
    BY DEF FinishedExact
  <2>0. ExecFiles(x)
    BY DEF FilesInv
  <2>1. drained[x] = Cardinality(done[x]) /\ done[x] \in SUBSET (0..FileCount[x[2]] - 1)
    BY <2>0, Zenon DEF ExecFiles
  <2>2. drained[x] = FileCount[x[2]] => done[x] = 0..FileCount[x[2]] - 1
    BY <2>0, <2>1, DoneFinite, FS_Subset, Zenon
  <2>3. done[x] = 0..FileCount[x[2]] - 1 => drained[x] = FileCount[x[2]]
    BY <2>0, <2>1, DoneFinite, Zenon
  <2>4. QED
    BY <2>0, <2>2, <2>3, Zenon DEF ExecFiles
<1>2. QED
  BY <1>1, FilesInit, FilesStep, Invariance, TypeCorrect, PTL DEF Spec
=============================================================================
