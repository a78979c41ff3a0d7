--------------------------- MODULE ScanAdmission ---------------------------
(***************************************************************************)
(* Memory admission and file claiming of stream, flow and inventory scans. *)
(*                                                                         *)
(* One connection runs Queries[1], Queries[2], ... in turn; each query is  *)
(* the set of table-function scans its statement contains, and a statement *)
(* that occurs twice is a prepared one executed again.  An execution       *)
(* x = <<q, s>> is one global state (Stream-, Flow-, InventoryGlobalState) *)
(* of scan s in query q; its worker threads are <<x, t>>.  A reservation   *)
(* (ScanReservation) is held by a worker, or by the execution itself as    *)
(* `initial' until the first admitted worker takes it over.                *)
(*                                                                         *)
(* Sources: src/src/include/scan_budget.hpp and the scan states of         *)
(* src/src/packetquapture_extension.cpp.  The three kinds of scan have     *)
(* copies of the code modelled here that differ in WORKER_BYTES.           *)
(***************************************************************************)
EXTENDS Integers, Sequences, FiniteSets, FiniteSetsExt

CONSTANTS
    Queries,        \* the statements, in execution order: a sequence of sets of scans
    FileCount,      \* [Scans -> Nat]: selected files of each scan
    Threads,        \* worker threads DuckDB may start for one execution
    WORKER_BYTES,   \* what one reservation takes from the budget
    Limits,         \* the values `limit' may get: min(setting, memory limit / 2)
    MaxMemory,      \* memory limit of DuckDB's buffer manager
    MayRefuse,      \* whether the buffer manager may refuse although it has room
    MaxCopies,      \* bound: plan copies made by the optimizer
    None            \* no plan count, no budget, no file

Scans == UNION {Queries[q] : q \in 1..Len(Queries)}
Execs == {x \in (1..Len(Queries)) \X Scans : x[2] \in Queries[x[1]]}
Workers == Execs \X Threads
\* Who can own a reservation: a worker, or the execution (`initial').
Starter == "initial"
Holders == Execs \X (Threads \cup {Starter})

ASSUME AdmissionAssumption ==
    /\ Queries \in Seq(SUBSET Scans)
    /\ IsFiniteSet(Scans) /\ IsFiniteSet(Threads)
    /\ \A q, r \in 1..Len(Queries) : Queries[q] = Queries[r] \/ Queries[q] \cap Queries[r] = {}
    /\ FileCount \in [Scans -> Nat]
    /\ WORKER_BYTES \in Nat \ {0}
    /\ MaxMemory \in Nat /\ Limits \subseteq Nat
    /\ \A l \in Limits : 2 * l <= MaxMemory
    /\ MayRefuse \in BOOLEAN /\ MaxCopies \in Nat
    /\ Starter \notin Threads
    /\ None \notin Nat /\ None \notin Scans

VARIABLES
    query,      \* number of the query last begun
    active,     \* whether it has not ended yet
    stopped,    \* queries that were interrupted, failed, hit a LIMIT, or ended
    current,    \* ScanPlanRegistry::current, named after the scan that created it
    scans,      \* ScanPlanCount::scans of each plan count
    sealed,     \* ScanPlanCount::sealed of each plan count
    plan,       \* the plan count in each scan's bind data
    copies,     \* plan copies made so far
    budget,     \* the ScanQueryBudget registered with the connection
    limit,      \* ScanQueryBudget::limit of each generation
    used,       \* ScanQueryBudget::used of each generation
    reserved,   \* what the buffer manager has reserved for all generations
    lease,      \* [generation -> holders of its live reservations]
    status,     \* life of each execution's global state
    gen,        \* the budget generation each execution uses
    max_workers,
    admitted,
    next_file,  \* FileScheduler::next_file
    drained,    \* the `drained' counter
    finished,   \* CaptureProgress::finished, set by Finish()
    done,       \* files of each execution that were read to the end and drained
    lost,       \* those open in a worker when it was destroyed (not in the code, for the properties)
    pc,         \* life of each worker's local state
    file,       \* the file a worker has open
    rows        \* whether the batch a worker is filling has rows

planVars == <<current, scans, sealed, plan, copies>>
budgetVars == <<budget, limit, used, reserved, lease>>
queryVars == <<query, active, stopped>>
globalVars == <<status, gen, max_workers>>
workVars == <<admitted, next_file, drained, finished, done, lost, pc, file, rows>>
vars == <<queryVars, planVars, budgetVars, globalVars, workVars>>

Gens == 1..Len(Queries)
Statuses == {"none", "running", "starved", "refused", "gone"}
WorkerStates == {"new", "denied", "admitted", "released", "gone"}

\* Counts and ceilings are naturals: no release takes `used' or the reserved memory
\* below zero (ScanQueryBudget::Release).
TypeOK ==
    /\ query \in 0..Len(Queries) /\ active \in BOOLEAN /\ stopped \subseteq Gens
    /\ current \in Scans \cup {None} /\ plan \in [Scans -> Scans \cup {None}]
    /\ scans \in [Scans -> Nat] /\ sealed \in [Scans -> BOOLEAN] /\ copies \in Nat
    /\ budget \in Gens \cup {None} /\ limit \in [Gens -> Nat] /\ used \in [Gens -> Nat]
    /\ reserved \in Nat /\ lease \in [Gens -> SUBSET Holders]
    /\ status \in [Execs -> Statuses] /\ gen \in [Execs -> Gens \cup {None}]
    /\ max_workers \in [Execs -> Nat] /\ admitted \in [Execs -> Nat]
    /\ next_file \in [Execs -> Nat] /\ drained \in [Execs -> Nat]
    /\ finished \in [Execs -> BOOLEAN] /\ done \in [Execs -> SUBSET Nat] /\ lost \in [Execs -> SUBSET Nat]
    /\ pc \in [Workers -> WorkerStates] /\ file \in [Workers -> Nat \cup {None}]
    /\ rows \in [Workers -> BOOLEAN]

Init ==
    /\ query = 0 /\ active = FALSE /\ stopped = {}
    /\ current = None /\ plan = [s \in Scans |-> None]
    /\ scans = [s \in Scans |-> 0] /\ sealed = [s \in Scans |-> FALSE] /\ copies = 0
    /\ budget = None /\ limit = [g \in Gens |-> 0] /\ used = [g \in Gens |-> 0]
    /\ reserved = 0 /\ lease = [g \in Gens |-> {}]
    /\ status = [x \in Execs |-> "none"] /\ gen = [x \in Execs |-> None]
    /\ max_workers = [x \in Execs |-> 1] /\ admitted = [x \in Execs |-> 0]
    /\ next_file = [x \in Execs |-> 0] /\ drained = [x \in Execs |-> 0]
    /\ finished = [x \in Execs |-> FALSE] /\ done = [x \in Execs |-> {}] /\ lost = [x \in Execs |-> {}]
    /\ pc = [w \in Workers |-> "new"] /\ file = [w \in Workers |-> None]
    /\ rows = [w \in Workers |-> FALSE]

-----------------------------------------------------------------------------
(* The query's life, as DuckDB drives it. *)

QueryBegin ==
    /\ ~active /\ query < Len(Queries)
    /\ query' = query + 1 /\ active' = TRUE
    /\ UNCHANGED <<stopped, planVars, budgetVars, globalVars, workVars>>

\* An error, an interrupt or a satisfied LIMIT: execution starts to unwind.
StopQuery ==
    /\ active /\ query \notin stopped
    /\ stopped' = stopped \cup {query}
    /\ UNCHANGED <<query, active, planVars, budgetVars, globalVars, workVars>>

\* Nothing of x is left to do: every worker that was started has had an empty batch.
Exhausted(x) ==
    /\ status[x] = "running"
    /\ \A t \in Threads : pc[<<x, t>>] # "admitted"
    /\ \E t \in Threads : pc[<<x, t>>] # "new"

\* Mutant of QueryEnd: the budget stays registered, so the next query shares it.
QueryEndKeepsBudget ==
    /\ active
    /\ \/ query \in stopped
       \/ \A s \in Queries[query] : Exhausted(<<query, s>>)
    /\ active' = FALSE /\ stopped' = stopped \cup {query}
    /\ current' = None
    /\ UNCHANGED <<query, scans, sealed, plan, copies, budgetVars, globalVars, workVars>>

\* ScanPlanRegistry::QueryEnd and ScanQueryBudget::QueryEnd.  Reservations may
\* still be alive: they keep the detached budget alive.  A statement whose binding
\* was not completed is discarded with its bind data.
QueryEnd ==
    /\ active
    /\ \/ query \in stopped
       \/ \A s \in Queries[query] : Exhausted(<<query, s>>)
    /\ active' = FALSE
    /\ stopped' = stopped \cup {query}
    /\ current' = None
    /\ budget' = None
    /\ plan' = IF \E s \in Queries[query] : plan[s] = None
               THEN [s \in Scans |-> IF s \in Queries[query] THEN None ELSE plan[s]]
               ELSE plan
    /\ UNCHANGED <<query, scans, sealed, copies, limit, used, reserved, lease,
                   globalVars, workVars>>

-----------------------------------------------------------------------------
(* Binding: ScanPlanRegistry::Register and PcapBindData::Copy. *)

\* The plan count Register() returns: the current one, or a new one named s.
Registered(s) == IF current = None \/ sealed[current] THEN s ELSE current

\* Binding precedes execution (scan_budget.hpp), so no scan of this query has started.
Bind(s) ==
    /\ active /\ query \notin stopped
    /\ s \in Queries[query] /\ plan[s] = None
    /\ \A r \in Queries[query] : status[<<query, r>>] = "none"
    /\ current' = Registered(s)
    /\ plan' = [plan EXCEPT ![s] = Registered(s)]
    /\ scans' = [scans EXCEPT ![Registered(s)] = IF Registered(s) = current THEN @ + 1 ELSE 1]
    /\ sealed' = [sealed EXCEPT ![Registered(s)] = FALSE]
    /\ UNCHANGED <<copies, queryVars, budgetVars, globalVars, workVars>>

\* The optimizer copies bound data; the copy counts as a scan.
CopyPlan(s) ==
    /\ active /\ plan[s] # None /\ copies < MaxCopies
    /\ copies' = copies + 1
    /\ scans' = [scans EXCEPT ![plan[s]] = @ + 1]
    /\ UNCHANGED <<current, sealed, plan, queryVars, budgetVars, globalVars, workVars>>

-----------------------------------------------------------------------------
(* The budget: ScanQueryBudget and ScanReservation. *)

Slots(l) == l \div WORKER_BYTES

\* BufferManager::ReserveMemory: refuses what exceeds the memory limit, and may
\* refuse anyway when the rest of the database uses the memory.
ManagerRefuses == reserved + WORKER_BYTES > MaxMemory \/ MayRefuse
ManagerReserves == reserved + WORKER_BYTES <= MaxMemory

\* Acquire() fits the budget of a generation with this limit and use.
Fits(l, u) == WORKER_BYTES <= l - u

\* Mutant of Release: the buffer manager is not told.
ReleaseKeepsMemory(g, h) ==
    /\ used' = [used EXCEPT ![g] = @ - WORKER_BYTES]
    /\ lease' = [lease EXCEPT ![g] = @ \ {h}]
    /\ UNCHANGED reserved

\* Acquire() for holder h succeeds; Release() by holder h.
Acquire(g, h) ==
    /\ used' = [used EXCEPT ![g] = @ + WORKER_BYTES]
    /\ reserved' = reserved + WORKER_BYTES
    /\ lease' = [lease EXCEPT ![g] = @ \cup {h}]
Release(g, h) ==
    /\ used' = [used EXCEPT ![g] = @ - WORKER_BYTES]
    /\ reserved' = reserved - WORKER_BYTES
    /\ lease' = [lease EXCEPT ![g] = @ \ {h}]

-----------------------------------------------------------------------------
(* The constructor of StreamGlobalState / FlowGlobalState. *)

\* Mutant of WorkerCeiling: the other scans of the plan are not counted.
CeilingForOneScan(l, n, files) == Min({Max({1, Slots(l)}), Max({1, files})})

\* max_workers from the slots, the sealed count of scans and the number of files.
WorkerCeiling(l, n, files) == Min({Max({1, Slots(l) \div n}), Max({1, files})})

\* GetOrCreate finds the registered budget, or creates this query's.
Generation == IF budget = None THEN query ELSE budget

StartScan(s) ==
    LET x == <<query, s>>
        p == plan[s]
        g == Generation
    IN  /\ active /\ query \notin stopped
        /\ s \in Queries[query] /\ status[x] = "none"
        /\ \A r \in Queries[query] : plan[r] # None
        /\ \E l \in Limits :
            /\ budget # None => l = limit[g]
            /\ budget' = g
            /\ limit' = [limit EXCEPT ![g] = l]
            /\ sealed' = [sealed EXCEPT ![p] = TRUE]
            /\ gen' = [gen EXCEPT ![x] = g]
            /\ max_workers' = [max_workers EXCEPT ![x] = WorkerCeiling(l, scans[p], FileCount[s])]
            /\ \/ /\ FileCount[s] = 0
                  /\ status' = [status EXCEPT ![x] = "running"]
                  /\ UNCHANGED <<used, reserved, lease, stopped>>
               \/ /\ FileCount[s] > 0 /\ Fits(l, used[g]) /\ ManagerReserves
                  /\ status' = [status EXCEPT ![x] = "running"]
                  /\ Acquire(g, <<x, Starter>>)
                  /\ UNCHANGED stopped
               \/ /\ FileCount[s] > 0 /\ ~Fits(l, used[g])
                  /\ status' = [status EXCEPT ![x] = "starved"]
                  /\ stopped' = stopped \cup {query}
                  /\ UNCHANGED <<used, reserved, lease>>
               \/ /\ FileCount[s] > 0 /\ Fits(l, used[g]) /\ ManagerRefuses
                  /\ status' = [status EXCEPT ![x] = "refused"]
                  /\ stopped' = stopped \cup {query}
                  /\ UNCHANGED <<used, reserved, lease>>
        /\ UNCHANGED <<query, active, current, scans, plan, copies, workVars>>

-----------------------------------------------------------------------------
(* Workers: AdmitStreamWorker and Admit(), which runs under the global lock. *)

HasInitial(x) == <<x, Starter>> \in lease[gen[x]]

AdmitInitial(x, t) ==
    /\ FileCount[x[2]] > 0 /\ admitted[x] < max_workers[x] /\ HasInitial(x)
    /\ admitted' = [admitted EXCEPT ![x] = @ + 1]
    /\ lease' = [lease EXCEPT ![gen[x]] = (@ \ {<<x, Starter>>}) \cup {<<x, t>>}]
    /\ pc' = [pc EXCEPT ![<<x, t>>] = "admitted"]
    /\ UNCHANGED <<used, reserved>>

AdmitOptional(x, t) ==
    /\ FileCount[x[2]] > 0 /\ admitted[x] < max_workers[x] /\ ~HasInitial(x)
    /\ Fits(limit[gen[x]], used[gen[x]]) /\ ManagerReserves
    /\ admitted' = [admitted EXCEPT ![x] = @ + 1]
    /\ Acquire(gen[x], <<x, t>>)
    /\ pc' = [pc EXCEPT ![<<x, t>>] = "admitted"]

\* Mutants of Deny: a worker scans although it got no reservation; a worker tries
\* for a reservation of its own although `initial' is there.
DenyScansAnyway(x, t) ==
    /\ FileCount[x[2]] > 0 /\ ~HasInitial(x)
    /\ ~Fits(limit[gen[x]], used[gen[x]]) \/ ManagerRefuses
    /\ pc' = [pc EXCEPT ![<<x, t>>] = "admitted"]
    /\ UNCHANGED <<admitted, lease, used, reserved>>
DenyIgnoresInitial(x, t) ==
    /\ ManagerRefuses
    /\ pc' = [pc EXCEPT ![<<x, t>>] = "denied"]
    /\ UNCHANGED <<admitted, lease, used, reserved>>

\* No slot, no room, or no file: the worker never scans.
Deny(x, t) ==
    /\ \/ FileCount[x[2]] = 0
       \/ admitted[x] >= max_workers[x]
       \/ ~HasInitial(x) /\ (~Fits(limit[gen[x]], used[gen[x]]) \/ ManagerRefuses)
    /\ pc' = [pc EXCEPT ![<<x, t>>] = "denied"]
    /\ UNCHANGED <<admitted, lease, used, reserved>>

Admit(x, t) ==
    /\ status[x] = "running" /\ pc[<<x, t>>] = "new"
    /\ AdmitInitial(x, t) \/ AdmitOptional(x, t) \/ Deny(x, t)
    /\ UNCHANGED <<queryVars, planVars, budget, limit, globalVars,
                   next_file, drained, finished, done, lost, file, rows>>

Scanning(x, t) == status[x] = "running" /\ pc[<<x, t>>] = "admitted"

\* Mutant of ClaimFile: the index is read but not advanced.
ClaimWithoutAdvance(x, t) ==
    /\ Scanning(x, t) /\ file[<<x, t>>] = None
    /\ next_file[x] < FileCount[x[2]]
    /\ file' = [file EXCEPT ![<<x, t>>] = next_file[x]]
    /\ UNCHANGED <<queryVars, planVars, budgetVars, globalVars,
                   admitted, next_file, drained, finished, done, lost, pc, rows>>

\* FileScheduler::Claim succeeds: the worker opens the file it was given.
ClaimFile(x, t) ==
    /\ Scanning(x, t) /\ file[<<x, t>>] = None
    /\ next_file[x] < FileCount[x[2]]
    /\ file' = [file EXCEPT ![<<x, t>>] = next_file[x]]
    /\ next_file' = [next_file EXCEPT ![x] = @ + 1]
    /\ UNCHANGED <<queryVars, planVars, budgetVars, globalVars,
                   admitted, drained, finished, done, lost, pc, rows>>

\* Mutant of DrainFile: the counter is compared before it is advanced.
DrainOffByOne(x, t) ==
    /\ Scanning(x, t) /\ file[<<x, t>>] # None
    /\ done' = [done EXCEPT ![x] = @ \cup {file[<<x, t>>]}]
    /\ drained' = [drained EXCEPT ![x] = @ + 1]
    /\ finished' = [finished EXCEPT ![x] = @ \/ drained[x] = FileCount[x[2]]]
    /\ file' = [file EXCEPT ![<<x, t>>] = None]
    /\ UNCHANGED <<queryVars, planVars, budgetVars, globalVars, admitted, next_file, lost, pc, rows>>

\* The file ended and every stream or session of it was handed out: Drained().
\* Some of those rows may still be in the batch the worker is filling.
DrainFile(x, t) ==
    /\ Scanning(x, t) /\ file[<<x, t>>] # None
    /\ done' = [done EXCEPT ![x] = @ \cup {file[<<x, t>>]}]
    /\ drained' = [drained EXCEPT ![x] = @ + 1]
    /\ finished' = [finished EXCEPT ![x] = @ \/ drained[x] + 1 = FileCount[x[2]]]
    /\ file' = [file EXCEPT ![<<x, t>>] = None]
    /\ \E some \in BOOLEAN : rows' = [rows EXCEPT ![<<x, t>>] = some]
    /\ UNCHANGED <<queryVars, planVars, budgetVars, globalVars, admitted, next_file, lost, pc>>

\* Claim fails with rows in the batch: it is returned, and a later call claims again.
ReturnBatch(x, t) ==
    /\ Scanning(x, t) /\ file[<<x, t>>] = None /\ rows[<<x, t>>]
    /\ next_file[x] >= FileCount[x[2]]
    /\ next_file' = [next_file EXCEPT ![x] = @ + 1]
    /\ rows' = [rows EXCEPT ![<<x, t>>] = FALSE]
    /\ UNCHANGED <<queryVars, planVars, budgetVars, globalVars,
                   admitted, drained, finished, done, lost, pc, file>>

\* Claim fails with an empty batch: ReleaseStreamWorker frees buffers, then the reservation.
ReleaseWorker(x, t) ==
    /\ Scanning(x, t) /\ file[<<x, t>>] = None /\ ~rows[<<x, t>>]
    /\ next_file[x] >= FileCount[x[2]]
    /\ next_file' = [next_file EXCEPT ![x] = @ + 1]
    /\ pc' = [pc EXCEPT ![<<x, t>>] = "released"]
    /\ Release(gen[x], <<x, t>>)
    /\ UNCHANGED <<queryVars, planVars, budget, limit, globalVars,
                   admitted, drained, finished, done, lost, file, rows>>

-----------------------------------------------------------------------------
(* Destruction, in any order once a query has ended or is unwinding. *)

\* ~StreamScanState: the reader and buffers go first, the reservation last.
DestroyWorker(x, t) ==
    /\ x[1] \in stopped /\ status[x] = "running" /\ pc[<<x, t>>] # "gone"
    /\ pc' = [pc EXCEPT ![<<x, t>>] = "gone"]
    /\ file' = [file EXCEPT ![<<x, t>>] = None]
    /\ lost' = [lost EXCEPT ![x] = @ \cup ({file[<<x, t>>]} \ {None})]
    /\ IF pc[<<x, t>>] = "admitted" THEN Release(gen[x], <<x, t>>)
       ELSE UNCHANGED <<used, reserved, lease>>
    /\ UNCHANGED <<queryVars, planVars, budget, limit, globalVars,
                   admitted, next_file, drained, finished, done, rows>>

\* Mutant of DestroyScan: an `initial' nobody took over is leaked.
DestroyScanLeaks(x) ==
    /\ x[1] \in stopped /\ status[x] \notin {"none", "gone"}
    /\ \A t \in Threads : pc[<<x, t>>] \in {"new", "gone"}
    /\ status' = [status EXCEPT ![x] = "gone"]
    /\ UNCHANGED <<queryVars, planVars, budgetVars, gen, max_workers, workVars>>

\* ~StreamGlobalState: an `initial' nobody took over is released with it.
DestroyScan(x) ==
    /\ x[1] \in stopped /\ status[x] \notin {"none", "gone"}
    /\ \A t \in Threads : pc[<<x, t>>] \in {"new", "gone"}
    /\ status' = [status EXCEPT ![x] = "gone"]
    /\ IF HasInitial(x) THEN Release(gen[x], <<x, Starter>>)
       ELSE UNCHANGED <<used, reserved, lease>>
    /\ UNCHANGED <<queryVars, planVars, budget, limit, gen, max_workers, workVars>>

\* Every query has ended and everything it made has been destroyed.
Quiet ==
    /\ query = Len(Queries) /\ ~active
    /\ \A x \in Execs : status[x] \in {"none", "gone"}
    /\ UNCHANGED vars

WorkerStep(x, t) ==
    \/ Admit(x, t) \/ ClaimFile(x, t) \/ DrainFile(x, t)
    \/ ReturnBatch(x, t) \/ ReleaseWorker(x, t)

Next ==
    \/ QueryBegin \/ StopQuery \/ QueryEnd \/ Quiet
    \/ \E s \in Scans : Bind(s) \/ CopyPlan(s) \/ StartScan(s)
    \/ \E x \in Execs : DestroyScan(x)
    \/ \E x \in Execs, t \in Threads : WorkerStep(x, t) \/ DestroyWorker(x, t)

Spec == Init /\ [][Next]_vars

\* DuckDB keeps calling the scan function of a started worker until it returns an
\* empty batch, and destroys what a stopped query leaves behind.
Fairness ==
    /\ \A x \in Execs, t \in Threads : WF_vars(WorkerStep(x, t))
    /\ \A x \in Execs, t \in Threads : WF_vars(DestroyWorker(x, t))
    /\ \A x \in Execs : WF_vars(DestroyScan(x))

FairSpec == Spec /\ Fairness

-----------------------------------------------------------------------------
(* Properties. *)

\* The reservations alive, of all generations.
Live == {p \in Gens \X Holders : p[2] \in lease[p[1]]}

\* A budget's `used' is exactly what its live reservations took, it never passes
\* the limit, and the buffer manager holds the sum for all generations: nothing is
\* leaked or released twice on any path (Acquire, Release, moving `initial',
\* errors, destruction after QueryEnd).
BudgetExact ==
    /\ \A g \in Gens : used[g] = WORKER_BYTES * Cardinality(lease[g]) /\ used[g] <= limit[g]
    /\ reserved = WORKER_BYTES * Cardinality(Live)

\* A worker has a file open, and so buffers, only while it holds a reservation of
\* the budget its execution uses (ReleaseStreamWorker, member order of StreamScanState).
BuffersCovered ==
    \A x \in Execs, t \in Threads :
        file[<<x, t>>] # None => gen[x] # None /\ <<x, t>> \in lease[gen[x]]

\* "An early pipeline cannot consume the later pipelines' worker allowances": when
\* the budget has a slot for every scan of the statement, no scan of it fails for
\* want of budget, however far the earlier ones have got.
NoStarvation ==
    \A x \in Execs : status[x] = "starved" =>
        Slots(limit[gen[x]]) < Cardinality(Queries[x[1]])

\* Every file is in exactly one place: a file below next_file is open in one worker,
\* drained, or lost with a worker destroyed while its query unwinds, and the others are
\* unclaimed.  None is read twice, and none is passed over (FileScheduler::Claim).
FilesOnce ==
    \A x \in Execs :
        LET open == {t \in Threads : file[<<x, t>>] # None}
            claimed == {f \in 0..FileCount[x[2]] - 1 : f < next_file[x]}
        IN  /\ \A t, u \in open : file[<<x, t>>] = file[<<x, u>>] => t = u
            /\ claimed = {file[<<x, t>>] : t \in open} \cup done[x] \cup lost[x]
            /\ \A t \in open : file[<<x, t>>] \notin done[x] \cup lost[x]
            /\ done[x] \cap lost[x] = {} /\ drained[x] = Cardinality(done[x])
            /\ lost[x] # {} => x[1] \in stopped

\* Progress reports completion (100%) only when every file has been drained, and
\* reports it as soon as that is so.
FinishedExact ==
    \A x \in Execs : status[x] = "running" /\ FileCount[x[2]] > 0 =>
        (finished[x] <=> done[x] = 0..FileCount[x[2]] - 1)

\* A started execution that is not stopped drains every file, with however few
\* workers it was admitted.
AllFilesDrained ==
    \A x \in Execs :
        status[x] = "running" ~> (done[x] = 0..FileCount[x[2]] - 1 \/ x[1] \in stopped)

\* After its query stops, every reservation of an execution goes back.
AllReleased ==
    \A x \in Execs :
        (x[1] \in stopped /\ status[x] # "none") ~> (status[x] = "gone" /\ ~\E h \in lease[gen[x]] : h[1] = x)
=============================================================================
