-------------------------- MODULE CaptureInventory --------------------------
(* capture_inventory and the readers' catalog= option, with the files they     *)
(* look at and a catalog table kept by SQL.                                    *)
(*                                                                             *)
(* Files change under both.  A stamp stands for all the identity a file system *)
(* reports (backend, tag, size, modification time); `contents' remembers what  *)
(* a file held under each stamp.  A path is bound to an object, an object has  *)
(* a present stamp: an edit in place gives the object a new stamp, a           *)
(* replacement binds the path to a new object while open handles keep theirs.  *)
(* Edits that leave every validator as it was are excluded: the documentation  *)
(* says that no metadata check can see them.                                   *)
EXTENDS CatalogFilter, Sequences, Functions, FiniteSetsExt

CONSTANTS
    Paths,        \* locators
    Kinds,        \* the kinds of locator a path may be, see below
    Captures,     \* what a file may hold: [packets, tail]
    Dispositions, \* how the decoder may end with a packet
    Inventoried,  \* expanded inputs of an inventory: sequences of paths
    ReadLists,    \* expanded inputs of a reading query
    Binds,        \* options of an inventory: [immutable, protocols, report, previous]
    Filters,      \* timestamp filters of a reading query
    Foreign,      \* rows of other versions, or damaged, a catalog may hold
    MaxStamp,     \* changes of files in a behaviour
    MaxRows,      \* rows of the catalog
    MaxRunning    \* statements running at a time

VARIABLES
    kind,         \* [Paths -> Kinds]
    cache,        \* the setting enable_http_metadata_cache
    contents,     \* stamp -> capture, every version there has been
    version,      \* object -> its present stamp
    bound,        \* path -> object, 0 when there is no such file
    catalog,      \* rows of the catalog table in storage order
    inv,          \* the running capture_inventory statement
    work,         \* occurrence -> what its worker is at
    scan          \* the running SelectCatalogFiles

files == <<contents, version, bound>>
vars == <<kind, cache, contents, version, bound, catalog, inv, work, scan>>

Packets == [time : Nat, outcome : Dispositions]
CaptureType == [packets : Seq(Packets), tail : {"whole", "cut", "bad"}]
BindType == [immutable : BOOLEAN, protocols : BOOLEAN, report : BOOLEAN, previous : BOOLEAN]

Unknown == 0      \* CaptureIdentity with nothing in it
Stamps == 1 .. Len(contents)

Missing(p) == bound[p] = 0
Remote(p) == kind[p].remote
StableRemoteLocator(p) == kind[p].stable

(* The identities reading one handle may give: none where the backend has      *)
(* none, the present one, or any earlier one through a metadata cache.         *)
ReadCaptureIdentity(p, object) ==
    IF ~kind[p].known THEN {Unknown}
    ELSE IF Remote(p) /\ cache THEN 1 .. version[object]
    ELSE {version[object]}

-----------------------------------------------------------------------------
(* Totals and rows.                                                            *)

NoCounts == [d \in {} |-> 0]
NoTotals(protocols) ==
    [present |-> TRUE, packets |-> 0, nulls |-> 0, min |-> NoTime, max |-> NoTime,
     counts |-> IF protocols THEN [d \in Dispositions |-> 0] ELSE NoCounts]
NoSummary == [NoTotals(FALSE) EXCEPT !.present = FALSE]

(* InventoryTotals::Observe.                                                   *)
Observe(sum, packet, protocols) ==
    LET t == packet.time
        timed == sum.packets > sum.nulls
    IN [present |-> TRUE,
        packets |-> sum.packets + 1,
        nulls   |-> sum.nulls + (IF t = NoTime THEN 1 ELSE 0),
        min     |-> IF t # NoTime /\ (timed => t < sum.min) THEN t ELSE sum.min,
        max     |-> IF t # NoTime /\ (timed => t > sum.max) THEN t ELSE sum.max,
        counts  |-> IF protocols THEN [sum.counts EXCEPT ![packet.outcome] = @ + 1] ELSE NoCounts]

(* A row without its informational columns.  `compatible' stands for both      *)
(* version columns, a NULL scan_error, a finite source_scan_time and           *)
(* well-formed link types; `stable' is metadata_unchanged with its NULL.       *)
Row(p, id, status, stable, protocols, sum) ==
    [path |-> p, id |-> id, status |-> status, stable |-> stable, compatible |-> TRUE,
     protocols |-> protocols, sum |-> sum]

(* ReportInventoryError clears the statistics and metadata_unchanged.          *)
ErrorRow(p, id, status, protocols) == Row(p, id, status, "false", protocols, NoSummary)

(* InventoryValidPrevious: whether a row may stand for a scan of this detail.  *)
Consistent(sum) ==
    /\ sum.present
    /\ sum.nulls <= sum.packets
    /\ (sum.min = NoTime) <=> (sum.max = NoTime)
    /\ (sum.min = NoTime) <=> (sum.nulls = sum.packets)
    /\ sum.min <= sum.max

InventoryValidPrevious(row, protocols) ==
    /\ row.compatible /\ row.status = "complete" /\ row.stable = "true"
    /\ protocols => row.protocols
    /\ Consistent(row.sum)
    /\ row.protocols => /\ DOMAIN row.sum.counts = Dispositions
                        /\ SumFunction(row.sum.counts) = row.sum.packets

(* InventoryIdentityMatches: nothing matches an unknown identity.              *)
InventoryIdentityMatches(id, row) == id # Unknown /\ id = row.id

ASSUME InventoryAssumption ==
    /\ Captures \subseteq CaptureType /\ Binds \subseteq BindType /\ Filters \subseteq TimeFilters
    /\ Inventoried \cup ReadLists \subseteq Seq(Paths)
    /\ \A row \in Foreign : ~InventoryValidPrevious(row, FALSE)
    /\ MaxStamp \in Nat \ {0} /\ MaxRows \in Nat

-----------------------------------------------------------------------------
(* LoadInventorySnapshot: the first row of each wanted file, and whether a     *)
(* later one disagrees with it.  A snapshot beyond its memory cap fails the    *)
(* statement before it looks at a file, which changes nothing here.            *)
RowsOf(p) == {n \in DOMAIN catalog : catalog[n].path = p}
FirstRow(p) == catalog[Min(RowsOf(p))]
Snapshot(list) ==
    [p \in {q \in Range(list) : RowsOf(q) # {}} |->
        [row |-> FirstRow(p), conflict |-> \E n \in RowsOf(p) : catalog[n] # FirstRow(p)]]
NoSnapshot == [p \in {} |-> 0]

-----------------------------------------------------------------------------
(* The files and the settings change on their own.                             *)

Quiet == UNCHANGED <<kind, cache, catalog, inv, work, scan>>

Edit(p, c) ==
    /\ Len(contents) < MaxStamp /\ ~Missing(p)
    /\ contents' = Append(contents, c)
    /\ version' = [version EXCEPT ![bound[p]] = Len(contents')]
    /\ bound' = bound
    /\ Quiet

Replace(p, c) ==
    /\ Len(contents) < MaxStamp
    /\ contents' = Append(contents, c)
    /\ version' = Append(version, Len(contents'))
    /\ bound' = [bound EXCEPT ![p] = Len(version')]
    /\ Quiet

Delete(p) ==
    /\ ~Missing(p)
    /\ bound' = [bound EXCEPT ![p] = 0]
    /\ UNCHANGED <<contents, version>> /\ Quiet

SetCache ==
    /\ ~inv.running /\ ~scan.running /\ \E p \in Paths : Remote(p)
    /\ cache' = ~cache
    /\ UNCHANGED <<kind, files, catalog, inv, work, scan>>

-----------------------------------------------------------------------------
(* capture_inventory.                                                          *)

NoBind == [immutable |-> FALSE, protocols |-> FALSE, report |-> FALSE, previous |-> FALSE]
NoInventory == [running |-> FALSE, list |-> <<>>, bind |-> NoBind, previous |-> NoSnapshot]
NoRow == ErrorRow("", Unknown, "error", FALSE)
Task(pc, row) ==
    [pc |-> pc, row |-> row, id |-> Unknown, object |-> 0, before |-> Unknown, after |-> Unknown,
     sum |-> NoSummary, cut |-> FALSE]

Running == (IF inv.running THEN 1 ELSE 0) + (IF scan.running THEN 1 ELSE 0)
MayStart == Running < MaxRunning
InventoryUnchanged == UNCHANGED <<kind, cache, files, catalog, scan>>
Path(i) == inv.list[i]
Active == {i \in DOMAIN work : work[i].pc \notin {"waiting", "done"}}

(* InventoryBind and InventoryGlobalState: locators are validated and the      *)
(* snapshot is taken before any file is looked at.                             *)
StartInventory(list, bind) ==
    /\ ~inv.running /\ MayStart
    /\ \A p \in Range(list) : Remote(p) => StableRemoteLocator(p)
    /\ inv' = [running |-> TRUE, list |-> list, bind |-> bind,
               previous |-> IF bind.previous THEN Snapshot(list) ELSE NoSnapshot]
    /\ work' = [i \in DOMAIN list |-> Task("waiting", NoRow)]
    /\ InventoryUnchanged

(* An exception that leaves the statement, an interrupt included.              *)
FailStatement == inv' = NoInventory /\ work' = <<>> /\ InventoryUnchanged
Interrupt == inv.running /\ FailStatement

Become(i, task) == work' = [work EXCEPT ![i] = task] /\ inv' = inv /\ InventoryUnchanged
Emit(i, row) == Become(i, Task("done", row))

(* The identity in the row so far: the reader's once there is one.             *)
RowIdentity(w) == IF w.object = 0 THEN w.id ELSE w.before

(* An exception of one capture: with on_error=report it is the capture's row.  *)
Throw(i, status) ==
    IF inv.bind.report THEN Emit(i, ErrorRow(Path(i), RowIdentity(work[i]), status, inv.bind.protocols))
                       ELSE FailStatement

(* A worker takes an occurrence (which one, and how many workers there are, is *)
(* ScanAdmission's subject).  A remote file behind a metadata cache fails the  *)
(* statement even in report mode.                                              *)
Claim(i) ==
    /\ inv.running /\ work[i].pc = "waiting"
    /\ IF Remote(Path(i)) /\ cache THEN FailStatement
                                   ELSE Become(i, [work[i] EXCEPT !.pc = "claimed"])

(* ReuseInventorySummary.                                                      *)
Reusable(i, id) ==
    LET p == Path(i) IN
    /\ p \in DOMAIN inv.previous
    /\ inv.bind.immutable /\ ~inv.previous[p].conflict
    /\ InventoryValidPrevious(inv.previous[p].row, inv.bind.protocols)
    /\ InventoryIdentityMatches(id, inv.previous[p].row)

ReusedRow(i, id) ==
    LET old == inv.previous[Path(i)].row.sum
    IN Row(Path(i), id, "complete", "true", inv.bind.protocols,
           IF inv.bind.protocols THEN old ELSE [old EXCEPT !.counts = NoCounts])

(* InventoryOne opens the file, reads its identity and reuses or goes on.      *)
Probe(i) ==
    /\ inv.running /\ work[i].pc = "claimed"
    /\ IF Missing(Path(i)) THEN Throw(i, "error")
       ELSE \E id \in ReadCaptureIdentity(Path(i), bound[Path(i)]) :
               IF Reusable(i, id) THEN Emit(i, ReusedRow(i, id))
                                  ELSE Become(i, [work[i] EXCEPT !.pc = "probed", !.id = id])

(* ScanInventory opens it again: the CaptureReader reads the identity of its   *)
(* own handle, which becomes the row's.  The probe's is kept to compare.       *)
Open(i) ==
    /\ inv.running /\ work[i].pc = "probed"
    /\ IF Missing(Path(i)) THEN Throw(i, "error")
       ELSE \E id \in ReadCaptureIdentity(Path(i), bound[Path(i)]) :
               Become(i, [work[i] EXCEPT !.pc = "reading", !.object = bound[Path(i)], !.before = id,
                                         !.sum = NoTotals(inv.bind.protocols)])

(* One record, or the end of the capture.  A capture cut before its first      *)
(* whole record is an error.                                                   *)
Read(i) ==
    /\ inv.running /\ work[i].pc = "reading"
    /\ LET w == work[i]
           now == contents[version[w.object]]
       IN IF w.sum.packets < Len(now.packets)
          THEN Become(i, [w EXCEPT !.sum = Observe(@, now.packets[w.sum.packets + 1], inv.bind.protocols)])
          ELSE IF now.tail = "bad" \/ (now.tail = "cut" /\ w.sum.packets = 0)
          THEN Throw(i, "error")
          ELSE Become(i, [w EXCEPT !.pc = "read", !.cut = now.tail = "cut"])

After(i) ==
    /\ inv.running /\ work[i].pc = "read"
    /\ \E id \in ReadCaptureIdentity(Path(i), work[i].object) :
          Become(i, [work[i] EXCEPT !.pc = "after", !.after = id])

(* Mutant: an identity that was never known counts as unchanged.               *)
MetadataAssumed(w) == "true"

MetadataUnchanged(w) == IF w.before # Unknown THEN "true" ELSE "null"

(* Mutant: the path is not looked at again.                                    *)
ChangedHandleOnly(w, current) == w.id # w.before \/ w.before # w.after

Changed(w, current) == w.id # w.before \/ w.before # w.after \/ w.after # current

Verify(i) ==
    /\ inv.running /\ work[i].pc = "after"
    /\ IF Missing(Path(i)) THEN Throw(i, "error")
       ELSE \E current \in ReadCaptureIdentity(Path(i), bound[Path(i)]) :
               LET w == work[i] IN
               IF Changed(w, current) THEN Throw(i, "changed")
               ELSE Emit(i, Row(Path(i), w.before, IF w.cut THEN "truncated" ELSE "complete",
                                MetadataUnchanged(w),
                                inv.bind.protocols, w.sum))

(* A read error of the file system.                                            *)
Fault(i) == inv.running /\ i \in Active /\ Throw(i, "error")

-----------------------------------------------------------------------------
(* The catalog is an ordinary table.  The documented recipe deletes the rows   *)
(* of the refreshed files and inserts the new ones without duplicates; a plain *)
(* INSERT leaves the old ones; other writers may have left rows of other       *)
(* versions or damaged ones.                                                   *)

Reported == inv.running /\ \A i \in DOMAIN work : work[i].pc = "done"
Rows == [i \in DOMAIN work |-> work[i].row]
Store(rows) ==
    /\ Reported /\ Len(rows) <= MaxRows
    /\ catalog' = rows
    /\ inv' = NoInventory /\ work' = <<>>
    /\ UNCHANGED <<kind, cache, files, scan>>

Refresh ==
    LET all == catalog \o Rows
        kept == {n \in DOMAIN catalog : catalog[n].path \notin Range(inv.list)}
                \cup {Len(catalog) + j : j \in {k \in DOMAIN Rows : \A h \in 1 .. k - 1 : Path(h) # Path(k)}}
    IN \E order \in [1 .. Cardinality(kept) -> kept] :
          /\ \A m, n \in DOMAIN order : m < n => order[m] < order[n]
          /\ Store([n \in DOMAIN order |-> all[order[n]]])
Insert == Store(catalog \o Rows)
Discard == Store(catalog)

InsertForeign(row) ==
    /\ Len(catalog) < MaxRows /\ MayStart
    /\ catalog' = Append(catalog, row)
    /\ UNCHANGED <<kind, cache, files, inv, work, scan>>

-----------------------------------------------------------------------------
(* SelectCatalogFiles, when a reading query starts.                            *)

Selection(running, list, filter, previous, n, selected) ==
    [running |-> running, list |-> list, filter |-> filter, previous |-> previous, n |-> n, selected |-> selected]
NoFilter == [op |-> "and", clauses |-> {}]
NoScan == Selection(FALSE, <<>>, NoFilter, NoSnapshot, 1, <<>>)
ScanOnly(to) == scan' = to /\ UNCHANGED <<kind, cache, files, catalog, inv, work>>

(* In strict mode, or without a filter the catalog knows, everything is        *)
(* selected at once.                                                           *)
StartScan(list, filter, immutable) ==
    /\ ~scan.running /\ MayStart
    /\ IF immutable /\ CatalogTimestampFilter(filter)
       THEN ScanOnly(Selection(TRUE, list, filter, Snapshot(list), 1, <<>>))
       ELSE ScanOnly(Selection(TRUE, list, filter, NoSnapshot, Len(list) + 1, [i \in DOMAIN list |-> i]))

(* Mutant: a cached identity is taken for a fresh one.                         *)
BackendTrustsCache(p) == Remote(p) => kind[p].http /\ StableRemoteLocator(p)

(* CatalogBackendRefusal, when it gives no reason.                             *)
BackendTrusted(p) == Remote(p) => kind[p].http /\ ~cache /\ StableRemoteLocator(p)

(* The part of CatalogDecision that looks at the summary alone.                *)
Considered(p) ==
    /\ p \in DOMAIN scan.previous
    /\ ~scan.previous[p].conflict
    /\ InventoryValidPrevious(scan.previous[p].row, FALSE)
    /\ BackendTrusted(p)

Excludes(p, id) ==
    /\ InventoryIdentityMatches(id, scan.previous[p].row)
    /\ CatalogTimeExcludes(scan.previous[p].row.sum, scan.filter)

Decided(selected) == ScanOnly([scan EXCEPT !.n = @ + 1, !.selected = selected])

Decide ==
    /\ scan.running /\ scan.n <= Len(scan.list)
    /\ LET p == scan.list[scan.n]
           keep == Append(scan.selected, scan.n)
       IN IF ~Considered(p) THEN Decided(keep)
          ELSE IF Missing(p) THEN ScanOnly(NoScan)
          ELSE \E id \in ReadCaptureIdentity(p, bound[p]) :
                  Decided(IF Excludes(p, id) THEN scan.selected ELSE keep)

(* The selection is complete and the readers take it, or the query is          *)
(* interrupted.                                                                *)
EndScan == scan.running /\ ScanOnly(NoScan)

-----------------------------------------------------------------------------
Init ==
    /\ kind \in [Paths -> Kinds]
    /\ cache = FALSE
    /\ \E c \in Captures : contents = <<c>>
    /\ version = <<1>>
    /\ bound = [p \in Paths |-> 1]
    /\ catalog = <<>>
    /\ inv = NoInventory /\ work = <<>> /\ scan = NoScan

Next ==
    \/ \E p \in Paths : Delete(p) \/ \E c \in Captures : Edit(p, c) \/ Replace(p, c)
    \/ SetCache \/ Interrupt \/ Refresh \/ Insert \/ Discard \/ Decide \/ EndScan
    \/ \E row \in Foreign : InsertForeign(row)
    \/ \E list \in Inventoried, bind \in Binds : StartInventory(list, bind)
    \/ \E list \in ReadLists, f \in Filters, immutable \in BOOLEAN : StartScan(list, f, immutable)
    \/ \E i \in DOMAIN work : \/ Claim(i) \/ Probe(i) \/ Open(i) \/ Read(i)
                              \/ After(i) \/ Verify(i) \/ Fault(i)

Spec == Init /\ [][Next]_vars

-----------------------------------------------------------------------------
(* Type correctness; the occurrences selected for reading are those decided so *)
(* far, in input order and without repetition.                                 *)
TypeOK ==
    /\ Len(contents) <= MaxStamp /\ Range(contents) \subseteq Captures
    /\ Range(version) \subseteq Stamps
    /\ \A p \in Paths : bound[p] \in 0 .. Len(version)
    /\ Len(catalog) <= MaxRows
    /\ DOMAIN work = DOMAIN inv.list
    /\ \A i \in DOMAIN work : work[i].object \in 0 .. Len(version)
    /\ \A k \in DOMAIN scan.selected :
          scan.selected[k] < IF k < Len(scan.selected) THEN scan.selected[k + 1] ELSE scan.n

(* What the first packets of a capture hold, said without counting one by one *)
(* as Observe does.                                                            *)
FirstPackets(ps, n, protocols) ==
    LET timed == {ps[i].time : i \in {j \in 1 .. n : ps[j].time # NoTime}}
    IN [present |-> TRUE, packets |-> n,
        nulls |-> Cardinality({i \in 1 .. n : ps[i].time = NoTime}),
        min |-> IF timed = {} THEN NoTime ELSE Min(timed),
        max |-> IF timed = {} THEN NoTime ELSE Max(timed),
        counts |-> IF protocols
                   THEN [d \in Dispositions |-> Cardinality({i \in 1 .. n : ps[i].outcome = d})]
                   ELSE NoCounts]

Summary(capture, protocols) == FirstPackets(capture.packets, Len(capture.packets), protocols)

(* A row the code would accept tells the truth about the version of the file   *)
(* its identity names.                                                         *)
RowTrue(row) ==
    InventoryValidPrevious(row, FALSE)
    => row.id \in Stamps /\ row.sum = Summary(contents[row.id], row.protocols)

(* Every summary the code would accept, in the catalog, in a snapshot or about *)
(* to be returned, is true: however the file changed while it was read, and    *)
(* through any chain of reuses.                                                *)
SummariesTrue ==
    /\ TypeOK
    /\ \A row \in Range(catalog) \cup {work[i].row : i \in DOMAIN work}
                  \cup {inv.previous[p].row : p \in DOMAIN inv.previous}
                  \cup {scan.previous[p].row : p \in DOMAIN scan.previous} : RowTrue(row)

(* A complete row whose metadata was unchanged describes the file its path     *)
(* names at the moment the row is made, scanned or reused.                     *)
ReportsCurrent ==
    [][\A i \in DOMAIN work \cap DOMAIN work' :
          LET row == work'[i].row IN
          work'[i].pc = "done" /\ work[i].pc # "done" /\ row.status = "complete" /\ row.stable = "true"
          => /\ ~Missing(Path(i))
             /\ row.sum = Summary(contents[version[bound[Path(i)]]], inv.bind.protocols)]_vars

(* A file left out of a reading query holds, when it is left out, no packet    *)
(* the query's filter keeps.                                                   *)
PruneSound ==
    [][scan.running /\ scan'.n = scan.n + 1 /\ scan'.selected = scan.selected
       => LET p == scan.list[scan.n] IN
          \A packet \in Range(contents[version[bound[p]]].packets) : ~Keeps(scan.filter, packet.time)]_vars
=============================================================================
