# PacketQuapture in TLA+

PacketQuapture is a DuckDB extension that reads packet captures: a capture
becomes rows of packets, TCP streams, DNS messages, TLS handshakes, flows or
inventory summaries, and rows become a capture again through `COPY`. This
directory models the parts of it that hold state and the parsers they rest on,
checks them with TLC on small instances and proves the central results with TLAPS
for every instance. All paths
below are relative to the repository; `ext.cpp` is short for
`src/packetquapture_extension.cpp`.

- [1. The system](#1-the-system)
- [2. Modules and code](#2-modules-and-code)
- [3. Runs, bounds and fairness](#3-runs-bounds-and-fairness)
- [4. Proofs](#4-proofs)
- [5. Where code and comments disagree](#5-where-code-and-comments-disagree)
- [6. Not modelled](#6-not-modelled)
- [7. Plan](#7-plan)

## 1. The system

| Part | State | Operations | Interacts with |
|---|---|---|---|
| Scan admission (`scan_budget.hpp`, global states of `ext.cpp`) | plan counts per statement, a budget per query, reservations, admission counts, the next unclaimed file, drained files | Register, Copy, Acquire, Release, Admit, Claim, Drained, QueryEnd, destructors | DuckDB's threads, buffer manager and query life cycle; every stream, flow and inventory scan |
| Capture reader (`ext.cpp` 260-1056) | window, cursor, position, interface table, published bytes | Initialize, Next and the block readers, ReadMaybe, Skip | file system, progress, all scans |
| Scan progress (`capture_progress.hpp`) | shared relaxed atomics | Initialize, CheckSize, Advance, CompleteFile, Finish, Percentage | readers |
| TCP reassembly (`tcp_reassembly.cpp`) | directions, per-interface clocks and expiry queues, four accounts, identifiers | Add, FinishNext | reader before it, DNS framing and TLS after it |
| DNS-over-TCP framing (`dns_tcp_framer.cpp`) | none (pure) | FrameTcpDns | reassembled streams |
| Packet decoder, decode stages and pushed-down filters (`packet_decoder.cpp`, `tls_record.cpp`, `ext.cpp` 690-848 and 1546-1641) | one record per thread, reused; the prefix of the packet read so far | PlanDecodeStages, PushPacketFilters, ReadPacketData, DecodePacket | reader, every packet scan |
| DNS messages (`dns_decoder.cpp`) | the work spent on a message | DecodeDns, Parser::Name, Records | packets and framed streams |
| TLS handshake parsing (`tls_handshake.cpp` 1-435, 887-1343) | the direction found, its handshakes, certificate text charged | Parse, CollectHandshakeBytes, ParseMessages, ParseCertificates, Merge | streams before it, pairing after it |
| Tunnels before TLS (`tls_handshake.cpp` 437-884) | none (pure) | ClassifyClientPrefix, ClassifyServerPrefix | handshake parsing |
| X.509 certificates (`x509_certificate.cpp`) | copies of extensions seen, the certificate being filled in | ParseX509Certificate | certificate chains |
| TLS handshake pairing (`tls_handshake.cpp` 1266-1550) | held directions, count and queue of unconfirmed finds, refuters | Add, Finish | streams, the `read_tls` worker |
| Flow aggregation (`flow_aggregator.cpp`) | sessions, clocks, expiry queues, one pending record, the section | Push, Next, Finish | reader, `read_flows` worker |
| Capture inventory and catalog pruning (`ext.cpp` 3992-4906) | a catalog table, snapshots of it, file identities before, during and after a scan | InventoryOne, ReuseInventorySummary, ScanInventory, CatalogDecision | files that change meanwhile, SQL that stores rows |
| PCAP export (`pcap_copy.cpp`, `pcap_writer.cpp`) | staging file and its ownership, writer counters | Start, Sink, Finish, Publish, destructor | file system, other statements, crashes |
| Path pruning, fingerprints, schema, macros | none | pure functions | see [section 6](#6-not-modelled) |

What is hard to test here, and which properties look at it, is listed line by
line under `hazards` in `PROJECT.json`. In short:

- threads race for one reservation, one count and one file index, and a query can
  stop by error, interrupt or `LIMIT` at any step;
- the reservations of one query outlive it into the next one of the connection;
- both packet tables leave entries where they are in their expiry queues when a
  deadline moves, and bring them up to date only at the front of the queue;
- packets arrive out of timestamp order, late, twice, truncated, across a
  sequence-number wrap, or belong to a later connection on the same tuple;
- a reader switches between window, cursor and seek reads while a capture is cut
  or grows;
- an export may fail or the machine crash between any two system calls, and two
  statements may share a destination;
- a catalog row may be older than the file it describes, and the identity it is
  compared with may itself come from a cache;
- a packet is decoded in stages into a record that still holds the packet before;
- handshake messages, records, segments and captures all end in different places,
  and what a header announced and is missing must show in the status;
- a DNS name, a tunnel's words and a certificate say what their sender likes, in
  any order, repeated, cut and nested, and are read within fixed limits.

## 2. Modules and code

Each variable and definition keeps the name it has in the code where TLA+ allows
it; `map` in `PROJECT.json` gives the lines. Definitions whose comment begins with
"Mutant of" are plausible bugs; the specifications do not use them, and each
property has one that breaks it.

**ScanAdmission** models one connection that runs statements in turn. `StreamGlobalState`,
`FlowGlobalState` and `InventoryGlobalState` are three copies of the same code and
are modelled once. `plan`, `scans`, `sealed` are the plan counts (`Bind`,
`CopyPlan`); `budget`, `limit`, `used` and `lease` are `ScanQueryBudget` and the
live `ScanReservation`s, per *generation*: a budget belongs to the query that
created it, also after `QueryEnd` dropped it from the connection. `StartScan` is
the constructor, `Admit` is `Admit()` under its lock (it takes over `initial`,
reserves anew, or denies), `ClaimFile`, `DrainFile`, `ReturnBatch` and
`ReleaseWorker` are what a worker's scan call does. `StopQuery` stands for an
error, an interrupt or a satisfied `LIMIT`; then only `DestroyWorker` and
`DestroyScan` are left. The buffer manager may refuse although it has room.

**StreamAssembly** is the reconstruction of one direction as operators: relative
sequence numbers, the base and extent of a stream, which segment supplies each
offset, chunks, gaps and the status. **DnsTcpFramer** frames messages from its
result. **StreamCapture** is their reference: a sender writes a known byte
sequence, any selection of its segments is captured in any order, overlapping,
truncated or rewritten, and the operators must recover what was sent or say why
they cannot.

**TcpReassembly** is the state machine around it. One call of `Add()` is several
steps: `Packet` (the clock), one step for each turn of `Expire`'s loop
(`RequeueStale`, `ExpireIdle`), the removals for a reused tuple, `Ignore`, `Refuse`
or `Apply`, and the removals a RST causes. `FinishNext` drains the table at the
end of the file.

**TlsAssembler** holds the tables of `TlsHandshakeAssembler` in one record, with
`Add` and `Finish` as operators. **TlsScan** composes it with the `read_tls` worker,
which flushes the assembler when the first stream of another file arrives and
files rows under the file they came from. What `Parse` finds in the bytes is the
stream's `kind`: a hello, a hello found by searching (which needs the other side's
confirmation), a malformed hello, plainly no TLS, or nothing that tells.

**FlowSession** says who opened a session, what its packets say of the handshake
and when a SYN starts another session; **FlowHandshake** compares that with the
packets themselves. **FlowAggregator** is the table: `Push` hands over a record,
`Next()` is `Enter` followed by one of `ExpireIdle`, `Ineligible`, `Reuse`, `Evict`
and `Account`, or is `Boundary` (another section) or `Final`. Packet counters are
sets of packet numbers, so that counting twice and not at all are both visible.

**CaptureReader** composes readers with `CaptureProgress`. Offsets count 32-bit
words and the content of a word is its offset, so a read from the wrong place
shows. The blocks of a file are operations (read, validate, take packet data,
skip) that the reader works through over one of four kinds of access; files may
be cut anywhere, and may grow. The properties compare with the layout itself: `Packets`
are the whole blocks before the first faulty one, `Expected` is what each should yield.

**PcapCopy** has one step for each system call of an export, which may be short
or fail, a crash at any point, prepared re-execution under the same staging name,
and statements side by side. `Publish` syncs the file and not its directory, and
`docs/PCAP_EXPORT.md:104` claims no more of the platform than that, so a crash leaves
each name at any file it referred to since the crash before (`past`, kept by `Relink`),
and of a file anything between what was synced and what was written: a rename that was
reported done may be undone. **PcapExport** is its abstract specification: the
destination holds what it held before, or everything one successful statement
wrote, and after a crash one of those it held since the last crash. `Published` is the
refinement.

**CaptureInventory** composes files that are edited, replaced and deleted, a
catalog kept by SQL, inventories (`Probe`, `Open`, `Read`, `After`, `Verify` are the
points at which they look at the file) and reading queries that leave files out
on the catalog's word (`Decide`). **CatalogFilter** is the time filter as a
predicate on packets, and what its statistics check concludes from a summary.
A *stamp* stands for all the identity a file system reports. Edits that
change no validator are excluded: the documentation says no metadata
check can see them.

**PacketDecoder** is `DecodePacket` as operators: a packet is what its headers say
and how much of it was captured, and each header asks for a longer prefix.
**StagedDecode** is the scan around it: a query's columns and filters become stages
(`Planned`, `FilterStages`), and `Begin`, `Decode`, `Reassemble`, `ReadDns`, `ReadTls`
and `ReadData` are the stages of `ReadPacketData` for one packet after another in the
same record. The variable `whole` is not in the code: it is the packet decoded in
full, which the properties compare with.

**TlsRecords** is `Parse` of one direction: `Unreadable`, `FindHello` and `Collect` up to
the handshake bytes, then `Hello`, `Certificate` and `OtherMessage` for one message
each, `Settle` for the status and `Merge` for the rows. A stream is given by what its
sender sent (messages, and the records they were cut into), so that the properties
can say what should have been found. TlsAssembler pairs such directions.
**TunnelPrefix** classifies what came before the first hello, each side alone, as
operators; **TunnelDialogue** is their reference, a client and a server that talk one
of the documented exchanges to its upgrade, and perhaps stray from it.

**DnsDecoder** is `DecodeDns`: `Pointer`, `Label` and `BadName` are one turn each of
`Name`'s loop, over real octets; `Question`, `Owner` and `RData` are what follows the
name's root. The properties follow the name on paper (`PathOf`).

**X509Certificate** is `ParseX509Certificate`: `Parse` reads the fields in order,
`DecodeExtension` one extension, `EndExtensions` returns. DER is a tree of elements,
any of which may be cut off, and the reference (`LegalFields`, `LegalValue`, `Says`)
states the grammar of RFC 5280 as far as the code reads it, not a parser. **Calendar** is
its arithmetic of dates, `DaysFromCivil`.

Modules named `...Proofs`, and **FiniteSums**, hold the theorems ([section 4](#4-proofs)).

## 3. Runs, bounds and fairness

Each run is `tlc -workers 2 -config <cfg> <module>`; sizes are distinct states. Where a
module's `TypeOK` is not listed by itself it is a conjunct of one of the invariants.

| Run | Module, config | States | What it shows |
|---|---|---|---|
| admission_share | MCScanAdmission, ScanAdmission_share | 1,027,062 | Two scans of two files share one budget. Accounts are exact, nobody buffers without a reservation, an early scan never takes a later scan's slot, each claimed file is open in one worker, drained or lost in an unwinding, and progress finishes with the last file. |
| admission_reuse | MCScanAdmission, ScanAdmission_reuse | 60,525 | A prepared statement runs again while reservations of its first run live. Generations stay apart; every file is drained and every reservation comes back. |
| stream_reference | MCStreamCapture, StreamCapture | 311,168 | Reconstruction and DNS framing agree with the sender, for every choice and order of three captured segments besides SYN and FIN. |
| tcp_expiry | MCTcpReassembly, TcpReassembly_expiry | 213,465 | Expiry queues stay consistent, nothing overdue receives a packet, a row is idle only after a silence, `Add()` returns. |
| tcp_content | MCTcpReassembly, TcpReassembly_content | 803,327 | Byte and segment accounts are exact at every limit, a direction never holds two SYNs, and a SYN that opens one finds no earlier connection in its reverse. |
| tls_pairing | MCTlsScan, TlsScan_pairing | 1,300,408 | A row never joins two sides over another direction of their tuple, a find needs an overlapping peer, each is filed once under the right file, and nothing that stands on its own is lost. |
| tls_room | MCTlsScan, TlsScan_room | violation | See [section 5](#5-where-code-and-comments-disagree). |
| flows | MCFlowAggregator, FlowAggregator | 526,094 | Each record is counted by one session through expiry, reuse, eviction and section changes; a full table gives up the session nearest its deadline though queues are stale; `Next()` ends. |
| capture_reader | MCCaptureReader, CaptureReader | 512,342 | The records are the file's, the outcome (end, cut tail, error) is the right one, progress is exact and never falls. |
| pcap_export | MCPcapCopy, PcapCopy | 211,610 | The staged COPY implements PcapExport, so that no failure or crash leaves a cut file at the destination, and removes only its own staging file. |
| inventory | MCCaptureInventory, CaptureInventory | 2,780,480 | Accepted summaries are true of the version they name, reports show a change, pruning never loses a matching packet. |
| readings | MCReadings, Readings | 747,697 | Six inputs, each read by its component while the others rest: a packet by a filtered scan, the control packets of a session, the TLS records of a direction, a DNS message, the words before TLS, a certificate. |

What **readings** checks of each input:

- *packet*: a filter decides as it would on the whole packet, and the cells are the
  whole packet's (`StagedExact`); no byte is read before the filters of the depth
  before it hold, and each is read or skipped once (`ReadsExact`);
- *session*: `handshake_complete` and `simultaneous_open` follow from the packets, for
  an unbounded number of them (`EvidenceExact`);
- *records*: the hellos, their lists and packet ranges are the sender's, and a limit,
  an unreadable byte, and a record or message that is cut after its header show in the
  status, which otherwise reports no cut (`HandshakesExact`). A cut at a border or inside a
  header cannot be seen and does not show (section 5). The text a direction is charged for
  is what it holds (`CertificatesBudgeted`);
- *message*: a name is accepted exactly when it is legal by the code's caps on octets and
  pointers, and spelt right (`NamesExact`); the loop never runs out of turns (`StepsSuffice`);
- *tunnel*: an exchange of the documented form has its name and destination, and one
  side that strayed makes a warning of that side (`TunnelsNamed`);
- *certificate*: it is accepted exactly when its fields are legal; serial number, names,
  times and the size of the key are what they spell, and each of its nine optional
  fields is what its one legal copy says, or unknown (`CertificateExact`).

What two of the other properties leave open, because the code does (section 5):
`ConnectionsSeparate` is about directions anchored by a SYN, since one tracked without a
SYN takes the next SYN as its own; `RowsExact` lets a client be joined with a server whose
packets it does not overlap, if both stand on their own and nothing of their tuple came
between them.

**Bounds.**

- *Admission.* `Limits` 3, 5 and 8 with 2-byte slots give budgets of one, two and
  four slots, two of them with a rest; two threads per scan are as many as can
  compete for `initial`, and one plan copy is what the optimizer adds.
- *Streams.* 32 sequence numbers with a window of 9 and starts at 0 and 28 put a
  wrap inside the stream and captures outside the window; a stream of 10 does not
  fit it. Length prefixes count in base 4 and the smallest message has one byte.
  Two messages are reported per stream: some streams hold a second that ends inside
  the stream, some a third that meets the limit, some a length that is too short or cut.
- *Reassembly.* Three keys are a connection and a socket connected to itself, two
  slots make the table full, four packets are enough to open, refuse, reuse and
  expire. In the timing run `TimeMax` is 2, the largest timestamp a packet has: deadlines
  that would overflow happen, and `IdleOnlyWhenQuiet` is a statement about packets at
  least a timeout below the largest timestamp (see section 5).
- *TLS.* One place in the table makes each further direction a decision about
  the limit; four streams over two files allow a find, its refuter, a late peer
  and the flush. Tuples are interchangeable, so they are a symmetry set.
- *Flows.* Three sessions and three interfaces for two places and two clocks;
  `FlowTimes` reach within a timeout of `TimeMax`. Three records suffice for expiry,
  reuse and eviction to leave a record pending; the fourth lets a session's deadline move
  behind its queue entry before an interface it is not on needs its place. `Stamps` says
  at which of the times each kind of record comes.
- *Reader.* A window of 6 words and a skip threshold of 2 are smaller than the
  larger packets, so every packet layout makes the reader change between window
  and cursor; each layout is cut at each offset.
- *Export.* Chunks of 2 units split headers and payloads; two executions of two
  statements and one crash, before, during or after any of them. A file that was removed
  is modelled as empty: no statement reads its staging name.
- *Inventory.* One path, of each kind of backend, with two stamps and two catalog
  rows; inventories run one at a time because workers share nothing but the
  claims ScanAdmission covers. A reading query lists the file twice.
- *Packets.* Captured lengths end in and between all headers; one packet alone, and
  each after one that left TLS or DNS in the record; one filter with each projection
  and two with the deepest. `VLAN_CAPACITY` and `EXTENSIONS_MAX` are 2, so a third tag
  or extension header meets the limit.
- *TLS records.* Two messages are cut into up to three records at any byte, with other
  records and tunnel bytes around them, and captured to any length; packets of 5
  bytes (`Mss`) arrive out of order. Limits of one or two of everything are met and
  passed. Pairs of extensions and chains cover repeated and over-long ones.
- *DNS.* Names of at most 5 octets, 2 labels and 2 pointers, with `STEPS_MAX` related to
  them as in the code; four questions that end in five arbitrary octets contain loops,
  forward pointers and names one octet too long.
- *Tunnels.* `MaxTurns` 3 leaves room for a greeting, a refusal and an acceptance.
- *Certificates.* Each field is left out, retagged or cut; all single and paired
  extensions, and two of a kind with a third between or beside them; every turn of
  month, leap year, century and era. `max_entries` 2 and `MAX_NAME_ATTRIBUTES` 3 are passed.

Deadlock is checked except in stream_reference, capture_reader and pcap_export,
where everything has been captured, read or executed as often as the bounds
allow.

**Fairness.** All of it is weak fairness of work that is already under way.
DuckDB calls the scan function of a started worker until it returns an empty
batch, and destroys the states of a stopped query (ScanAdmission: `WorkerStep`,
`DestroyWorker`, `DestroyScan`). A function that has been entered runs on
(`TcpReassembly!Step`, `FlowAggregator!Call`, `CaptureReader!Step`). Nothing is assumed of packets, queries, growth of files,
other statements or crashes, and no strong fairness is used.

## 4. Proofs

Each theorem is about the same definitions the runs check, for every value of the
constants its assumption allows. `Spec => []P` rests on an inductive invariant that
implies `P`; each was checked with TLC on the run's instance before it was proved. A
proof module extends the module it is about, and has a lemma for each action.

| Theorem | Property | Module |
|---|---|---|
| `TypeCorrect`, `BudgetSafe`, `BuffersSafe`, `FilesSafe`, `FinishedSafe` | `TypeOK`, `BudgetExact`, `BuffersCovered`, `FilesOnce`, `FinishedExact` | ScanAdmissionProofs |
| `ReassemblyBuffers`, `ReassemblyExpiry`, `NeverExpiredEarly`, `ConnectionsKeptApart` | `BuffersExact`, `ExpiryExact`, `IdleOnlyWhenQuiet`, `ConnectionsSeparate` | TcpReassemblyProofs |
| `QueuesAgree`, `RecordsCounted`, `NearestGivenUp` | `QueueExact`, `CountedOnce`, `EvictsNearest` | FlowAggregatorProofs |
| `SummariesHold`, `RowsCurrent`, `PruningSound` | `SummariesTrue`, `ReportsCurrent`, `PruneSound` | CaptureInventoryProofs |
| `ExclusionSound` | a summary that refutes a filter covers no packet it keeps | CaptureInventoryProofs |
| `StagingRemoved`, `OnlyOwnStages` | `StageGone`, `OwnFilesOnly` | PcapCopyProofs |
| `DestinationKept` | the destination changes only by the rename of a whole, finished, synced file, or back to such a file in a crash | PcapCopyProofs |
| `StepsAlwaysSuffice`, `HandshakeEvidence` | `StepsSuffice`, `EvidenceExact` | ReadingsProofs |
| `ReadsInBounds`, `DaysCount`, `Epoch` | DNS reads stay in the message; dates are numbered by days | ReadingsProofs |

**FiniteSums** has no state: it is what the tables' proofs need of sums and finite sets.
The library's induction theorems take an operator as a parameter, which the installed
provers cannot instantiate. FiniteSums derives the least number of a set of numbers
(`LeastNatural`), a minimal member of a family of finite sets (`MinimalSubset`) and the
greatest member of a finite set (`GreatestMember`) in first-order form instead, and from them
how a sum over a finite set changes when a member joins, leaves or changes (`SumJoins`,
`SumLeaves`, `SumChanges`, `SumCovers`, `SumSame`, `SumZero`). This is why `BuffersExact`, which
is about sums, can be proved.

### Memory admission

`ScanAdmissionProofs` assumes only `AdmissionAssumption`: finitely many statements,
scans and threads, statements that are the same or share no scan, a positive `WORKER_BYTES`, limits of at most half the memory
limit (the constructor's `min`), and that the placeholder values are distinct.

None of the properties is inductive. `BudgetExact` says how much is reserved but
not by whom, so it does not show that a destructor releases something that is
there, and in which budget. The inductive invariant is

    IInv == TypeOK /\ PlanInv /\ GenInv /\ HoldInv /\ Ledger /\ Within

- `GenInv`: a started execution uses the generation of its own query, and a live
  query with a started execution has a budget;
- `HoldInv`: reservations lie in the holder's own generation, a worker has one
  exactly while it is admitted, and `initial` is there only while the execution runs;
- `Ledger`: `used[g]` is `WORKER_BYTES` times the number of holders in `lease[g]`,
  and the reserved memory the same over all generations;
- `Within`: no budget passes its limit; `PlanInv`: a plan count in use is positive,
  so the division in the ceiling is defined.

`AcquireLedger`, `ReleaseLedger` and `MoveLedger` count the holders a step adds,
removes or exchanges. `FilesInv` comes on top of `IInv`: what each
worker has open is below `next_file`, no two have the same, and `drained` is the
number of elements of `done`. `ClaimsInv` adds the converse, which makes `FilesSafe` a
statement about every file: each one below `next_file` is open, in `done` or in `lost`, and
`lost`, the files of workers destroyed by unwinding, is empty unless the query was stopped.

### TCP reassembly

`ReassemblyAssumption`: tuples have a reverse on the same interface, timestamps are at most
`TimeMax`, limits are natural numbers. The sets of tuples and interfaces may be infinite.

    Inv == TableOK /\ CallOK /\ CallProgress

`TableOK` has the accounts (`BuffersExact`), the queues (`ExpiryConsistent`) and `DeadlinesCover`: a
scheduled deadline covers the direction's latest packet unless it would overflow. `CallProgress`
is what the steps of one `Add()` have established for the next: the clock is not behind the
packet, after `Expire` nobody is overdue, and a SYN that opens the tuple anew meets no earlier
direction. `NeverExpiredEarly` needs the former, `ConnectionsKeptApart` the latter, with
`ApplySyn`: a packet applied to a direction that has a SYN leaves it that SYN.

### Flows

`FlowAssumption`: finitely many tuples and interfaces, a tuple on one interface, timestamps at
most `TimeMax`, room for at least one session and one clock. `Inv` says that each
queue is exactly the entries of its scheduled sessions (`QueuesOK`), each no later than the
session's deadline; that packets are counted at most once (`Apart`), and are all but the pending
one of those owed (`Covers`); and what a call has established between its two steps (`CallOK`).
It is stated over a table given as a parameter, because one call passes through
several: queue fronts are refreshed (`RefreshedStates`) before the nearest is chosen, and
`NearestGivenUp` shows that what is then in front is nearest by its real deadline.

`HandshakeEvidence` (ReadingsProofs) is about one session. Its hypothesis `SameNumber`, a host's
SYN-ACK repeats the number of its own SYN, is needed: without it the theorem is false
(section 5). `HandshakeInv` ties the flags of a session to the SYNs and answers seen.

### Inventory and pruning

`InventoryAssumption`: any captures, settings and filters of their types; rows of foreign catalogs are not
accepted as they stand. `Inv` says of every accepted row, in the catalog, in a snapshot or in a task, that it is true of
the version its identity names (`TrueIn`), and of a task that is reading: as long as the file
has the version it was opened with, the totals are those of the packets read so far
(`TaskIn`). Versions are only added (`Newer`), so what was true of one stays true. `RowsCurrent` and
`PruningSound` are action properties, of the step that makes a row and of the one that leaves
a file out; the latter also takes `ExclusionSound`, for every nesting of tests in a filter.

### PCAP export

`CopyAssumption`: rows are sequences, a chunk is not empty, and no statement has the
destination's name. The invariant `CopyInv` follows one file from its creation. `Staged`: while its
statement owns it, the staging name refers to it, and from `close` on it is synced.
`DestinationSettled`: every file the destination may be at after a crash is synced and is
not one that any statement writes, or will create in a later run; without this a write could
reach a published file, or a crash cut one it falls back to. `Typed` ties phases to ownership and
to what is left to write, and from `sync` on to all rows being written and the writer
finished. `DestinationKept` is the part of the refinement `Published` that can be proved: that the bytes are the rows'
encoding rests on a recursive definition.

### DNS names and dates

`DnsAssumption` has two relations, `NAME_MAX <= 2 * LABELS_MAX + 2` and
`STEPS_MAX = LABELS_MAX + POINTERS_MAX + 1`, which hold for the
code's 255, 127, 127 and 255. The invariant `DnsInv` adds
`Counted`: a turn is a label or a pointer, pointers are capped where they are counted,
and each label takes two octets of `expanded`, which is capped by `NAME_MAX`.

`DaysCount` and `Epoch`: in every year the day after a date has the next
number in `DaysFromCivil`, and 1970-01-01 is day 0. `YearLength` is the heart of it: the
counts of two years differ by 366 exactly when the year's February has 29 days, also
at the border of an era.

### Only model-checked

- *Liveness*: `AllFilesDrained`, `AllReleased`, `CallReturns`, `CallsEnd`, `ReadersStop`. Fairness
  and ENABLED are out of the prover's reach.
- *What a recursive definition computes*: `Published` as a whole, `StreamExact`,
  `MessagesExact`, `NamesExact`, `HandshakesExact`, `CertificatesBudgeted`, `TunnelsNamed`,
  `CertificateExact`. In a module that reaches a recursive operator the provers lose SMT, and
  the library's folds over sequences lead to one.
- *Not proved*: `ReadExact`, `ProgressExact` and `NeverBackwards` of the reader;
  `NoStarvation` (a sum over the scans not yet started, with a rounded ceiling); `CountExact` and `RowsExact` of TLS pairing; `StagedExact` and `ReadsExact` of staged decoding.

## 5. Where code and comments disagree

**tls_room** (`src/tls_handshake.cpp:1444`). When `unconfirmed_order` has grown past
twice `max_pending`, `Hold` keeps only the keys that are in `pending`. The find being
held is inserted into `pending` afterwards, so its own key, pushed just before, is
dropped while `unconfirmed` counts it. When a direction that needs no confirmation
later finds the table full, the loop that should release a find runs out of keys
and `PQ_ASSERT(pending.size() < limits.max_pending)` fails, although the comment
above it says that the key is in `unconfirmed_order`. `PQ_ASSERT` throws in release
builds too, so the query ends with an internal error. `AssertionsHold` is violated
with `max_pending = 1`; with the default limit it takes more than a thousand finds
held one after another.

Eight more statements were found not to hold exactly as written while the modules
were built. No run is kept for them:

- `src/tcp_reassembly.cpp:104`, "Deadlines only move later": a packet stamped within
  the timeout of the largest timestamp unschedules its direction, and the next
  packet, out of order, schedules it at its own earlier deadline (line 114). This
  is why `IdleOnlyWhenQuiet` is about a latest packet away from the maximum; with that
  antecedent it is proved (`NeverExpiredEarly`).
- `docs/TLS_HANDSHAKES.md:338`, a find is dropped when an overlapping other
  direction is plainly not TLS, "whether that direction comes before or after it":
  a stream that drops a find already held is not remembered on that side (the
  `continue` at `src/tls_handshake.cpp:1401`), so a second find it overlaps, which
  arrives later, may still be confirmed and reported.
- `docs/FLOWS.md:81`, `handshake_complete` requires a SYN-ACK acknowledging the SYN:
  in a simultaneous open the SYN-ACK's sequence number replaces that of the same
  side's SYN (`src/flow_aggregator.cpp:186`). With a host that answers under another
  number, the evidence mixes the two. `FlowHandshake` with `SameNumber = FALSE`
  violates `HandshakeSound`; the run uses `TRUE`, as TCP hosts behave, and
  `HandshakeEvidence` has it as a hypothesis.
- `docs/TLS_HANDSHAKES.md:411`, `incomplete`, "The handshake continues past the captured
  bytes, or a sequence gap interrupts it": a capture or a gap that begins at the border of
  two records or messages, in the first three bytes of a message header, or in the first
  four of a record header, is not reported (`CollectHandshakeBytes` needs five bytes to go on,
  `ParseMessages` four), and the row may be called complete. `StatusTold` says what is
  reported: cuts after a header, and no others.
- `src/tls_handshake.cpp:1175`, `MergeServer`, "The packet span widens to cover the server's
  packets": only its end does. `RowsTell` claims the first packet of the client's hello, or
  of the server's in a row without a client.
- `docs/TCP_STREAMS.md:67`, "directions finalize at EOF, RST, or tuple reuse by a new SYN":
  a direction that was tracked without a SYN is not finalized by one. `new_syn` at
  `src/tcp_reassembly.cpp:189` asks for `has_syn`, so that a late SYN can still anchor what was
  buffered; the SYN of a new connection is taken the same way, and the data of the two
  meet in one stream. `ConnectionsSeparate` is about directions that have a SYN.
- `docs/TLS_HANDSHAKES.md:45`, "Reusing an address pair starts a new connection": this holds
  where the same direction is seen twice, which is the case the next sentence describes. If
  only the client of one connection and only the server of the next were captured, `Add`
  (`src/tls_handshake.cpp:1495`) joins them in one row, since it compares spans only for finds
  that need confirmation. `RowsSound` claims that nothing of the tuple came between the two.
- `docs/DNS.md:71`, "pointer/label walks to 128 steps per name": the code bounds labels and
  pointers apart, 127 of each, and reads a name of 129 steps, as
  `test/unit/dns_decoder_test.cpp:38` requires. `Legal` has the code's bounds.

## 6. Not modelled

- *TLS fingerprints* and the hashes of certificates: formatting and hashing of fields
  that are modelled.
- *The text of names, addresses, curves and algorithms*: escaping and tables of names. A
  property about them would repeat the table.
- *Path and Hive pruning* (`PruneCaptureFiles`, `NormalizeBooleanFilter`): the engine's
  expressions evaluated on file names at plan time; the list they leave is an input.
- *The loops of `read_dns_messages` and `read_pcap`*: the first interleaves UDP packets
  with framed streams; the second has no state but the reader and its claim.
- *The engine's evaluation of a filter*: StagedDecode has IS NULL, IS NOT NULL and
  equality, which tell a missing, a stale and a right value apart.
- *Sparse readahead*, *extension loading*, *SQL macros*, *cell writers*: no state a
  property could be about.
- *Counters of 64 bits*: their overflow checks throw; the stream identifier
  (`MaxId`) and the writer's byte count (`MaxBytes`) are modelled because something
  is undone or left behind when they do.
- *Inventory*: the 64 MiB cap on a snapshot fails the statement before it looks at a
  file. Relaxed atomics are modelled as atomic steps: each of them is a single
  counter, and no reader draws a conclusion from two.
- *Windows* code paths of the export.

## 7. Plan

The order follows what a mistake would cost: memory admission first, since every
scan depends on it, then the two packet tables, the reader below them, what is
written to disk, and what is left out on the word of a catalog.

1. Done: ScanAdmission, TcpReassembly, FlowAggregator, FlowHandshake, CaptureInventory
   with CatalogFilter, PcapCopy, DnsDecoder and Calendar with proofs; CaptureReader; StreamAssembly, StreamCapture and DnsTcpFramer; TlsAssembler and TlsScan; PcapExport;
   PacketDecoder and StagedDecode; TlsRecords, TunnelPrefix and TunnelDialogue;
   X509Certificate.
2. Model next: the `read_dns_messages` and `read_tcp_streams` loops with batch limits
   and pending messages, composed with TcpReassembly and DnsTcpFramer; path
   pruning in batches (`PruneCaptureFiles`).
3. Prove next: that no execution holds more than `max_workers` reservations, and with
   it `NoStarvation`; `ReadExact` of the capture reader; `CountExact` of TLS pairing; `StagedExact`, from a lemma that a longer
   prefix of a packet never changes what a shorter one decoded.
4. Stays with TLC: liveness, and what the parsers and the reconstruction compute.
