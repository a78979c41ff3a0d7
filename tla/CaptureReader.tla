---------------------------- MODULE CaptureReader ----------------------------
(***************************************************************************)
(* CaptureReader and CaptureProgress: the readers of one query walk their  *)
(* capture files record by record and publish a shared byte count.         *)
(*                                                                         *)
(* Offsets count 32-bit words, the unit PCAPNG aligns to.  The content of  *)
(* word o of a file is its offset, so a read that comes from the wrong     *)
(* place is seen as one.  A file is a list of blocks of which only the     *)
(* first disk[r] words are present when the scan opens it: it may have     *)
(* been cut short, and it may grow while it is read.                       *)
(***************************************************************************)
EXTENDS Integers, Sequences, FiniteSets, Functions

CONSTANTS
    Inputs,             \* the queries: their files, and defer_completion
    WindowSize,         \* LOCAL_READ_WINDOW_SIZE and REMOTE_READ_WINDOW_SIZE
    SkipThreshold,      \* LOCAL_SKIP_THRESHOLD
    PublishStep,        \* the 64 KiB granularity of PublishProgress
    MaxInterfaces       \* MAX_PCAPNG_INTERFACES

Smaller(a, b) == IF a < b THEN a ELSE b

----------------------------------------------------------------------------
(* File layouts.                                                           *)

PacketKinds == {"pcap", "enhanced", "simple"}

\* The words a block occupies, its header and trailer included.
Words(b) ==
    CASE b.kind = "global"    -> 6
      [] b.kind = "section"   -> 7 + b.rest
      [] b.kind = "interface" -> 3 + b.body
      [] b.kind = "pcap"      -> 4 + b.body
      [] b.kind = "enhanced"  -> 8 + b.body + b.rest
      [] b.kind = "simple"    -> 4 + b.body + b.rest
      [] OTHER                -> 3 + b.body

\* Where block i starts; one past the last block is the end of the file.
Start(f, i) == SumFunctionOnSet([j \in DOMAIN f |-> Words(f[j])], 1 .. (i - 1))
Length(f) == Start(f, Len(f) + 1)

IsPcap(f) == f[1].kind = "global"

Block == [kind : PacketKinds \cup {"global", "section", "interface", "other", "invalid"},
          id : Nat, body : Nat, rest : Nat, mismatch : BOOLEAN]
\* The kinds of block a file of either format has, by position.
Fits(f, i) ==
    /\ IF IsPcap(f) THEN f[i].kind = (IF i = 1 THEN "global" ELSE "pcap") /\ ~f[i].mismatch
                    ELSE f[i].kind \notin {"global", "pcap"}
    /\ i = 1 => f[i].kind \in {"global", "section"}
    /\ f[i].kind = "interface" => f[i].body >= 2
Layout(f) == f \in Seq(Block) /\ f # <<>> /\ \A i \in DOMAIN f : Fits(f, i)

\* The query's inputs are captures of either format, any of them cut short.
ASSUME ReaderAssumption ==
    /\ WindowSize \in Nat \ {0} /\ SkipThreshold \in Nat
    /\ PublishStep \in Nat \ {0} /\ MaxInterfaces \in Nat
    /\ \A query \in Inputs :
         /\ IsFiniteSet(DOMAIN query.files) /\ query.defer \in BOOLEAN
         /\ \A r \in DOMAIN query.files : LET file == query.files[r] IN
              /\ Layout(file.blocks) /\ file.written \in 0 .. Length(file.blocks)
              /\ file.access \in {"local", "remote", "unbuffered", "pipe"}

----------------------------------------------------------------------------
VARIABLES
    input,      \* the query: layout, access and size of each file, and defer_completion
    disk,       \* disk[r]: words of the layout present in the file
    sizes,      \* the sizes CaptureProgress::Initialize recorded
    reader,     \* reader[r]: the members of the CaptureReader
    progress    \* the atomics of CaptureProgress

vars == <<input, disk, sizes, reader, progress>>

\* One reader for each occurrence of a file in the query's input.
Readers == DOMAIN input.files

----------------------------------------------------------------------------
(* How the parser walks a block: the reads and skips that follow the header *)
(* of a block, in order.  A "data" operation is the packet's bytes, which a *)
(* scan reads only as far as its filters and projection ask.                *)

Op(op, n) == [op |-> op, n |-> n]

\* The reads of Initialize after the magic number.
InitializeOps(b) ==
    IF b.kind = "global" THEN <<Op("read", 5)>>
    ELSE <<Op("read", 2), Op("read", 3), Op("skip", b.rest), Op("trailer", 1)>>

\* NextPcap after the packet header.
NextPcapOps(b) == <<Op("require", b.body), Op("data", b.body)>>

\* ReadEnhancedPacket, ReadSimplePacket, ReadInterfaceDescription,
\* ReadSectionHeaderAfterHeader, and the skip of any other block.
NextPcapNgOps(b) ==
    CASE b.kind = "enhanced" ->
            <<Op("read", 5), Op("interface", b.id), Op("require", b.body),
              Op("data", b.body), Op("skip", b.rest), Op("trailer", 1)>>
      [] b.kind = "simple" ->
            <<Op("interface", 0), Op("read", 1), Op("require", b.body),
              Op("data", b.body), Op("skip", b.rest), Op("trailer", 1)>>
      [] b.kind = "interface" -> <<Op("read", b.body), Op("trailer", 1)>>
      [] b.kind = "section" ->
            <<Op("read", 1), Op("read", 3), Op("skip", b.rest), Op("trailer", 1)>>
      [] b.kind = "other" -> <<Op("skip", b.body), Op("trailer", 1)>>
      [] b.kind = "invalid" -> <<Op("invalid", 0)>>

HeaderWords(f) == IF IsPcap(f) THEN 4 ELSE 2
----------------------------------------------------------------------------
(* CaptureProgress.                                                        *)

\* Initialize, with the progress bar on: a pipe makes the total unknown.
ProgressInitialize ==
    /\ sizes = disk
    /\ progress = [known |-> \A r \in Readers : input.files[r].access # "pipe",
                   consumed |-> 0, completed |-> 0, finished |-> Readers = {}]

Enabled == progress.known

\* Mutant of CheckSize: the last reader to open decides.
CheckSizeLast(r, seekable, size) ==
    [progress EXCEPT !.known = seekable /\ sizes[r] = size]

\* CheckSize: a reader that opens another size than Initialize saw.
CheckSize(r, seekable, size) ==
    IF Enabled /\ (~seekable \/ sizes[r] # size)
    THEN [progress EXCEPT !.known = FALSE] ELSE progress

CompleteFile(p) ==
    [p EXCEPT !.completed = @ + 1,
              !.finished = @ \/ (p.completed + 1 = Cardinality(Readers) /\ ~input.defer)]

\* Percentage in tenths: -1 unknown, 1000 only when finished.
Percentage(p) ==
    IF ~p.known THEN -1
    ELSE IF p.finished THEN 1000
    ELSE IF SumFunction(sizes) = 0 THEN 0
    ELSE Smaller(999, (1000 * p.consumed) \div SumFunction(sizes))

----------------------------------------------------------------------------
(* The reader.                                                             *)

NoBlock == 0
Garbled == -1

Closed ==
    [pc |-> "closed", ops |-> <<>>, block |-> NoBlock, total |-> 0, from |-> 0,
     position |-> 0, cursor |-> 0, size |-> 0, worthwhile |-> FALSE,
     start |-> 0, length |-> 0, counted |-> FALSE, published |-> 0,
     header |-> FALSE, tail |-> FALSE, section |-> 0, interfaces |-> <<>>,
     offset |-> 0, intact |-> TRUE, yield |-> <<>>]

\* The types of an operation of the walk, of a returned record and of the members.
OpType == [op : {"magic", "header", "read", "trailer", "require", "interface", "invalid", "data", "skip"},
           n : Nat]
Record == [block : Nat, offset : Nat, section : Nat, intact : BOOLEAN, link : Nat]
Stopped == {"end", "truncated", "error", "interrupted"}
ReaderType ==
    [pc : {"closed", "open"} \cup Stopped, ops : Seq(OpType), block : Nat, total : Nat, from : Int,
     position : Nat, cursor : Nat, size : Nat, worthwhile : BOOLEAN,
     start : Nat, length : Nat, counted : BOOLEAN, published : Nat,
     header : BOOLEAN, tail : BOOLEAN, section : Nat, interfaces : Seq(Nat),
     offset : Nat, intact : BOOLEAN, yield : Seq(Record)]

Access(r) == input.files[r].access
Blocks(r) == input.files[r].blocks
CanSkipBySeek(r) == Access(r) # "pipe"

\* Mutant of Publishes: the end of a file is not published.
PublishesInSteps(s, force) ==
    s.counted /\ Enabled /\ s.position - s.published >= PublishStep

\* A reader whose position may have moved publishes what it consumed: in
\* steps, or at once when forced at the end of its file.
Publishes(s, force) ==
    s.counted /\ Enabled /\ (force \/ s.position - s.published >= PublishStep)
PublishProgress(r, s, force) ==
    /\ reader' = [reader EXCEPT ![r] =
                    IF Publishes(s, force) THEN [s EXCEPT !.published = s.position] ELSE s]
    /\ progress' =
         LET p == IF Publishes(s, force)
                  THEN [progress EXCEPT !.consumed = @ + s.position - s.published] ELSE progress
         IN  IF force /\ s.counted /\ Enabled THEN CompleteFile(p) ELSE p

\* Next returns false at the end of the file, or after the tail was cut.
Ends(r, s, how) == PublishProgress(r, [s EXCEPT !.pc = how, !.ops = <<>>], TRUE)

Continue(r, s) == reader' = [reader EXCEPT ![r] = s] /\ UNCHANGED progress

\* An exception other than TruncatedTailSignal leaves the scan.
Failed(s) == [s EXCEPT !.pc = "error", !.ops = <<>>]
Throws(r, s) == Continue(r, Failed(s))

EndOfRecord(r, s) ==
    IF s.header /\ s.yield # <<>> THEN Ends(r, [s EXCEPT !.tail = TRUE], "truncated")
    ELSE Throws(r, s)

NewSection(s) == [s EXCEPT !.section = @ + 1, !.interfaces = <<>>]

\* A block whose reads are done takes effect, and the next header is due.
BlockDone(r, s) ==
    LET b == Blocks(r)[s.block]
        due == [s EXCEPT !.ops = <<Op("header", HeaderWords(Blocks(r)))>>, !.header = TRUE]
    IN  CASE b.kind = "global"  -> [due EXCEPT !.section = 1]
          [] b.kind = "section" -> NewSection(due)
          [] b.kind = "interface" -> [due EXCEPT !.interfaces = Append(@, b.id)]
          [] b.kind \in PacketKinds ->
                [due EXCEPT !.yield = Append(@, [block |-> s.block, offset |-> s.offset,
                     section |-> s.section, intact |-> s.intact,
                     link |-> IF b.kind = "pcap" THEN 0
                              ELSE s.interfaces[(IF b.kind = "simple" THEN 0 ELSE b.id) + 1]])]
          [] OTHER -> due
Advance(r, s) == IF s.ops = <<>> THEN BlockDone(r, s) ELSE s

----------------------------------------------------------------------------
(* One read call: what the handle, or the window over it, supplies.        *)

\* Words the file holds from offset o on.
Available(r, o) == IF o < disk[r] THEN disk[r] - o ELSE 0

\* A read through the handle's cursor; a pipe may return fewer words.
CursorReads(r, s, n) ==
    LET most == Smaller(n, Available(r, s.cursor))
    IN  {[s EXCEPT !.cursor = @ + c, !.from = s.cursor, !.total = c] :
            c \in IF Access(r) = "pipe" /\ most > 0 THEN {1, most} ELSE {most}}

\* A copy out of the window, refilled first when it does not hold offset o.
WindowRead(s, n, o, refill) ==
    LET held == s.length > 0 /\ o >= s.start /\ o - s.start < s.length
        first == IF held THEN s.start ELSE refill
        long == IF held THEN s.length ELSE Smaller(WindowSize, s.size - refill)
    IN  [s EXCEPT !.start = first, !.length = long, !.from = o,
                  !.total = Smaller(n, long - (o - first))]

ReadRemoteWindow(s, n, o) ==
    IF o >= s.size THEN [s EXCEPT !.total = 0]
    ELSE WindowRead(s, n, o, o - (o % WindowSize))

ReadLocalWindow(r, s, n, o) ==
    IF o >= s.size THEN {[s EXCEPT !.total = 0]}
    ELSE IF ~s.worthwhile THEN CursorReads(r, s, n)
    ELSE IF ~(s.length > 0 /\ o >= s.start /\ o - s.start < s.length) /\ n >= WindowSize
         THEN {[s EXCEPT !.from = o, !.total = Smaller(n, s.size - o)]}
         ELSE {WindowRead(s, n, o, o)}

Reads(r, s, n, o) ==
    CASE Access(r) = "remote" -> {ReadRemoteWindow(s, n, o)}
      [] Access(r) = "local" -> ReadLocalWindow(r, s, n, o)
      [] OTHER -> CursorReads(r, s, n)

----------------------------------------------------------------------------
(* The steps of a reader.                                                  *)

\* The constructor up to Initialize.
Open(r) ==
    /\ reader[r].pc = "closed"
    /\ LET size == IF CanSkipBySeek(r) THEN disk[r] ELSE 0
       IN  /\ reader' = [reader EXCEPT ![r] =
                   [Closed EXCEPT !.pc = "open", !.ops = <<Op("magic", 1)>>,
                                  !.size = size, !.counted = Enabled]]
           /\ progress' = CheckSize(r, CanSkipBySeek(r), size)
    /\ UNCHANGED <<input, disk, sizes>>

Due(r, kinds) == reader[r].pc = "open" /\ Head(reader[r].ops).op \in kinds

\* What is refused after a block was read: a trailer or a version that does
\* not fit it, or one interface too many.
Refused(b, s) ==
    \/ b.mismatch
    \/ b.kind = "interface" /\ Len(s.interfaces) >= MaxInterfaces

\* A read that has all its words: the parser acts on them.
Parse(r, s, op) ==
    LET f == Blocks(r)
        found == {i \in DOMAIN f : Start(f, i) = s.from}
        b == CHOOSE i \in found : TRUE
        moved == [s EXCEPT !.position = @ + op.n, !.total = 0, !.ops = Tail(@),
                           !.intact = (@ \/ op.op = "header") /\ s.from = s.position]
    IN  IF op.op \in {"magic", "header"} THEN
            IF found = {} THEN PublishProgress(r, Failed(moved), FALSE)
            ELSE PublishProgress(r, [moved EXCEPT !.block = b, !.ops =
                    IF op.op = "magic" THEN InitializeOps(f[b])
                    ELSE IF IsPcap(f) THEN NextPcapOps(f[b]) ELSE NextPcapNgOps(f[b])], FALSE)
        ELSE IF op.op = "trailer" /\ (~moved.intact \/ Refused(f[s.block], s))
        THEN PublishProgress(r, Failed(moved), FALSE)
        ELSE PublishProgress(r, Advance(r, moved), FALSE)

\* Mutant of NothingRead: a cut record is waited for.
NothingReadWaits(r, s, op) ==
    IF op.op = "header" /\ ~s.tail THEN Ends(r, s, "end") ELSE Continue(r, s)

\* A read returned nothing, after some words of the operation or none.
NothingRead(r, s, op) ==
    IF op.op = "magic" THEN Throws(r, s)
    ELSE IF op.op = "header" /\ ~s.tail THEN Ends(r, s, "end")
    ELSE EndOfRecord(r, s)

\* One pass of the loop of ReadMaybe.
ReadMaybe(r) ==
    /\ Due(r, {"magic", "header", "read", "trailer"})
    /\ LET old == reader[r]
           op == Head(old.ops)
       IN  \E s \in Reads(r, old, op.n - old.total, old.position + old.total) :
             LET joined == [s EXCEPT !.total = old.total + s.total,
                     !.from = IF old.total = 0 THEN s.from
                              ELSE IF s.from = old.from + old.total THEN old.from ELSE Garbled]
             IN  IF s.total > 0
                 THEN IF joined.total < op.n
                      THEN Continue(r, joined)
                      ELSE Parse(r, joined, op)
                 ELSE NothingRead(r, [old EXCEPT !.tail = @ \/ old.total > 0], op)
    /\ UNCHANGED <<input, disk, sizes>>

\* ReadMaybe finds the query interrupted.
Interrupt(r) ==
    /\ Due(r, {"magic", "header", "read", "trailer"})
    /\ Continue(r, [reader[r] EXCEPT !.pc = "interrupted", !.ops = <<>>])
    /\ UNCHANGED <<input, disk, sizes>>

\* RequireAvailable, the interface lookup and ValidateBlockLength.
Validate(r) ==
    /\ Due(r, {"require", "interface", "invalid"})
    /\ LET s == reader[r]
           op == Head(s.ops)
       IN  CASE op.op = "invalid" -> Throws(r, s)
             [] op.op = "interface" ->
                  IF op.n >= Len(s.interfaces) THEN Throws(r, s)
                  ELSE Continue(r, [s EXCEPT !.ops = Tail(@)])
             [] op.op = "require" ->
                  IF CanSkipBySeek(r) /\ (s.position > s.size \/ op.n > s.size - s.position)
                  THEN EndOfRecord(r, s)
                  ELSE Continue(r, [s EXCEPT !.ops = Tail(@), !.offset = s.position])
    /\ UNCHANGED <<input, disk, sizes>>

\* ReadPacketData: the next stage reads some more of the packet, or a filter
\* rejects it, or nothing more is wanted and the rest is skipped.
ReadPacketData(r) ==
    /\ Due(r, {"data"})
    /\ LET s == reader[r]
           n == Head(s.ops).n
       IN  \E k \in {0} \cup {j \in {1, n} : j <= n} :
             reader' = [reader EXCEPT ![r].ops =
                 (IF k = 0 THEN <<Op("skip", n)>>
                  ELSE <<Op("read", k), Op("data", n - k)>>) \o Tail(s.ops)]
    /\ UNCHANGED <<input, disk, sizes, progress>>

\* Mutant of Skipped: the cursor is left behind by a wide local skip.
SkippedKeepsCursor(r, s, n) ==
    [s EXCEPT !.position = @ + n,
              !.worthwhile = IF Access(r) = "local" THEN n <= SkipThreshold ELSE @,
              !.cursor = IF Access(r) = "unbuffered" THEN s.position + n ELSE @]

\* Where a seekable skip of n words leaves the window and the cursor: a near
\* one only moves `position', and a wide one brings the cursor along.
Skipped(r, s, n) ==
    [s EXCEPT !.position = @ + n,
              !.worthwhile = IF Access(r) = "local" THEN n <= SkipThreshold ELSE @,
              !.cursor = IF \/ Access(r) = "unbuffered"
                            \/ Access(r) = "local" /\ n > SkipThreshold
                         THEN s.position + n ELSE @]

Skip(r) ==
    /\ Due(r, {"skip"})
    /\ LET s == reader[r]
           n == Head(s.ops).n
           rest == [s EXCEPT !.ops = Tail(@)]
       IN  IF n = 0 THEN Continue(r, Advance(r, rest))
           ELSE IF ~CanSkipBySeek(r)
           THEN Continue(r, [s EXCEPT !.ops = <<Op("read", n)>> \o Tail(@)])
           ELSE IF s.position > s.size \/ n > s.size - s.position THEN EndOfRecord(r, s)
           ELSE PublishProgress(r, Advance(r, Skipped(r, rest, n)), FALSE)
    /\ UNCHANGED <<input, disk, sizes>>

\* The scan has drained every stream after its last file: progress.Finish().
Drained ==
    /\ input.defer /\ ~progress.finished
    /\ \A r \in Readers : reader[r].pc \in {"end", "truncated"}
    /\ progress' = [progress EXCEPT !.finished = TRUE]
    /\ UNCHANGED <<input, disk, sizes, reader>>

\* The capture is still being written.
Grow(r) ==
    /\ CanSkipBySeek(r) /\ disk[r] < Length(Blocks(r))
    /\ disk' = [disk EXCEPT ![r] = Length(Blocks(r))]
    /\ UNCHANGED <<input, sizes, reader, progress>>

Init ==
    /\ input \in Inputs
    /\ disk = [r \in Readers |-> input.files[r].written]
    /\ reader = [r \in Readers |-> Closed]
    /\ ProgressInitialize

Next ==
    \/ \E r \in Readers : Open(r)
    \/ \E r \in Readers : ReadMaybe(r)
    \/ \E r \in Readers : Interrupt(r)
    \/ \E r \in Readers : Validate(r)
    \/ \E r \in Readers : ReadPacketData(r)
    \/ \E r \in Readers : Skip(r)
    \/ \E r \in Readers : Grow(r)
    \/ Drained

Step(r) == Open(r) \/ ReadMaybe(r) \/ Validate(r) \/ ReadPacketData(r) \/ Skip(r)
Spec == Init /\ [][Next]_vars
FairSpec == Spec /\ WF_vars(\E r \in Readers : Step(r))

----------------------------------------------------------------------------
(* Properties.                                                             *)

\* Every member keeps its type: the window lies inside the file that was
\* opened, no reader publishes more than it consumed or keeps more interfaces
\* than the cap, and no file is completed twice (the PQ_ASSERT of CompleteFile).
TypeOK ==
    /\ disk \in [Readers -> Nat] /\ sizes \in [Readers -> Nat]
    /\ progress \in [known : BOOLEAN, consumed : Nat, completed : 0 .. Cardinality(Readers),
                     finished : BOOLEAN]
    /\ reader \in [Readers -> ReaderType]
    /\ \A r \in Readers : LET s == reader[r] IN
         /\ s.pc = "open" <=> s.ops # <<>>
         /\ s.published <= s.position /\ Len(s.interfaces) <= MaxInterfaces
         /\ s.length <= WindowSize /\ s.start + s.length <= s.size

\* What a correct reader makes of a layout, without regard to how it is read.
IsSection(f, i) == f[i].kind = "section"
\* The interfaces described before block i in the section it continues.
Described(f, i) ==
    {j \in 1 .. (i - 1) : f[j].kind = "interface" /\ \A k \in j .. (i - 1) : ~IsSection(f, k)}
Interface(f, i) == IF f[i].kind = "simple" THEN 0 ELSE f[i].id
LinkOf(f, i) ==
    IF IsPcap(f) THEN 0
    ELSE f[CHOOSE j \in Described(f, i) : Cardinality({k \in Described(f, i) : k < j}) = Interface(f, i)].id
Faulty(f, i) ==
    \/ f[i].kind = "invalid"
    \/ f[i].mismatch
    \/ f[i].kind \in {"enhanced", "simple"} /\ Cardinality(Described(f, i)) <= Interface(f, i)
    \/ f[i].kind = "interface" /\ Cardinality(Described(f, i)) >= MaxInterfaces
\* Where the data of packet i starts.
DataStart(f, i) ==
    Start(f, i) + (CASE f[i].kind = "pcap" -> 4 [] f[i].kind = "enhanced" -> 7 [] OTHER -> 3)
Expected(f, i) ==
    [block |-> i, section |-> IF IsPcap(f) THEN 1 ELSE Cardinality({j \in 1 .. i : IsSection(f, j)}),
     offset |-> DataStart(f, i), link |-> LinkOf(f, i), intact |-> TRUE]
\* The packets wholly inside the first n words, up to the first faulty block.
Packets(f, n) == {i \in DOMAIN f : /\ f[i].kind \in PacketKinds /\ Start(f, i + 1) <= n
                                   /\ \A j \in 1 .. i : ~Faulty(f, j)}

\* The records a reader returns are the packets of its file, in file order and
\* without a gap, each with the offset, section and interface it has in the
\* file and with bytes read from there: whichever way the file is reached,
\* wherever window, cursor and seek reads alternate, whatever part of each
\* packet the scan asks for, and while the file grows.
RecordsExact ==
    \A r \in Readers : LET f == Blocks(r) yield == reader[r].yield IN
        \A k \in DOMAIN yield :
            /\ yield[k].block \in Packets(f, disk[r])
            /\ yield[k] = Expected(f, yield[k].block)
            /\ Cardinality({j \in Packets(f, disk[r]) : j <= yield[k].block}) = k

\* The size the reader saw when it opened its file.
Opened(r) == IF CanSkipBySeek(r) THEN reader[r].size ELSE disk[r]
Boundary(f, n) == \E i \in 2 .. (Len(f) + 1) : Start(f, i) = n

\* A scan that ends without an error has returned every packet that was whole
\* when the file was opened; it reports a cut tail only for a file that stops
\* inside a block after at least one packet, and it fails only on a malformed
\* block or a file that holds no whole packet.
OutcomeExact ==
    \A r \in Readers :
        LET f == Blocks(r)
            s == reader[r]
            whole == Packets(f, Opened(r))
        IN  /\ s.pc \in {"end", "truncated"} => whole \subseteq {s.yield[k].block : k \in DOMAIN s.yield}
            /\ s.pc = "truncated" => s.tail /\ s.yield # <<>>
            /\ s.pc = "end" /\ disk[r] = Opened(r) => Boundary(f, disk[r])
            /\ s.pc = "truncated" /\ disk[r] = Opened(r) => ~Boundary(f, disk[r])
            /\ s.pc = "error" => \/ whole = {}
                               \/ \E i \in DOMAIN f : Faulty(f, i) /\ Start(f, i) < disk[r]

\* What a reader returns, and how it ends, is what its file holds (RecordsExact,
\* OutcomeExact).
ReadExact == RecordsExact /\ OutcomeExact

\* While the percentage is known, the shared count is what the readers have
\* published, a reader that reached its end has published all it consumed, and
\* each file is completed exactly once; 100% shows only once every input has
\* been read to its end.
ProgressExact ==
    LET ended == {r \in Readers : reader[r].pc \in {"end", "truncated"}} IN
    /\ TypeOK
    /\ Percentage(progress) = 1000 => ended = Readers
    /\ Enabled =>
         /\ progress.consumed = SumFunction([r \in Readers |-> reader[r].published])
         /\ \A r \in ended : reader[r].published = reader[r].position
         /\ progress.completed = Cardinality(ended)

\* A known percentage never falls, and once unknown it stays unknown.
NeverBackwards == [][progress'.known => progress.known /\ Percentage(progress') >= Percentage(progress)]_vars

\* Every reader stops, however its file was cut or grows.
ReadersStop == <>(\A r \in Readers : reader[r].pc \in Stopped)
============================================================================
