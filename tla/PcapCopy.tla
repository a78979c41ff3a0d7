------------------------------ MODULE PcapCopy ------------------------------
(***************************************************************************)
(* COPY ... TO (FORMAT PCAP): PcapCopyGlobal stages an export next to its  *)
(* destination, PcapWriter encodes the rows, and Publish patches, syncs,   *)
(* closes and renames.  Each call to the operating system is a step that   *)
(* may be short or fail, statements with one destination run side by side, *)
(* a prepared statement runs again under the same staging name, and the    *)
(* machine may crash between any two steps.  Publish syncs the file and    *)
(* not its directory: after a crash a name may be back at a file it        *)
(* referred to earlier.                                                    *)
(*                                                                         *)
(* A file is a sequence of units: the magic number, the snaplen and the    *)
(* link type of the global header, the header of a record, and each byte   *)
(* of its payload.                                                         *)
(***************************************************************************)
EXTENDS Integers, Sequences, FiniteSets

\* A row of the query, with the size of its packet_data.
Rows == [null : BOOLEAN, stamp : Int, captured : Nat, original : Nat, link : Nat, size : Nat]

CONSTANTS
    Copies,         \* COPY statements with the same destination
    Plans,          \* what they may be: for each, link type, SNAPLEN or 0, rows
    MaxStamp,       \* largest timestamp whose seconds fit 32 bits
    MaxBytes,       \* largest value of the 64-bit byte counter
    ChunkSize,      \* WRITE_CHUNK_SIZE
    MaxRuns,        \* bound: executions of one statement
    MaxCrashes      \* bound: crashes of the machine

ASSUME CopyAssumption ==
    /\ MaxStamp \in Nat /\ MaxBytes \in Nat /\ ChunkSize \in Nat \ {0}
    /\ MaxRuns \in Nat /\ MaxCrashes \in Nat
    /\ \A p \in Plans : \A c \in Copies : p[c].rows \in Seq(Rows)
    /\ "destination" \notin Copies

VARIABLES
    plan,       \* plan[c]: PcapCopyBind of statement c, and the rows of its query
    copy,       \* copy[c]: PcapCopyGlobal and its PcapWriter
    names,      \* the directory: the file each name refers to
    past,       \* past[n]: the files a crash may leave name n at
    content,    \* content[f]: what a reader of file f sees
    synced,     \* synced[f]: what a crash leaves of file f at least
    crashes     \* crashes so far

vars == <<plan, copy, names, past, content, synced, crashes>>

Smaller(a, b) == IF a < b THEN a ELSE b
Larger(a, b) == IF a < b THEN b ELSE a

----------------------------------------------------------------------------
(* Files.  An execution creates one file; two more stand for what is at    *)
(* the destination beforehand: a file of somebody else's, or none.         *)

None == <<"none", 0>>
Earlier == <<"earlier", 0>>
Created == Copies \X (1 .. MaxRuns)
Files == Created \cup {None, Earlier}

Destination == "destination"
Stage(c) == c
Names == Copies \cup {Destination}

\* A change of the directory: nobody syncs it, so the disk may be behind.
Relink(new) ==
    /\ names' = new
    /\ past' = [n \in Names |-> past[n] \cup {new[n]}]

Unit(kind, row, n) == [kind |-> kind, row |-> row, n |-> n]

\* The file after units were written at an offset.
Overwrite(file, offset, units) ==
    [i \in 1 .. Larger(Len(file), offset + Len(units)) |->
        IF i > offset /\ i <= offset + Len(units) THEN units[i - offset] ELSE file[i]]

----------------------------------------------------------------------------
(* PcapWriter.                                                             *)

HeaderSize == 3
SnaplenAt == 1

Captured(p, row) == p.rows[row].captured
HasSnaplen(p) == p.snaplen > 0

Header(p, snaplen) ==
    <<Unit("magic", 0, 0), Unit("snaplen", 0, snaplen), Unit("link", 0, p.link)>>
RecordHeader(row) == <<Unit("record", row, 0)>>
Payload(p, row) == [i \in 1 .. Captured(p, row) |-> Unit("data", row, i)]

\* WriteAll returns at once for an empty buffer.
Buffers(p, row) ==
    <<RecordHeader(row)>> \o (IF Captured(p, row) = 0 THEN <<>> ELSE <<Payload(p, row)>>)

\* The rows WritePacket accepts, and Sink before it: no NULL, a timestamp of
\* unsigned 32-bit seconds, the output's link type, lengths that agree with
\* each other, with the payload and with SNAPLEN, and room in the counter.
Accepts(c, row) ==
    LET p == plan[c].rows[row] IN
    /\ ~p.null
    /\ p.stamp >= 0 /\ p.stamp <= MaxStamp
    /\ p.link = plan[c].link
    /\ p.captured <= p.original
    /\ p.captured = p.size
    /\ HasSnaplen(plan[c]) => p.captured <= plan[c].snaplen
    /\ copy[c].bytes + 1 + p.captured <= MaxBytes

\* Snaplen() while no packet was written; maximum_capture starts at 1.
InitialSnaplen(p) == IF HasSnaplen(p) THEN p.snaplen ELSE 1

----------------------------------------------------------------------------
(* PcapCopyGlobal.                                                         *)

\* A statement with no file; `left' notes a staging file it had to leave.
Rest(phase, run, left) ==
    [phase |-> phase, run |-> run, row |-> 0, out |-> <<>>, offset |-> 0, owned |-> FALSE,
     state |-> "open", maximum |-> 1, bytes |-> HeaderSize, left |-> left]
Idle == Rest("idle", 0, FALSE)

Ended == {"failed", "published"}
Active == {"header", "rows", "packet", "rewind", "patch", "restore", "sync", "close", "move"}
File(c) == <<c, copy[c].run>>
Running == {c \in Copies : copy[c].phase \in Active}

Update(c, s) == copy' = [copy EXCEPT ![c] = s]

\* A statement that is over.
Over(c, phase, left) == Rest(phase, copy[c].run, copy[c].left \/ left)

\* A connection executes one statement at a time, and a prepared one again.
MayStart(c) == copy[c].phase \in Ended \cup {"idle"} /\ copy[c].run < MaxRuns
Fresh(c, phase) == Rest(phase, copy[c].run + 1, copy[c].left)

\* InitializeGlobal: the destination is acceptable and the staging file is
\* created exclusively; the writer's constructor then writes the header.
Start(c) ==
    /\ MayStart(c)
    /\ names[Stage(c)] = None
    /\ LET f == <<c, copy[c].run + 1>> IN
       /\ Relink([names EXCEPT ![Stage(c)] = f])
       /\ content' = [content EXCEPT ![f] = <<>>]
       /\ synced' = [synced EXCEPT ![f] = <<>>]
    /\ Update(c, [Fresh(c, "header") EXCEPT !.owned = TRUE,
                                            !.out = <<Header(plan[c], InitialSnaplen(plan[c]))>>])
    /\ UNCHANGED <<plan, crashes>>

\* Mutant of Refuse: the staging name is taken for owned before it was created.
RefuseRemoves(c) ==
    /\ MayStart(c)
    /\ Relink([names EXCEPT ![Stage(c)] = None])
    /\ Update(c, Fresh(c, "failed"))
    /\ UNCHANGED <<plan, content, synced, crashes>>

\* ValidateDestination, the access check or the exclusive creation fails.
Refuse(c) ==
    /\ MayStart(c)
    /\ Update(c, Fresh(c, "failed"))
    /\ UNCHANGED <<plan, names, past, content, synced, crashes>>

\* Mutant of Written: the largest length is not kept.
WrittenUnmeasured(c, s) == [s EXCEPT !.bytes = @ + 1 + Captured(plan[c], s.row)]

\* WritePacket after its two buffers.
Written(c, s) ==
    [s EXCEPT !.maximum = Larger(@, Captured(plan[c], s.row)), !.bytes = @ + 1 + Captured(plan[c], s.row)]

\* What follows when the last buffer is out.
AllOut(c, s) ==
    CASE s.phase = "header" -> [s EXCEPT !.phase = "rows"]
      [] s.phase = "packet" -> [Written(c, s) EXCEPT !.phase = "rows"]
      [] s.phase = "patch"  -> [s EXCEPT !.phase = "restore"]

\* What WriteAll still has to write after n units of the first buffer went out.
Unwritten(out, n) ==
    IF n = Len(Head(out)) THEN Tail(out)
    ELSE <<SubSeq(Head(out), n + 1, Len(Head(out)))>> \o Tail(out)

\* What a call of Write may return for a buffer: at most a chunk, and possibly
\* less; nothing at all is a failure.
Counts(size) == 1 .. Smaller(size, ChunkSize)

\* One call of Write.
Write(c) ==
    /\ copy[c].phase \in {"header", "packet", "patch"}
    /\ LET s == copy[c]
           first == Head(s.out)
       IN  \E n \in Counts(Len(first)) :
             LET more == [s EXCEPT !.out = Unwritten(s.out, n), !.offset = @ + n] IN
             /\ content' = [content EXCEPT ![File(c)] = Overwrite(@, s.offset, SubSeq(first, 1, n))]
             /\ Update(c, IF more.out = <<>> THEN AllOut(c, more) ELSE more)
    /\ UNCHANGED <<plan, names, past, synced, crashes>>

\* Sink with the next row, and WritePacket up to its first write.
Sink(c) ==
    /\ copy[c].phase = "rows" /\ copy[c].state = "open"
    /\ copy[c].row < Len(plan[c].rows)
    /\ LET row == copy[c].row + 1 IN
       /\ Accepts(c, row)
       /\ Update(c, [copy[c] EXCEPT !.phase = "packet", !.row = row, !.out = Buffers(plan[c], row)])
    /\ UNCHANGED <<plan, names, past, content, synced, crashes>>

\* Publish after the last row: Finish has a snaplen to patch, or is done.
Finish(c) ==
    /\ copy[c].phase = "rows" /\ copy[c].state = "open"
    /\ copy[c].row = Len(plan[c].rows)
    /\ Update(c, IF HasSnaplen(plan[c]) THEN [copy[c] EXCEPT !.phase = "sync", !.state = "finished"]
                 ELSE [copy[c] EXCEPT !.phase = "rewind"])
    /\ UNCHANGED <<plan, names, past, content, synced, crashes>>

\* The two calls of Seek in Finish.
Seek(c) ==
    /\ \/ /\ copy[c].phase = "rewind"
          /\ Update(c, [copy[c] EXCEPT !.phase = "patch", !.offset = SnaplenAt,
                            !.out = <<<<Unit("snaplen", 0, copy[c].maximum)>>>>])
       \/ /\ copy[c].phase = "restore"
          /\ Update(c, [copy[c] EXCEPT !.phase = "sync", !.offset = copy[c].bytes,
                            !.state = "finished"])
    /\ UNCHANGED <<plan, names, past, content, synced, crashes>>

\* fsync of the staging file; EINTR repeats it.
Sync(c) ==
    /\ copy[c].phase = "sync"
    /\ synced' = [synced EXCEPT ![File(c)] = content[File(c)]]
    /\ Update(c, [copy[c] EXCEPT !.phase = "close"])
    /\ UNCHANGED <<plan, names, past, content, crashes>>

Close(c) ==
    /\ copy[c].phase = "close"
    /\ Update(c, [copy[c] EXCEPT !.phase = "move"])
    /\ UNCHANGED <<plan, names, past, content, synced, crashes>>

\* The destination is still acceptable and MoveFile replaces it; the
\* destructor then has nothing to remove.
Move(c) ==
    /\ copy[c].phase = "move"
    /\ Relink([names EXCEPT ![Destination] = File(c), ![Stage(c)] = None])
    /\ Update(c, Over(c, "published", FALSE))
    /\ UNCHANGED <<plan, content, synced, crashes>>

\* Mutant of Unwind: the staging file is kept.
UnwindKeeps(c) ==
    /\ Update(c, Over(c, "failed", FALSE))
    /\ UNCHANGED <<plan, names, past, content, synced, crashes>>

\* An exception leaves the statement: the destructor closes the descriptor and
\* removes an owned staging file, if the file system lets it.  What a removed
\* file held is forgotten: should a crash bring back its staging name, no
\* property speaks of what is found there.
Unwind(c) ==
    /\ \E removed \in BOOLEAN :
         /\ Relink([names EXCEPT ![Stage(c)] = IF removed THEN None ELSE @])
         /\ content' = [content EXCEPT ![File(c)] = IF removed THEN <<>> ELSE @]
         /\ synced' = [synced EXCEPT ![File(c)] = IF removed THEN <<>> ELSE @]
         /\ Update(c, Over(c, "failed", ~removed))
    /\ UNCHANGED <<plan, crashes>>

\* A row that Sink or WritePacket refuses.
Reject(c) ==
    /\ copy[c].phase = "rows" /\ copy[c].row < Len(plan[c].rows)
    /\ ~Accepts(c, copy[c].row + 1)
    /\ Unwind(c)

\* The query is interrupted or its source fails, or a call fails: a write, a
\* seek, the sync, the close, the check of the destination or the rename.
Fail(c) == copy[c].phase \in Active /\ Unwind(c)

\* The machine stops: statements are gone without their destructors, of a
\* file that was not synced the last writes may be missing, and a name is back
\* at any file it has referred to.
Crash ==
    /\ crashes < MaxCrashes
    /\ crashes' = crashes + 1
    /\ \E disk \in [Names -> Files] :
         /\ \A n \in Names : disk[n] \in past[n]
         /\ names' = disk /\ past' = [n \in Names |-> {disk[n]}]
         /\ copy' = [c \in Copies |-> Over(c, "crashed", disk[Stage(c)] # None)]
    /\ \E lost \in SUBSET {f \in Created : content[f] # synced[f]} :
         content' = [f \in Files |-> IF f \in lost THEN synced[f] ELSE content[f]]
    /\ UNCHANGED <<plan, synced>>

Init ==
    /\ plan \in Plans
    /\ copy = [c \in Copies |-> Idle]
    /\ \E before \in {None, Earlier} :
         names = [n \in Names |-> IF n = Destination THEN before ELSE None]
    /\ past = [n \in Names |-> {names[n]}]
    /\ content = [f \in Files |-> IF f = Earlier THEN <<Unit("earlier", 0, 0)>> ELSE <<>>]
    /\ synced = content
    /\ crashes = 0

Next ==
    \/ \E c \in Copies : Start(c)
    \/ \E c \in Copies : Refuse(c)
    \/ \E c \in Copies : Write(c)
    \/ \E c \in Copies : Sink(c)
    \/ \E c \in Copies : Finish(c)
    \/ \E c \in Copies : Seek(c)
    \/ \E c \in Copies : Sync(c)
    \/ \E c \in Copies : Close(c)
    \/ \E c \in Copies : Move(c)
    \/ \E c \in Copies : Reject(c)
    \/ \E c \in Copies : Fail(c)
    \/ Crash

Spec == Init /\ [][Next]_vars

----------------------------------------------------------------------------
(* Properties.                                                             *)

\* Every variable keeps its type: a statement has something to write exactly
\* in the phases that write, and owns its staging file exactly while it runs.
TypeOK ==
    /\ plan \in Plans
    /\ names \in [Names -> Files] /\ past \in [Names -> SUBSET Files] /\ crashes \in 0 .. MaxCrashes
    /\ DOMAIN content = Files /\ DOMAIN synced = Files
    /\ \A c \in Copies : LET s == copy[c] IN
         /\ DOMAIN s = DOMAIN Idle
         /\ s.phase \in Active \cup Ended \cup {"idle", "crashed"}
         /\ s.state \in {"open", "finished"} /\ s.left \in BOOLEAN
         /\ s.run \in 0 .. MaxRuns /\ s.row \in 0 .. Len(plan[c].rows)
         /\ s.phase \in {"header", "packet", "patch"} <=> s.out # <<>>
         /\ s.phase \in Active <=> s.owned

\* The capture that a plan stands for: its rows in order, under a header whose
\* snaplen is SNAPLEN or the largest captured length, and at least 1.
Image(p) ==
    LET rows == DOMAIN p.rows
        records[i \in 0 .. Len(p.rows)] ==
            IF i = 0 THEN <<>> ELSE records[i - 1] \o RecordHeader(i) \o Payload(p, i)
        largest == CHOOSE n \in {1} \cup {Captured(p, i) : i \in rows} :
                       n >= 1 /\ \A i \in rows : n >= Captured(p, i)
    IN  Header(p, IF HasSnaplen(p) THEN p.snaplen ELSE largest) \o records[Len(p.rows)]

\* The refinement mapping to the export's promise.
Promise == INSTANCE PcapExport
    WITH Before <- {<<>>, <<Unit("earlier", 0, 0)>>}, Images <- UNION {{Image(p[c]) : c \in Copies} : p \in Plans},
         image <- [c \in Copies |-> Image(plan[c])],
         destination <- content[names[Destination]], running <- Running,
         held <- {content[f] : f \in past[Destination]}

\* The export keeps its promise: at every moment the destination holds what it
\* held before or the whole capture of a statement that succeeded, whatever
\* fails, is cut short or runs beside it; after a crash it holds one of those
\* again, the latest or an earlier one, and never a part of a capture.
Published == Promise!Spec

\* A statement replaces or removes only a staging file it created itself: one
\* left behind under its staging name is neither truncated nor removed.  (What a
\* crash leaves of the directory is no statement's doing.)
OwnFilesOnly ==
    [][\A c \in Copies : crashes' = crashes /\ names[Stage(c)] # None /\ names'[Stage(c)] # names[Stage(c)]
            => copy[c].owned /\ names[Stage(c)] = File(c) /\ names'[Stage(c)] = None]_vars

\* A statement that has ended leaves no staging file, unless the file system
\* refused to remove it or the machine crashed.
StageGone ==
    /\ TypeOK
    /\ \A c \in Copies : names[Stage(c)] # None =>
         copy[c].left \/ (copy[c].owned /\ names[Stage(c)] = File(c))

============================================================================
