--------------------------- MODULE PcapCopyProofs ---------------------------
(***************************************************************************)
(* For every set of statements, every plan and all limits: a statement     *)
(* leaves no staging file that it could remove, touches no staging file    *)
(* but its own, and the destination's content changes only when a          *)
(* statement publishes a file that is complete and synced, or a crash      *)
(* brings back a file that the destination held.                           *)
(*                                                                         *)
(* The argument follows one file from its creation: while its statement    *)
(* runs, the staging name refers to it and the destination does not and    *)
(* never did; once it is the destination's, no statement writes to it any  *)
(* more, so that it is whole whenever a crash brings it back.              *)
(***************************************************************************)
EXTENDS PcapCopy, TLAPS

Phases == Active \cup Ended \cup {"idle", "crashed"}
Writing == {"header", "packet", "patch"}
Publishing == {"rewind", "patch", "restore", "sync", "close", "move"}
Complete == {"sync", "close", "move"}

\* The fields of a statement: what is left to write, and where, is not restricted.
IsState(s) ==
    s \in [phase : Phases, run : 0 .. MaxRuns, row : Nat, out : {s.out}, offset : {s.offset}, owned : BOOLEAN,
           state : {"open", "finished"}, maximum : {s.maximum}, bytes : {s.bytes}, left : BOOLEAN]

\* The state of a statement with n rows.
StateOK(s, n) ==
    /\ IsState(s)
    /\ s.phase \in Writing <=> s.out # <<>>
    /\ s.phase \in Active <=> s.owned
    /\ s.owned => s.run >= 1
    /\ s.row <= n
    /\ s.phase \in Publishing => s.row = n
    /\ s.phase \in Complete => s.state = "finished"

RowCount(c) == Len(plan[c].rows)

Typed ==
    /\ plan \in Plans
    /\ names \in [Names -> Files] /\ crashes \in 0 .. MaxCrashes
    /\ past \in [Names -> SUBSET Files] /\ \A n \in Names : names[n] \in past[n]
    /\ content = [f \in Files |-> content[f]] /\ synced = [f \in Files |-> synced[f]]
    /\ copy = [c \in Copies |-> copy[c]]
    /\ \A c \in Copies : StateOK(copy[c], RowCount(c))

\* The staging name of a running statement refers to its file; of another, to one it left.
Staged(c) ==
    /\ copy[c].owned => names[Stage(c)] = File(c)
    /\ names[Stage(c)] # None => copy[c].owned \/ copy[c].left
    /\ copy[c].phase \in {"close", "move"} => synced[File(c)] = content[File(c)]

\* A file that was at the destination is synced, and is not one that a statement writes or will create.
Settled(f) ==
    /\ synced[f] = content[f]
    /\ \A c \in Copies : \A r \in Nat : f = <<c, r>> /\ r >= 1 =>
         r <= copy[c].run /\ (copy[c].owned => r # copy[c].run)

DestinationSettled == \A f \in past[Destination] : Settled(f)

CopyInv ==
    /\ Typed
    /\ \A c \in Copies : Staged(c)
    /\ DestinationSettled

-----------------------------------------------------------------------------
(* States a statement moves to. *)

\* The number of rows of a plan is a number.
LEMMA RowCountNat ==
    ASSUME Typed, NEW c \in Copies
    PROVE  RowCount(c) \in Nat
BY CopyAssumption DEF Typed, RowCount

\* A statement that has not begun, or is over, has nothing to write and owns nothing.
LEMMA RestOK ==
    ASSUME NEW n \in Nat, NEW run \in 0 .. MaxRuns, NEW left \in BOOLEAN,
           NEW phase \in Ended \cup {"idle", "crashed"}
    PROVE  StateOK(Rest(phase, run, left), n)
BY DEF StateOK, IsState, Rest, Phases, Active, Ended, Writing, Publishing, Complete

\* A statement that has created its staging file.
LEMMA StartOK ==
    ASSUME NEW n \in Nat, NEW run \in 1 .. MaxRuns, NEW left \in BOOLEAN, NEW out, out # <<>>
    PROVE  StateOK([Rest("header", run, left) EXCEPT !.owned = TRUE, !.out = out], n)
<1>1. PICK r : r = Rest("header", run, left)
  OBVIOUS
<1>2. IsState(r) /\ r.phase = "header" /\ r.row = 0 /\ r.run = run
  BY <1>1, CopyAssumption DEF IsState, Rest, Phases, Active
<1>3. PICK s : s = [r EXCEPT !.owned = TRUE, !.out = out]
  OBVIOUS
<1>4. /\ s.owned = TRUE /\ s.out = out
      /\ s.phase = "header" /\ s.row = 0 /\ s.run = run
  BY <1>2, <1>3 DEF IsState
<1>5. s.offset = r.offset /\ s.maximum = r.maximum /\ s.bytes = r.bytes
  BY <1>2, <1>3 DEF IsState
<1>6. IsState(s)
  BY <1>2, <1>3, <1>4, <1>5, Zenon DEF IsState
<1>7. StateOK(s, n)
  BY <1>4, <1>6 DEF StateOK, Active, Writing, Publishing, Complete
<1> QED BY <1>1, <1>3, <1>7

\* A running statement goes on: t follows s and keeps the file.
Continues(s, t, n) ==
    StateOK(t, n) /\ s.owned /\ t.owned /\ t.run = s.run /\ t.left = s.left

\* The next buffer goes out, in part or in full; AllOut follows the last.
Advanced(s, out, offset) == [s EXCEPT !.out = out, !.offset = offset]

\* A write moves on through the buffers and leaves the rest of the state.
LEMMA OutOK ==
    ASSUME NEW n \in Nat, NEW s, StateOK(s, n), s.phase \in Writing, NEW out, NEW offset,
           NEW t, t = Advanced(s, out, offset)
    PROVE  /\ IsState(t) /\ t.out = out /\ t.phase = s.phase /\ t.row = s.row
           /\ t.run = s.run /\ t.left = s.left /\ t.owned /\ s.owned
<1> USE DEF Advanced
<1>1. IsState(s) /\ s.owned
  BY DEF StateOK, Writing, Active
<1>2. /\ t.out = out /\ t.phase = s.phase /\ t.row = s.row
      /\ t.run = s.run /\ t.left = s.left /\ t.owned = s.owned
  BY <1>1, Zenon DEF IsState
<1>3. /\ t.offset = offset /\ t.maximum = s.maximum
      /\ t.bytes = s.bytes /\ t.state = s.state
  BY <1>1 DEF IsState
<1>4. IsState(t)
  BY <1>1, <1>2, <1>3, Zenon DEF IsState
<1> QED BY <1>1, <1>2, <1>4

\* A step that changes the phase alone.
LEMMA PhaseOK ==
    ASSUME NEW s, IsState(s), NEW phase \in Phases
    PROVE  LET t == [s EXCEPT !.phase = phase]
           IN  /\ IsState(t) /\ t.phase = phase /\ t.out = s.out /\ t.row = s.row
               /\ t.state = s.state /\ t.run = s.run /\ t.left = s.left /\ t.owned = s.owned
BY DEF IsState

\* WritePacket after its buffers: only the largest length and the bytes written change.
LEMMA WrittenOK ==
    ASSUME NEW c, NEW s, IsState(s)
    PROVE  LET t == Written(c, s)
           IN  /\ IsState(t) /\ t.phase = s.phase /\ t.out = s.out /\ t.row = s.row
               /\ t.run = s.run /\ t.left = s.left /\ t.owned = s.owned
<1> DEFINE maximum == Larger(s.maximum, Captured(plan[c], s.row))
           bytes == s.bytes + 1 + Captured(plan[c], s.row)
<1>1. PICK t : t = [s EXCEPT !.maximum = maximum, !.bytes = bytes]
  OBVIOUS
<1>2. Written(c, s) = t
  BY <1>1 DEF Written
<1> HIDE DEF maximum, bytes
<1>3. /\ t.phase = s.phase /\ t.out = s.out /\ t.row = s.row
      /\ t.run = s.run /\ t.left = s.left /\ t.owned = s.owned
  BY <1>1 DEF IsState
<1>4. /\ t.offset = s.offset /\ t.maximum = maximum
      /\ t.bytes = bytes /\ t.state = s.state
  BY <1>1 DEF IsState
<1>5. IsState(t)
  BY <1>1, <1>3, <1>4, Zenon DEF IsState
<1> QED BY <1>2, <1>3, <1>5

\* AllOut leads from a phase that writes, with nothing left to write, to one that does not.
LEMMA AllOutOK ==
    ASSUME NEW n \in Nat, NEW c, NEW s, IsState(s), s.phase \in Writing, s.out = <<>>,
           s.owned, s.run >= 1, s.row <= n, s.phase \in Publishing => s.row = n
    PROVE  Continues(s, AllOut(c, s), n)
<1>1. CASE s.phase = "header"
  <2>1. AllOut(c, s) = [s EXCEPT !.phase = "rows"]
    BY <1>1 DEF AllOut
  <2>2. "rows" \in Phases
    BY DEF Phases, Active
  <2> QED BY <2>1, <2>2, PhaseOK DEF Continues, StateOK, Active, Writing, Publishing, Complete
<1>2. CASE s.phase = "packet"
  <2>1. AllOut(c, s) = [Written(c, s) EXCEPT !.phase = "rows"]
    BY <1>2 DEF AllOut
  <2>2. "rows" \in Phases
    BY DEF Phases, Active
  <2>3. PICK w : w = Written(c, s)
    OBVIOUS
  <2>4. IsState(w) /\ w.out = s.out /\ w.row = s.row /\ w.run = s.run /\ w.left = s.left /\ w.owned = s.owned
    BY <2>3, WrittenOK, Zenon
  <2>5. Continues(s, [w EXCEPT !.phase = "rows"], n)
    BY <2>2, <2>4, PhaseOK, ZenonT(60) DEF Continues, StateOK, Active, Writing, Publishing, Complete
  <2> QED BY <2>1, <2>3, <2>5
<1>3. CASE s.phase = "patch"
  <2>1. AllOut(c, s) = [s EXCEPT !.phase = "restore"]
    BY <1>3 DEF AllOut
  <2>2. "restore" \in Phases
    BY DEF Phases, Active
  <2> QED BY <1>3, <2>1, <2>2, PhaseOK DEF Continues, StateOK, Active, Writing, Publishing, Complete
<1> QED BY <1>1, <1>2, <1>3 DEF Writing

\* WriteAll ends in the phase its caller goes on with.
LEMMA AllOutPhase ==
    ASSUME NEW c, NEW s, IsState(s), s.phase \in Writing
    PROVE  AllOut(c, s).phase \in {"rows", "restore"}
<1>1. IsState(Written(c, s))
  BY WrittenOK
<1>2. "rows" \in Phases /\ "restore" \in Phases
  BY DEF Phases, Active
<1>3. [Written(c, s) EXCEPT !.phase = "rows"].phase = "rows"
  BY <1>1, <1>2, PhaseOK
<1>4. [s EXCEPT !.phase = "rows"].phase = "rows" /\ [s EXCEPT !.phase = "restore"].phase = "restore"
  BY <1>2, PhaseOK
<1> QED BY <1>3, <1>4 DEF AllOut, Writing

\* Sink takes the next row, and Finish the last.
LEMMA SinkOK ==
    ASSUME NEW n \in Nat, NEW s, StateOK(s, n), s.phase = "rows", s.row < n, NEW out, out # <<>>
    PROVE  Continues(s, [s EXCEPT !.phase = "packet", !.row = s.row + 1, !.out = out], n)
<1> DEFINE row == s.row + 1
<1>1. PICK t : t = [s EXCEPT !.phase = "packet", !.row = row, !.out = out]
  OBVIOUS
<1>2. IsState(s) /\ s.owned /\ s.run >= 1 /\ row \in Nat /\ row <= n
  BY DEF StateOK, IsState, Active
<1> HIDE DEF row
<1>3. /\ t.phase = "packet" /\ t.out = out /\ t.row = row
      /\ t.run = s.run /\ t.left = s.left /\ t.owned = s.owned
  BY <1>1, <1>2, Zenon DEF IsState
<1>4. /\ t.offset = s.offset /\ t.maximum = s.maximum
      /\ t.bytes = s.bytes /\ t.state = s.state
  BY <1>1, <1>2 DEF IsState
<1>5. "packet" \in Phases
  BY DEF Phases, Active
<1>6. IsState(t)
  BY <1>1, <1>2, <1>3, <1>4, <1>5, Zenon DEF IsState
<1>7. Continues(s, t, n)
  BY <1>2, <1>3, <1>6 DEF Continues, StateOK, Active, Writing, Publishing, Complete
<1> QED BY <1>1, <1>7 DEF row

\* Every record is out and SNAPLEN was given: the header needs no patch.
LEMMA FinishedOK ==
    ASSUME NEW n \in Nat, NEW s, StateOK(s, n), s.phase = "rows", s.row = n
    PROVE  Continues(s, [s EXCEPT !.phase = "sync", !.state = "finished"], n)
<1>1. PICK t : t = [s EXCEPT !.phase = "sync", !.state = "finished"]
  OBVIOUS
<1>2. IsState(s) /\ s.owned /\ s.run >= 1 /\ s.out = <<>>
  BY DEF StateOK, Active, Writing
<1>3. /\ t.phase = "sync" /\ t.out = s.out /\ t.row = s.row /\ t.state = "finished"
      /\ t.run = s.run /\ t.left = s.left /\ t.owned = s.owned
  BY <1>1, <1>2, Zenon DEF IsState
<1>4. "sync" \in Phases
  BY DEF Phases, Active
<1>5. IsState(t)
  BY <1>1, <1>2, <1>4, Zenon DEF IsState
<1>6. Continues(s, t, n)
  BY <1>2, <1>3, <1>5 DEF Continues, StateOK, Active, Writing, Publishing, Complete
<1> QED BY <1>1, <1>6

\* The two calls of Seek.
LEMMA RewindOK ==
    ASSUME NEW n \in Nat, NEW s, StateOK(s, n), s.phase = "rewind", NEW offset, NEW out, out # <<>>
    PROVE  Continues(s, [s EXCEPT !.phase = "patch", !.offset = offset, !.out = out], n)
<1>1. PICK t : t = [s EXCEPT !.phase = "patch", !.offset = offset, !.out = out]
  OBVIOUS
<1>2. IsState(s) /\ s.owned /\ s.run >= 1 /\ s.row = n
  BY DEF StateOK, Active, Publishing
<1>3. /\ t.phase = "patch" /\ t.out = out /\ t.row = s.row
      /\ t.run = s.run /\ t.left = s.left /\ t.owned = s.owned
  BY <1>1, <1>2, Zenon DEF IsState
<1>4. /\ t.offset = offset /\ t.maximum = s.maximum
      /\ t.bytes = s.bytes /\ t.state = s.state
  BY <1>1, <1>2 DEF IsState
<1>5. "patch" \in Phases
  BY DEF Phases, Active
<1>6. IsState(t)
  BY <1>1, <1>2, <1>3, <1>4, <1>5, Zenon DEF IsState
<1>7. Continues(s, t, n)
  BY <1>2, <1>3, <1>6 DEF Continues, StateOK, Active, Writing, Publishing, Complete
<1> QED BY <1>1, <1>7

\* The second seek of the snaplen patch, back to the end of the file.
LEMMA RestoreOK ==
    ASSUME NEW n \in Nat, NEW s, StateOK(s, n), s.phase = "restore", NEW offset
    PROVE  Continues(s, [s EXCEPT !.phase = "sync", !.offset = offset, !.state = "finished"], n)
<1>1. PICK t : t = [s EXCEPT !.phase = "sync", !.offset = offset, !.state = "finished"]
  OBVIOUS
<1>2. IsState(s) /\ s.owned /\ s.run >= 1 /\ s.row = n /\ s.out = <<>>
  BY DEF StateOK, Active, Writing, Publishing, Complete
<1>3. /\ t.phase = "sync" /\ t.out = s.out /\ t.row = s.row
      /\ t.run = s.run /\ t.left = s.left /\ t.owned = s.owned
  BY <1>1, <1>2, Zenon DEF IsState
<1>4. /\ t.offset = offset /\ t.maximum = s.maximum
      /\ t.bytes = s.bytes /\ t.state = "finished"
  BY <1>1, <1>2 DEF IsState
<1>5. "sync" \in Phases
  BY DEF Phases, Active
<1>6. IsState(t)
  BY <1>1, <1>2, <1>3, <1>4, <1>5, Zenon DEF IsState
<1>7. Continues(s, t, n)
  BY <1>2, <1>3, <1>4, <1>6 DEF Continues, StateOK, Active, Writing, Publishing, Complete
<1> QED BY <1>1, <1>7

-----------------------------------------------------------------------------
(* Files. *)

\* The file of a running statement is one that executions create, and no other's.
LEMMA OwnFile ==
    ASSUME CopyInv, NEW c \in Copies, copy[c].owned
    PROVE  /\ copy[c].run \in 1 .. MaxRuns
           /\ File(c) \in Created
           /\ File(c) # None
           /\ File(c) \notin past[Destination]
           /\ \A d \in Copies : d # c => File(c) # File(d)
<1>1. copy[c].run \in 1 .. MaxRuns
  BY CopyAssumption DEF CopyInv, Typed, StateOK, IsState
<1>2. File(c) \notin past[Destination]
  BY <1>1 DEF CopyInv, DestinationSettled, Settled, File
<1> QED BY <1>1, <1>2 DEF File, Created, None

\* The names are distinct.
LEMMA NamesDistinct ==
    ASSUME NEW c \in Copies
    PROVE  Stage(c) \in Names /\ Destination \in Names /\ Stage(c) # Destination
BY CopyAssumption DEF Stage, Names, Destination

\* A change of the directory leaves every name where it is or at a file it referred to.
LEMMA RelinkFacts ==
    ASSUME CopyInv, NEW new \in [Names -> Files], Relink(new)
    PROVE  /\ names' = new /\ past' \in [Names -> SUBSET Files]
           /\ \A n \in Names : names'[n] \in past'[n]
           /\ past'[Destination] = past[Destination] \cup {names'[Destination]}
<1>1. names' = new /\ past' = [n \in Names |-> past[n] \cup {new[n]}] /\ Destination \in Names
  BY DEF Relink, Names
<1> QED BY <1>1 DEF CopyInv, Typed

\* A running statement goes on and touches its own file only.
LEMMA ContinueInv ==
    ASSUME CopyInv, NEW c \in Copies, NEW t, Update(c, t), Continues(copy[c], t, RowCount(c)),
           UNCHANGED <<plan, names, past, crashes>>,
           content' = [f \in Files |-> content'[f]], synced' = [f \in Files |-> synced'[f]],
           \A f \in Files : f # File(c) => content'[f] = content[f] /\ synced'[f] = synced[f],
           t.phase \in {"close", "move"} => synced'[File(c)] = content'[File(c)]
    PROVE  CopyInv'
<1>1. /\ copy'[c] = t
      /\ \A d \in Copies : d # c => copy'[d] = copy[d]
      /\ copy' = [d \in Copies |-> copy'[d]]
  BY DEF CopyInv, Typed, Update
<1>2. \A d \in Copies : copy'[d].run = copy[d].run /\ copy'[d].owned = copy[d].owned /\ copy'[d].left = copy[d].left
  BY <1>1, SMTT(30) DEF Continues, StateOK, IsState, CopyInv, Typed
<1>3. \A d \in Copies : File(d)' = File(d)
  BY <1>2 DEF File
<1>4. Typed'
  <2>1. \A d \in Copies : RowCount(d)' = RowCount(d)
    BY DEF RowCount
  <2>2. \A d \in Copies : StateOK(copy'[d], RowCount(d)')
    BY <1>1, <2>1 DEF Continues, CopyInv, Typed
  <2> QED BY <1>1, <2>2 DEF CopyInv, Typed
<1>5. \A d \in Copies : Staged(d)'
  <2>1. ASSUME NEW d \in Copies
        PROVE  Staged(d)'
    <3>1. Staged(d)
      BY DEF CopyInv
    <3>2. CASE d = c
      BY <1>1, <1>2, <1>3, <3>1, <3>2 DEF Staged, Continues
    <3>3. CASE d # c
      <4>1. copy[d].phase \in {"close", "move"} => File(d) \in Files /\ File(d) # File(c)
        BY <3>3, OwnFile DEF CopyInv, Typed, StateOK, Active, Files, Continues
      <4> QED BY <1>1, <1>2, <1>3, <3>1, <3>3, <4>1 DEF Staged
    <3> QED BY <3>2, <3>3
  <2> QED BY <2>1
<1>6. DestinationSettled'
  <2>1. \A f \in past[Destination] : f \in Files /\ f # File(c)
    BY OwnFile, NamesDistinct DEF CopyInv, Typed, Continues
  <2> QED BY <1>2, <2>1 DEF CopyInv, DestinationSettled, Settled
<1> QED BY <1>4, <1>5, <1>6 DEF CopyInv

\* A statement begins or is over: s is its new state, and the files at the destination and of
\* the other statements are as they were.
LEMMA OtherInv ==
    ASSUME CopyInv, NEW c \in Copies, NEW s, Update(c, s), StateOK(s, RowCount(c)),
           s.run >= copy[c].run, s.owned => s.run > copy[c].run,
           UNCHANGED <<plan, crashes>>, names' \in [Names -> Files],
           past' \in [Names -> SUBSET Files], \A n \in Names : names'[n] \in past'[n],
           \A d \in Copies : d # c => names'[Stage(d)] = names[Stage(d)],
           content' = [f \in Files |-> content'[f]], synced' = [f \in Files |-> synced'[f]],
           \A d \in Copies : d # c /\ copy[d].owned =>
               content'[File(d)] = content[File(d)] /\ synced'[File(d)] = synced[File(d)],
           Staged(c)', DestinationSettled'
    PROVE  CopyInv'
<1>1. /\ copy'[c] = s
      /\ \A d \in Copies : d # c => copy'[d] = copy[d]
      /\ copy' = [d \in Copies |-> copy'[d]]
  BY DEF CopyInv, Typed, Update
<1>2. Typed'
  <2>1. \A d \in Copies : RowCount(d)' = RowCount(d)
    BY DEF RowCount
  <2>2. \A d \in Copies : StateOK(copy'[d], RowCount(d)')
    BY <1>1, <2>1 DEF CopyInv, Typed
  <2> QED BY <1>1, <2>2 DEF CopyInv, Typed
<1>3. ASSUME NEW d \in Copies, d # c
      PROVE  Staged(d)'
  <2>1. Staged(d) /\ File(d)' = File(d) /\ copy'[d] = copy[d]
    BY <1>1, <1>3 DEF CopyInv, File
  <2>2. copy[d].phase \in {"close", "move"} => copy[d].owned
    BY DEF CopyInv, Typed, StateOK, Active
  <2> QED BY <1>3, <2>1, <2>2 DEF Staged
<1> QED BY <1>2, <1>3 DEF CopyInv

\* A file that was at the destination stays settled where it is not touched.
LEMMA SettledKept ==
    ASSUME CopyInv, NEW c \in Copies, NEW s, Update(c, s), past'[Destination] = past[Destination],
           s.run \in Nat, s.run >= copy[c].run, s.owned => s.run > copy[c].run,
           \A f \in past[Destination] : content'[f] = content[f] /\ synced'[f] = synced[f]
    PROVE  DestinationSettled'
<1>1. copy'[c] = s /\ \A d \in Copies : d # c => copy'[d] = copy[d]
  BY DEF CopyInv, Typed, Update
<1>2. \A d \in Copies : copy[d].run \in Nat
  BY CopyAssumption DEF CopyInv, Typed, StateOK, IsState
<1> QED BY <1>1, <1>2 DEF CopyInv, DestinationSettled, Settled

-----------------------------------------------------------------------------
(* The invariant. *)

\* No statement has run: nothing is staged.
LEMMA InitInv == Init => CopyInv
<1> SUFFICES ASSUME Init
             PROVE  CopyInv
  OBVIOUS
<1>1. \A c \in Copies : copy[c] = Rest("idle", 0, FALSE)
  BY DEF Init, Idle
<1>2. \A c \in Copies : RowCount(c) \in Nat
  BY CopyAssumption DEF Init, RowCount
<1>3. \A c \in Copies : StateOK(copy[c], RowCount(c))
  <2>1. "idle" \in Ended \cup {"idle", "crashed"} /\ 0 \in 0 .. MaxRuns /\ FALSE \in BOOLEAN
    BY CopyAssumption
  <2>2. \A c \in Copies : StateOK(Rest("idle", 0, FALSE), RowCount(c))
    BY <1>2, <2>1, RestOK, Zenon
  <2> QED BY <1>1, <2>2, Zenon
<1>4. \A c \in Copies : copy[c].owned = FALSE /\ copy[c].phase = "idle" /\ copy[c].run = 0
  BY <1>1 DEF Rest
<1>5. names \in [Names -> Files] /\ names[Destination] \in {None, Earlier}
      /\ \A c \in Copies : names[Stage(c)] = None
  BY NamesDistinct DEF Init, Files, Names, Destination, Stage
<1>9. /\ past \in [Names -> SUBSET Files] /\ \A n \in Names : names[n] \in past[n]
      /\ past[Destination] = {names[Destination]}
  BY <1>5 DEF Init, Names
<1>6. Typed
  BY <1>3, <1>5, <1>9, CopyAssumption DEF Typed, Init
<1>7. \A c \in Copies : Staged(c)
  BY <1>4, <1>5 DEF Staged
<1>8. DestinationSettled
  <2>1. synced[names[Destination]] = content[names[Destination]]
    BY DEF Init
  <2>2. \A c \in Copies : \A r \in Nat : r >= 1 => <<c, r>> # None /\ <<c, r>> # Earlier
    BY DEF None, Earlier
  <2> QED BY <1>5, <1>9, <2>1, <2>2 DEF DestinationSettled, Settled
<1> QED BY <1>6, <1>7, <1>8 DEF CopyInv

\* A statement that may start owns nothing and has an execution left.
LEMMA MayStartFacts ==
    ASSUME CopyInv, NEW c \in Copies, MayStart(c)
    PROVE  /\ copy[c].run \in Nat /\ copy[c].run + 1 \in 1 .. MaxRuns /\ copy[c].left \in BOOLEAN
           /\ RowCount(c) \in Nat /\ ~copy[c].owned
<1>1. StateOK(copy[c], RowCount(c)) /\ RowCount(c) \in Nat
  BY RowCountNat DEF CopyInv, Typed
<1>2. copy[c].run \in 0 .. MaxRuns /\ copy[c].left \in BOOLEAN
  BY <1>1 DEF StateOK, IsState
<1>3. ~copy[c].owned
  BY <1>1 DEF StateOK, MayStart, Ended, Active
<1>4. copy[c].run < MaxRuns
  BY DEF MayStart
<1> QED BY <1>1, <1>2, <1>3, <1>4, CopyAssumption

\* PcapCopyGlobal::Start, and its failure before the staging file exists.
LEMMA StartInv ==
    ASSUME CopyInv, NEW c \in Copies, Start(c)
    PROVE  CopyInv'
<1> DEFINE f == <<c, copy[c].run + 1>>
           header == Header(plan[c], InitialSnaplen(plan[c]))
           s == [Rest("header", copy[c].run + 1, copy[c].left) EXCEPT !.owned = TRUE, !.out = <<header>>]
<1>1. /\ copy[c].run \in Nat /\ copy[c].run + 1 \in 1 .. MaxRuns /\ copy[c].left \in BOOLEAN
      /\ RowCount(c) \in Nat /\ ~copy[c].owned
  BY MayStartFacts DEF Start
<1>2. Update(c, s)
  BY SMTT(30) DEF Start, Fresh
<1>3. StateOK(s, RowCount(c))
  <2>1. <<header>> # <<>>
    OBVIOUS
  <2> HIDE DEF header
  <2> QED BY <1>1, <2>1, StartOK, Zenon
<1>4. s.run = copy[c].run + 1 /\ s.phase = "header" /\ s.owned /\ s.left = copy[c].left
  BY DEF Rest
<1> HIDE DEF s
<1>5. copy'[c] = s
  BY <1>2 DEF CopyInv, Typed, Update
<1>6. f \in Created /\ f \in Files /\ f # None
  BY <1>1 DEF Created, Files, None
<1>7. f \notin past[Destination]
  BY <1>1 DEF CopyInv, DestinationSettled, Settled
<1>8. /\ names' \in [Names -> Files] /\ names'[Stage(c)] = f
      /\ past' \in [Names -> SUBSET Files] /\ \A n \in Names : names'[n] \in past'[n]
      /\ past'[Destination] = past[Destination]
      /\ \A d \in Copies : d # c => names'[Stage(d)] = names[Stage(d)]
  <2>1. PICK new : new = [names EXCEPT ![Stage(c)] = f]
    OBVIOUS
  <2>2. /\ new \in [Names -> Files] /\ new[Stage(c)] = f /\ new[Destination] = names[Destination]
        /\ \A d \in Copies : d # c => new[Stage(d)] = names[Stage(d)]
    BY <1>6, <2>1, NamesDistinct DEF CopyInv, Typed, Stage
  <2>3. Relink(new)
    BY <2>1 DEF Start
  <2>4. names[Destination] \in past[Destination]
    BY NamesDistinct DEF CopyInv, Typed
  <2> QED BY <2>2, <2>3, <2>4, RelinkFacts
<1>9. /\ content' = [g \in Files |-> content'[g]] /\ synced' = [g \in Files |-> synced'[g]]
      /\ \A g \in Files : g # f => content'[g] = content[g] /\ synced'[g] = synced[g]
  BY Zenon DEF Start, CopyInv, Typed
<1>10. Staged(c)'
  BY <1>4, <1>5, <1>8 DEF Staged, File
<1>11. DestinationSettled'
  <2>1. past[Destination] \subseteq Files
    BY NamesDistinct DEF CopyInv, Typed
  <2> QED BY <1>1, <1>2, <1>4, <1>7, <1>8, <1>9, <2>1, SettledKept
<1>12. \A d \in Copies : d # c /\ copy[d].owned =>
          content'[File(d)] = content[File(d)] /\ synced'[File(d)] = synced[File(d)]
  BY <1>9, OwnFile DEF File, Files
<1>13. s.run >= copy[c].run /\ s.run > copy[c].run /\ UNCHANGED <<plan, crashes>>
  BY <1>1, <1>4 DEF Start
<1> QED BY <1>2, <1>3, <1>8, <1>9, <1>10, <1>11, <1>12, <1>13, OtherInv

\* A staging file that is there already, or cannot be created, ends the run (InitializeGlobal).
LEMMA RefuseInv ==
    ASSUME CopyInv, NEW c \in Copies, Refuse(c)
    PROVE  CopyInv'
<1> DEFINE s == Rest("failed", copy[c].run + 1, copy[c].left)
<1>1. /\ copy[c].run \in Nat /\ copy[c].run + 1 \in 1 .. MaxRuns /\ copy[c].left \in BOOLEAN
      /\ RowCount(c) \in Nat /\ ~copy[c].owned
  BY MayStartFacts DEF Refuse
<1>2. Update(c, s)
  BY DEF Refuse, Fresh
<1>3. StateOK(s, RowCount(c))
  <2>1. copy[c].run + 1 \in 0 .. MaxRuns /\ "failed" \in Ended \cup {"idle", "crashed"}
    BY <1>1, CopyAssumption DEF Ended
  <2> QED BY <1>1, <2>1, RestOK
<1>4. s.run = copy[c].run + 1 /\ s.phase = "failed" /\ ~s.owned /\ s.left = copy[c].left
  BY DEF Rest
<1> HIDE DEF s
<1>5. copy'[c] = s
  BY <1>2 DEF CopyInv, Typed, Update
<1>6. UNCHANGED <<plan, names, past, content, synced, crashes>>
  BY DEF Refuse
<1>7. Staged(c)'
  BY <1>1, <1>4, <1>5, <1>6 DEF CopyInv, Staged
<1>8. s.run \in Nat /\ s.run >= copy[c].run /\ (s.owned => s.run > copy[c].run)
  BY <1>1, <1>4
<1>9. DestinationSettled'
  BY <1>2, <1>6, <1>8, SettledKept
<1>10. /\ names' \in [Names -> Files] /\ past' \in [Names -> SUBSET Files]
       /\ \A n \in Names : names'[n] \in past'[n]
       /\ content' = [f \in Files |-> content'[f]] /\ synced' = [f \in Files |-> synced'[f]]
  BY <1>6 DEF CopyInv, Typed
<1> QED BY <1>2, <1>3, <1>6, <1>7, <1>8, <1>9, <1>10, OtherInv

\* The steps that touch no file but leave the statement running.
LEMMA QuietInv ==
    ASSUME CopyInv, NEW c \in Copies, NEW t, Update(c, t), Continues(copy[c], t, RowCount(c)),
           UNCHANGED <<plan, names, past, content, synced, crashes>>,
           t.phase \in {"close", "move"} => copy[c].phase \in {"close", "move"}
    PROVE  CopyInv'
<1>1. content' = [f \in Files |-> content'[f]] /\ synced' = [f \in Files |-> synced'[f]]
  BY DEF CopyInv, Typed
<1>2. t.phase \in {"close", "move"} => synced'[File(c)] = content'[File(c)]
  BY DEF CopyInv, Staged
<1> QED BY <1>1, <1>2, ContinueInv

\* A row begins to be written (Sink).
LEMMA SinkInv ==
    ASSUME CopyInv, NEW c \in Copies, Sink(c)
    PROVE  CopyInv'
<1> DEFINE row == copy[c].row + 1
           out == Buffers(plan[c], row)
           t == [copy[c] EXCEPT !.phase = "packet", !.row = row, !.out = out]
<1>1. StateOK(copy[c], RowCount(c)) /\ RowCount(c) \in Nat
  BY RowCountNat DEF CopyInv, Typed
<1>2. copy[c].phase = "rows" /\ copy[c].row < RowCount(c)
  BY DEF Sink, RowCount
<1>3. out # <<>>
  BY SMTT(30) DEF Buffers
<1>4. Continues(copy[c], t, RowCount(c))
  <2> HIDE DEF out
  <2> QED BY <1>1, <1>2, <1>3, SinkOK, Zenon
<1>5. t.phase = "packet"
  BY <1>1 DEF StateOK, IsState
<1>6. Update(c, t) /\ UNCHANGED <<plan, names, past, content, synced, crashes>>
  BY DEF Sink
<1> HIDE DEF t
<1> QED BY <1>4, <1>5, <1>6, QuietInv

\* The last row was taken, and the header needs a patch or not (Finalize, Close).
LEMMA FinishInv ==
    ASSUME CopyInv, NEW c \in Copies, Finish(c)
    PROVE  CopyInv'
<1>1. StateOK(copy[c], RowCount(c)) /\ RowCount(c) \in Nat /\ IsState(copy[c])
  BY RowCountNat DEF CopyInv, Typed, StateOK
<1>2. copy[c].phase = "rows" /\ copy[c].row = RowCount(c) /\ UNCHANGED <<plan, names, past, content, synced, crashes>>
  BY DEF Finish, RowCount
<1>3. CASE HasSnaplen(plan[c])
  <2>1. PICK t : t = [copy[c] EXCEPT !.phase = "sync", !.state = "finished"]
    OBVIOUS
  <2>2. Update(c, t)
    BY <1>3, <2>1, SMTT(30) DEF Finish
  <2>3. Continues(copy[c], t, RowCount(c)) /\ t.phase = "sync"
    BY <1>1, <1>2, <2>1, FinishedOK, Zenon DEF IsState
  <2> QED BY <1>2, <2>2, <2>3, QuietInv
<1>4. CASE ~HasSnaplen(plan[c])
  <2>1. PICK t : t = [copy[c] EXCEPT !.phase = "rewind"]
    BY Zenon
  <2>2. Update(c, t)
    BY <1>4, <2>1 DEF Finish
  <2>3. "rewind" \in Phases
    BY DEF Phases, Active
  <2>4. /\ IsState(t) /\ t.phase = "rewind" /\ t.out = copy[c].out /\ t.row = copy[c].row
        /\ t.run = copy[c].run /\ t.left = copy[c].left /\ t.owned = copy[c].owned
    BY <1>1, <2>1, <2>3, PhaseOK
  <2>5. Continues(copy[c], t, RowCount(c))
    BY <1>1, <1>2, <2>4 DEF Continues, StateOK, Active, Writing, Publishing, Complete
  <2> QED BY <1>2, <2>2, <2>4, <2>5, QuietInv
<1> QED BY <1>3, <1>4

\* A seek to the snaplen and back.
LEMMA SeekInv ==
    ASSUME CopyInv, NEW c \in Copies, Seek(c)
    PROVE  CopyInv'
<1>1. StateOK(copy[c], RowCount(c)) /\ RowCount(c) \in Nat /\ IsState(copy[c])
  BY RowCountNat DEF CopyInv, Typed, StateOK
<1>2. UNCHANGED <<plan, names, past, content, synced, crashes>>
  BY DEF Seek
<1>3. CASE copy[c].phase = "rewind"
  <2>1. PICK out : out = <<<<Unit("snaplen", 0, copy[c].maximum)>>>>
    BY Zenon
  <2>2. out # <<>>
    BY <2>1
  <2>3. PICK t : t = [copy[c] EXCEPT !.phase = "patch", !.offset = SnaplenAt, !.out = out]
    OBVIOUS
  <2>4. Update(c, t)
    BY <1>3, <2>1, <2>3 DEF Seek
  <2>5. Continues(copy[c], t, RowCount(c)) /\ t.phase = "patch"
    BY <1>1, <1>3, <2>2, <2>3, RewindOK, Zenon DEF IsState
  <2> QED BY <1>2, <2>4, <2>5, QuietInv
<1>4. CASE copy[c].phase = "restore"
  <2>1. PICK t : t = [copy[c] EXCEPT !.phase = "sync", !.offset = copy[c].bytes, !.state = "finished"]
    OBVIOUS
  <2>2. Update(c, t)
    BY <1>4, <2>1, SMTT(30) DEF Seek
  <2>3. Continues(copy[c], t, RowCount(c)) /\ t.phase = "sync"
    BY <1>1, <1>4, <2>1, RestoreOK, Zenon DEF IsState
  <2> QED BY <1>2, <2>2, <2>3, QuietInv
<1> QED BY <1>3, <1>4 DEF Seek

\* The staging file is synced before it is closed.
LEMMA SyncInv ==
    ASSUME CopyInv, NEW c \in Copies, Sync(c)
    PROVE  CopyInv'
<1>1. StateOK(copy[c], RowCount(c)) /\ RowCount(c) \in Nat /\ IsState(copy[c])
  BY RowCountNat DEF CopyInv, Typed, StateOK
<1>2. copy[c].phase = "sync" /\ copy[c].owned
  BY <1>1 DEF Sync, StateOK, Active
<1>3. PICK t : t = [copy[c] EXCEPT !.phase = "close"]
  BY Zenon
<1>4. "close" \in Phases
  BY DEF Phases, Active
<1>5. /\ IsState(t) /\ t.phase = "close" /\ t.out = copy[c].out /\ t.row = copy[c].row
      /\ t.state = copy[c].state
      /\ t.run = copy[c].run /\ t.left = copy[c].left /\ t.owned = copy[c].owned
  BY <1>1, <1>3, <1>4, PhaseOK
<1>6. Continues(copy[c], t, RowCount(c))
  BY <1>1, <1>2, <1>5 DEF Continues, StateOK, Active, Writing, Publishing, Complete
<1>7. Update(c, t) /\ UNCHANGED <<plan, names, past, content, crashes>>
  BY <1>3 DEF Sync
<1>8. File(c) \in Files
  BY <1>2, OwnFile DEF Files
<1>9. /\ synced' = [f \in Files |-> synced'[f]] /\ content' = [f \in Files |-> content'[f]]
      /\ synced'[File(c)] = content[File(c)]
      /\ \A f \in Files : f # File(c) => synced'[f] = synced[f]
  BY <1>8 DEF Sync, CopyInv, Typed
<1> QED BY <1>6, <1>7, <1>9, ContinueInv

\* The staging file is closed before it is moved.
LEMMA CloseInv ==
    ASSUME CopyInv, NEW c \in Copies, Close(c)
    PROVE  CopyInv'
<1>1. StateOK(copy[c], RowCount(c)) /\ RowCount(c) \in Nat /\ IsState(copy[c])
  BY RowCountNat DEF CopyInv, Typed, StateOK
<1>2. copy[c].phase = "close"
  BY DEF Close
<1>3. PICK t : t = [copy[c] EXCEPT !.phase = "move"]
  BY Zenon
<1>4. "move" \in Phases
  BY DEF Phases, Active
<1>5. /\ IsState(t) /\ t.phase = "move" /\ t.out = copy[c].out /\ t.row = copy[c].row
      /\ t.state = copy[c].state
      /\ t.run = copy[c].run /\ t.left = copy[c].left /\ t.owned = copy[c].owned
  BY <1>1, <1>3, <1>4, PhaseOK
<1>6. Continues(copy[c], t, RowCount(c))
  BY <1>1, <1>2, <1>5 DEF Continues, StateOK, Active, Writing, Publishing, Complete
<1>7. Update(c, t) /\ UNCHANGED <<plan, names, past, content, synced, crashes>>
  BY <1>3 DEF Close
<1> QED BY <1>2, <1>6, <1>7, QuietInv

\* A write of a part of what is left, or of none of it (WriteAll).
LEMMA WriteInv ==
    ASSUME CopyInv, NEW c \in Copies, Write(c)
    PROVE  CopyInv'
<1>1. StateOK(copy[c], RowCount(c)) /\ RowCount(c) \in Nat
  BY RowCountNat DEF CopyInv, Typed
<1>2. copy[c].phase \in Writing
  BY DEF Write, Writing
<1>3. PICK n \in Counts(Len(Head(copy[c].out))) :
         LET more == [copy[c] EXCEPT !.out = Unwritten(copy[c].out, n), !.offset = @ + n] IN
         /\ content' = [content EXCEPT ![File(c)] = Overwrite(@, copy[c].offset, SubSeq(Head(copy[c].out), 1, n))]
         /\ Update(c, IF more.out = <<>> THEN AllOut(c, more) ELSE more)
  BY Zenon DEF Write
<1>4. PICK out, offset : out = Unwritten(copy[c].out, n) /\ offset = copy[c].offset + n
  OBVIOUS
<1>5. PICK more : more = Advanced(copy[c], out, offset)
  OBVIOUS
<1>6. PICK t : t = IF more.out = <<>> THEN AllOut(c, more) ELSE more
  OBVIOUS
<1>7. Update(c, t)
  BY <1>3, <1>4, <1>5, <1>6 DEF Advanced
<1>8. /\ IsState(more) /\ more.out = out /\ more.phase = copy[c].phase /\ more.row = copy[c].row
      /\ more.run = copy[c].run /\ more.left = copy[c].left /\ more.owned /\ copy[c].owned
  BY <1>1, <1>2, <1>5, OutOK
<1>9. more.run >= 1 /\ more.row <= RowCount(c) /\ (more.phase \in Publishing => more.row = RowCount(c))
  BY <1>1, <1>8 DEF StateOK
<1>10. Continues(copy[c], t, RowCount(c)) /\ t.phase \notin {"close", "move"}
  <2>1. CASE more.out = <<>>
    <3>1. Continues(more, t, RowCount(c))
      BY <1>1, <1>2, <1>6, <1>8, <1>9, <2>1, AllOutOK
    <3>2. t.phase \in {"rows", "restore"}
      BY <1>2, <1>6, <1>8, <2>1, AllOutPhase
    <3> QED BY <1>8, <3>1, <3>2 DEF Continues
  <2>2. CASE more.out # <<>>
    BY <1>2, <1>6, <1>8, <1>9, <2>2 DEF Continues, StateOK, Active, Writing, Complete
  <2> QED BY <2>1, <2>2
<1>11. /\ content' = [f \in Files |-> content'[f]]
       /\ \A f \in Files : f # File(c) => content'[f] = content[f]
  BY <1>3 DEF CopyInv, Typed
<1>12. UNCHANGED <<plan, names, past, synced, crashes>>
  BY DEF Write
<1>13. synced' = [f \in Files |-> synced'[f]]
  BY <1>12, SMTT(30) DEF CopyInv, Typed
<1> QED BY <1>7, <1>10, <1>11, <1>12, <1>13, ContinueInv

\* A running statement is over: what is known of its last state.
LEMMA OverFacts ==
    ASSUME CopyInv, NEW c \in Copies, copy[c].owned, NEW phase \in Ended, NEW left \in BOOLEAN
    PROVE  LET s == Over(c, phase, left)
           IN  /\ StateOK(s, RowCount(c)) /\ s.run = copy[c].run /\ s.run \in Nat /\ ~s.owned
               /\ s.phase = phase /\ s.left = (copy[c].left \/ left)
<1>1. copy[c].run \in 0 .. MaxRuns /\ copy[c].left \in BOOLEAN /\ RowCount(c) \in Nat
  BY RowCountNat DEF CopyInv, Typed, StateOK, IsState
<1>2. PICK l \in BOOLEAN : l = (copy[c].left \/ left)
  BY <1>1
<1>3. StateOK(Rest(phase, copy[c].run, l), RowCount(c))
  BY <1>1, <1>2, RestOK
<1> QED BY <1>1, <1>2, <1>3, CopyAssumption DEF Over, Rest

\* What the names are after the rename.
LEMMA MoveNames ==
    ASSUME CopyInv, NEW c \in Copies, copy[c].owned, Move(c)
    PROVE  \E new \in [Names -> Files] :
               /\ Relink(new) /\ new[Stage(c)] = None /\ new[Destination] = File(c)
               /\ \A d \in Copies : d # c => new[Stage(d)] = names[Stage(d)]
<1>1. PICK new : new = [names EXCEPT ![Destination] = File(c), ![Stage(c)] = None]
  OBVIOUS
<1>2. File(c) \in Files /\ None \in Files
  BY OwnFile DEF Files
<1>3. /\ new \in [Names -> Files] /\ new[Stage(c)] = None /\ new[Destination] = File(c)
      /\ \A d \in Copies : d # c => new[Stage(d)] = names[Stage(d)]
  BY <1>1, <1>2, NamesDistinct DEF CopyInv, Typed, Stage
<1>4. Relink(new)
  BY <1>1 DEF Move
<1> QED BY <1>3, <1>4

\* The rename onto the destination: the staged file was whole and synced.
LEMMA MoveInv ==
    ASSUME CopyInv, NEW c \in Copies, Move(c)
    PROVE  CopyInv'
<1>1. copy[c].phase = "move" /\ copy[c].owned
  BY DEF Move, CopyInv, Typed, StateOK, Active
<1>2. PICK s : s = Over(c, "published", FALSE)
  BY Zenon
<1>3. "published" \in Ended /\ FALSE \in BOOLEAN
  BY DEF Ended
<1>4. StateOK(s, RowCount(c)) /\ s.run = copy[c].run /\ s.run \in Nat /\ ~s.owned /\ s.phase = "published"
  BY <1>1, <1>2, <1>3, OverFacts, Zenon
<1>5. Update(c, s) /\ UNCHANGED <<plan, content, synced, crashes>>
  BY <1>2, Zenon DEF Move
<1>6. copy'[c] = s /\ \A d \in Copies : d # c => copy'[d] = copy[d]
  BY <1>5 DEF CopyInv, Typed, Update
<1>7. File(c) \in Files /\ None \in Files
  BY <1>1, OwnFile DEF Files
<1>8. /\ names' \in [Names -> Files] /\ names'[Stage(c)] = None
      /\ past' \in [Names -> SUBSET Files] /\ \A n \in Names : names'[n] \in past'[n]
      /\ past'[Destination] = past[Destination] \cup {File(c)}
      /\ \A d \in Copies : d # c => names'[Stage(d)] = names[Stage(d)]
  <2>1. PICK new \in [Names -> Files] :
           /\ Relink(new) /\ new[Stage(c)] = None /\ new[Destination] = File(c)
           /\ \A d \in Copies : d # c => new[Stage(d)] = names[Stage(d)]
    BY <1>1, MoveNames
  <2> QED BY <2>1, RelinkFacts
<1>9. Staged(c)'
  BY <1>4, <1>6, <1>8 DEF Staged
<1>10. DestinationSettled'
  <2>1. synced[File(c)] = content[File(c)]
    BY <1>1 DEF CopyInv, Staged
  <2>2. \A d \in Copies : \A r \in Nat : File(c) = <<d, r>> => d = c /\ r = copy[c].run
    BY DEF File
  <2>5. PICK f : f = File(c)
    OBVIOUS
  <2>3. Settled(f)'
    BY <1>4, <1>5, <1>6, <2>1, <2>2, <2>5 DEF Settled
  <2>4. \A g \in past[Destination] : Settled(g)'
    <3>1. \A d \in Copies : copy'[d].run = copy[d].run /\ (copy'[d].owned => copy[d].owned)
      BY <1>4, <1>6
    <3> QED BY <1>5, <3>1 DEF CopyInv, DestinationSettled, Settled
  <2> QED BY <1>8, <2>3, <2>4, <2>5 DEF DestinationSettled
<1>11. content' = [f \in Files |-> content'[f]] /\ synced' = [f \in Files |-> synced'[f]]
  BY <1>5 DEF CopyInv, Typed
<1> QED BY <1>4, <1>5, <1>8, <1>9, <1>10, <1>11, OtherInv

\* A failed statement is destroyed and removes the staging file it created.
LEMMA UnwindInv ==
    ASSUME CopyInv, NEW c \in Copies, copy[c].owned, Unwind(c)
    PROVE  CopyInv'
<1>1. PICK removed \in BOOLEAN :
         /\ Relink([names EXCEPT ![Stage(c)] = IF removed THEN None ELSE @])
         /\ content' = [content EXCEPT ![File(c)] = IF removed THEN <<>> ELSE @]
         /\ synced' = [synced EXCEPT ![File(c)] = IF removed THEN <<>> ELSE @]
         /\ Update(c, Over(c, "failed", ~removed))
  BY Zenon DEF Unwind
<1>2. PICK s : s = Over(c, "failed", ~removed)
  OBVIOUS
<1>3. "failed" \in Ended /\ (~removed) \in BOOLEAN
  BY DEF Ended
<1>4. /\ StateOK(s, RowCount(c)) /\ s.run = copy[c].run /\ s.run \in Nat /\ ~s.owned /\ s.phase = "failed"
      /\ s.left = (copy[c].left \/ ~removed)
  BY <1>2, <1>3, OverFacts, Zenon
<1>5. Update(c, s) /\ UNCHANGED <<plan, crashes>>
  BY <1>1, <1>2 DEF Unwind
<1>6. copy'[c] = s
  BY <1>5 DEF CopyInv, Typed, Update
<1>7. /\ File(c) \in Files /\ None \in Files
      /\ past[Destination] \subseteq Files /\ File(c) \notin past[Destination]
  BY OwnFile, NamesDistinct DEF Files, CopyInv, Typed
<1>8. /\ names' \in [Names -> Files] /\ (removed => names'[Stage(c)] = None)
      /\ past' \in [Names -> SUBSET Files] /\ \A n \in Names : names'[n] \in past'[n]
      /\ past'[Destination] = past[Destination]
      /\ \A d \in Copies : d # c => names'[Stage(d)] = names[Stage(d)]
  <2>1. PICK new : new = [names EXCEPT ![Stage(c)] = IF removed THEN None ELSE @]
    OBVIOUS
  <2>2. /\ new \in [Names -> Files] /\ (removed => new[Stage(c)] = None)
        /\ new[Destination] = names[Destination]
        /\ \A d \in Copies : d # c => new[Stage(d)] = names[Stage(d)]
    BY <1>7, <2>1, NamesDistinct DEF CopyInv, Typed, Stage
  <2>3. Relink(new)
    BY <1>1, <2>1
  <2>4. names[Destination] \in past[Destination]
    BY NamesDistinct DEF CopyInv, Typed
  <2> QED BY <2>2, <2>3, <2>4, RelinkFacts
<1>9. /\ content' = [f \in Files |-> content'[f]] /\ synced' = [f \in Files |-> synced'[f]]
      /\ \A f \in Files : f # File(c) => content'[f] = content[f] /\ synced'[f] = synced[f]
  BY <1>1, Zenon DEF CopyInv, Typed
<1>10. Staged(c)'
  BY <1>4, <1>6, <1>8, Zenon DEF Staged
<1>11. DestinationSettled'
  BY <1>4, <1>5, <1>7, <1>8, <1>9, SettledKept
<1>12. \A d \in Copies : d # c /\ copy[d].owned =>
          content'[File(d)] = content[File(d)] /\ synced'[File(d)] = synced[File(d)]
  BY <1>9, OwnFile DEF Files
<1> QED BY <1>4, <1>5, <1>8, <1>9, <1>10, <1>11, <1>12, OtherInv

\* What is found after a crash: the names at files they referred to, and the statements gone.
LEMMA CrashFacts ==
    ASSUME CopyInv, Crash
    PROVE  /\ names' \in [Names -> Files]
           /\ \A n \in Names : names'[n] \in past[n] /\ past'[n] = {names'[n]}
           /\ past' \in [Names -> SUBSET Files]
           /\ copy' = [c \in Copies |-> copy'[c]]
           /\ \A c \in Copies : copy'[c] = Over(c, "crashed", names'[Stage(c)] # None)
           /\ \A f \in past[Destination] : content'[f] = content[f]
           /\ content' = [f \in Files |-> content'[f]]
           /\ UNCHANGED <<plan, synced>> /\ crashes' = crashes + 1 /\ crashes' \in 0 .. MaxCrashes
<1>1. PICK disk \in [Names -> Files] :
         /\ \A n \in Names : disk[n] \in past[n]
         /\ names' = disk /\ past' = [n \in Names |-> {disk[n]}]
         /\ copy' = [c \in Copies |-> Over(c, "crashed", disk[Stage(c)] # None)]
  BY Zenon DEF Crash
<1>2. PICK lost \in SUBSET {f \in Created : content[f] # synced[f]} :
         content' = [f \in Files |-> IF f \in lost THEN synced[f] ELSE content[f]]
  BY DEF Crash
<1>3. \A f \in past[Destination] : content'[f] = content[f]
  <2>1. past[Destination] \subseteq Files
    BY DEF CopyInv, Typed, Names
  <2> QED BY <1>2, <2>1 DEF CopyInv, DestinationSettled, Settled
<1>4. UNCHANGED <<plan, synced>> /\ crashes' = crashes + 1 /\ crashes' \in 0 .. MaxCrashes
  BY CopyAssumption DEF Crash, CopyInv, Typed
<1>5. content' = [f \in Files |-> content'[f]]
  BY <1>2
<1>6. /\ names' \in [Names -> Files]
      /\ \A n \in Names : names'[n] \in past[n] /\ past'[n] = {names'[n]}
      /\ past' \in [Names -> SUBSET Files]
  BY <1>1
<1>7. /\ copy' = [c \in Copies |-> copy'[c]]
      /\ \A c \in Copies : copy'[c] = Over(c, "crashed", names'[Stage(c)] # None)
  BY <1>1, Zenon
<1> QED BY <1>3, <1>4, <1>5, <1>6, <1>7

\* A crash keeps of each file what was synced, of each name where it was at some time, and
\* forgets the statements.
LEMMA CrashInv ==
    ASSUME CopyInv, Crash
    PROVE  CopyInv'
<1> DEFINE Found(c) == names'[Stage(c)] # None
<1>1. \A c \in Copies : /\ copy'[c] = Rest("crashed", copy[c].run, copy[c].left \/ Found(c))
                        /\ copy[c].run \in 0 .. MaxRuns /\ copy[c].left \in BOOLEAN
                        /\ RowCount(c) \in Nat /\ RowCount(c)' = RowCount(c)
  BY CrashFacts, RowCountNat DEF Over, CopyInv, Typed, StateOK, IsState, RowCount
<1>2. \A c \in Copies : /\ StateOK(copy'[c], RowCount(c)')
                        /\ copy'[c].run = copy[c].run /\ ~copy'[c].owned /\ copy'[c].phase = "crashed"
                        /\ Found(c) => copy'[c].left
  <2>1. ASSUME NEW c \in Copies
        PROVE  /\ StateOK(copy'[c], RowCount(c)')
               /\ copy'[c].run = copy[c].run /\ ~copy'[c].owned /\ copy'[c].phase = "crashed"
               /\ Found(c) => copy'[c].left
    <3>1. PICK l \in BOOLEAN : l = (copy[c].left \/ Found(c))
      BY <1>1
    <3>2. "crashed" \in Ended \cup {"idle", "crashed"}
      OBVIOUS
    <3>3. StateOK(Rest("crashed", copy[c].run, l), RowCount(c))
      BY <1>1, <3>1, <3>2, RestOK
    <3>4. copy'[c] = Rest("crashed", copy[c].run, l)
      BY <1>1, <3>1
    <3>5. /\ copy'[c].run = copy[c].run /\ copy'[c].owned = FALSE /\ copy'[c].phase = "crashed"
          /\ copy'[c].left = l
      BY <3>4 DEF Rest
    <3>6. StateOK(copy'[c], RowCount(c)')
      BY <1>1, <3>3, <3>4, Zenon
    <3>7. Found(c) => copy'[c].left
      BY <3>1, <3>5, Zenon
    <3> QED BY <3>5, <3>6, <3>7
  <2> QED BY <2>1
<1>3. Typed'
  <2>1. synced' = [f \in Files |-> synced'[f]] /\ plan' \in Plans
    BY CrashFacts DEF CopyInv, Typed
  <2>2. \A n \in Names : names'[n] \in past'[n]
    BY CrashFacts
  <2> QED BY <1>2, <2>1, <2>2, CrashFacts DEF Typed
<1>4. \A c \in Copies : Staged(c)'
  BY <1>2, Zenon DEF Staged
<1>5. DestinationSettled'
  <2>1. past'[Destination] \subseteq past[Destination]
    BY CrashFacts, NamesDistinct DEF Names
  <2>2. \A f \in past[Destination] : Settled(f)'
    BY <1>2, CrashFacts DEF CopyInv, DestinationSettled, Settled
  <2> QED BY <2>1, <2>2 DEF DestinationSettled
<1> QED BY <1>3, <1>4, <1>5 DEF CopyInv

\* A statement that runs owns its file.
LEMMA RunningOwns ==
    ASSUME CopyInv, NEW c \in Copies, copy[c].phase \in Active
    PROVE  copy[c].owned
BY DEF CopyInv, Typed, StateOK

\* Reject and Fail end a running statement.
LEMMA AbandonInv ==
    ASSUME CopyInv, NEW c \in Copies, Reject(c) \/ Fail(c)
    PROVE  CopyInv' /\ copy[c].owned /\ Unwind(c)
<1>1. copy[c].phase \in Active /\ Unwind(c)
  BY DEF Reject, Fail, Active
<1> QED BY <1>1, RunningOwns, UnwindInv

\* Every step keeps the invariant.
LEMMA StepInv ==
    ASSUME CopyInv, [Next]_vars
    PROVE  CopyInv'
<1>1. CASE UNCHANGED vars
  <2> USE <1>1 DEF vars
  <2>1. Typed'
    BY Zenon DEF CopyInv, Typed, RowCount
  <2>2. \A c \in Copies : Staged(c)'
    BY Zenon DEF CopyInv, Staged, File
  <2>3. DestinationSettled'
    BY Zenon DEF CopyInv, DestinationSettled, Settled
  <2> QED BY <2>1, <2>2, <2>3 DEF CopyInv
<1>2. ASSUME NEW c \in Copies, Start(c)
      PROVE  CopyInv'
  BY <1>2, StartInv
<1>3. ASSUME NEW c \in Copies, Refuse(c)
      PROVE  CopyInv'
  BY <1>3, RefuseInv
<1>4. ASSUME NEW c \in Copies, Write(c)
      PROVE  CopyInv'
  BY <1>4, WriteInv
<1>5. ASSUME NEW c \in Copies, Sink(c) \/ Finish(c)
      PROVE  CopyInv'
  BY <1>5, SinkInv, FinishInv
<1>6. ASSUME NEW c \in Copies, Seek(c) \/ Sync(c) \/ Close(c)
      PROVE  CopyInv'
  BY <1>6, SeekInv, SyncInv, CloseInv
<1>7. ASSUME NEW c \in Copies, Move(c)
      PROVE  CopyInv'
  BY <1>7, MoveInv
<1>8. ASSUME NEW c \in Copies, Reject(c) \/ Fail(c)
      PROVE  CopyInv'
  BY <1>8, AbandonInv
<1>9. CASE Crash
  BY <1>9, CrashInv
<1> QED BY <1>1, <1>2, <1>3, <1>4, <1>5, <1>6, <1>7, <1>8, <1>9 DEF Next

\* The names, the files and the statements stay as CopyInv says: a running statement's
\* staging name refers to its own file, and no statement writes to a published one.
THEOREM CopyInvariant == Spec => []CopyInv
<1>1. Init => CopyInv
  BY InitInv
<1>2. CopyInv /\ [Next]_vars => CopyInv'
  BY StepInv
<1> QED BY <1>1, <1>2, PTL DEF Spec

-----------------------------------------------------------------------------
(* Results. *)

\* A statement that is over leaves no staging file, unless the file system refused to remove
\* it or the machine crashed (PcapCopyGlobal::~PcapCopyGlobal).
THEOREM StagingRemoved == Spec => []StageGone
<1>1. ASSUME CopyInv
      PROVE  StageGone
  <2>1. \A c \in Copies : StateOK(copy[c], RowCount(c)) /\ RowCount(c) \in Nat
    BY <1>1, RowCountNat DEF CopyInv, Typed
  <2>2. ASSUME NEW c \in Copies
        PROVE  LET s == copy[c] IN
               /\ DOMAIN s = DOMAIN Idle
               /\ s.phase \in Active \cup Ended \cup {"idle", "crashed"}
               /\ s.state \in {"open", "finished"} /\ s.left \in BOOLEAN
               /\ s.run \in 0 .. MaxRuns /\ s.row \in 0 .. Len(plan[c].rows)
               /\ s.phase \in {"header", "packet", "patch"} <=> s.out # <<>>
               /\ s.phase \in Active <=> s.owned
    <3>1. IsState(copy[c])
      BY <2>1 DEF StateOK
    <3>2. DOMAIN copy[c] = DOMAIN Idle
      BY <3>1 DEF IsState, Idle, Rest
    <3>3. copy[c].row \in 0 .. Len(plan[c].rows)
      BY <2>1, <3>1 DEF StateOK, IsState, RowCount
    <3>4. /\ copy[c].phase \in Phases /\ copy[c].state \in {"open", "finished"}
          /\ copy[c].left \in BOOLEAN /\ copy[c].run \in 0 .. MaxRuns
      BY <3>1 DEF IsState
    <3> QED BY <2>1, <3>2, <3>3, <3>4 DEF StateOK, Writing, Phases
  <2>3. TypeOK
    BY <1>1, <2>2 DEF TypeOK, CopyInv, Typed
  <2> QED BY <1>1, <2>3 DEF StageGone, CopyInv, Staged
<1> QED BY <1>1, CopyInvariant, PTL

\* A statement changes a staging name in two ways only: it creates a file where there was none
\* (O_EXCL), or gives up the file that it created itself.
THEOREM OnlyOwnStages == Spec => OwnFilesOnly
<1> DEFINE Kept == \A c \in Copies :
                       crashes' = crashes /\ names[Stage(c)] # None /\ names'[Stage(c)] # names[Stage(c)]
                       => copy[c].owned /\ names[Stage(c)] = File(c) /\ names'[Stage(c)] = None
<1>1. ASSUME CopyInv, [Next]_vars
      PROVE  Kept
  <2>1. CASE names' = names
    BY <2>1
  <2>2. ASSUME NEW c \in Copies, Start(c)
        PROVE  Kept
    BY <1>1, <2>2 DEF Start, Relink, CopyInv, Typed, Stage
  <2>3. ASSUME NEW c \in Copies, Move(c)
        PROVE  Kept
    <3>1. copy[c].owned /\ names[Stage(c)] = File(c)
      BY <1>1, <2>3, RunningOwns DEF Move, Active, CopyInv, Staged
    <3>2. \A d \in Copies : names'[Stage(d)] = IF d = c THEN None ELSE names[Stage(d)]
      BY <1>1, <2>3, <3>1, MoveNames DEF Relink
    <3> QED BY <3>1, <3>2
  <2>4. ASSUME NEW c \in Copies, Reject(c) \/ Fail(c)
        PROVE  Kept
    <3>1. copy[c].owned /\ names[Stage(c)] = File(c) /\ Unwind(c)
      BY <1>1, <2>4, AbandonInv DEF CopyInv, Staged
    <3>2. \A d \in Copies : names'[Stage(d)] # names[Stage(d)] => d = c /\ names'[Stage(d)] = None
      BY <1>1, <3>1, NamesDistinct DEF Unwind, Relink, CopyInv, Typed, Stage
    <3> QED BY <3>1, <3>2
  <2>5. CASE Crash
    <3>1. crashes' = crashes + 1 /\ crashes \in Nat
      BY <1>1, <2>5, CopyAssumption DEF Crash, CopyInv, Typed
    <3> QED BY <3>1
  <2> QED BY <1>1, <2>1, <2>2, <2>3, <2>4, <2>5, Zenon
        DEF Next, vars, Refuse, Write, Sink, Finish, Seek, Sync, Close
<1>2. CopyInv /\ [Next]_vars => [Kept]_vars
  BY <1>1
<1> QED BY <1>2, CopyInvariant, PTL DEF Spec, OwnFilesOnly

\* Statement c publishes: every row is written, Finish has set its state, and a reader of the
\* destination then sees what was synced (PcapCopyGlobal::Publish).
Publishes(c) ==
    /\ copy[c].phase = "move" /\ copy'[c].phase = "published"
    /\ copy[c].row = Len(plan[c].rows) /\ copy[c].state = "finished"
    /\ names'[Destination] = File(c) /\ content'[File(c)] = synced[File(c)]

\* A crash leaves the destination at a file it has referred to, with the content it had then
\* (Publish syncs the file before the rename, and the directory never).
FallsBack ==
    /\ crashes' = crashes + 1
    /\ names'[Destination] \in past[Destination]
    /\ content'[names'[Destination]] = content[names'[Destination]]

\* What a reader of the destination sees changes only when a statement publishes the whole of
\* its rows, or when a crash brings back what was there before.
PublishedWhole ==
    [][content'[names'[Destination]] # content[names[Destination]] =>
         FallsBack \/ \E c \in Copies : Publishes(c)]_vars

\* Short writes, failures and other statements leave the destination alone, and a crash never
\* leaves it at a file that is not whole (PcapCopyGlobal).
THEOREM DestinationKept == Spec => PublishedWhole
<1> DEFINE Same == content'[names'[Destination]] = content[names[Destination]]
<1>1. ASSUME CopyInv, [Next]_vars
      PROVE  Same \/ FallsBack \/ \E c \in Copies : Publishes(c)
  <2> DEFINE file == names[Destination]
  <2>1. file \in Files /\ Destination \in Names /\ file \in past[Destination]
    BY <1>1 DEF CopyInv, Typed, Names
  <2>2. CASE content' = content /\ names' = names
    BY <2>2
  <2>3. ASSUME NEW c \in Copies, Start(c)
        PROVE  Same
    <3>1. file # <<c, copy[c].run + 1>>
      BY <1>1, <2>1, <2>3, MayStartFacts DEF Start, CopyInv, DestinationSettled, Settled
    <3> QED BY <1>1, <2>1, <2>3, <3>1, NamesDistinct, Zenon DEF Start, Relink, CopyInv, Typed
  <2>4. ASSUME NEW c \in Copies, Write(c)
        PROVE  Same
    <3>1. file # File(c)
      BY <1>1, <2>1, <2>4, RunningOwns, OwnFile DEF Write, Active
    <3> QED BY <1>1, <2>1, <2>4, <3>1 DEF Write, CopyInv, Typed
  <2>5. ASSUME NEW c \in Copies, Move(c)
        PROVE  Publishes(c)
    <3>1. StateOK(copy[c], RowCount(c)) /\ copy[c].phase = "move" /\ content' = content /\ copy[c].owned
      BY <1>1, <2>5 DEF Move, CopyInv, Typed, StateOK, Active
    <3>2. names'[Destination] = File(c)
      BY <1>1, <2>5, <3>1, MoveNames DEF Relink
    <3>3. synced[File(c)] = content[File(c)]
      BY <1>1, <3>1 DEF CopyInv, Staged
    <3>4. copy'[c].phase = "published"
      BY <1>1, <2>5 DEF Move, Update, Over, Rest, CopyInv, Typed
    <3>5. copy[c].row = Len(plan[c].rows) /\ copy[c].state = "finished"
      BY <3>1 DEF StateOK, Publishing, Complete, RowCount
    <3> QED BY <3>1, <3>2, <3>3, <3>4, <3>5 DEF Publishes
  <2>6. ASSUME NEW c \in Copies, Reject(c) \/ Fail(c)
        PROVE  Same
    <3>1. copy[c].owned /\ Unwind(c)
      BY <1>1, <2>6, AbandonInv
    <3>2. file # File(c)
      BY <1>1, <2>1, <3>1, OwnFile
    <3>3. PICK removed \in BOOLEAN :
             /\ Relink([names EXCEPT ![Stage(c)] = IF removed THEN None ELSE @])
             /\ content' = [content EXCEPT ![File(c)] = IF removed THEN <<>> ELSE @]
      BY <3>1, Zenon DEF Unwind
    <3>4. names \in [Names -> Files] /\ content = [f \in Files |-> content[f]]
      BY <1>1 DEF CopyInv, Typed
    <3>5. names'[Destination] = file
      BY <2>1, <3>3, <3>4, NamesDistinct DEF Relink
    <3>6. content'[file] = content[file]
      BY <2>1, <3>2, <3>3, <3>4
    <3> QED BY <3>5, <3>6
  <2>7. CASE Crash
    BY <1>1, <2>1, <2>7, CrashFacts DEF FallsBack
  <2> QED BY <1>1, <2>2, <2>3, <2>4, <2>5, <2>6, <2>7, Zenon
        DEF Next, vars, Refuse, Sink, Finish, Seek, Sync, Close
<1> DEFINE Kept == content'[names'[Destination]] # content[names[Destination]] =>
                       FallsBack \/ \E c \in Copies : Publishes(c)
<1>2. CopyInv /\ [Next]_vars => [Kept]_vars
  BY <1>1
<1> QED BY <1>2, CopyInvariant, PTL DEF Spec, PublishedWhole

=============================================================================
