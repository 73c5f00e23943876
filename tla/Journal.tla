------------------------------- MODULE Journal -------------------------------
(***************************************************************************)
(* What a service writes: the manager reads its pipe, keeps the last lines  *)
(* in a ring for status and a record per read in files that rotate, and     *)
(* rystemctl journal -f polls the files for newer records.                  *)
(* A piece of output is [n, eol]: its number and whether it ends a line.    *)
(***************************************************************************)
EXTENDS Naturals, Sequences, FiniteSets, SequencesExt

CONSTANTS
  BufferPieces,    \* pieces a read of the pipe takes
  MaxLines,        \* LogRing::max_lines
  SegmentRecords,  \* max_segment_bytes, in records
  MaxSegments,     \* max_segments
  MaxPieces,       \* bound: pieces written
  MaxSecs          \* bound: seconds that pass

ASSUME JournalAssumption ==
  {BufferPieces, MaxLines, SegmentRecords, MaxSegments, MaxPieces, MaxSecs} \subseteq Nat \ {0}

VARIABLES
  pipe,      \* written and not read
  written,   \* how many pieces were written
  open,      \* the manager has the read end and the service the write end
  dropped,   \* pieces that were in the pipe when the manager closed it
  ring,      \* the lines status shows
  segments,  \* 0, the active file, and 1 .. MaxSegments
  secs,      \* the clock
  follow     \* the process of journal -f: the second it asks from and what it showed

journalVars == <<pipe, written, open, dropped, ring, segments, secs, follow>>

NoFile == <<>>

JournalInit ==
  /\ pipe = <<>> /\ written = 0 /\ open = [service |-> TRUE, manager |-> TRUE]
  /\ dropped = 0
  /\ ring = <<>>
  /\ segments = [i \in 0 .. MaxSegments |-> NoFile]
  /\ secs = 1
  /\ follow = [running |-> FALSE, since |-> 0, shown |-> <<>>]

-----------------------------------------------------------------------------
(* The ring.                                                               *)

\* Mutant: the newest line makes room
PushOverLast(lines, line) ==
  Append(IF Len(lines) >= MaxLines THEN Front(lines) ELSE lines, line)

push(lines, line) ==
  Append(IF Len(lines) >= MaxLines THEN Tail(lines) ELSE lines, line)

\* split_inclusive: a line ends with its newline or with the chunk
LineEnds(chunk) == {i \in DOMAIN chunk : chunk[i].eol \/ i = Len(chunk)}
LineOf(chunk, i) ==
  {chunk[j].n : j \in {k \in 1 .. i : \A e \in LineEnds(chunk) : e < k \/ i <= e}}

push_chunk(lines, chunk) ==
  FoldLeft(LAMBDA acc, i : IF i \in LineEnds(chunk) THEN push(acc, LineOf(chunk, i)) ELSE acc,
           lines, [i \in DOMAIN chunk |-> i])

-----------------------------------------------------------------------------
(* The files.                                                              *)

\* Mutant: a rename does not replace a file that is there
RotateKeepsOld(s) == [s EXCEPT ![1] = IF @ = NoFile THEN s[0] ELSE @, ![0] = NoFile]

\* .N is removed, .i+1 is renamed to .i from the top down, and the active file
\* to .1; a rename of a file that is not there does nothing
rotate(s) ==
  LET removed == [s EXCEPT ![MaxSegments] = NoFile]
      shift(t, i) == IF t[i + 1] = NoFile THEN t
                     ELSE [t EXCEPT ![i] = t[i + 1], ![i + 1] = NoFile]
      shifted == FoldLeft(shift, removed, [k \in 1 .. MaxSegments - 1 |-> MaxSegments - k]) IN
  [shifted EXCEPT ![1] = s[0], ![0] = NoFile]

\* A chunk is one record, its newlines blanks
append(s, sec, chunk) ==
  LET t == IF Len(s[0]) >= SegmentRecords THEN rotate(s) ELSE s
      rec == [secs |-> sec, text |-> {chunk[i].n : i \in DOMAIN chunk}] IN
  [t EXCEPT ![0] = Append(@, rec)]

\* Mutant: the newest segment first
NewestFirst == [k \in 1 .. MaxSegments + 1 |-> k - 1]

\* Oldest first, the active file last
segment_paths == [k \in 1 .. MaxSegments + 1 |-> MaxSegments + 1 - k]

\* What one file adds to the records read so far
read_file(recs, file, since) ==
  FoldLeft(LAMBDA out, rec : IF rec.secs >= since THEN Append(out, rec) ELSE out, recs, file)

read(s, since) == FoldLeft(LAMBDA out, i : read_file(out, s[i], since), <<>>, segment_paths)

\* The journal request with a tail of n records
tail(recs, n) == SubSeq(recs, IF Len(recs) > n THEN Len(recs) - n + 1 ELSE 1, Len(recs))

-----------------------------------------------------------------------------

ServiceWrites ==
  /\ open.service /\ open.manager
  /\ written < MaxPieces
  /\ \E eol \in BOOLEAN : pipe' = Append(pipe, [n |-> written + 1, eol |-> eol])
  /\ written' = written + 1
  /\ UNCHANGED <<open, dropped, ring, segments, secs, follow>>

\* The last process that has the write end is gone
ServiceCloses ==
  /\ open.service
  /\ open' = [open EXCEPT !.service = FALSE]
  /\ UNCHANGED <<pipe, written, dropped, ring, segments, secs, follow>>

\* The buffers of one call, until EAGAIN or the end
Chunks(p) ==
  [k \in 1 .. (Len(p) + BufferPieces - 1) \div BufferPieces |->
     SubSeq(p, (k - 1) * BufferPieces + 1,
            IF k * BufferPieces > Len(p) THEN Len(p) ELSE k * BufferPieces)]

\* The loop reads a pipe that poll reports readable, which one that is only
\* hung up is not; the end of the stream behind the data closes it
read_stdout ==
  /\ open.manager /\ pipe # <<>>
  /\ ring' = FoldLeft(push_chunk, ring, Chunks(pipe))
  /\ segments' = FoldLeft(LAMBDA s, chunk : append(s, secs, chunk), segments, Chunks(pipe))
  /\ pipe' = <<>>
  /\ open' = [open EXCEPT !.manager = open.service]
  /\ UNCHANGED <<written, dropped, secs, follow>>

\* finalize_stop closes the unit's pipes, unread data or not
StopFinishes ==
  /\ open.manager
  /\ open' = [open EXCEPT !.manager = FALSE]
  /\ dropped' = Len(pipe)
  /\ pipe' = <<>>
  /\ UNCHANGED <<written, ring, segments, secs, follow>>

SecondPasses ==
  /\ secs < MaxSecs
  /\ secs' = secs + 1
  /\ UNCHANGED <<pipe, written, open, dropped, ring, segments, follow>>

\* clean_units: every segment of the unit
clean ==
  /\ segments # [i \in 0 .. MaxSegments |-> NoFile]
  /\ segments' = [i \in 0 .. MaxSegments |-> NoFile]
  /\ UNCHANGED <<pipe, written, open, dropped, ring, secs, follow>>

\* Mutant: the last second is asked for again
SinceLast(since, recs) == IF recs = <<>> THEN since ELSE Last(recs).secs

\* Only seconds after the last one shown are asked for
Since(since, recs) == IF recs = <<>> THEN since ELSE Last(recs).secs + 1

\* journal -n tail -f
StartFollow ==
  /\ ~follow.running
  /\ \E n \in {1, MaxPieces} :
       LET recs == tail(read(segments, 0), n) IN
       follow' = [running |-> TRUE, since |-> Since(0, recs), shown |-> recs]
  /\ UNCHANGED <<pipe, written, open, dropped, ring, segments, secs>>

PollFollow ==
  /\ follow.running
  /\ LET recs == read(segments, follow.since) IN
     /\ recs # <<>>
     /\ follow' = [follow EXCEPT !.since = Since(@, recs), !.shown = @ \o recs]
  /\ UNCHANGED <<pipe, written, open, dropped, ring, segments, secs>>

JournalNext ==
  \/ ServiceWrites \/ ServiceCloses \/ read_stdout \/ StopFinishes \/ SecondPasses \/ clean
  \/ StartFollow \/ PollFollow

-----------------------------------------------------------------------------
(* Properties.                                                             *)

\* The pieces the manager has read
Seen == written - Len(pipe) - dropped

Newer(r, s) == \A i \in r.text, j \in s.text : i < j
Ordered(recs) == \A i, j \in DOMAIN recs : i < j => Newer(recs[i], recs[j])

\* However often the files rotate, a reader sees records once and in the order
\* they were written (rotate, segment_paths).
ReadsInOrder == Ordered(read(segments, 0))

\* Output is missing from the files only at its old end, and once they have
\* rotated a full segment is always there beside the active file (append
\* rotates before it writes).
NoHole ==
  LET recs == read(segments, 0)
      pieces == UNION {r.text : r \in Range(recs)} IN
  /\ \A i \in pieces : i .. Seen \subseteq pieces
  /\ segments[1] # NoFile => Len(recs) > SegmentRecords

\* A follower shows a record once, in order, whatever is written between its
\* polls (cmd_journal asks for seconds it has not seen).
FollowsOnce == Ordered(follow.shown)

\* The ring holds the newest lines, whole and in order: what is missing of the
\* output read is older than everything in it (LogRing::push, push_chunk).
RingIsNewest ==
  LET pieces == UNION Range(ring) IN
  /\ Len(ring) <= MaxLines
  /\ \A i, j \in DOMAIN ring : i < j => \A m \in ring[i], n \in ring[j] : m < n
  /\ \A i \in pieces : i .. Seen \subseteq pieces
  /\ Seen > 0 => Seen \in pieces

\* What was captured is read back whole, in order and once, from the files, by
\* a follower and from the ring.
OutputKept == ReadsInOrder /\ NoHole /\ FollowsOnce /\ RingIsNewest

\* "older segments shift up, and the one beyond max_segments is dropped": the
\* records that fit in max_segments files are all there.
OlderSegmentsShift ==
  [][segments'[0] # NoFile /\ Cardinality({i \in 0 .. MaxSegments : segments[i] # NoFile}) < MaxSegments
       => Range(read(segments, 0)) \subseteq Range(read(segments', 0))]_segments
=============================================================================
