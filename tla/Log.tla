------------------------------- MODULE Log -------------------------------
(***************************************************************************)
(* The log format shared by the MANIFEST and the write-ahead log: writer   *)
(* (log_write.cc), the buffered file it appends to (posix_writable_file of *)
(* posix_env.cc), a crash, and reader (log_reader.cc).                     *)
(*                                                                         *)
(* A file is a sequence of bytes, a byte the pair <<i, j>> for the j-th    *)
(* byte of the i-th physical record emitted.  The writer stops at the      *)
(* first status that is not ok, as log_any_apply and NewDB do.  The reader *)
(* is the one recover creates: checksums on, initial offset 0.             *)
(***************************************************************************)
EXTENDS Integers, Sequences

CONSTANTS BlockSize,   \* kBlockSize
          HeaderSize,  \* kHeaderSize: checksum, then length, then type
          Lengths,     \* the sizes of the records added
          MaxRecords,  \* bound on the records added
          MaxDamaged   \* bound on the bytes the medium changes

ASSUME HeaderAssumption == HeaderSize \in Nat /\ HeaderSize >= 3
ASSUME BlockAssumption == BlockSize \in Nat /\ BlockSize > HeaderSize
ASSUME LengthsAssumption == Lengths \subseteq Nat
ASSUME MaxRecordsAssumption == MaxRecords \in Nat
ASSUME MaxDamagedAssumption == MaxDamaged \in Nat

Zero == 0   Full == 1   First == 2   Middle == 3   Last == 4     \* record_type

VARIABLES frags,   \* the physical records emitted
          file,    \* the bytes write() has taken
          synced,  \* how many of them fdatasync() has made durable
          records, \* the sizes of the records added
          w,       \* log::writer, and the record it is adding
          damaged, \* the bytes the medium has changed
          r        \* log::reader

vars == <<frags, file, synced, records, w, damaged, r>>

Smaller(a, b) == IF a < b THEN a ELSE b

-----------------------------------------------------------------------------
(* The writer.                                                             *)

Idle == w.pc = "idle"

AddRecord(n) ==
    /\ Idle
    /\ Len(records) < MaxRecords
    /\ records' = Append(records, n)
    /\ w' = [w EXCEPT !.pc = "add", !.left = n, !.begin = TRUE]
    /\ UNCHANGED <<frags, file, synced, damaged, r>>

\* Mutant: a block is used up to its last byte.
Padding_Never == 0

\* Where the next header goes: after the trailer, if a header does not fit.
Padding == IF BlockSize - w.block_offset < HeaderSize THEN BlockSize - w.block_offset ELSE 0
NextOffset == IF BlockSize - w.block_offset < HeaderSize THEN 0 ELSE w.block_offset

\* Mutant: the fragment may take the room of its own header.
FragmentLength_NoHeader == Smaller(w.left, BlockSize - NextOffset)

FragmentLength == Smaller(w.left, BlockSize - NextOffset - HeaderSize)

\* The third test of the code asks for begin once more, so that Last is never
\* chosen.
FragmentType ==
    LET end == w.left = FragmentLength IN
    IF w.begin /\ end THEN Full
    ELSE IF w.begin THEN First
    ELSE IF w.begin THEN Last
    ELSE Middle

\* The bytes of one iteration: the trailer, the header, the payload.
Emitted == [j \in 1..Padding |-> <<0, j>>]
           \o [j \in 1..(HeaderSize + FragmentLength) |-> <<Len(frags) + 1, j>>]

\* One iteration of add_record, with emit_physical_record.  Its appends fit in
\* the file's buffer; flush writes count bytes of them.
Emit(count, pc) ==
    /\ w.pc = "add"
    /\ frags' = Append(frags, [type |-> FragmentType, rec |-> Len(records),
                               offset |-> NextOffset, length |-> FragmentLength,
                               at |-> Len(file) + Padding])
    /\ file' = file \o SubSeq(Emitted, 1, count)
    /\ w' = [w EXCEPT !.block_offset = NextOffset + HeaderSize + FragmentLength,
                      !.left = @ - FragmentLength, !.begin = FALSE, !.pc = pc]
    /\ UNCHANGED <<synced, records, damaged, r>>

EmitFragment == Emit(Len(Emitted), IF w.left > FragmentLength THEN "add" ELSE "idle")

EmitFails == \E count \in 0..(Len(Emitted) - 1) : Emit(count, "failed")

\* Mutant: fdatasync is not reached.
Sync_FlushOnly ==
    /\ Idle
    /\ w' = [w EXCEPT !.durable = Len(records)]
    /\ UNCHANGED <<frags, file, synced, records, damaged, r>>

\* posix_writable_file::sync between two records; the buffer is empty then.
Sync ==
    /\ Idle
    /\ synced' = Len(file)
    /\ w' = [w EXCEPT !.durable = Len(records)]
    /\ UNCHANGED <<frags, file, records, damaged, r>>

SyncFails ==
    /\ Idle
    /\ w' = [w EXCEPT !.pc = "failed"]
    /\ UNCHANGED <<frags, file, synced, records, damaged, r>>

-----------------------------------------------------------------------------
\* The process ends or crashes: of what was not synced a part may be lost, and
\* the medium may change bytes.
Reopen(size, bad) ==
    /\ w.pc # "crashed"
    /\ size \in synced..Len(file)
    /\ bad \subseteq 1..size
    /\ file' = SubSeq(file, 1, size)
    /\ damaged' = bad
    /\ w' = [w EXCEPT !.pc = "crashed"]
    /\ r' = [r EXCEPT !.pc = "read"]
    /\ UNCHANGED <<frags, synced, records>>

-----------------------------------------------------------------------------
(* The reader: buffer_ holds the bytes from pos to end (excluded, from 0). *)

Size == r.end - r.pos

\* report_corruption: with an initial offset of 0 every drop is reported.
Report(q) == [q EXCEPT !.reports = @ + 1]
ReportIf(q, condition) == IF condition THEN Report(q) ELSE q

\* read_record's switch, on the reader q left by read_physical_record.  A
\* record returned starts the next call with an empty scratch.
Returned(q, at, bytes) ==
    [q EXCEPT !.out = Append(@, [at |-> at, bytes |-> bytes]),
              !.fragmented = FALSE, !.scratch = <<>>]

Deliver(q, type, at, bytes) ==
    LET unfinished == q.fragmented /\ q.scratch # <<>> IN
    CASE type = Full -> Returned(ReportIf(q, unfinished), at, bytes)
      [] type = First ->
           [ReportIf(q, unfinished) EXCEPT !.fragmented = TRUE, !.scratch = bytes,
                                           !.prospective = at]
      [] type \in {Middle, Last} /\ ~q.fragmented -> Report(q)
      [] type = Middle /\ q.fragmented -> [q EXCEPT !.scratch = @ \o bytes]
      [] type = Last /\ q.fragmented -> Returned(q, q.prospective, q.scratch \o bytes)

\* kEof: read_record returns false.
AtEof(q) == [q EXCEPT !.pos = q.end, !.scratch = <<>>, !.pc = "done"]

\* Mutant: reading stops at the first bad record.
BadRecord_Stops(q) == AtEof(q)

\* kBadRecord: the rest of the buffer is dropped, and with it the fragments so
\* far.
BadRecord(q) ==
    [ReportIf(q, q.fragmented) EXCEPT !.fragmented = FALSE, !.scratch = <<>>, !.pos = q.end]

\* Mutant: end of file is not noticed.
ReadBlock_NoEof ==
    /\ r.pc = "read" /\ Size < HeaderSize /\ ~r.eof
    /\ r' = [r EXCEPT !.pos = r.end, !.end = r.end + Smaller(BlockSize, Len(file) - r.end)]
    /\ UNCHANGED <<frags, file, synced, records, w, damaged>>

\* What is left of a block that is too short for a header is its trailer.
ReadBlock ==
    /\ r.pc = "read" /\ Size < HeaderSize /\ ~r.eof
    /\ LET count == Smaller(BlockSize, Len(file) - r.end) IN
         r' = [r EXCEPT !.pos = r.end, !.end = r.end + count, !.eof = count < BlockSize]
    /\ UNCHANGED <<frags, file, synced, records, w, damaged>>

\* The end of the file, or an error of its read.
EndOfFile ==
    /\ r.pc = "read" /\ Size < HeaderSize /\ r.eof
    /\ r' = AtEof(r)
    /\ UNCHANGED <<frags, file, synced, records, w, damaged>>

ReadFails ==
    /\ r.pc = "read" /\ Size < HeaderSize /\ ~r.eof
    /\ r' = [AtEof(Report(r)) EXCEPT !.eof = TRUE, !.failed = TRUE]
    /\ UNCHANGED <<frags, file, synced, records, w, damaged>>

\* The physical record at pos; a damaged length or type byte reads as any other
\* value.  (The last two bytes of the header stand for its last three.)
Header == frags[file[r.pos + 1][1]]
ReadableLengths ==
    IF r.pos + HeaderSize - 1 \in damaged THEN (0..BlockSize) \ {Header.length}
    ELSE {Header.length}
ReadableTypes ==
    IF r.pos + HeaderSize \in damaged THEN (Zero..Last) \ {Header.type} ELSE {Header.type}

\* The checksum covers the type and the payload.
ChecksumOK(length) == damaged \cap ((r.pos + 1)..(r.pos + HeaderSize + length)) = {}

\* Mutants: checksums are not compared; a record cut short at the end of the
\* file is a corruption.
PhysicalRecord_NoChecksum ==
    /\ r.pc = "read" /\ Size >= HeaderSize
    /\ \E length \in ReadableLengths :
         r' = IF HeaderSize + length > Size THEN AtEof(r)
              ELSE Deliver([r EXCEPT !.pos = @ + HeaderSize + length], Header.type, r.pos,
                           SubSeq(file, r.pos + HeaderSize + 1, r.pos + HeaderSize + length))
    /\ UNCHANGED <<frags, file, synced, records, w, damaged>>
PhysicalRecord_ReportsTail ==
    /\ r.pc = "read" /\ Size >= HeaderSize
    /\ \E length \in ReadableLengths :
         r' = IF HeaderSize + length > Size THEN BadRecord(Report(r))
              ELSE Deliver([r EXCEPT !.pos = @ + HeaderSize + length], Header.type, r.pos,
                           SubSeq(file, r.pos + HeaderSize + 1, r.pos + HeaderSize + length))
    /\ UNCHANGED <<frags, file, synced, records, w, damaged>>

PhysicalRecord ==
    /\ r.pc = "read" /\ Size >= HeaderSize
    /\ \E length \in ReadableLengths, type \in ReadableTypes :
         r' = IF HeaderSize + length > Size
                THEN IF r.eof THEN AtEof(r) ELSE BadRecord(Report(r))
              ELSE IF type = Zero /\ length = 0 THEN BadRecord(r)
              ELSE IF ~ChecksumOK(length) THEN BadRecord(Report(r))
              ELSE Deliver([r EXCEPT !.pos = @ + HeaderSize + length], type, r.pos,
                           SubSeq(file, r.pos + HeaderSize + 1, r.pos + HeaderSize + length))
    /\ UNCHANGED <<frags, file, synced, records, w, damaged>>

Finished == r.pc = "done" /\ UNCHANGED vars

-----------------------------------------------------------------------------
Init ==
    /\ frags = <<>> /\ file = <<>> /\ synced = 0 /\ records = <<>> /\ damaged = {}
    /\ w = [pc |-> "idle", block_offset |-> 0, left |-> 0, begin |-> FALSE, durable |-> 0]
    /\ r = [pc |-> "closed", pos |-> 0, end |-> 0, eof |-> FALSE, fragmented |-> FALSE,
            scratch |-> <<>>, prospective |-> 0, out |-> <<>>, reports |-> 0, failed |-> FALSE]

WriterStep == \/ \E n \in Lengths : AddRecord(n)
              \/ EmitFragment \/ EmitFails
              \/ Sync \/ SyncFails

ReaderStep == ReadBlock \/ ReadFails \/ PhysicalRecord \/ EndOfFile

Next ==
    \/ WriterStep
    \/ \E size \in synced..Len(file) :
         \E n \in 0..MaxDamaged : \E bytes \in [1..n -> 1..size] :
           Reopen(size, {bytes[i] : i \in 1..n})
    \/ ReaderStep
    \/ Finished

Spec == Init /\ [][Next]_vars

\* recover calls read_record until it returns false.
FairSpec == Spec /\ WF_vars(ReadBlock \/ PhysicalRecord \/ EndOfFile)

-----------------------------------------------------------------------------
(* Properties.                                                             *)

\* emit_physical_record's assertion (log_write.cc:81), and add_record's (44 and
\* 53): no physical record crosses the end of a block.
FragmentsFit ==
    /\ w.block_offset <= BlockSize
    /\ \A i \in DOMAIN frags : frags[i].offset + HeaderSize + frags[i].length <= BlockSize

\* What the reader takes for a header is one, after any sequence of fragments,
\* trailers and full blocks and wherever the file was cut.
ReaderAligned ==
    r.pc = "read" /\ Size >= HeaderSize =>
      \E i \in DOMAIN frags : r.pos = frags[i].at /\ file[r.pos + 1] = <<i, 1>>

\* A record returned is one that was added, byte by byte, and undamaged; none is
\* returned twice or out of order.
ReadsWhatWasWritten ==
    \A k \in DOMAIN r.out :
      /\ \E i \in DOMAIN frags :
           /\ frags[i].type = Full /\ r.out[k].at = frags[i].at
           /\ r.out[k].bytes = [j \in 1..frags[i].length |-> <<i, HeaderSize + j>>]
           /\ damaged \cap ((frags[i].at + 1)..(frags[i].at + HeaderSize + frags[i].length)) = {}
      /\ \A l \in 1..(k - 1) : r.out[l].at < r.out[k].at

IsReturned(i) == \E k \in DOMAIN r.out : r.out[k].at = frags[i].at
BlockOf(i) == (frags[i].at - frags[i].offset + 1)..(frags[i].at - frags[i].offset + BlockSize)
InFile(i) == frags[i].at + HeaderSize + frags[i].length <= Len(file)
ReadAll == r.pc = "done" /\ ~r.failed

\* A damaged byte costs at most the records of its own block: every other record
\* of one fragment that is in the file is returned.
DamageIsLocal ==
    ReadAll => \A i \in DOMAIN frags :
      frags[i].type = Full /\ InFile(i) /\ damaged \cap BlockOf(i) = {} => IsReturned(i)

\* Every record of one fragment added before a successful sync is returned after
\* a crash.
DurableReturned ==
    ReadAll /\ damaged = {} => \A i \in DOMAIN frags :
      frags[i].rec <= w.durable /\ frags[i].type = Full => IsReturned(i)

\* A log in which every record is one fragment is read without a report of
\* corruption, also when a crash cut it in the middle of a record: recovery
\* fails on the first report.
NoFalseAlarm ==
    ReadAll /\ damaged = {} /\ (\A i \in DOMAIN frags : frags[i].type = Full) => r.reports = 0

\* The reader comes to the end of the file.
ReadingEnds == r.pc = "read" ~> r.pc = "done"

\* The reader returns a record in fragments when it meets kLastType
\* (log_reader.cc:90-97): then a synced, undamaged log has no "partial record
\* without end" (log_reader.cc:65) and no record in it is lost.
DurableRecordsReadBack ==
    ReadAll /\ damaged = {} => \A n \in 1..w.durable :
      \E i \in DOMAIN frags : frags[i].rec = n /\ IsReturned(i)
=============================================================================
