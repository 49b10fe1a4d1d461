------------------------------ MODULE LogProofs ------------------------------
(***************************************************************************)
(* For every block and header size and every sequence of records: the      *)
(* assertions of the writer hold and no physical record crosses a block;   *)
(* wherever a crash cuts the file and whatever bytes are damaged, the      *)
(* reader takes only headers for headers, what it returns was written, and *)
(* what it does not return was cut off or lies in a damaged block.         *)
(***************************************************************************)
EXTENDS Log, TLAPS

FileBytes == Nat \X Nat
FragmentRecords == [type : Nat, rec : Nat, offset : Nat, length : Nat, at : Nat]
WriterRecords == [pc : {"idle", "add", "failed", "crashed"}, block_offset : 0..BlockSize,
                  left : Nat, begin : BOOLEAN, durable : Nat]

\* What the steps of the writer preserve about it, the file and the fragments.
IInv ==
    /\ w \in WriterRecords
    /\ frags \in Seq(FragmentRecords)
    /\ file \in Seq(FileBytes)
    /\ records \in Seq(Lengths)
    /\ synced \in 0..Len(file)
    /\ FragmentsFit

\* The sizes of the code.
LEMMA Sizes ==
    HeaderSize \in Nat /\ BlockSize \in Nat /\ BlockSize > HeaderSize /\ HeaderSize >= 3
BY HeaderAssumption, BlockAssumption

\* The arithmetic of one iteration: the header has room, and the fragment fits
\* behind it.
LEMMA FragmentRoom ==
    ASSUME IInv
    PROVE  /\ NextOffset \in Nat /\ Padding \in Nat /\ Padding < HeaderSize
           /\ FragmentLength \in Nat /\ FragmentLength <= w.left
           /\ NextOffset + HeaderSize + FragmentLength <= BlockSize
<1>1. w.block_offset \in 0..BlockSize /\ w.left \in Nat
  BY DEF IInv, WriterRecords
<1>2. /\ NextOffset \in Nat /\ NextOffset + HeaderSize <= BlockSize
      /\ Padding \in Nat /\ Padding < HeaderSize
  BY <1>1, Sizes DEF NextOffset, Padding
<1>3. /\ FragmentLength \in Nat /\ FragmentLength <= w.left
      /\ FragmentLength <= BlockSize - NextOffset - HeaderSize
  BY <1>1, <1>2, Sizes DEF FragmentLength, Smaller
<1> QED
  BY <1>2, <1>3, Sizes

\* What an iteration hands to the file is a sequence of bytes.
LEMMA EmittedIsSequence ==
    ASSUME IInv
    PROVE  Emitted \in Seq(FileBytes) /\ Len(Emitted) \in Nat
<1> DEFINE n == HeaderSize + FragmentLength
           zeros == [j \in 1..Padding |-> <<0, j>>]
           bytes == [j \in 1..n |-> <<Len(frags) + 1, j>>]
<1>1. Len(frags) + 1 \in Nat
  BY DEF IInv
<1>2. Padding \in Nat /\ n \in Nat
  BY FragmentRoom, Sizes
<1>3. zeros \in [1..Padding -> FileBytes] /\ bytes \in [1..n -> FileBytes]
  BY <1>1, <1>2 DEF FileBytes
<1>4. Emitted = zeros \o bytes
  BY DEF Emitted
<1> HIDE DEF zeros, bytes, n
<1>5. zeros \in Seq(FileBytes)
  BY ONLY <1>2, <1>3
<1>6. bytes \in Seq(FileBytes)
  BY ONLY <1>2, <1>3
<1> QED
  BY <1>4, <1>5, <1>6

\* flush appends the first count of them.
LEMMA EmittedBytes ==
    ASSUME IInv, NEW count \in 0..Len(Emitted)
    PROVE  /\ file \o SubSeq(Emitted, 1, count) \in Seq(FileBytes)
           /\ Len(file \o SubSeq(Emitted, 1, count)) = Len(file) + count
           /\ count \in Nat
<1>1. file \in Seq(FileBytes) /\ Len(file) \in Nat
  BY DEF IInv
<1>2. Emitted \in Seq(FileBytes) /\ Len(Emitted) \in Nat /\ count \in Nat
  BY EmittedIsSequence
<1> DEFINE part == SubSeq(Emitted, 1, count)
<1>3. part \in Seq(FileBytes) /\ Len(part) = count
  BY <1>2
<1> HIDE DEF part
<1>4. file \o part \in Seq(FileBytes) /\ Len(file \o part) = Len(file) + count
  BY <1>1, <1>2, <1>3
<1> QED
  BY <1>2, <1>4 DEF part

\* One iteration of add_record, complete or cut short by an error.
LEMMA EmitInv ==
    ASSUME IInv, NEW count \in 0..Len(Emitted), NEW pc \in {"idle", "add", "failed"},
           Emit(count, pc)
    PROVE  IInv'
<1> DEFINE frag == [type |-> FragmentType, rec |-> Len(records), offset |-> NextOffset,
                    length |-> FragmentLength, at |-> Len(file) + Padding]
<1>1. /\ w \in WriterRecords /\ frags \in Seq(FragmentRecords) /\ Len(file) \in Nat
      /\ records \in Seq(Lengths) /\ synced \in 0..Len(file) /\ w.left \in Nat
      /\ \A i \in DOMAIN frags : frags[i].offset + HeaderSize + frags[i].length <= BlockSize
  BY DEF IInv, FragmentsFit, WriterRecords
<1>2. /\ NextOffset \in Nat /\ Padding \in Nat
      /\ FragmentLength \in Nat /\ FragmentLength <= w.left
      /\ NextOffset + HeaderSize + FragmentLength <= BlockSize
  BY FragmentRoom
<1>3. /\ frags' = Append(frags, frag) /\ file' = file \o SubSeq(Emitted, 1, count)
      /\ w' = [w EXCEPT !.block_offset = NextOffset + HeaderSize + FragmentLength,
                        !.left = w.left - FragmentLength, !.begin = FALSE, !.pc = pc]
      /\ UNCHANGED <<synced, records>>
  BY DEF Emit
<1>4. FragmentType \in Nat
  BY DEF FragmentType, Full, First, Middle, Last
<1>5. frag \in FragmentRecords /\ frag.offset = NextOffset /\ frag.length = FragmentLength
  BY <1>1, <1>2, <1>4 DEF FragmentRecords
<1> HIDE DEF frag
<1>6. /\ frags' \in Seq(FragmentRecords)
      /\ \A i \in DOMAIN frags' : (i \in DOMAIN frags /\ frags'[i] = frags[i]) \/ frags'[i] = frag
  BY <1>1, <1>3, <1>5
<1>7. /\ NextOffset + HeaderSize + FragmentLength \in 0..BlockSize
      /\ w.left - FragmentLength \in Nat
  BY SMTT(20), <1>1, <1>2, Sizes
<1>8. w' \in WriterRecords
  BY <1>1, <1>3, <1>7 DEF WriterRecords
<1>9. file' \in Seq(FileBytes) /\ Len(file') = Len(file) + count /\ count \in Nat
  BY <1>3, EmittedBytes
<1>10. synced' \in 0..Len(file')
  BY <1>1, <1>3, <1>9
<1>11. FragmentsFit'
  <2>1. w'.block_offset <= BlockSize
    BY <1>8, Sizes DEF WriterRecords
  <2>2. \A i \in DOMAIN frags' : frags'[i].offset + HeaderSize + frags'[i].length <= BlockSize
    BY <1>1, <1>2, <1>5, <1>6
  <2> QED
    BY <2>1, <2>2 DEF FragmentsFit
<1> QED
  BY <1>1, <1>3, <1>6, <1>8, <1>9, <1>10, <1>11 DEF IInv

\* The writer starts at the beginning of a block.
LEMMA InitInv == Init => IInv
BY Sizes DEF Init, IInv, WriterRecords, FragmentsFit

\* Every step of the writer, the crash and the reader keeps the invariant.
LEMMA StepInv == IInv /\ [Next]_vars => IInv'
<1> SUFFICES ASSUME IInv, [Next]_vars
             PROVE  IInv'
  OBVIOUS
<1>1. /\ w \in WriterRecords /\ frags \in Seq(FragmentRecords) /\ file \in Seq(FileBytes)
      /\ records \in Seq(Lengths) /\ synced \in 0..Len(file) /\ FragmentsFit /\ Len(file) \in Nat
  BY DEF IInv
<1>2. ASSUME NEW n \in Lengths, AddRecord(n)
      PROVE  IInv'
  <2>1. /\ w' = [w EXCEPT !.pc = "add", !.left = n, !.begin = TRUE]
        /\ records' = Append(records, n) /\ UNCHANGED <<frags, file, synced>>
    BY <1>2 DEF AddRecord
  <2>2. n \in Nat /\ records' \in Seq(Lengths)
    BY <1>1, <2>1, LengthsAssumption
  <2>3. w' \in WriterRecords /\ w'.block_offset = w.block_offset
    BY <1>1, <2>1, <2>2 DEF WriterRecords
  <2> QED
    BY <1>1, <2>1, <2>2, <2>3 DEF IInv, FragmentsFit
<1>3. CASE EmitFragment
  <2>1. Len(Emitted) \in 0..Len(Emitted)
    BY EmittedIsSequence
  <2> QED
    BY <1>3, <2>1, EmitInv DEF EmitFragment
<1>4. CASE EmitFails
  <2>1. Len(Emitted) \in Nat
    BY EmittedIsSequence
  <2> QED
    BY <1>4, <2>1, EmitInv DEF EmitFails
<1>5. CASE Sync \/ SyncFails
  <2>1. \/ w' = [w EXCEPT !.durable = Len(records)] /\ synced' = Len(file)
        \/ w' = [w EXCEPT !.pc = "failed"] /\ synced' = synced
    BY <1>5 DEF Sync, SyncFails
  <2>2. Len(records) \in Nat /\ synced' \in 0..Len(file)
    BY <1>1, <2>1
  <2>4. w' \in WriterRecords /\ w'.block_offset = w.block_offset
    BY <1>1, <2>1, <2>2 DEF WriterRecords
  <2>3. UNCHANGED <<frags, file, records>>
    BY <1>5 DEF Sync, SyncFails
  <2> QED
    BY <1>1, <2>2, <2>3, <2>4 DEF IInv, FragmentsFit
<1>6. ASSUME NEW size \in synced..Len(file), NEW bad, Reopen(size, bad)
      PROVE  IInv'
  <2>1. /\ w' = [w EXCEPT !.pc = "crashed"] /\ file' = SubSeq(file, 1, size)
        /\ UNCHANGED <<frags, synced, records>>
    BY <1>6 DEF Reopen
  <2>2. w' \in WriterRecords /\ w'.block_offset = w.block_offset
    BY <1>1, <2>1 DEF WriterRecords
  <2>3. size \in 0..Len(file)
    BY <1>1
  <2>4. file' \in Seq(FileBytes) /\ Len(file') = size
    BY <1>1, <2>1, <2>3
  <2> QED
    BY <1>1, <2>1, <2>2, <2>4 DEF IInv, FragmentsFit
<1>7. CASE ReaderStep \/ Finished \/ UNCHANGED vars
  <2>1. UNCHANGED <<frags, file, synced, records, w>>
    BY <1>7 DEF ReaderStep, ReadBlock, ReadFails, PhysicalRecord, EndOfFile, Finished, vars
  <2> QED
    BY <1>1, <2>1 DEF IInv, FragmentsFit
<1> QED
  BY <1>2, <1>3, <1>4, <1>5, <1>6, <1>7 DEF Next, WriterStep

\* The invariant of the writer holds in every reachable state.
THEOREM WriterInvariant == Spec => []IInv
BY InitInv, StepInv, PTL DEF Spec

\* The assertions at log_write.cc:44, 53 and 81 hold for every sequence of
\* records: no physical record crosses the end of a block.
THEOREM FragmentsAlwaysFit == Spec => []FragmentsFit
<1>1. IInv => FragmentsFit
  BY DEF IInv
<1> QED
  BY <1>1, WriterInvariant, PTL
-----------------------------------------------------------------------------
(* The reader.  It knows block boundaries and lengths, the writer placed   *)
(* its fragments by counting bytes: the two agree on where headers are     *)
(* because every block begins with a fragment, a fragment is followed by   *)
(* the next one or by less than a header's room, and the last one ends     *)
(* where the file does, or behind it.                                      *)

Outputs == [at : Nat, bytes : Seq(FileBytes)]
ReaderRecords ==
    [pc : {"closed", "read", "done"}, pos : Nat, end : Nat, eof : BOOLEAN, fragmented : BOOLEAN,
     scratch : Seq(FileBytes), prospective : Nat, out : Seq(Outputs), reports : Nat,
     failed : BOOLEAN]

EndOf(f) == f.at + HeaderSize + f.length
OffsetBehind(f) == f.offset + HeaderSize + f.length

\* Where the k-th block starts.
Start(k) == k * BlockSize

InBlocks == \A i \in DOMAIN frags : \E k \in Nat : frags[i].at = Start(k) + frags[i].offset

Followed ==
    \A i \in DOMAIN frags : i + 1 \in DOMAIN frags =>
        \/ frags[i + 1].at = EndOf(frags[i])
        \/ BlockSize - OffsetBehind(frags[i]) < HeaderSize

LastOne ==
    frags # <<>> =>
      LET f == frags[Len(frags)] IN
      /\ Len(file) <= EndOf(f)
      /\ w.pc \in {"idle", "add"} => Len(file) = EndOf(f) /\ w.block_offset = OffsetBehind(f)

WriterPlace ==
    w.pc \in {"idle", "add"} => \E k \in Nat : Len(file) = Start(k) + w.block_offset

Written ==
    \A i \in DOMAIN frags :
      /\ frags[i].type \in {Full, First, Middle}
      /\ w.pc \in {"idle", "add"} => EndOf(frags[i]) <= Len(file)
      /\ \A j \in 1..(HeaderSize + frags[i].length) :
           frags[i].at + j <= Len(file) => file[frags[i].at + j] = <<i, j>>

BlocksBegin ==
    \A k \in Nat : Start(k) < Len(file) => \E i \in DOMAIN frags : frags[i].at = Start(k)

FileInv == InBlocks /\ Followed /\ LastOne /\ WriterPlace /\ Written /\ BlocksBegin

\* Of a reader q: its buffer lies in one block and ends with it, unless the file
\* does; what is left of the buffer is a fragment's, or too short for a header.
AtStart(q) == q.end - q.pos < HeaderSize \/ \E i \in DOMAIN frags : q.pos = frags[i].at
ReaderPlace(q) ==
    /\ q.pos <= q.end /\ q.end <= Len(file)
    /\ \E k \in Nat : Start(k) <= q.pos /\ q.end <= Start(k) + BlockSize
    /\ ~q.eof => \E k \in Nat : q.end = Start(k)
    /\ AtStart(q)

ReaderInv ==
    /\ r \in ReaderRecords
    /\ w.pc # "crashed" => r.pc = "closed"
    /\ r.pc = "closed" => r.pos = 0 /\ r.end = 0 /\ ~r.eof
    /\ r.pc = "read" => ReaderPlace(r)

AlignInv == IInv /\ FileInv /\ ReaderInv

\* What was returned lies before the reader's place.
ReturnedInv ==
    /\ r.pc = "closed" => r.out = <<>>
    /\ r.pc = "read" => \A k \in DOMAIN r.out : r.out[k].at < r.pos
    /\ ReadsWhatWasWritten

ReadInv == AlignInv /\ ReturnedInv

\* Blocks follow one another.
LEMMA Blocks ==
    /\ Start(0) = 0
    /\ \A a \in Nat : Start(a) \in Nat /\ Start(a + 1) = Start(a) + BlockSize
    /\ \A a, b \in Nat : a < b => Start(a) + BlockSize <= Start(b)
<1>1. BlockSize \in Nat
  BY BlockAssumption
<1>2. ASSUME NEW a \in Nat
      PROVE  Start(a) \in Nat /\ Start(a + 1) = Start(a) + BlockSize
  BY <1>1 DEF Start
<1>3. ASSUME NEW a \in Nat, NEW b \in Nat, a < b
      PROVE  Start(a) + BlockSize <= Start(b)
  <2> DEFINE d == b - a - 1
  <2>1. d \in Nat /\ b = d + a + 1
    BY <1>3
  <2> HIDE DEF d
  <2>2. Start(d + a + 1) = Start(d) + Start(a) + BlockSize
    BY <1>1, <2>1 DEF Start
  <2>3. Start(d) \in Nat /\ Start(a) \in Nat
    BY <1>2, <2>1
  <2> QED
    BY <1>1, <2>1, <2>2, <2>3
<1>4. Start(0) = 0
  BY <1>1 DEF Start
<1> QED
  BY <1>2, <1>3, <1>4

\* What the fragments record are numbers.
LEMMA FragmentNumbers ==
    ASSUME IInv, NEW i \in DOMAIN frags
    PROVE  /\ frags[i].at \in Nat /\ frags[i].offset \in Nat /\ frags[i].length \in Nat
           /\ EndOf(frags[i]) \in Nat
<1>1. frags \in Seq(FragmentRecords)
  BY DEF IInv
<1>2. frags[i] \in FragmentRecords
  BY <1>1
<1>3. frags[i].at \in Nat /\ frags[i].offset \in Nat /\ frags[i].length \in Nat
  BY <1>2 DEF FragmentRecords
<1> QED
  BY <1>3, Sizes DEF EndOf

\* Two numbers of blocks that agree within less than a block are equal.
LEMMA SameBlock ==
    ASSUME NEW a \in Nat, NEW b \in Nat,
           Start(a) < Start(b) + BlockSize, Start(b) < Start(a) + BlockSize
    PROVE  a = b
<1>1. Start(a) \in Nat /\ Start(b) \in Nat
  BY Blocks
<1>2. ~(a < b) /\ ~(b < a)
  BY SMTT(30), <1>1, Blocks
<1> QED
  BY <1>2

\* Where an iteration puts its fragment: behind the last one, or at the beginning
\* of the next block.
LEMMA NextPlace ==
    ASSUME AlignInv, w.pc = "add"
    PROVE  \E k \in Nat :
             /\ Len(file) + Padding = Start(k) + NextOffset
             /\ Start(k) < Len(file) => Padding = 0 /\ NextOffset = w.block_offset
             /\ Start(k) >= Len(file) => NextOffset = 0
<1> PICK n \in Nat : Len(file) = Start(n) + w.block_offset
  BY DEF AlignInv, FileInv, WriterPlace
<1>1. /\ w.block_offset \in Nat /\ w.block_offset <= BlockSize /\ Len(file) \in Nat
  BY Sizes DEF AlignInv, IInv, WriterRecords
<1>2. Start(n) \in Nat /\ Start(n + 1) = Start(n) + BlockSize
  BY Blocks
<1>3. CASE BlockSize - w.block_offset < HeaderSize
  <2>1. Padding = BlockSize - w.block_offset /\ NextOffset = 0
    BY <1>3 DEF Padding, NextOffset
  <2>2. Len(file) + Padding = Start(n + 1) + NextOffset
    BY <1>1, <1>2, <2>1, Sizes
  <2>3. ~(Start(n + 1) < Len(file))
    BY <1>1, <1>2, Sizes
  <2>4. n + 1 \in Nat
    OBVIOUS
  <2> WITNESS n + 1 \in Nat
  <2> QED
    BY <2>1, <2>2, <2>3
<1>4. CASE ~(BlockSize - w.block_offset < HeaderSize)
  <2>1. Padding = 0 /\ NextOffset = w.block_offset
    BY <1>4 DEF Padding, NextOffset
  <2>2. Start(n) >= Len(file) => NextOffset = 0
    BY <1>1, <1>2, <2>1
  <2>3. Len(file) + Padding = Start(n) + NextOffset
    BY <1>1, <1>2, <2>1
  <2> WITNESS n \in Nat
  <2> QED
    BY <2>1, <2>2, <2>3
<1> QED
  BY <1>3, <1>4

\* The bytes an iteration appends: none of the old ones change, and the new fragment
\* is where it says, as far as it was written.
LEMMA EmittedFragment ==
    ASSUME IInv, NEW count \in 0..Len(Emitted)
    PROVE  LET new == file \o SubSeq(Emitted, 1, count) IN
           /\ Len(Emitted) = Padding + HeaderSize + FragmentLength
           /\ \A j \in 1..Len(file) : new[j] = file[j]
           /\ \A j \in 1..(HeaderSize + FragmentLength) :
                Padding + j <= count =>
                  new[Len(file) + Padding + j] = <<Len(frags) + 1, j>>
<1> DEFINE n == HeaderSize + FragmentLength
           zeros == [j \in 1..Padding |-> <<0, j>>]
           bytes == [j \in 1..n |-> <<Len(frags) + 1, j>>]
           part == SubSeq(Emitted, 1, count)
<1>1. Padding \in Nat /\ n \in Nat /\ n >= 1 /\ HeaderSize \in Nat /\ FragmentLength \in Nat
  BY FragmentRoom, Sizes
<1>2. /\ Emitted \in Seq(FileBytes) /\ Len(Emitted) \in Nat /\ count \in Nat
      /\ count <= Len(Emitted) /\ file \in Seq(FileBytes) /\ Len(file) \in Nat
      /\ Len(frags) + 1 \in Nat
  BY EmittedIsSequence DEF IInv
<1>3. /\ zeros \in [1..Padding -> FileBytes] /\ bytes \in [1..n -> FileBytes]
      /\ \A j \in 1..n : bytes[j] = <<Len(frags) + 1, j>>
  BY <1>1, <1>2 DEF FileBytes
<1>4. Emitted = zeros \o bytes
  BY DEF Emitted
<1>5. n = HeaderSize + FragmentLength
  OBVIOUS
<1> HIDE DEF n, zeros, bytes
<1>6. /\ zeros \in Seq(FileBytes) /\ Len(zeros) = Padding
      /\ bytes \in Seq(FileBytes) /\ Len(bytes) = n
  BY ONLY <1>1, <1>3
<1>7. Len(Emitted) = Padding + n /\ \A j \in 1..n : Emitted[Padding + j] = <<Len(frags) + 1, j>>
  <2>1. /\ Len(zeros \o bytes) = Padding + n
        /\ \A j \in 1..n : (zeros \o bytes)[Padding + j] = bytes[j]
    BY ONLY <1>1, <1>6
  <2> QED
    BY <1>3, <1>4, <2>1
<1>8. /\ part \in Seq(FileBytes) /\ Len(part) = count
      /\ \A j \in 1..count : part[j] = Emitted[j]
  BY <1>2
<1> HIDE DEF part
<1>9. \A j \in 1..Len(file) : (file \o part)[j] = file[j]
  BY <1>2, <1>8
<1>10. ASSUME NEW j \in 1..n, Padding + j <= count
       PROVE  (file \o part)[Len(file) + Padding + j] = <<Len(frags) + 1, j>>
  <2>1. Padding + j \in 1..count
    BY <1>1, <1>2, <1>10
  <2>2. (file \o part)[Len(file) + (Padding + j)] = part[Padding + j]
    BY <1>1, <1>2, <1>8, <2>1
  <2>3. part[Padding + j] = <<Len(frags) + 1, j>>
    BY <1>7, <1>8, <2>1
  <2>4. Len(file) + (Padding + j) = Len(file) + Padding + j
    BY <1>1, <1>2
  <2> QED
    BY <2>2, <2>3, <2>4
<1>11. Len(Emitted) = Padding + HeaderSize + FragmentLength
  BY <1>1, <1>5, <1>7
<1> QED
  BY <1>5, <1>9, <1>10, <1>11 DEF part

\* One iteration, complete or cut short, puts its fragment where the reader will
\* look for it.
LEMMA EmitFile ==
    ASSUME AlignInv, NEW count \in 0..Len(Emitted), NEW pc \in {"idle", "add", "failed"},
           pc = "failed" \/ count = Len(Emitted), Emit(count, pc)
    PROVE  FileInv'
<1> DEFINE frag == [type |-> FragmentType, rec |-> Len(records), offset |-> NextOffset,
                    length |-> FragmentLength, at |-> Len(file) + Padding]
           new == Len(frags) + 1
<1>1. /\ w \in WriterRecords /\ frags \in Seq(FragmentRecords) /\ Len(file) \in Nat
      /\ Len(frags) \in Nat /\ w.pc = "add" /\ IInv /\ w.block_offset \in Nat
  BY DEF AlignInv, IInv, WriterRecords, Emit
<1>2. /\ NextOffset \in Nat /\ Padding \in Nat /\ FragmentLength \in Nat
      /\ Padding < HeaderSize /\ NextOffset + HeaderSize + FragmentLength <= BlockSize
  BY <1>1, FragmentRoom
<1>3. /\ frags' = Append(frags, frag) /\ file' = file \o SubSeq(Emitted, 1, count)
      /\ w' = [w EXCEPT !.block_offset = NextOffset + HeaderSize + FragmentLength,
                        !.left = w.left - FragmentLength, !.begin = FALSE, !.pc = pc]
  BY DEF Emit
<1>4. w'.pc = pc /\ w'.block_offset = NextOffset + HeaderSize + FragmentLength
  BY <1>1, <1>3 DEF WriterRecords
<1>5. w'.pc \in {"idle", "add"} => count = Len(Emitted)
  BY <1>4
<1>6. /\ frag.type = FragmentType /\ frag.offset = NextOffset /\ frag.length = FragmentLength
      /\ frag.at = Len(file) + Padding
  OBVIOUS
<1>7. FragmentType \in {Full, First, Middle}
  BY DEF FragmentType
<1>8. /\ Len(Emitted) = Padding + HeaderSize + FragmentLength
      /\ \A j \in 1..Len(file) : file'[j] = file[j]
      /\ \A j \in 1..(HeaderSize + FragmentLength) :
           Padding + j <= count => file'[Len(file) + Padding + j] = <<new, j>>
  BY <1>1, <1>3, EmittedFragment
<1>9. Len(file') = Len(file) + count /\ count \in Nat /\ count <= Len(Emitted)
  BY <1>1, <1>3, EmittedBytes, EmittedIsSequence
<1> HIDE DEF frag
<1>10. new \in Nat /\ DOMAIN frags = 1..Len(frags) /\ DOMAIN frags' = 1..new
  BY <1>1, <1>3
<1>11. /\ frags'[new] = frag /\ Len(frags') = new /\ new \in DOMAIN frags'
       /\ \A i \in DOMAIN frags : i \in DOMAIN frags' /\ frags'[i] = frags[i]
       /\ \A i \in DOMAIN frags' : i \in DOMAIN frags \/ i = new
  BY <1>1, <1>3
<1>12. PICK k \in Nat :
             /\ Len(file) + Padding = Start(k) + NextOffset
             /\ Start(k) < Len(file) => Padding = 0 /\ NextOffset = w.block_offset
             /\ Start(k) >= Len(file) => NextOffset = 0
  BY <1>1, NextPlace
<1>13. Start(k) \in Nat
  BY Blocks
<1> HIDE DEF new
<1>14. InBlocks'
  <2>1. frag.at = Start(k) + frag.offset
    BY <1>6, <1>12
  <2>2. \A i \in DOMAIN frags : \E l \in Nat : frags[i].at = Start(l) + frags[i].offset
    BY DEF AlignInv, FileInv, InBlocks
  <2>3. \A i \in DOMAIN frags' : \E l \in Nat : frags'[i].at = Start(l) + frags'[i].offset
    BY <1>11, <2>1, <2>2
  <2> QED
    BY <2>3 DEF InBlocks
<1>15. frags # <<>> => Len(file) = EndOf(frags[Len(frags)])
                       /\ w.block_offset = OffsetBehind(frags[Len(frags)])
  BY <1>1 DEF AlignInv, FileInv, LastOne
<1>16. Followed'
  <2> SUFFICES ASSUME NEW i \in DOMAIN frags', i + 1 \in DOMAIN frags'
               PROVE  \/ frags'[i + 1].at = EndOf(frags'[i])
                      \/ BlockSize - OffsetBehind(frags'[i]) < HeaderSize
    BY DEF Followed, EndOf, OffsetBehind
  <2>1. i \in DOMAIN frags /\ frags'[i] = frags[i]
    BY <1>10, <1>11
  <2>2. CASE i + 1 \in DOMAIN frags
    <3>1. frags'[i + 1] = frags[i + 1]
      BY <1>11, <2>2
    <3> QED
      BY <2>1, <2>2, <3>1 DEF AlignInv, FileInv, Followed
  <2>3. CASE i + 1 \notin DOMAIN frags
    <3>1. i + 1 = new /\ i = Len(frags) /\ frags # <<>>
      BY <1>1, <1>10, <2>1, <2>3 DEF new
    <3>2. Len(file) = EndOf(frags[i]) /\ w.block_offset = OffsetBehind(frags[i])
      BY <1>15, <3>1
    <3>3. Padding = 0 \/ BlockSize - w.block_offset < HeaderSize
      BY DEF Padding
    <3>4. frags'[i + 1].at = Len(file) + Padding
      BY <1>6, <1>11, <3>1
    <3>5. Padding = 0 => frags'[i + 1].at = EndOf(frags'[i])
      BY <1>1, <2>1, <3>2, <3>4
    <3> QED
      BY <2>1, <3>2, <3>3, <3>5
  <2> QED
    BY <2>2, <2>3
<1>17. /\ EndOf(frag) = Len(file) + Padding + HeaderSize + FragmentLength
       /\ OffsetBehind(frag) = NextOffset + HeaderSize + FragmentLength
  BY <1>1, <1>2, <1>6, Sizes DEF EndOf, OffsetBehind
<1>18. w'.pc \in {"idle", "add"} => Len(file') = Len(file) + Padding + HeaderSize + FragmentLength
  <2>1. Len(file) + Len(Emitted) = Len(file) + Padding + HeaderSize + FragmentLength
    BY <1>1, <1>2, <1>8, Sizes
  <2> QED
    BY <1>9, <1>5, <2>1
<1>19. LastOne'
  <2>1. Len(file') <= EndOf(frag)
    BY <1>1, <1>2, <1>8, <1>9, <1>17, Sizes
  <2>2. w'.pc \in {"idle", "add"} =>
          Len(file') = EndOf(frag) /\ w'.block_offset = OffsetBehind(frag)
    BY <1>4, <1>17, <1>18
  <2> QED
    BY <1>11, <2>1, <2>2 DEF LastOne, EndOf, OffsetBehind
<1>20. WriterPlace'
  <2>1. w'.pc \in {"idle", "add"} => Len(file') = Start(k) + w'.block_offset
    BY <1>1, <1>2, <1>4, <1>12, <1>13, <1>18, Sizes
  <2> QED
    BY <2>1 DEF WriterPlace
<1>21. Written'
  <2> SUFFICES ASSUME NEW i \in DOMAIN frags'
               PROVE  /\ frags'[i].type \in {Full, First, Middle}
                      /\ w'.pc \in {"idle", "add"} => EndOf(frags'[i]) <= Len(file')
                      /\ \A j \in 1..(HeaderSize + frags'[i].length) :
                           frags'[i].at + j <= Len(file') => file'[frags'[i].at + j] = <<i, j>>
    BY DEF Written, EndOf
  <2>1. CASE i \in DOMAIN frags
    <3>1. /\ frags[i].type \in {Full, First, Middle} /\ EndOf(frags[i]) <= Len(file)
          /\ \A j \in 1..(HeaderSize + frags[i].length) :
               frags[i].at + j <= Len(file) => file[frags[i].at + j] = <<i, j>>
      BY <1>1, <2>1 DEF AlignInv, FileInv, Written
    <3>2. frags[i].at \in Nat /\ frags[i].length \in Nat /\ EndOf(frags[i]) \in Nat
      BY <1>1, <2>1, FragmentNumbers
    <3>3. ASSUME NEW j \in 1..(HeaderSize + frags[i].length)
          PROVE  frags[i].at + j <= Len(file) /\ frags[i].at + j \in 1..Len(file)
      <4>1. j \in Nat /\ j >= 1 /\ j <= HeaderSize + frags[i].length
        BY <3>2, Sizes
      <4>2. frags[i].at + j <= EndOf(frags[i])
        <5>1. EndOf(frags[i]) = frags[i].at + (HeaderSize + frags[i].length)
          BY SMTT(30), <3>2, Sizes DEF EndOf
        <5> QED
          BY SMTT(30), <3>2, <4>1, <5>1, Sizes
      <4> QED
        BY SMTT(30), <1>1, <3>1, <3>2, <4>1, <4>2
    <3>4. EndOf(frags[i]) <= Len(file')
      BY <1>1, <1>9, <3>1, <3>2
    <3> QED
      BY <1>8, <1>11, <2>1, <3>1, <3>3, <3>4
  <2>2. CASE i = new
    <3>1. frags'[i] = frag
      BY <1>11, <2>2
    <3>2. w'.pc \in {"idle", "add"} => EndOf(frag) <= Len(file')
      BY <1>1, <1>2, <1>17, <1>18, Sizes
    <3>3. ASSUME NEW j \in 1..(HeaderSize + FragmentLength), frag.at + j <= Len(file')
          PROVE  file'[frag.at + j] = <<new, j>>
      <4>1. Padding + j <= count
        BY <1>1, <1>2, <1>6, <1>9, <3>3, Sizes
      <4> QED
        BY <1>6, <1>8, <3>3, <4>1
    <3> QED
      BY <1>6, <1>7, <2>2, <3>1, <3>2, <3>3
  <2> QED
    BY <1>11, <2>1, <2>2
<1>22. BlocksBegin'
  <2> SUFFICES ASSUME NEW l \in Nat, Start(l) < Len(file')
               PROVE  \E i \in DOMAIN frags' : frags'[i].at = Start(l)
    BY DEF BlocksBegin
  <2>1. CASE Start(l) < Len(file)
    <3>1. PICK i \in DOMAIN frags : frags[i].at = Start(l)
      BY <2>1 DEF AlignInv, FileInv, BlocksBegin
    <3> QED
      BY <1>11, <3>1
  <2>2. CASE ~(Start(l) < Len(file))
    <3>1. Start(l) \in Nat
      BY Blocks
    <3>2. Len(file') <= Start(k) + BlockSize
      BY <1>1, <1>2, <1>8, <1>9, <1>12, <1>13, Sizes
    <3>3. ~(Start(k) < Len(file))
      <4> SUFFICES ASSUME Start(k) < Len(file)
                   PROVE  FALSE
        OBVIOUS
      <4>1. Start(k) < Start(l) /\ Start(l) < Start(k) + BlockSize
        BY <1>1, <1>9, <1>13, <2>2, <3>1, <3>2, Sizes
      <4>2. l = k
        BY <1>13, <3>1, <4>1, Sizes, SameBlock
      <4> QED
        BY <1>13, <4>1, <4>2
    <3>4. NextOffset = 0 /\ frag.at = Start(k)
      BY <1>1, <1>6, <1>12, <1>13, <3>3
    <3>5. /\ Start(l) < Start(k) + BlockSize
          /\ Start(k) < Start(l) + BlockSize
      BY SMTT(30), <1>1, <1>2, <1>6, <1>9, <1>13, <2>2, <3>1, <3>2, <3>4, Sizes
    <3>6. l = k
      BY <3>5, SameBlock
    <3> QED
      BY <1>11, <3>4, <3>6
  <2> QED
    BY <2>1, <2>2
<1> QED
  BY <1>14, <1>16, <1>19, <1>20, <1>21, <1>22 DEF FileInv

\* read_record's switch changes neither the buffer nor the end of reading.
LEMMA DeliverReader ==
    ASSUME NEW q \in ReaderRecords, NEW type \in {Full, First, Middle, Last}, NEW at \in Nat,
           NEW bytes \in Seq(FileBytes)
    PROVE  LET d == Deliver(q, type, at, bytes) IN
           d \in ReaderRecords /\ d.pc = q.pc /\ d.pos = q.pos /\ d.end = q.end /\ d.eof = q.eof
<1> DEFINE Same(d) == /\ d \in ReaderRecords
                      /\ d.pc = q.pc /\ d.pos = q.pos /\ d.end = q.end /\ d.eof = q.eof
<1>1. ASSUME NEW x, x \in ReaderRecords, Same(x)
      PROVE  Same(Report(x))
  <2>1. x.reports + 1 \in Nat
    BY <1>1 DEF ReaderRecords
  <2>2. Report(x) = [x EXCEPT !.reports = x.reports + 1]
    BY DEF Report
  <2> QED
    BY <1>1, <2>1, <2>2 DEF ReaderRecords
<1>2. ASSUME NEW x, x \in ReaderRecords, Same(x), NEW a \in Nat, NEW b \in Seq(FileBytes)
      PROVE  Same(Returned(x, a, b))
  <2>1. [at |-> a, bytes |-> b] \in Outputs
    BY <1>2 DEF Outputs
  <2>2. x.out \in Seq(Outputs) /\ <<>> \in Seq(FileBytes)
    BY <1>2 DEF ReaderRecords
  <2>3. Append(x.out, [at |-> a, bytes |-> b]) \in Seq(Outputs)
    BY <2>1, <2>2
  <2> QED
    BY <1>2, <2>2, <2>3 DEF Returned, ReaderRecords
<1>3. Same(q)
  OBVIOUS
<1>4. ASSUME NEW condition
      PROVE  Same(ReportIf(q, condition))
  BY <1>1, <1>3 DEF ReportIf
<1> DEFINE unfinished == q.fragmented /\ q.scratch # <<>>
<1>5. q.scratch \in Seq(FileBytes) /\ q.prospective \in Nat /\ q.fragmented \in BOOLEAN
  BY DEF ReaderRecords
<1>6. CASE type = Full
  <2>1. Deliver(q, type, at, bytes) = Returned(ReportIf(q, unfinished), at, bytes)
    BY <1>6 DEF Deliver, Full, First, Middle, Last
  <2> QED
    BY <1>2, <1>4, <2>1
<1>7. CASE type = First
  <2>1. Deliver(q, type, at, bytes) =
          [ReportIf(q, unfinished) EXCEPT !.fragmented = TRUE, !.scratch = bytes,
                                          !.prospective = at]
    BY <1>7 DEF Deliver, Full, First, Middle, Last
  <2>2. Same(ReportIf(q, unfinished))
    BY <1>4
  <2> QED
    BY <2>1, <2>2 DEF ReaderRecords
<1>8. CASE type \in {Middle, Last} /\ ~q.fragmented
  <2>1. Deliver(q, type, at, bytes) = Report(q)
    BY <1>8 DEF Deliver, Full, First, Middle, Last
  <2> QED
    BY <1>1, <1>3, <2>1
<1>9. CASE type = Middle /\ q.fragmented
  <2>1. Deliver(q, type, at, bytes) = [q EXCEPT !.scratch = q.scratch \o bytes]
    BY <1>9 DEF Deliver, Full, First, Middle, Last
  <2>2. q.scratch \o bytes \in Seq(FileBytes)
    BY <1>5
  <2> QED
    BY <2>1, <2>2 DEF ReaderRecords
<1>10. CASE type = Last /\ q.fragmented
  <2>1. Deliver(q, type, at, bytes) = Returned(q, q.prospective, q.scratch \o bytes)
    BY <1>10 DEF Deliver, Full, First, Middle, Last
  <2>2. q.scratch \o bytes \in Seq(FileBytes)
    BY <1>5
  <2>3. Same(Returned(q, q.prospective, q.scratch \o bytes))
    <3> HIDE DEF Same
    <3> QED
      BY <1>2, <1>3, <1>5, <2>2
  <2> QED
    BY <2>1, <2>3
<1> QED
  BY <1>6, <1>7, <1>8, <1>9, <1>10

\* The next block begins where the last one ended, and with a fragment.
LEMMA ReadBlockPlace ==
    ASSUME AlignInv, ReadBlock
    PROVE  ReaderInv'
<1>1. /\ r \in ReaderRecords /\ r.pc = "read" /\ ReaderPlace(r) /\ ~r.eof
      /\ w.pc = "crashed" /\ UNCHANGED <<frags, file, w>> /\ Len(file) \in Nat
  BY DEF AlignInv, IInv, ReaderInv, ReadBlock
<1>2. r.pos \in Nat /\ r.end \in Nat /\ r.end <= Len(file)
  BY <1>1 DEF ReaderRecords, ReaderPlace
<1> DEFINE count == Smaller(BlockSize, Len(file) - r.end)
<1>3. /\ count \in Nat /\ count <= BlockSize /\ r.end + count <= Len(file)
      /\ count < BlockSize \/ count = BlockSize
      /\ count > 0 => r.end < Len(file)
  BY <1>1, <1>2, Sizes DEF Smaller
<1>4. r' = [r EXCEPT !.pos = r.end, !.end = r.end + count, !.eof = count < BlockSize]
  BY DEF ReadBlock
<1> HIDE DEF count
<1>5. (count < BlockSize) \in BOOLEAN /\ r.end + count \in Nat
  BY <1>2, <1>3
<1>6. /\ r' \in ReaderRecords /\ r'.pc = "read" /\ r'.pos = r.end /\ r'.end = r.end + count
      /\ r'.eof = (count < BlockSize)
  BY <1>1, <1>2, <1>4, <1>5 DEF ReaderRecords
<1>7. PICK k \in Nat : r.end = Start(k)
  BY <1>1 DEF ReaderPlace
<1>8. Start(k) \in Nat /\ k + 1 \in Nat /\ Start(k + 1) = Start(k) + BlockSize
  BY Blocks
<1>9. \E l \in Nat : Start(l) <= r'.pos /\ r'.end <= Start(l) + BlockSize
  BY <1>2, <1>3, <1>6, <1>7, <1>8, Sizes
<1>10. ~r'.eof => \E l \in Nat : r'.end = Start(l)
  <2>1. ~r'.eof => r'.end = Start(k + 1)
    BY <1>3, <1>6, <1>7, <1>8
  <2> QED
    BY <1>8, <2>1
<1>11. r'.end - r'.pos < HeaderSize \/ \E i \in DOMAIN frags' : r'.pos = frags'[i].at
  <2>1. CASE count = 0
    BY <1>2, <1>6, <2>1, Sizes
  <2>2. CASE count # 0
    <3>1. Start(k) < Len(file)
      BY <1>3, <1>7, <2>2
    <3>2. PICK i \in DOMAIN frags : frags[i].at = Start(k)
      BY <3>1 DEF AlignInv, FileInv, BlocksBegin
    <3> QED
      BY <1>1, <1>6, <1>7, <3>2
  <2> QED
    BY <2>1, <2>2
<1>12. /\ r'.pos <= r'.end /\ r'.end <= Len(file')
  BY <1>1, <1>2, <1>3, <1>6
<1>13. w'.pc = "crashed"
  BY <1>1
<1> QED
  BY <1>6, <1>9, <1>10, <1>11, <1>12, <1>13 DEF ReaderInv, ReaderPlace, AtStart

\* Where the reader stands at a header, it reads the fragment that begins there.
LEMMA HeaderRead ==
    ASSUME AlignInv, r.pc = "read", Size >= HeaderSize
    PROVE  \E i \in DOMAIN frags :
             /\ r.pos = frags[i].at /\ file[r.pos + 1] = <<i, 1>> /\ Header = frags[i]
             /\ frags[i].type \in {Full, First, Middle}
<1>1. /\ r.pos \in Nat /\ r.end \in Nat /\ r.end <= Len(file) /\ AtStart(r) /\ Len(file) \in Nat
      /\ IInv
  BY DEF AlignInv, IInv, ReaderInv, ReaderRecords, ReaderPlace
<1>2. PICK i \in DOMAIN frags : r.pos = frags[i].at
  BY <1>1, Sizes DEF AtStart, Size
<1>3. r.pos + 1 <= Len(file) /\ 1 \in 1..(HeaderSize + frags[i].length)
  BY <1>1, FragmentNumbers, Sizes DEF Size
<1>4. file[r.pos + 1] = <<i, 1>> /\ frags[i].type \in {Full, First, Middle}
  BY <1>2, <1>3 DEF AlignInv, FileInv, Written
<1>5. Header = frags[i]
  BY <1>4 DEF Header
<1> QED
  BY <1>2, <1>4, <1>5

\* Behind a fragment the buffer holds the next one, or too little for a header.
LEMMA BehindFragment ==
    ASSUME AlignInv, r.pc = "read", NEW i \in DOMAIN frags, r.pos = frags[i].at,
           HeaderSize + frags[i].length <= Size
    PROVE  \/ r.end - EndOf(frags[i]) < HeaderSize
           \/ \E j \in DOMAIN frags : EndOf(frags[i]) = frags[j].at
<1>1. /\ r.pos \in Nat /\ r.end \in Nat /\ r.end <= Len(file) /\ Len(file) \in Nat
      /\ ReaderPlace(r) /\ IInv
  BY DEF AlignInv, IInv, ReaderInv, ReaderRecords, ReaderPlace
<1>2. frags[i].at \in Nat /\ frags[i].offset \in Nat /\ frags[i].length \in Nat
  BY <1>1, FragmentNumbers
<1>3. frags[i].offset + HeaderSize + frags[i].length <= BlockSize
  BY <1>1 DEF IInv, FragmentsFit
<1>4. PICK k \in Nat : Start(k) <= r.pos /\ r.end <= Start(k) + BlockSize
  BY <1>1 DEF ReaderPlace
<1>5. PICK l \in Nat : frags[i].at = Start(l) + frags[i].offset
  BY DEF AlignInv, FileInv, InBlocks
<1>6. Start(k) \in Nat /\ Start(l) \in Nat
  BY Blocks
<1>7. r.pos + HeaderSize <= r.end
  BY <1>1, <1>2, Sizes DEF Size
<1>8. Start(l) < Start(k) + BlockSize /\ Start(k) < Start(l) + BlockSize
  <2>1. frags[i].offset < BlockSize
    BY <1>2, <1>3, Sizes
  <2>2. r.pos = Start(l) + frags[i].offset
    BY <1>5
  <2>3. Start(l) <= r.pos /\ r.pos < Start(l) + BlockSize
    BY <1>2, <1>6, <2>1, <2>2, Sizes
  <2>4. r.pos < r.end
    BY <1>1, <1>7, Sizes
  <2> QED
    BY <1>1, <1>4, <1>6, <2>3, <2>4, Sizes
<1>9. k = l
  BY <1>8, SameBlock
<1>10. EndOf(frags[i]) = Start(k) + OffsetBehind(frags[i]) /\ OffsetBehind(frags[i]) \in Nat
  BY <1>2, <1>5, <1>6, <1>9, Sizes DEF EndOf, OffsetBehind
<1>11. CASE i + 1 \in DOMAIN frags
  <2>1. \/ frags[i + 1].at = EndOf(frags[i])
        \/ BlockSize - OffsetBehind(frags[i]) < HeaderSize
    BY <1>11 DEF AlignInv, FileInv, Followed
  <2>2. BlockSize - OffsetBehind(frags[i]) < HeaderSize => r.end - EndOf(frags[i]) < HeaderSize
    BY <1>1, <1>4, <1>6, <1>10, Sizes
  <2> QED
    BY <1>11, <2>1, <2>2
<1>12. CASE i + 1 \notin DOMAIN frags
  <2>1. i = Len(frags) /\ frags # <<>>
    BY <1>1, <1>12 DEF IInv
  <2>2. Len(file) <= EndOf(frags[i])
    BY <2>1 DEF AlignInv, FileInv, LastOne
  <2> QED
    BY <1>1, <1>6, <1>10, <2>2, Sizes
<1> QED
  BY <1>11, <1>12

\* What passes the checksum is as long, and of the type, as it was written.
LEMMA Undamaged ==
    ASSUME IInv, r.pos \in Nat, NEW i \in DOMAIN frags, Header = frags[i],
           NEW length \in ReadableLengths, NEW type \in ReadableTypes, ChecksumOK(length)
    PROVE  length = frags[i].length /\ type = frags[i].type
<1>1. length \in Nat
  BY FragmentNumbers DEF ReadableLengths
<1>2. damaged \cap ((r.pos + 1)..(r.pos + HeaderSize + length)) = {}
  BY DEF ChecksumOK
<1>3. /\ r.pos + HeaderSize - 1 \in (r.pos + 1)..(r.pos + HeaderSize + length)
      /\ r.pos + HeaderSize \in (r.pos + 1)..(r.pos + HeaderSize + length)
  BY <1>1, Sizes
<1>4. r.pos + HeaderSize - 1 \notin damaged /\ r.pos + HeaderSize \notin damaged
  BY <1>2, <1>3
<1> QED
  BY <1>4 DEF ReadableLengths, ReadableTypes

\* The payload handed over is a sequence of bytes.
LEMMA PayloadTyped ==
    ASSUME IInv, r.pos \in Nat, NEW length \in Nat, r.pos + HeaderSize + length <= Len(file)
    PROVE  SubSeq(file, r.pos + HeaderSize + 1, r.pos + HeaderSize + length) \in Seq(FileBytes)
<1>1. file \in Seq(FileBytes) /\ Len(file) \in Nat
  BY DEF IInv
<1>2. r.pos + HeaderSize + 1 \in Nat \ {0} /\ r.pos + HeaderSize + length \in Nat
  BY Sizes
<1>3. \A m \in (r.pos + HeaderSize + 1)..(r.pos + HeaderSize + length) : file[m] \in FileBytes
  BY <1>1, <1>2
<1> QED
  BY <1>1, <1>2, <1>3

\* Whatever the record is, damaged or not, the reader is left at a header, or
\* where none fits.
LEMMA PhysicalRecordPlace ==
    ASSUME AlignInv, PhysicalRecord
    PROVE  ReaderInv'
<1>1. /\ r \in ReaderRecords /\ r.pc = "read" /\ ReaderPlace(r) /\ Size >= HeaderSize
      /\ w.pc = "crashed" /\ UNCHANGED <<frags, file, w>> /\ Len(file) \in Nat
      /\ file \in Seq(FileBytes) /\ IInv
  BY DEF AlignInv, IInv, ReaderInv, PhysicalRecord
<1>2. r.pos \in Nat /\ r.end \in Nat /\ r.end <= Len(file) /\ r.pos <= r.end
  BY <1>1 DEF ReaderRecords, ReaderPlace
<1>3. PICK i \in DOMAIN frags :
            /\ r.pos = frags[i].at /\ file[r.pos + 1] = <<i, 1>> /\ Header = frags[i]
            /\ frags[i].type \in {Full, First, Middle}
  BY <1>1, HeaderRead
<1>4. PICK length \in ReadableLengths, type \in ReadableTypes :
         r' = IF HeaderSize + length > Size
                THEN IF r.eof THEN AtEof(r) ELSE BadRecord(Report(r))
              ELSE IF type = Zero /\ length = 0 THEN BadRecord(r)
              ELSE IF ~ChecksumOK(length) THEN BadRecord(Report(r))
              ELSE Deliver([r EXCEPT !.pos = @ + HeaderSize + length], type, r.pos,
                           SubSeq(file, r.pos + HeaderSize + 1, r.pos + HeaderSize + length))
  BY DEF PhysicalRecord
<1> DEFINE Kept(q) == /\ q \in ReaderRecords
                      /\ q.pc = r.pc /\ q.pos = r.end /\ q.end = r.end /\ q.eof = r.eof
<1>5. ASSUME NEW q \in ReaderRecords, q.pc = r.pc, q.end = r.end, q.eof = r.eof
      PROVE  Kept(BadRecord(q))
  <2>1. <<>> \in Seq(FileBytes) /\ q.reports + 1 \in Nat
    BY DEF ReaderRecords
  <2>2. ReportIf(q, q.fragmented) = q
        \/ ReportIf(q, q.fragmented) = [q EXCEPT !.reports = q.reports + 1]
    BY DEF ReportIf, Report
  <2> DEFINE s == ReportIf(q, q.fragmented)
  <2>3. s \in ReaderRecords /\ s.pc = r.pc /\ s.end = r.end /\ s.eof = r.eof
    BY <1>5, <2>1, <2>2 DEF ReaderRecords
  <2>4. BadRecord(q) = [s EXCEPT !.fragmented = FALSE, !.scratch = <<>>, !.pos = q.end]
    BY DEF BadRecord
  <2> HIDE DEF s
  <2> QED
    BY <1>2, <1>5, <2>1, <2>3, <2>4 DEF ReaderRecords
<1>6. /\ Report(r) \in ReaderRecords /\ Report(r).pc = r.pc /\ Report(r).end = r.end
      /\ Report(r).eof = r.eof
  <2>1. r.reports + 1 \in Nat
    BY <1>1 DEF ReaderRecords
  <2> QED
    BY <1>1, <2>1 DEF Report, ReaderRecords
<1>7. ASSUME Kept(r')
      PROVE  ReaderInv'
  <2>1. \E k \in Nat : Start(k) <= r.end /\ r.end <= Start(k) + BlockSize
    <3>1. PICK k \in Nat : Start(k) <= r.pos /\ r.end <= Start(k) + BlockSize
      BY <1>1 DEF ReaderPlace
    <3>2. Start(k) \in Nat
      BY Blocks
    <3> QED
      BY <1>2, <3>1, <3>2
  <2>2. ~r'.eof => \E k \in Nat : r'.end = Start(k)
    BY <1>1, <1>7 DEF ReaderPlace
  <2>3. r'.end - r'.pos < HeaderSize /\ r'.pos <= r'.end /\ r'.end <= Len(file')
    BY <1>1, <1>2, <1>7, Sizes
  <2>4. \E k \in Nat : Start(k) <= r'.pos /\ r'.end <= Start(k) + BlockSize
    BY <1>7, <2>1
  <2>5. r' \in ReaderRecords /\ r'.pc = "read" /\ w'.pc = "crashed"
    BY <1>1, <1>7
  <2> QED
    BY <2>2, <2>3, <2>4, <2>5 DEF ReaderInv, ReaderPlace, AtStart
<1>8. CASE HeaderSize + length > Size /\ r.eof
  <2>1. r' = [r EXCEPT !.pos = r.end, !.scratch = <<>>, !.pc = "done"]
    BY <1>4, <1>8 DEF AtEof
  <2>2. <<>> \in Seq(FileBytes)
    OBVIOUS
  <2>3. r' \in ReaderRecords /\ r'.pc = "done"
    BY <1>1, <1>2, <2>1, <2>2 DEF ReaderRecords
  <2>4. w'.pc = "crashed"
    BY <1>1
  <2> QED
    BY <2>3, <2>4 DEF ReaderInv
<1>9. CASE r' \in {BadRecord(r), BadRecord(Report(r))}
  <2>1. Kept(BadRecord(r)) /\ Kept(BadRecord(Report(r)))
    <3> HIDE DEF Kept
    <3> QED
      BY <1>1, <1>5, <1>6
  <2> QED
    BY <1>7, <1>9, <2>1
<1>10. CASE /\ ~(HeaderSize + length > Size) /\ ChecksumOK(length)
            /\ r' = Deliver([r EXCEPT !.pos = @ + HeaderSize + length], type, r.pos,
                            SubSeq(file, r.pos + HeaderSize + 1, r.pos + HeaderSize + length))
  <2>1. length \in Nat /\ frags[i].length \in Nat
    BY <1>1, <1>3, FragmentNumbers DEF ReadableLengths
  <2>2. length = frags[i].length /\ type = frags[i].type
    BY <1>1, <1>2, <1>3, <1>4, <1>10, Undamaged
  <2>3. HeaderSize + frags[i].length <= Size
    BY <1>2, <1>10, <2>1, <2>2, Sizes DEF Size
  <2> DEFINE q == [r EXCEPT !.pos = r.pos + HeaderSize + length]
             bytes == SubSeq(file, r.pos + HeaderSize + 1, r.pos + HeaderSize + length)
  <2>4. r.pos + HeaderSize + length \in Nat /\ r.pos + HeaderSize + length <= r.end
    BY SMTT(30), <1>2, <2>1, <2>2, <2>3, Sizes DEF Size
  <2>5. q \in ReaderRecords /\ q.pc = "read" /\ q.end = r.end /\ q.eof = r.eof
        /\ q.pos = r.pos + HeaderSize + length
    BY <1>1, <2>4 DEF ReaderRecords
  <2>6. bytes \in Seq(FileBytes)
    <3>1. r.pos + HeaderSize + length <= Len(file)
      BY <1>1, <1>2, <2>4
    <3> QED
      BY <1>1, <1>2, <2>1, <3>1, PayloadTyped
  <2>7. r' = Deliver(q, type, r.pos, bytes)
    BY <1>10
  <2> HIDE DEF q, bytes
  <2>8. type \in {Full, First, Middle, Last}
    BY <1>3, <2>2
  <2>9. /\ r' \in ReaderRecords /\ r'.pc = "read" /\ r'.end = r.end /\ r'.eof = r.eof
         /\ r'.pos = r.pos + HeaderSize + length
    BY ZenonT(30), <1>2, <2>5, <2>6, <2>7, <2>8, DeliverReader
  <2>10. r'.pos = EndOf(frags[i])
    BY <1>3, <2>2, <2>9 DEF EndOf
  <2>11. AtStart(r)'
    <3>1. \/ r.end - EndOf(frags[i]) < HeaderSize
          \/ \E j \in DOMAIN frags : EndOf(frags[i]) = frags[j].at
      BY <1>1, <1>3, <2>3, BehindFragment
    <3> QED
      BY <1>1, <2>9, <2>10, <3>1 DEF AtStart
  <2>12. r'.pos <= r'.end /\ r'.end <= Len(file')
    BY <1>1, <1>2, <2>4, <2>9
  <2>13. \E k \in Nat : Start(k) <= r'.pos /\ r'.end <= Start(k) + BlockSize
    <3>1. PICK k \in Nat : Start(k) <= r.pos /\ r.end <= Start(k) + BlockSize
      BY <1>1 DEF ReaderPlace
    <3>2. Start(k) \in Nat
      BY Blocks
    <3>3. r.pos <= r'.pos
      BY <1>2, <2>1, <2>9, Sizes
    <3>4. Start(k) <= r'.pos
      BY <1>2, <2>4, <2>9, <3>1, <3>2, <3>3
    <3> QED
      BY <2>9, <3>1, <3>4
  <2>14. ~r'.eof => \E k \in Nat : r'.end = Start(k)
    BY <1>1, <2>9 DEF ReaderPlace
  <2>15. w'.pc = "crashed"
    BY <1>1
  <2> QED
    BY <2>9, <2>11, <2>12, <2>13, <2>14, <2>15 DEF ReaderInv, ReaderPlace, AtStart
<1> QED
  BY <1>4, <1>8, <1>9, <1>10

\* Nothing the reader does touches the writer or the file.
LEMMA ReaderStepInv ==
    ASSUME AlignInv, ReaderStep \/ Finished \/ UNCHANGED vars
    PROVE  FileInv' /\ ReaderInv'
<1>1. UNCHANGED <<frags, file, w>>
  BY DEF ReaderStep, ReadBlock, ReadFails, PhysicalRecord, EndOfFile, Finished, vars
<1>2. FileInv'
  BY <1>1 DEF AlignInv, FileInv, InBlocks, Followed, LastOne, WriterPlace, Written,
              BlocksBegin, EndOf, OffsetBehind
<1>3. r \in ReaderRecords /\ (w.pc # "crashed" => r.pc = "closed")
  BY DEF AlignInv, ReaderInv
<1>4. <<>> \in Seq(FileBytes)
  OBVIOUS
<1>5. CASE EndOfFile
  <2>1. r' = [r EXCEPT !.pos = r.end, !.scratch = <<>>, !.pc = "done"] /\ r.pc = "read"
    BY <1>5 DEF EndOfFile, AtEof
  <2>2. r.end \in Nat
    BY <1>3 DEF ReaderRecords
  <2>3. r' \in ReaderRecords /\ r'.pc = "done"
    BY <1>3, <1>4, <2>1, <2>2 DEF ReaderRecords
  <2> QED
    BY <1>1, <1>2, <1>3, <2>1, <2>3 DEF ReaderInv
<1>6. CASE ReadFails
  <2> DEFINE q == [r EXCEPT !.reports = r.reports + 1]
             s == [q EXCEPT !.pos = q.end, !.scratch = <<>>, !.pc = "done"]
  <2>1. r' = [s EXCEPT !.eof = TRUE, !.failed = TRUE] /\ r.pc = "read"
    BY <1>6 DEF ReadFails, AtEof, Report
  <2>2. q \in ReaderRecords
    BY <1>3 DEF ReaderRecords
  <2> HIDE DEF q
  <2>3. s \in ReaderRecords /\ s.pc = "done"
    BY <1>4, <2>2 DEF ReaderRecords
  <2> HIDE DEF s
  <2>4. r' \in ReaderRecords /\ r'.pc = "done"
    BY <2>1, <2>3 DEF ReaderRecords
  <2> QED
    BY <1>1, <1>2, <1>3, <2>1, <2>4 DEF ReaderInv
<1>7. CASE Finished \/ UNCHANGED vars
  <2>1. r' = r /\ ReaderInv
    BY <1>7 DEF Finished, vars, AlignInv
  <2> QED
    BY <1>1, <1>2, <2>1 DEF ReaderInv, ReaderPlace, AtStart
<1> QED
  BY <1>2, <1>5, <1>6, <1>7, ReadBlockPlace, PhysicalRecordPlace DEF ReaderStep

\* A crash keeps a prefix of the file; the reader starts at its first block.
LEMMA ReopenInv ==
    ASSUME AlignInv, NEW size \in synced..Len(file), NEW bad, Reopen(size, bad)
    PROVE  FileInv' /\ ReaderInv'
<1>1. /\ w \in WriterRecords /\ frags \in Seq(FragmentRecords) /\ file \in Seq(FileBytes)
      /\ synced \in 0..Len(file) /\ Len(file) \in Nat /\ IInv /\ r \in ReaderRecords
      /\ r.pc = "closed" /\ r.pos = 0 /\ r.end = 0 /\ ~r.eof
  BY DEF AlignInv, IInv, ReaderInv, Reopen
<1>2. /\ file' = SubSeq(file, 1, size) /\ w' = [w EXCEPT !.pc = "crashed"]
      /\ r' = [r EXCEPT !.pc = "read"] /\ UNCHANGED frags
  BY DEF Reopen
<1>3. w'.pc = "crashed"
  BY <1>1, <1>2 DEF WriterRecords
<1>4. /\ size \in Nat /\ Len(file') = size /\ Len(file') <= Len(file)
      /\ \A j \in 1..size : file'[j] = file[j]
  BY <1>1, <1>2
<1>5. InBlocks' /\ Followed'
  BY <1>2 DEF AlignInv, FileInv, InBlocks, Followed, EndOf, OffsetBehind
<1>6. LastOne'
  <2> SUFFICES ASSUME frags # <<>>
               PROVE  Len(file') <= EndOf(frags[Len(frags)])
    BY <1>2, <1>3 DEF LastOne, EndOf, OffsetBehind
  <2>1. Len(frags) \in DOMAIN frags
    BY <1>1
  <2>2. EndOf(frags[Len(frags)]) \in Nat
    BY <1>1, <2>1, FragmentNumbers, Sizes DEF EndOf
  <2>3. Len(file) <= EndOf(frags[Len(frags)])
    BY DEF AlignInv, FileInv, LastOne
  <2> QED
    BY <1>1, <1>4, <2>2, <2>3
<1>7. WriterPlace'
  BY <1>3 DEF WriterPlace
<1>8. Written'
  <2> SUFFICES ASSUME NEW i \in DOMAIN frags
               PROVE  /\ frags[i].type \in {Full, First, Middle}
                      /\ \A j \in 1..(HeaderSize + frags[i].length) :
                           frags[i].at + j <= Len(file') => file'[frags[i].at + j] = <<i, j>>
    BY <1>2, <1>3 DEF Written
  <2>1. frags[i].at \in Nat /\ frags[i].length \in Nat
    BY <1>1, FragmentNumbers
  <2>2. /\ frags[i].type \in {Full, First, Middle}
        /\ \A j \in 1..(HeaderSize + frags[i].length) :
             frags[i].at + j <= Len(file) => file[frags[i].at + j] = <<i, j>>
    BY DEF AlignInv, FileInv, Written
  <2>3. ASSUME NEW j \in 1..(HeaderSize + frags[i].length), frags[i].at + j <= Len(file')
        PROVE  frags[i].at + j <= Len(file) /\ frags[i].at + j \in 1..size
    BY <1>1, <1>4, <2>1, <2>3, Sizes
  <2> QED
    BY <1>4, <2>2, <2>3
<1>9. BlocksBegin'
  <2> SUFFICES ASSUME NEW k \in Nat, Start(k) < Len(file')
               PROVE  \E i \in DOMAIN frags : frags[i].at = Start(k)
    BY <1>2 DEF BlocksBegin
  <2>1. Start(k) \in Nat
    BY Blocks
  <2>2. Start(k) < Len(file)
    BY <1>1, <1>4, <2>1
  <2> QED
    BY <2>2 DEF AlignInv, FileInv, BlocksBegin
<1>10. /\ r' \in ReaderRecords /\ r'.pc = "read" /\ r'.pos = 0 /\ r'.end = 0 /\ ~r'.eof
  BY <1>1, <1>2 DEF ReaderRecords
<1>11. 0 \in Nat /\ Start(0) = 0
  BY Blocks
<1>12. /\ r'.pos <= r'.end /\ r'.end <= Len(file') /\ r'.end - r'.pos < HeaderSize
       /\ Start(0) <= r'.pos /\ r'.end <= Start(0) + BlockSize
  BY <1>4, <1>10, <1>11, Sizes
<1>13. ReaderPlace(r)'
  BY <1>10, <1>11, <1>12 DEF ReaderPlace, AtStart
<1> QED
  BY <1>3, <1>5, <1>6, <1>7, <1>8, <1>9, <1>10, <1>13 DEF FileInv, ReaderInv

\* While the writer lives, the reader is not there.
LEMMA WriterStepInv ==
    ASSUME AlignInv, WriterStep
    PROVE  FileInv' /\ ReaderInv'
<1>1. w \in WriterRecords /\ r' = r /\ w.pc # "crashed"
  <2>1. ASSUME NEW count, NEW pc, Emit(count, pc)
        PROVE  r' = r /\ w.pc # "crashed"
    BY <2>1 DEF Emit
  <2>2. ASSUME NEW n, AddRecord(n)
        PROVE  r' = r /\ w.pc # "crashed"
    BY <2>2 DEF AddRecord, Idle
  <2>3. Sync \/ SyncFails => r' = r /\ w.pc # "crashed"
    BY DEF Sync, SyncFails, Idle
  <2> QED
    BY <2>1, <2>2, <2>3 DEF WriterStep, EmitFragment, EmitFails, AlignInv, IInv
<1>2. ReaderInv'
  <2>1. r.pc = "closed" /\ ReaderInv
    BY <1>1 DEF AlignInv, ReaderInv
  <2> QED
    BY <1>1, <2>1 DEF ReaderInv
<1>3. ASSUME frags' = frags, file' = file, w'.block_offset = w.block_offset, w.pc = "idle"
      PROVE  FileInv'
  <2>1. w.pc \in {"idle", "add"}
    BY <1>3
  <2> QED
    BY <1>3, <2>1 DEF AlignInv, FileInv, InBlocks, Followed, LastOne, WriterPlace, Written,
                BlocksBegin, EndOf, OffsetBehind
<1>4. ASSUME NEW n \in Lengths, AddRecord(n)
      PROVE  FileInv'
  <2>1. /\ w' = [w EXCEPT !.pc = "add", !.left = n, !.begin = TRUE]
        /\ frags' = frags /\ file' = file /\ w.pc = "idle"
    BY <1>4 DEF AddRecord, Idle
  <2>2. w'.block_offset = w.block_offset
    BY <1>1, <2>1 DEF WriterRecords
  <2> QED
    BY <1>3, <2>1, <2>2
<1>5. CASE Sync \/ SyncFails
  <2>1. /\ frags' = frags /\ file' = file /\ w.pc = "idle"
        /\ \/ w' = [w EXCEPT !.durable = Len(records)]
           \/ w' = [w EXCEPT !.pc = "failed"]
    BY <1>5 DEF Sync, SyncFails, Idle
  <2>2. w'.block_offset = w.block_offset
    BY <1>1, <2>1 DEF WriterRecords
  <2> QED
    BY <1>2, <1>3, <2>1, <2>2
<1>6. IInv
  BY DEF AlignInv
<1>7. CASE EmitFragment
  <2>1. Len(Emitted) \in 0..Len(Emitted)
    BY <1>6, EmittedIsSequence
  <2> DEFINE pc == IF w.left > FragmentLength THEN "add" ELSE "idle"
  <2>2. pc \in {"idle", "add", "failed"}
    OBVIOUS
  <2>3. Emit(Len(Emitted), pc)
    BY <1>7 DEF EmitFragment
  <2> HIDE DEF pc
  <2>4. pc = "failed" \/ Len(Emitted) = Len(Emitted)
    OBVIOUS
  <2> QED
    BY <1>2, <2>1, <2>2, <2>3, <2>4, EmitFile
<1>8. CASE EmitFails
  <2>1. PICK count \in 0..(Len(Emitted) - 1) : Emit(count, "failed")
    BY <1>8 DEF EmitFails
  <2>2. count \in 0..Len(Emitted) /\ "failed" \in {"idle", "add", "failed"}
    BY <1>6, EmittedIsSequence
  <2>3. "failed" = "failed" \/ count = Len(Emitted)
    OBVIOUS
  <2> QED
    BY <1>2, <2>1, <2>2, <2>3, EmitFile
<1> QED
  BY <1>2, <1>4, <1>5, <1>7, <1>8 DEF WriterStep

LEMMA AlignInit == Init => FileInv /\ ReaderInv
<1> SUFFICES ASSUME Init
             PROVE  FileInv /\ ReaderInv
  OBVIOUS
<1>1. /\ frags = <<>> /\ file = <<>>
      /\ w = [pc |-> "idle", block_offset |-> 0, left |-> 0, begin |-> FALSE, durable |-> 0]
      /\ r = [pc |-> "closed", pos |-> 0, end |-> 0, eof |-> FALSE, fragmented |-> FALSE,
              scratch |-> <<>>, prospective |-> 0, out |-> <<>>, reports |-> 0, failed |-> FALSE]
  BY DEF Init
<1>2. DOMAIN frags = {} /\ Len(file) = 0
  BY <1>1
<1>3. InBlocks /\ Followed /\ LastOne /\ Written
  BY <1>1, <1>2 DEF InBlocks, Followed, LastOne, Written
<1>4. WriterPlace
  <2>1. 0 \in Nat /\ Len(file) = Start(0) + w.block_offset
    BY <1>1, <1>2, Blocks
  <2> QED
    BY <2>1 DEF WriterPlace
<1>5. BlocksBegin
  <2>1. \A k \in Nat : ~(Start(k) < Len(file))
    BY <1>2, Blocks
  <2> QED
    BY <2>1 DEF BlocksBegin
<1>6. <<>> \in Seq(FileBytes) /\ <<>> \in Seq(Outputs)
  OBVIOUS
<1>7. ReaderInv
  BY <1>1, <1>6 DEF ReaderInv, ReaderRecords
<1> QED
  BY <1>3, <1>4, <1>5, <1>7 DEF FileInv

LEMMA AlignStep == AlignInv /\ [Next]_vars => AlignInv'
<1> SUFFICES ASSUME AlignInv, [Next]_vars
             PROVE  AlignInv'
  OBVIOUS
<1>1. IInv'
  BY StepInv DEF AlignInv
<1>2. ASSUME NEW size \in synced..Len(file), NEW bad, Reopen(size, bad)
      PROVE  FileInv' /\ ReaderInv'
  BY <1>2, ReopenInv
<1>3. FileInv' /\ ReaderInv'
  BY <1>2, WriterStepInv, ReaderStepInv DEF Next
<1> QED
  BY <1>1, <1>3 DEF AlignInv

\* log_reader.cc:124-185: for every block size, every sequence of records and of
\* failed writes, and wherever a crash cut the file, the reader only takes for a
\* header what the writer wrote as one, so that a damaged byte cannot make it
\* read payload as headers.
THEOREM ReaderIsAligned == Spec => []ReaderAligned
<1>1. Init => AlignInv
  BY InitInv, AlignInit DEF AlignInv
<1>2. AlignInv => ReaderAligned
  BY HeaderRead DEF ReaderAligned
<1> QED
  BY <1>1, <1>2, AlignStep, PTL DEF Spec

-----------------------------------------------------------------------------
(* What the reader returns.                                                *)

\* Only a full record is returned; the writer writes no kLastType.
LEMMA DeliverOut ==
    ASSUME NEW q \in ReaderRecords, NEW type \in {Full, First, Middle}, NEW at, NEW bytes
    PROVE  LET d == Deliver(q, type, at, bytes) IN
           \/ d.out = q.out
           \/ type = Full /\ d.out = Append(q.out, [at |-> at, bytes |-> bytes])
<1>1. ASSUME NEW condition
      PROVE  /\ ReportIf(q, condition).out = q.out /\ Report(q).out = q.out
             /\ DOMAIN ReportIf(q, condition) = DOMAIN q
  BY DEF Report, ReportIf, ReaderRecords
<1>2. "out" \in DOMAIN q
  BY DEF ReaderRecords
<1> DEFINE unfinished == q.fragmented /\ q.scratch # <<>>
<1>3. CASE type = Full
  <2>1. Deliver(q, type, at, bytes) = Returned(ReportIf(q, unfinished), at, bytes)
    BY <1>3 DEF Deliver, Full, First, Middle, Last
  <2> QED
    BY <1>1, <1>2, <1>3, <2>1 DEF Returned
<1>4. CASE type = First
  <2>1. Deliver(q, type, at, bytes) =
          [ReportIf(q, unfinished) EXCEPT !.fragmented = TRUE, !.scratch = bytes,
                                          !.prospective = at]
    BY <1>4 DEF Deliver, Full, First, Middle, Last
  <2> QED
    BY <1>1, <1>2, <2>1
<1>5. CASE type = Middle /\ ~q.fragmented
  <2>1. Deliver(q, type, at, bytes) = Report(q)
    BY <1>5 DEF Deliver, Full, First, Middle, Last
  <2> QED
    BY <1>1, <2>1
<1>6. CASE type = Middle /\ q.fragmented
  <2>1. Deliver(q, type, at, bytes) = [q EXCEPT !.scratch = q.scratch \o bytes]
    BY <1>6 DEF Deliver, Full, First, Middle, Last
  <2> QED
    BY <1>2, <2>1
<1> QED
  BY <1>3, <1>4, <1>5, <1>6

\* The bytes behind a header, up to the length it gives, are the fragment's.
LEMMA PayloadRead ==
    ASSUME AlignInv, NEW i \in DOMAIN frags, EndOf(frags[i]) <= Len(file)
    PROVE  LET f == frags[i] IN
           SubSeq(file, f.at + HeaderSize + 1, f.at + HeaderSize + f.length)
             = [j \in 1..f.length |-> <<i, HeaderSize + j>>]
<1> DEFINE f == frags[i]
           a == f.at + HeaderSize
           n == f.length
           s == SubSeq(file, a + 1, a + n)
<1>1. /\ f.at \in Nat /\ n \in Nat /\ file \in Seq(FileBytes) /\ Len(file) \in Nat
      /\ EndOf(f) = f.at + HeaderSize + n
  BY FragmentNumbers DEF AlignInv, IInv, EndOf
<1>2. a \in Nat /\ a = f.at + HeaderSize /\ a + n <= Len(file)
  BY <1>1, Sizes
<1>3. \A j \in 1..(HeaderSize + n) : f.at + j <= Len(file) => file[f.at + j] = <<i, j>>
  BY DEF AlignInv, FileInv, Written
<1> HIDE DEF a, n, f
<1>4. ASSUME NEW j \in 1..n
      PROVE  file[a + j] = <<i, HeaderSize + j>>
  <2>1. /\ HeaderSize + j \in 1..(HeaderSize + n) /\ f.at + (HeaderSize + j) = a + j
        /\ f.at + (HeaderSize + j) <= Len(file)
    BY <1>1, <1>2, Sizes
  <2> QED
    BY <1>3, <2>1
<1>5. s = [j \in 1..n |-> file[a + j]]
  BY SMTT(30), <1>1, <1>2
<1>6. s = [j \in 1..n |-> <<i, HeaderSize + j>>]
  BY <1>4, <1>5
<1> QED
  BY <1>6 DEF a, n, f

\* What is returned is behind all that was returned before.
LEMMA AppendReturned ==
    ASSUME AlignInv, ReturnedInv, r.pc = "read", r.out \in Seq(Outputs),
           NEW i \in DOMAIN frags, frags[i].type = Full, r.pos = frags[i].at,
           EndOf(frags[i]) <= Len(file),
           damaged \cap ((frags[i].at + 1)..(frags[i].at + HeaderSize + frags[i].length)) = {},
           r'.out = Append(r.out,
                           [at |-> r.pos,
                            bytes |-> SubSeq(file, r.pos + HeaderSize + 1,
                                             r.pos + HeaderSize + frags[i].length)]),
           UNCHANGED <<frags, damaged>>,
           r'.pc = "read", r'.pos = EndOf(frags[i])
    PROVE  ReturnedInv'
<1> DEFINE next == [at |-> r.pos,
                    bytes |-> SubSeq(file, r.pos + HeaderSize + 1,
                                     r.pos + HeaderSize + frags[i].length)]
<1>1. next.at = frags[i].at /\ next.bytes = [j \in 1..frags[i].length |-> <<i, HeaderSize + j>>]
  BY PayloadRead
<1>2. r'.out = Append(r.out, next)
  OBVIOUS
<1> HIDE DEF next
<1>3. /\ Len(r.out) \in Nat /\ DOMAIN r.out = 1..Len(r.out)
      /\ DOMAIN r'.out = 1..(Len(r.out) + 1)
      /\ \A k \in DOMAIN r.out : r'.out[k] = r.out[k]
      /\ r'.out[Len(r.out) + 1] = next
  BY <1>2
<1>4. \A k \in DOMAIN r.out : r.out[k].at < r.pos
  BY DEF ReturnedInv
<1>5. frags[i].at \in Nat /\ EndOf(frags[i]) \in Nat /\ frags[i].at < EndOf(frags[i])
  BY FragmentNumbers, Sizes DEF AlignInv, EndOf
<1>6. \A k \in DOMAIN r.out : r.out[k].at \in Nat
  <2>1. \A k \in DOMAIN r.out : r.out[k] \in Outputs
    OBVIOUS
  <2> QED
    BY <2>1 DEF Outputs
<1>7. \A k \in DOMAIN r'.out : r'.out[k].at < r'.pos
  BY <1>1, <1>3, <1>4, <1>5, <1>6
<1>8. ReadsWhatWasWritten'
  <2> SUFFICES ASSUME NEW k \in DOMAIN r'.out
               PROVE  /\ \E m \in DOMAIN frags :
                           /\ frags[m].type = Full /\ r'.out[k].at = frags[m].at
                           /\ r'.out[k].bytes = [j \in 1..frags[m].length |-> <<m, HeaderSize + j>>]
                           /\ damaged \cap ((frags[m].at + 1)..(frags[m].at + HeaderSize
                                                                 + frags[m].length)) = {}
                      /\ \A l \in 1..(k - 1) : r'.out[l].at < r'.out[k].at
    BY DEF ReadsWhatWasWritten
  <2>1. CASE k \in DOMAIN r.out
    <3>1. \A l \in 1..(k - 1) : l \in DOMAIN r.out
      BY <1>3, <2>1
    <3> QED
      BY <1>3, <2>1, <3>1 DEF ReturnedInv, ReadsWhatWasWritten
  <2>2. CASE k = Len(r.out) + 1
    <3>1. \A l \in 1..(k - 1) : l \in DOMAIN r.out
      BY <1>3, <2>2
    <3>2. r'.out[k] = next
      BY <1>3, <2>2
    <3>3. \A l \in 1..(k - 1) : r'.out[l].at < r'.out[k].at
      BY <1>1, <1>3, <1>4, <3>1, <3>2
    <3> QED
      BY <1>1, <3>2, <3>3
  <2>3. k \in DOMAIN r.out \/ k = Len(r.out) + 1
    BY <1>3
  <2> QED
    BY <2>1, <2>2, <2>3
<1> QED
  BY <1>7, <1>8 DEF ReturnedInv

\* Without a record returned, the reader only moves on.
LEMMA NothingReturned ==
    ASSUME AlignInv, ReturnedInv, UNCHANGED <<frags, damaged>>, r'.out = r.out, r.pc = "read",
           \/ r'.pc = "done"
           \/ r'.pc = "read" /\ r'.pos \in Nat /\ r.pos <= r'.pos
    PROVE  ReturnedInv'
<1>1. r.out \in Seq(Outputs) /\ r.pos \in Nat
  BY DEF AlignInv, ReaderInv, ReaderRecords
<1>2. \A k \in DOMAIN r.out : r.out[k].at \in Nat
  <2>1. \A k \in DOMAIN r.out : r.out[k] \in Outputs
    BY <1>1
  <2> QED
    BY <2>1 DEF Outputs
<1>3. ReadsWhatWasWritten'
  BY DEF ReturnedInv, ReadsWhatWasWritten
<1>4. r'.pc = "read" => \A k \in DOMAIN r'.out : r'.out[k].at < r'.pos
  BY <1>1, <1>2 DEF ReturnedInv
<1> QED
  BY <1>3, <1>4 DEF ReturnedInv

\* Before the crash nothing is returned.
LEMMA BeforeReading ==
    ASSUME r'.out = <<>>
    PROVE  ReturnedInv'
<1>1. DOMAIN r'.out = {}
  OBVIOUS
<1> QED
  BY <1>1 DEF ReturnedInv, ReadsWhatWasWritten

LEMMA PhysicalRecordReturned ==
    ASSUME AlignInv, ReturnedInv, PhysicalRecord
    PROVE  ReturnedInv'
<1>1. /\ r \in ReaderRecords /\ r.pc = "read" /\ Size >= HeaderSize
      /\ UNCHANGED <<frags, damaged>> /\ IInv /\ r.out \in Seq(Outputs)
      /\ r.pos \in Nat /\ r.end \in Nat /\ r.pos <= r.end /\ r.end <= Len(file)
      /\ Len(file) \in Nat
  BY DEF AlignInv, IInv, ReaderInv, ReaderRecords, ReaderPlace, PhysicalRecord
<1>2. PICK i \in DOMAIN frags :
            /\ r.pos = frags[i].at /\ file[r.pos + 1] = <<i, 1>> /\ Header = frags[i]
            /\ frags[i].type \in {Full, First, Middle}
  BY <1>1, HeaderRead
<1>3. PICK length \in ReadableLengths, type \in ReadableTypes :
         r' = IF HeaderSize + length > Size
                THEN IF r.eof THEN AtEof(r) ELSE BadRecord(Report(r))
              ELSE IF type = Zero /\ length = 0 THEN BadRecord(r)
              ELSE IF ~ChecksumOK(length) THEN BadRecord(Report(r))
              ELSE Deliver([r EXCEPT !.pos = @ + HeaderSize + length], type, r.pos,
                           SubSeq(file, r.pos + HeaderSize + 1, r.pos + HeaderSize + length))
  BY DEF PhysicalRecord
<1>4. ASSUME NEW q \in ReaderRecords
      PROVE  BadRecord(q).out = q.out /\ BadRecord(q).pc = q.pc /\ BadRecord(q).pos = q.end
  <2> DEFINE s == ReportIf(q, q.fragmented)
  <2>1. s.out = q.out /\ s.pc = q.pc /\ DOMAIN s = DOMAIN q
    BY DEF ReportIf, Report, ReaderRecords
  <2>2. {"out", "pc", "pos", "fragmented", "scratch"} \subseteq DOMAIN q
    BY DEF ReaderRecords
  <2>3. BadRecord(q) = [s EXCEPT !.fragmented = FALSE, !.scratch = <<>>, !.pos = q.end]
    BY DEF BadRecord
  <2> HIDE DEF s
  <2> QED
    BY <2>1, <2>2, <2>3
<1>5. /\ Report(r) \in ReaderRecords /\ Report(r).pc = r.pc /\ Report(r).end = r.end
      /\ Report(r).out = r.out
  <2>1. r.reports + 1 \in Nat
    BY <1>1 DEF ReaderRecords
  <2> QED
    BY <1>1, <2>1 DEF Report, ReaderRecords
<1>6. CASE r' = AtEof(r) \/ r' = BadRecord(r) \/ r' = BadRecord(Report(r))
  <2>1. r'.out = r.out /\ (r'.pc = "done" \/ (r'.pc = "read" /\ r'.pos = r.end))
    <3>1. CASE r' = AtEof(r)
      <4>1. r'.out = r.out /\ r'.pc = "done"
        BY <1>1, <3>1 DEF AtEof, ReaderRecords
      <4> QED
        BY <4>1
    <3>2. CASE r' = BadRecord(r)
      BY <1>1, <1>4, <3>2
    <3>3. CASE r' = BadRecord(Report(r))
      BY <1>1, <1>4, <1>5, <3>3
    <3> QED
      BY <1>6, <3>1, <3>2, <3>3
  <2>2. r'.pc = "done" \/ (r'.pc = "read" /\ r'.pos \in Nat /\ r.pos <= r'.pos)
    BY <1>1, <2>1
  <2> QED
    BY <1>1, <2>1, <2>2, NothingReturned
<1>7. CASE /\ ~(HeaderSize + length > Size) /\ ChecksumOK(length)
           /\ r' = Deliver([r EXCEPT !.pos = @ + HeaderSize + length], type, r.pos,
                           SubSeq(file, r.pos + HeaderSize + 1, r.pos + HeaderSize + length))
  <2>1. frags[i].length \in Nat /\ EndOf(frags[i]) = frags[i].at + HeaderSize + frags[i].length
    BY <1>1, FragmentNumbers DEF EndOf
  <2>2. length = frags[i].length /\ type = frags[i].type
    BY <1>1, <1>2, <1>3, <1>7, Undamaged
  <2> DEFINE q == [r EXCEPT !.pos = r.pos + HeaderSize + length]
             bytes == SubSeq(file, r.pos + HeaderSize + 1, r.pos + HeaderSize + length)
  <2>3. r.pos + HeaderSize + length \in Nat /\ r.pos + HeaderSize + length <= r.end
        /\ r.pos <= r.pos + HeaderSize + length
    BY SMTT(30), <1>1, <1>7, <2>1, <2>2, Sizes DEF Size
  <2>4. q \in ReaderRecords /\ q.pc = "read" /\ q.out = r.out
        /\ q.pos = r.pos + HeaderSize + length
    BY <1>1, <2>3 DEF ReaderRecords
  <2>5. bytes \in Seq(FileBytes)
    <3>1. length \in Nat /\ r.pos + HeaderSize + length <= Len(file)
      BY <1>1, <2>1, <2>2, <2>3
    <3> QED
      BY <1>1, <3>1, PayloadTyped
  <2>6. r' = Deliver(q, type, r.pos, bytes)
    BY <1>7
  <2>7. bytes = SubSeq(file, r.pos + HeaderSize + 1, r.pos + HeaderSize + frags[i].length)
    BY <2>2
  <2> HIDE DEF q, bytes
  <2>8. r'.pc = "read" /\ r'.pos = r.pos + HeaderSize + length
    <3>1. type \in {Full, First, Middle, Last}
      BY <1>2, <2>2
    <3>2. Deliver(q, type, r.pos, bytes).pc = q.pc /\ Deliver(q, type, r.pos, bytes).pos = q.pos
      BY ZenonT(30), <1>1, <2>4, <2>5, <3>1, DeliverReader
    <3> QED
      BY <2>4, <2>6, <3>2
  <2>9. \/ r'.out = r.out
        \/ type = Full /\ r'.out = Append(r.out, [at |-> r.pos, bytes |-> bytes])
    BY SMTT(30), <1>2, <2>2, <2>4, <2>6, DeliverOut
  <2>10. CASE r'.out = r.out
    BY <1>1, <2>3, <2>8, <2>10, NothingReturned
  <2>11. CASE type = Full /\ r'.out = Append(r.out, [at |-> r.pos, bytes |-> bytes])
    <3>1. frags[i].type = Full /\ r'.pos = EndOf(frags[i])
      BY <1>2, <2>1, <2>2, <2>8, <2>11
    <3>2. EndOf(frags[i]) <= Len(file)
      BY <1>1, <1>2, <2>1, <2>2, <2>3
    <3>3. damaged \cap ((frags[i].at + 1)..(frags[i].at + HeaderSize + frags[i].length)) = {}
      BY <1>2, <1>7, <2>2 DEF ChecksumOK
    <3>4. r'.out = Append(r.out,
                          [at |-> r.pos,
                           bytes |-> SubSeq(file, r.pos + HeaderSize + 1,
                                            r.pos + HeaderSize + frags[i].length)])
      BY <2>7, <2>11
    <3> QED
      BY <1>1, <1>2, <2>8, <3>1, <3>2, <3>3, <3>4, AppendReturned
  <2> QED
    BY <2>9, <2>10, <2>11
<1> QED
  BY <1>3, <1>6, <1>7

LEMMA ReadStep == ReadInv /\ [Next]_vars => ReadInv'
<1> SUFFICES ASSUME ReadInv, [Next]_vars
             PROVE  ReadInv'
  OBVIOUS
<1>1. AlignInv /\ AlignInv' /\ ReturnedInv
  BY AlignStep DEF ReadInv
<1>2. r \in ReaderRecords /\ (w.pc # "crashed" => r.pc = "closed")
  BY <1>1 DEF AlignInv, ReaderInv
<1>3. CASE WriterStep
  <2>1. r' = r /\ w.pc # "crashed"
    <3>1. ASSUME NEW count, NEW pc, Emit(count, pc)
          PROVE  r' = r /\ w.pc # "crashed"
      BY <3>1 DEF Emit
    <3>2. ASSUME NEW n, AddRecord(n)
          PROVE  r' = r /\ w.pc # "crashed"
      BY <3>2 DEF AddRecord, Idle
    <3>3. Sync \/ SyncFails => r' = r /\ w.pc # "crashed"
      BY DEF Sync, SyncFails, Idle
    <3> QED
      BY <1>3, <3>1, <3>2, <3>3 DEF WriterStep, EmitFragment, EmitFails
  <2>2. r'.out = <<>>
    BY <1>1, <1>2, <2>1 DEF ReturnedInv
  <2> QED
    BY <1>1, <2>2, BeforeReading DEF ReadInv
<1>4. ASSUME NEW size, NEW bad, Reopen(size, bad)
      PROVE  ReadInv'
  <2>1. r.pc = "closed" /\ r' = [r EXCEPT !.pc = "read"]
    BY <1>2, <1>4 DEF Reopen
  <2>2. r'.out = <<>>
    BY <1>1, <1>2, <2>1 DEF ReturnedInv, ReaderRecords
  <2> QED
    BY <1>1, <2>2, BeforeReading DEF ReadInv
<1>5. CASE ReadBlock
  <2>1. /\ r' = [r EXCEPT !.pos = r.end,
                          !.end = r.end + Smaller(BlockSize, Len(file) - r.end),
                          !.eof = Smaller(BlockSize, Len(file) - r.end) < BlockSize]
        /\ r.pc = "read" /\ UNCHANGED <<frags, damaged>>
    BY <1>5 DEF ReadBlock
  <2>2. r'.out = r.out /\ r'.pc = "read" /\ r'.pos = r.end
    BY <1>2, <2>1 DEF ReaderRecords
  <2>3. r.end \in Nat /\ r.pos <= r.end
    BY <1>1, <1>2, <2>1 DEF AlignInv, ReaderInv, ReaderPlace, ReaderRecords
  <2> QED
    BY <1>1, <2>1, <2>2, <2>3, NothingReturned DEF ReadInv
<1>6. CASE EndOfFile \/ ReadFails
  <2>1. r.pc = "read" /\ UNCHANGED <<frags, damaged>>
    BY <1>6 DEF EndOfFile, ReadFails
  <2>2. r'.out = r.out /\ r'.pc = "done"
    BY <1>2, <1>6 DEF EndOfFile, ReadFails, AtEof, Report, ReaderRecords
  <2> QED
    BY <1>1, <2>1, <2>2, NothingReturned DEF ReadInv
<1>7. CASE Finished \/ UNCHANGED vars
  <2>1. UNCHANGED <<r, frags, damaged>>
    BY <1>7 DEF Finished, vars
  <2> QED
    BY <1>1, <2>1 DEF ReadInv, ReturnedInv, ReadsWhatWasWritten
<1>8. CASE PhysicalRecord
  BY <1>1, <1>8, PhysicalRecordReturned DEF ReadInv
<1> QED
  BY <1>3, <1>4, <1>5, <1>6, <1>7, <1>8 DEF Next, ReaderStep

\* log_reader.cc:30-122: what read_record returns was added, byte by byte, nothing of it
\* is damaged, and nothing comes twice or out of order.
THEOREM ReaderReturnsWritten == Spec => []ReadsWhatWasWritten
<1>1. Init => ReadInv
  <2>1. Init => r.out = <<>> /\ r.pc = "closed" /\ DOMAIN r.out = {}
    BY DEF Init
  <2>2. Init => ReturnedInv
    BY <2>1 DEF ReturnedInv, ReadsWhatWasWritten
  <2> QED
    BY <2>2, InitInv, AlignInit DEF ReadInv, AlignInv
<1>2. ReadInv => ReadsWhatWasWritten
  BY DEF ReadInv, ReturnedInv
<1> QED
  BY <1>1, <1>2, ReadStep, PTL DEF Spec

-----------------------------------------------------------------------------
(* What the reader misses: nothing but what is damaged or cut off.         *)

\* The fragments lie in the file one behind the other.
Ordered == \A i, j \in DOMAIN frags : i < j => EndOf(frags[i]) <= frags[j].at

\* The records counted as durable lie in the synced part of the file.
SyncedRecords ==
    /\ \A i \in DOMAIN frags : frags[i].rec <= w.durable => EndOf(frags[i]) <= synced
    /\ w.durable <= Len(records)
    /\ w.pc = "add" => w.durable < Len(records)

\* eof is set where the file ends.
AtFileEnd == r.pc = "read" /\ r.eof => r.end = Len(file)

\* A record the reader has to return.
Readable(i) == frags[i].type = Full /\ InFile(i) /\ damaged \cap BlockOf(i) = {}

\* Those before the reader's place have been returned.
NoneMissed ==
    /\ r.pc = "read" =>
         \A i \in DOMAIN frags : Readable(i) /\ frags[i].at < r.pos => IsReturned(i)
    /\ ReadAll => \A i \in DOMAIN frags : Readable(i) => IsReturned(i)

AllFull == \A i \in DOMAIN frags : frags[i].type = Full

\* Nothing is reported, and no record left unfinished, without damage.
Quiet ==
    /\ r.pc = "closed" => ~r.fragmented /\ r.reports = 0 /\ ~r.failed
    /\ damaged = {} /\ AllFull /\ ~r.failed => ~r.fragmented /\ r.reports = 0

Complete == Ordered /\ SyncedRecords /\ AtFileEnd /\ NoneMissed /\ Quiet

CompleteInv == AlignInv /\ Complete

\* Some byte of the buffer, from the reader's place on, is damaged.
Corrupt == damaged \cap ((r.pos + 1)..r.end) # {}

-----------------------------------------------------------------------------
(* Facts about one state.                                                  *)

\* The reader's numbers.
LEMMA ReaderNumbers ==
    ASSUME AlignInv, r.pc = "read"
    PROVE  /\ r \in ReaderRecords /\ ReaderPlace(r) /\ IInv /\ w.pc = "crashed"
           /\ r.pos \in Nat /\ r.end \in Nat /\ r.pos <= r.end /\ r.end <= Len(file)
           /\ Len(file) \in Nat
BY DEF AlignInv, IInv, ReaderInv, ReaderRecords, ReaderPlace

\* The block of a fragment.
LEMMA FragmentBlock ==
    ASSUME AlignInv, NEW i \in DOMAIN frags
    PROVE  \E k \in Nat :
             /\ Start(k) \in Nat /\ Start(k) <= frags[i].at /\ frags[i].at < EndOf(frags[i])
             /\ EndOf(frags[i]) <= Start(k) + BlockSize
             /\ BlockOf(i) = (Start(k) + 1)..(Start(k) + BlockSize)
<1>1. /\ frags[i].at \in Nat /\ frags[i].offset \in Nat /\ frags[i].length \in Nat
      /\ frags[i].offset + HeaderSize + frags[i].length <= BlockSize
  BY FragmentNumbers DEF AlignInv, IInv, FragmentsFit
<1>2. PICK k \in Nat : frags[i].at = Start(k) + frags[i].offset
  BY DEF AlignInv, FileInv, InBlocks
<1>3. Start(k) \in Nat
  BY Blocks
<1>4. frags[i].at - frags[i].offset = Start(k)
  BY <1>1, <1>2, <1>3
<1>5. BlockOf(i) = (Start(k) + 1)..(Start(k) + BlockSize)
  BY <1>4 DEF BlockOf
<1>6. /\ Start(k) <= frags[i].at /\ frags[i].at < EndOf(frags[i])
      /\ EndOf(frags[i]) <= Start(k) + BlockSize
  BY <1>1, <1>2, <1>3, Sizes DEF EndOf
<1> QED
  BY <1>3, <1>5, <1>6

\* A fragment that begins in the buffer ends in it, when it is in the file, and
\* always when the buffer is a whole block.
LEMMA EndsInBuffer ==
    ASSUME AlignInv, AtFileEnd, r.pc = "read", NEW i \in DOMAIN frags, frags[i].at < r.end,
           InFile(i) \/ ~r.eof
    PROVE  EndOf(frags[i]) <= r.end
<1>1. /\ r.end \in Nat /\ Len(file) \in Nat /\ ReaderPlace(r) /\ IInv
  BY ReaderNumbers
<1>2. frags[i].at \in Nat /\ EndOf(frags[i]) \in Nat
  BY <1>1, FragmentNumbers
<1>3. CASE r.eof
  <2>1. r.end = Len(file) /\ InFile(i)
    BY <1>3 DEF AtFileEnd
  <2> QED
    BY <2>1 DEF InFile, EndOf
<1>4. CASE ~r.eof
  <2>1. PICK k \in Nat : r.end = Start(k)
    BY <1>1, <1>4 DEF ReaderPlace
  <2>2. PICK l \in Nat : /\ Start(l) \in Nat /\ Start(l) <= frags[i].at
                         /\ EndOf(frags[i]) <= Start(l) + BlockSize
    BY FragmentBlock
  <2>3. Start(k) \in Nat /\ Start(l) < Start(k)
    BY <1>1, <1>2, <2>1, <2>2
  <2>4. l < k
    <3>1. ~(k < l)
      <4>1. k < l => Start(k) + BlockSize <= Start(l)
        BY Blocks
      <4> QED
        BY <2>2, <2>3, <4>1, Sizes
    <3>2. k # l
      BY <2>2, <2>3
    <3> QED
      BY <3>1, <3>2
  <2>5. Start(l) + BlockSize <= Start(k)
    BY <2>4, Blocks
  <2> QED
    BY <1>2, <2>1, <2>2, <2>3, <2>5, Sizes
<1> QED
  BY <1>3, <1>4

\* What begins in a buffer with a damaged byte lies in a damaged block.
LEMMA CorruptBlock ==
    ASSUME AlignInv, r.pc = "read", Corrupt,
           NEW i \in DOMAIN frags, r.pos <= frags[i].at, frags[i].at < r.end
    PROVE  ~Readable(i)
<1>1. /\ r.pos \in Nat /\ r.end \in Nat /\ ReaderPlace(r) /\ IInv
  BY ReaderNumbers
<1>2. frags[i].at \in Nat /\ EndOf(frags[i]) \in Nat
  BY <1>1, FragmentNumbers
<1>3. PICK k \in Nat : Start(k) <= r.pos /\ r.end <= Start(k) + BlockSize
  BY <1>1 DEF ReaderPlace
<1>4. PICK l \in Nat : /\ Start(l) \in Nat /\ Start(l) <= frags[i].at
                       /\ frags[i].at < EndOf(frags[i])
                       /\ EndOf(frags[i]) <= Start(l) + BlockSize
                       /\ BlockOf(i) = (Start(l) + 1)..(Start(l) + BlockSize)
  BY FragmentBlock
<1>5. Start(k) \in Nat
  BY Blocks
<1>6. k = l
  <2>1. BlockSize \in Nat /\ r.pos <= frags[i].at /\ frags[i].at < r.end
    BY Sizes
  <2>2. Start(k) < Start(l) + BlockSize
    BY ONLY <1>1, <1>2, <1>3, <1>4, <1>5, <2>1
  <2>3. Start(l) < Start(k) + BlockSize
    BY ONLY <1>1, <1>2, <1>3, <1>4, <1>5, <2>1
  <2> QED
    BY <1>4, <2>2, <2>3, SameBlock
<1>7. PICK b \in damaged : b \in (r.pos + 1)..r.end
  BY DEF Corrupt
<1>8. b \in BlockOf(i)
  BY <1>1, <1>3, <1>4, <1>5, <1>6, <1>7, Sizes
<1> QED
  BY <1>7, <1>8 DEF Readable

\* Less than a header's room holds no fragment that is in the file.
LEMMA NoneInShortBuffer ==
    ASSUME AlignInv, AtFileEnd, r.pc = "read", Size < HeaderSize,
           NEW i \in DOMAIN frags, InFile(i), r.pos <= frags[i].at
    PROVE  r.end <= frags[i].at
<1>1. r.pos \in Nat /\ r.end \in Nat /\ IInv
  BY ReaderNumbers
<1>2. /\ frags[i].at \in Nat /\ frags[i].length \in Nat
      /\ EndOf(frags[i]) = frags[i].at + HeaderSize + frags[i].length
  BY <1>1, FragmentNumbers DEF EndOf
<1>3. frags[i].at < r.end => EndOf(frags[i]) <= r.end
  BY EndsInBuffer
<1> QED
  BY <1>1, <1>2, <1>3, Sizes DEF Size

-----------------------------------------------------------------------------
(* One physical record.                                                    *)

\* The cases of read_physical_record: the end of the file, with the record cut
\* off or a byte of the buffer damaged; a bad record, only where one is damaged;
\* or the record as it was written.
LEMMA PhysicalRecordCases ==
    ASSUME AlignInv, AtFileEnd, PhysicalRecord
    PROVE  \E i \in DOMAIN frags :
             /\ r.pos = frags[i].at /\ frags[i].type \in {Full, First, Middle}
             /\ \/ /\ r.eof /\ r' = AtEof(r)
                   /\ r.end < EndOf(frags[i]) \/ Corrupt
                \/ r' \in {BadRecord(r), BadRecord(Report(r))} /\ Corrupt
                \/ /\ EndOf(frags[i]) \in Nat /\ EndOf(frags[i]) <= r.end
                   /\ \E bytes \in Seq(FileBytes) :
                        r' = Deliver([r EXCEPT !.pos = EndOf(frags[i])], frags[i].type,
                                     r.pos, bytes)
<1>1. /\ r.pc = "read" /\ Size >= HeaderSize /\ IInv
      /\ r.pos \in Nat /\ r.end \in Nat /\ r.pos <= r.end /\ r.end <= Len(file)
      /\ Len(file) \in Nat
  BY ReaderNumbers DEF PhysicalRecord
<1>2. PICK i \in DOMAIN frags :
            /\ r.pos = frags[i].at /\ file[r.pos + 1] = <<i, 1>> /\ Header = frags[i]
            /\ frags[i].type \in {Full, First, Middle}
  BY <1>1, HeaderRead
<1>3. PICK length \in ReadableLengths, type \in ReadableTypes :
         r' = IF HeaderSize + length > Size
                THEN IF r.eof THEN AtEof(r) ELSE BadRecord(Report(r))
              ELSE IF type = Zero /\ length = 0 THEN BadRecord(r)
              ELSE IF ~ChecksumOK(length) THEN BadRecord(Report(r))
              ELSE Deliver([r EXCEPT !.pos = @ + HeaderSize + length], type, r.pos,
                           SubSeq(file, r.pos + HeaderSize + 1, r.pos + HeaderSize + length))
  BY DEF PhysicalRecord
<1>4. /\ frags[i].length \in Nat /\ EndOf(frags[i]) \in Nat
      /\ EndOf(frags[i]) = r.pos + HeaderSize + frags[i].length
  BY <1>1, <1>2, FragmentNumbers DEF EndOf
<1>5. length \in Nat
  BY <1>2, <1>4 DEF ReadableLengths
<1>6. r.pos + HeaderSize <= r.end /\ r.pos < r.end
  BY <1>1, Sizes DEF Size
<1>7. length # frags[i].length => Corrupt
  <2>1. length # frags[i].length => r.pos + HeaderSize - 1 \in damaged
    BY <1>2 DEF ReadableLengths
  <2>2. r.pos + HeaderSize - 1 \in (r.pos + 1)..r.end
    BY <1>1, <1>6, Sizes
  <2> QED
    BY <2>1, <2>2 DEF Corrupt
<1>8. CASE HeaderSize + length > Size /\ r.eof
  <2>1. r' = AtEof(r)
    BY <1>3, <1>8
  <2>2. length = frags[i].length => r.end < EndOf(frags[i])
    BY <1>1, <1>4, <1>8, Sizes DEF Size
  <2> QED
    BY <1>2, <1>7, <1>8, <2>1, <2>2
<1>9. CASE HeaderSize + length > Size /\ ~r.eof
  <2>1. r' = BadRecord(Report(r))
    BY <1>3, <1>9
  <2>2. EndOf(frags[i]) <= r.end
    BY <1>1, <1>2, <1>6, <1>9, EndsInBuffer
  <2>3. length # frags[i].length
    BY <1>1, <1>4, <1>9, <2>2, Sizes DEF Size
  <2> QED
    BY <1>2, <1>7, <2>1, <2>3
<1>10. CASE ~(HeaderSize + length > Size) /\ type = Zero /\ length = 0
  <2>1. r' = BadRecord(r)
    BY <1>3, <1>10
  <2>2. type # frags[i].type
    BY <1>2, <1>10 DEF Zero, Full, First, Middle
  <2>3. r.pos + HeaderSize \in damaged
    BY <1>2, <2>2 DEF ReadableTypes
  <2>4. r.pos + HeaderSize \in (r.pos + 1)..r.end
    BY <1>1, <1>6, Sizes
  <2>5. Corrupt
    BY <2>3, <2>4 DEF Corrupt
  <2> QED
    BY <1>2, <2>1, <2>5
<1>11. CASE /\ ~(HeaderSize + length > Size) /\ ~(type = Zero /\ length = 0)
            /\ ~ChecksumOK(length)
  <2>1. r' = BadRecord(Report(r))
    BY <1>3, <1>11
  <2>2. PICK b \in damaged : b \in (r.pos + 1)..(r.pos + HeaderSize + length)
    BY <1>11 DEF ChecksumOK
  <2>3. r.pos + HeaderSize + length <= r.end
    BY <1>1, <1>5, <1>11, Sizes DEF Size
  <2>4. b \in (r.pos + 1)..r.end
    BY <1>1, <1>5, <2>2, <2>3, Sizes
  <2>5. Corrupt
    BY <2>4 DEF Corrupt
  <2> QED
    BY <1>2, <2>1, <2>5
<1>12. CASE /\ ~(HeaderSize + length > Size) /\ ~(type = Zero /\ length = 0)
            /\ ChecksumOK(length)
  <2>1. length = frags[i].length /\ type = frags[i].type
    BY <1>1, <1>2, <1>3, <1>12, Undamaged
  <2>2. EndOf(frags[i]) <= r.end /\ r.pos + HeaderSize + length = EndOf(frags[i])
    BY <1>1, <1>4, <1>5, <1>12, <2>1, Sizes DEF Size
  <2> DEFINE bytes == SubSeq(file, r.pos + HeaderSize + 1, r.pos + HeaderSize + length)
  <2>3. bytes \in Seq(FileBytes)
    <3>1. r.pos + HeaderSize + length <= Len(file)
      BY <1>1, <1>4, <2>2
    <3> QED
      BY <1>1, <1>5, <3>1, PayloadTyped
  <2>4. r' = Deliver([r EXCEPT !.pos = r.pos + HeaderSize + length], type, r.pos, bytes)
    BY <1>3, <1>12
  <2> HIDE DEF bytes
  <2>5. r' = Deliver([r EXCEPT !.pos = EndOf(frags[i])], frags[i].type, r.pos, bytes)
    BY <2>1, <2>2, <2>4
  <2> QED
    BY <1>2, <1>4, <2>2, <2>3, <2>5
<1> QED
  BY <1>8, <1>9, <1>10, <1>11, <1>12

\* What read_record does with a full record.
LEMMA DeliverFull ==
    ASSUME NEW q \in ReaderRecords, NEW at, NEW bytes
    PROVE  LET d == Deliver(q, Full, at, bytes) IN
           /\ d.out = Append(q.out, [at |-> at, bytes |-> bytes])
           /\ ~d.fragmented /\ d.failed = q.failed
           /\ ~q.fragmented => d.reports = q.reports
<1> DEFINE unfinished == q.fragmented /\ q.scratch # <<>>
           s == ReportIf(q, unfinished)
<1>1. /\ s.out = q.out /\ s.failed = q.failed /\ DOMAIN s = DOMAIN q
      /\ ~q.fragmented => s.reports = q.reports
  BY DEF Report, ReportIf, ReaderRecords
<1>2. {"out", "failed", "fragmented", "reports", "scratch"} \subseteq DOMAIN q
  BY DEF ReaderRecords
<1>3. Deliver(q, Full, at, bytes) =
        [s EXCEPT !.out = Append(s.out, [at |-> at, bytes |-> bytes]),
                  !.fragmented = FALSE, !.scratch = <<>>]
  BY DEF Deliver, Returned, Full, First, Middle, Last
<1> HIDE DEF s
<1> QED
  BY <1>1, <1>2, <1>3

\* Returning a record returns none of the earlier ones' places.
LEMMA ReturnedStays ==
    ASSUME NEW i \in DOMAIN frags, IsReturned(i), frags' = frags, r.out \in Seq(Outputs),
           r'.out = r.out \/ \E o : r'.out = Append(r.out, o)
    PROVE  IsReturned(i)'
<1>1. \A k \in DOMAIN r.out : k \in DOMAIN r'.out /\ r'.out[k] = r.out[k]
  OBVIOUS
<1> QED
  BY <1>1 DEF IsReturned

-----------------------------------------------------------------------------
(* The steps.                                                              *)

\* Before the crash nothing is read.
LEMMA ClosedComplete ==
    ASSUME CompleteInv, r' = r, r.pc = "closed"
    PROVE  AtFileEnd' /\ NoneMissed' /\ Quiet'
BY DEF CompleteInv, Complete, AtFileEnd, NoneMissed, Quiet, ReadAll

\* An iteration puts its fragment behind the others, and it is not durable yet.
LEMMA EmitComplete ==
    ASSUME CompleteInv, NEW count \in 0..Len(Emitted), NEW pc \in {"idle", "add", "failed"},
           Emit(count, pc)
    PROVE  Ordered' /\ SyncedRecords'
<1> DEFINE frag == [type |-> FragmentType, rec |-> Len(records), offset |-> NextOffset,
                    length |-> FragmentLength, at |-> Len(file) + Padding]
<1>1. /\ w \in WriterRecords /\ frags \in Seq(FragmentRecords) /\ Len(file) \in Nat
      /\ w.pc = "add" /\ IInv /\ AlignInv /\ Ordered /\ SyncedRecords
      /\ frags' = Append(frags, frag) /\ UNCHANGED <<synced, records>>
      /\ w' = [w EXCEPT !.block_offset = NextOffset + HeaderSize + FragmentLength,
                        !.left = w.left - FragmentLength, !.begin = FALSE, !.pc = pc]
  BY DEF CompleteInv, Complete, AlignInv, IInv, Emit
<1>2. frag.at = Len(file) + Padding /\ frag.rec = Len(records) /\ Padding \in Nat
  BY FragmentRoom, <1>1
<1> HIDE DEF frag
<1>3. /\ Len(frags) \in Nat /\ DOMAIN frags = 1..Len(frags)
      /\ DOMAIN frags' = 1..(Len(frags) + 1)
      /\ \A i \in DOMAIN frags : frags'[i] = frags[i]
      /\ frags'[Len(frags) + 1] = frag
  BY <1>1
<1>4. \A i \in DOMAIN frags : EndOf(frags[i]) <= Len(file) /\ EndOf(frags[i]) \in Nat
  <2>1. \A i \in DOMAIN frags : EndOf(frags[i]) <= Len(file)
    BY <1>1 DEF AlignInv, FileInv, Written
  <2> QED
    BY <1>1, <2>1, FragmentNumbers
<1>5. Ordered'
  <2> SUFFICES ASSUME NEW i \in DOMAIN frags', NEW j \in DOMAIN frags', i < j
               PROVE  EndOf(frags'[i]) <= frags'[j].at
    BY DEF Ordered, EndOf
  <2>1. i \in DOMAIN frags /\ frags'[i] = frags[i]
    BY <1>3
  <2>2. CASE j \in DOMAIN frags
    BY <1>1, <1>3, <2>1, <2>2 DEF Ordered
  <2>3. CASE j = Len(frags) + 1
    BY <1>1, <1>2, <1>3, <1>4, <2>1, <2>3
  <2> QED
    BY <1>3, <2>2, <2>3
<1>6. w'.durable = w.durable /\ w'.pc = pc /\ w.durable \in Nat
  BY <1>1 DEF WriterRecords
<1>7. w.durable < Len(records) /\ Len(records) \in Nat
  BY <1>1 DEF SyncedRecords, IInv
<1>8. \A i \in DOMAIN frags' : frags'[i].rec <= w.durable => EndOf(frags'[i]) <= synced
  <2> SUFFICES ASSUME NEW i \in DOMAIN frags', frags'[i].rec <= w.durable
               PROVE  EndOf(frags'[i]) <= synced
    OBVIOUS
  <2>1. i # Len(frags) + 1
    BY <1>2, <1>3, <1>6, <1>7
  <2>2. i \in DOMAIN frags /\ frags'[i] = frags[i]
    BY <1>3, <2>1
  <2> QED
    BY <1>1, <2>2 DEF SyncedRecords
<1>9. SyncedRecords'
  BY <1>1, <1>6, <1>7, <1>8 DEF SyncedRecords, EndOf
<1> QED
  BY <1>5, <1>9

\* Synced is what was added, when sync returns.
LEMMA WriterComplete ==
    ASSUME CompleteInv, WriterStep
    PROVE  Ordered' /\ SyncedRecords'
<1>1. /\ w \in WriterRecords /\ IInv /\ AlignInv /\ Ordered /\ SyncedRecords
      /\ records \in Seq(Lengths) /\ Len(records) \in Nat
  BY DEF CompleteInv, Complete, AlignInv, IInv
<1>2. ASSUME NEW n \in Lengths, AddRecord(n)
      PROVE  Ordered' /\ SyncedRecords'
  <2>1. /\ w' = [w EXCEPT !.pc = "add", !.left = n, !.begin = TRUE]
        /\ records' = Append(records, n) /\ UNCHANGED <<frags, synced>>
    BY <1>2 DEF AddRecord
  <2>2. w'.durable = w.durable /\ w.durable \in Nat /\ Len(records') = Len(records) + 1
    BY <1>1, <2>1 DEF WriterRecords
  <2> QED
    BY <1>1, <2>1, <2>2 DEF Ordered, SyncedRecords, EndOf
<1>3. CASE EmitFragment
  <2>1. Len(Emitted) \in 0..Len(Emitted)
    BY <1>1, EmittedIsSequence
  <2> DEFINE pc == IF w.left > FragmentLength THEN "add" ELSE "idle"
  <2>2. pc \in {"idle", "add", "failed"} /\ Emit(Len(Emitted), pc)
    BY <1>3 DEF EmitFragment
  <2> HIDE DEF pc
  <2> QED
    BY <2>1, <2>2, EmitComplete
<1>4. CASE EmitFails
  <2>1. PICK count \in 0..(Len(Emitted) - 1) : Emit(count, "failed")
    BY <1>4 DEF EmitFails
  <2>2. count \in 0..Len(Emitted) /\ "failed" \in {"idle", "add", "failed"}
    BY <1>1, EmittedIsSequence
  <2> QED
    BY <2>1, <2>2, EmitComplete
<1>5. CASE Sync
  <2>1. /\ w' = [w EXCEPT !.durable = Len(records)] /\ synced' = Len(file) /\ w.pc = "idle"
        /\ UNCHANGED <<frags, records>>
    BY <1>5 DEF Sync, Idle
  <2>2. w'.durable = Len(records) /\ w'.pc = "idle"
    BY <1>1, <2>1 DEF WriterRecords
  <2>3. \A i \in DOMAIN frags : EndOf(frags[i]) <= Len(file)
    BY <1>1, <2>1 DEF AlignInv, FileInv, Written
  <2> QED
    BY <1>1, <2>1, <2>2, <2>3 DEF Ordered, SyncedRecords, EndOf
<1>6. CASE SyncFails
  <2>1. w' = [w EXCEPT !.pc = "failed"] /\ UNCHANGED <<frags, synced, records>>
    BY <1>6 DEF SyncFails
  <2>2. w'.durable = w.durable /\ w'.pc = "failed"
    BY <1>1, <2>1 DEF WriterRecords
  <2> QED
    BY <1>1, <2>1, <2>2 DEF Ordered, SyncedRecords, EndOf
<1> QED
  BY <1>2, <1>3, <1>4, <1>5, <1>6 DEF WriterStep

\* A crash keeps what was synced.
LEMMA ReopenComplete ==
    ASSUME CompleteInv, NEW size, NEW bad, Reopen(size, bad)
    PROVE  Complete'
<1>1. /\ w \in WriterRecords /\ r \in ReaderRecords /\ AlignInv /\ Complete
      /\ r.pc = "closed" /\ r.pos = 0 /\ ~r.eof /\ frags \in Seq(FragmentRecords)
  BY DEF CompleteInv, AlignInv, IInv, ReaderInv, Reopen
<1>2. /\ w' = [w EXCEPT !.pc = "crashed"] /\ r' = [r EXCEPT !.pc = "read"]
      /\ UNCHANGED <<frags, synced, records>>
  BY DEF Reopen
<1>3. w'.pc = "crashed" /\ w'.durable = w.durable
  BY <1>1, <1>2 DEF WriterRecords
<1>4. /\ r'.pc = "read" /\ r'.pos = 0 /\ ~r'.eof /\ r'.fragmented = r.fragmented
      /\ r'.reports = r.reports
  BY <1>1, <1>2 DEF ReaderRecords
<1>5. Ordered' /\ SyncedRecords'
  BY <1>1, <1>2, <1>3 DEF Complete, Ordered, SyncedRecords, EndOf
<1>6. AtFileEnd'
  BY <1>4 DEF AtFileEnd
<1>7. NoneMissed'
  <2>1. \A i \in DOMAIN frags : frags[i].at \in Nat
    BY <1>1, FragmentNumbers DEF AlignInv
  <2>2. \A i \in DOMAIN frags' : ~(frags'[i].at < r'.pos)
    BY <1>2, <1>4, <2>1
  <2> QED
    BY <1>4, <2>2 DEF NoneMissed, ReadAll
<1>8. Quiet'
  BY <1>1, <1>4 DEF Complete, Quiet
<1> QED
  BY <1>5, <1>6, <1>7, <1>8 DEF Complete

\* What the reader's steps keep of the file's part.
LEMMA ReaderKeeps ==
    ASSUME CompleteInv, UNCHANGED <<frags, file, synced, records, w, damaged>>
    PROVE  /\ Ordered' /\ SyncedRecords'
           /\ \A i \in DOMAIN frags : Readable(i)' <=> Readable(i)
           /\ AllFull' <=> AllFull
BY DEF CompleteInv, Complete, Ordered, SyncedRecords, EndOf, Readable, InFile, BlockOf, AllFull

\* A new block: the old one held nothing more.
LEMMA ReadBlockComplete ==
    ASSUME CompleteInv, ReadBlock
    PROVE  Complete'
<1>1. /\ r.pc = "read" /\ Size < HeaderSize
      /\ UNCHANGED <<frags, file, synced, records, w, damaged>>
      /\ AlignInv /\ Complete /\ IInv
  BY DEF ReadBlock, CompleteInv, AlignInv
<1>2. /\ r \in ReaderRecords /\ r.pos \in Nat /\ r.end \in Nat /\ r.end <= Len(file)
      /\ Len(file) \in Nat
  BY <1>1, ReaderNumbers
<1> DEFINE count == Smaller(BlockSize, Len(file) - r.end)
<1>3. r' = [r EXCEPT !.pos = r.end, !.end = r.end + count, !.eof = count < BlockSize]
  BY DEF ReadBlock
<1>4. count < BlockSize => count = Len(file) - r.end
  BY <1>2, Sizes DEF Smaller
<1>5. /\ r'.pc = "read" /\ r'.pos = r.end /\ r'.end = r.end + count
      /\ r'.eof = (count < BlockSize) /\ r'.out = r.out /\ r'.fragmented = r.fragmented
      /\ r'.reports = r.reports /\ r'.failed = r.failed
  BY <1>2, <1>3, <1>1 DEF ReaderRecords
<1> HIDE DEF count
<1>6. AtFileEnd'
  <2>1. r'.eof => count < BlockSize
    BY ONLY ZenonT(30), <1>5
  <2>2. r'.end = r.end + count
    BY <1>5
  <2>3. count < BlockSize => r.end + count = Len(file)
    BY <1>2, <1>4
  <2>4. r'.eof => r'.end = Len(file)
    BY ONLY <2>1, <2>2, <2>3
  <2> QED
    BY <1>1, <2>4 DEF AtFileEnd
<1>7. ASSUME NEW i \in DOMAIN frags, Readable(i), frags[i].at < r.end
      PROVE  IsReturned(i)
  <2>1. frags[i].at \in Nat /\ InFile(i)
    BY <1>1, <1>7, FragmentNumbers DEF Readable
  <2>2. frags[i].at < r.pos
    BY <1>1, <1>2, <1>7, <2>1, NoneInShortBuffer DEF Complete
  <2> QED
    BY <1>1, <1>7, <2>2 DEF Complete, NoneMissed
<1>8. NoneMissed'
  <2>1. \A i \in DOMAIN frags : Readable(i)' => Readable(i)
    BY <1>1, ReaderKeeps
  <2>2. \A i \in DOMAIN frags : IsReturned(i) => IsReturned(i)'
    BY <1>1, <1>5 DEF IsReturned
  <2> QED
    BY <1>1, <1>5, <1>7, <2>1, <2>2 DEF NoneMissed, ReadAll
<1>9. Quiet'
  BY <1>1, <1>5, ReaderKeeps DEF Complete, Quiet
<1> QED
  BY <1>1, <1>6, <1>8, <1>9, ReaderKeeps DEF Complete

\* The reader's end: what is behind its place is not in the file, or damaged.
LEMMA AtEofComplete ==
    ASSUME CompleteInv, r.pc = "read", r.eof, r' = AtEof(r),
           UNCHANGED <<frags, file, synced, records, w, damaged>>,
           \A i \in DOMAIN frags : r.pos <= frags[i].at => ~Readable(i)
    PROVE  Complete'
<1>1. AlignInv /\ Complete /\ IInv /\ r \in ReaderRecords /\ r.pos \in Nat
  BY ReaderNumbers DEF CompleteInv
<1>2. /\ r'.pc = "done" /\ r'.out = r.out /\ r'.fragmented = r.fragmented
      /\ r'.reports = r.reports /\ r'.failed = r.failed
  BY <1>1 DEF AtEof, ReaderRecords
<1>3. AtFileEnd'
  BY <1>2 DEF AtFileEnd
<1>4. ASSUME NEW i \in DOMAIN frags, Readable(i)
      PROVE  IsReturned(i)
  <2>1. frags[i].at \in Nat
    BY <1>1, FragmentNumbers
  <2>2. frags[i].at < r.pos
    BY <1>1, <1>4, <2>1
  <2> QED
    BY <1>1, <1>4, <2>2 DEF Complete, NoneMissed
<1>5. NoneMissed'
  <2>1. \A i \in DOMAIN frags : Readable(i)' => Readable(i)
    BY ReaderKeeps
  <2>2. \A i \in DOMAIN frags : IsReturned(i) => IsReturned(i)'
    BY <1>2 DEF IsReturned
  <2> QED
    BY <1>2, <1>4, <2>1, <2>2 DEF NoneMissed, ReadAll
<1>6. Quiet'
  BY <1>1, <1>2, ReaderKeeps DEF Complete, Quiet
<1> QED
  BY <1>3, <1>5, <1>6, ReaderKeeps DEF Complete

LEMMA EndOfFileComplete ==
    ASSUME CompleteInv, EndOfFile
    PROVE  Complete'
<1>1. /\ r.pc = "read" /\ Size < HeaderSize /\ r.eof /\ r' = AtEof(r)
      /\ UNCHANGED <<frags, file, synced, records, w, damaged>>
      /\ AlignInv /\ Complete /\ IInv
  BY DEF EndOfFile, CompleteInv, AlignInv
<1>2. r.pos \in Nat /\ r.end \in Nat /\ r.end = Len(file)
  BY <1>1, ReaderNumbers DEF Complete, AtFileEnd
<1>3. ASSUME NEW i \in DOMAIN frags, r.pos <= frags[i].at, Readable(i)
      PROVE  FALSE
  <2>1. InFile(i) /\ frags[i].at \in Nat /\ frags[i].length \in Nat
    BY <1>1, <1>3, FragmentNumbers DEF Readable
  <2>2. r.end <= frags[i].at
    BY <1>1, <1>3, <2>1, NoneInShortBuffer DEF Complete
  <2> QED
    BY <1>2, <2>1, <2>2, Sizes DEF InFile
<1> QED
  BY <1>1, <1>3, AtEofComplete

\* An error of the read itself is reported, and ends the reading.
LEMMA ReadFailsComplete ==
    ASSUME CompleteInv, ReadFails
    PROVE  Complete'
<1>1. /\ UNCHANGED <<frags, file, synced, records, w, damaged>> /\ r \in ReaderRecords
      /\ r' = [AtEof(Report(r)) EXCEPT !.eof = TRUE, !.failed = TRUE]
  BY DEF ReadFails, CompleteInv, AlignInv, ReaderInv
<1>2. r'.pc = "done" /\ r'.failed
  BY <1>1 DEF AtEof, Report, ReaderRecords
<1> QED
  BY <1>1, <1>2, ReaderKeeps DEF Complete, AtFileEnd, NoneMissed, ReadAll, Quiet

\* A bad record costs the rest of its buffer, where a byte is damaged.
LEMMA BadRecordComplete ==
    ASSUME CompleteInv, r.pc = "read", Corrupt, r' \in {BadRecord(r), BadRecord(Report(r))},
           UNCHANGED <<frags, file, synced, records, w, damaged>>
    PROVE  Complete'
<1>1. AlignInv /\ Complete /\ IInv /\ r \in ReaderRecords /\ r.pos \in Nat
  BY ReaderNumbers DEF CompleteInv
<1>2. ASSUME NEW q, DOMAIN q = DOMAIN r, q.pc = r.pc, q.end = r.end, q.eof = r.eof,
             q.out = r.out, r' = BadRecord(q)
      PROVE  /\ r'.pc = "read" /\ r'.pos = r.end /\ r'.end = r.end /\ r'.eof = r.eof
             /\ r'.out = r.out
  <2> DEFINE s == ReportIf(q, q.fragmented)
  <2>1. /\ s.out = q.out /\ s.pc = q.pc /\ s.end = q.end /\ s.eof = q.eof
        /\ DOMAIN s = DOMAIN q
    BY <1>1, <1>2 DEF ReportIf, Report, ReaderRecords
  <2>2. {"out", "pc", "pos", "end", "eof", "fragmented", "scratch"} \subseteq DOMAIN r
    BY <1>1 DEF ReaderRecords
  <2>3. r' = [s EXCEPT !.fragmented = FALSE, !.scratch = <<>>, !.pos = q.end]
    BY <1>2 DEF BadRecord
  <2> HIDE DEF s
  <2> QED
    BY <1>2, <2>1, <2>2, <2>3
<1>3. /\ r'.pc = "read" /\ r'.pos = r.end /\ r'.end = r.end /\ r'.eof = r.eof
      /\ r'.out = r.out
  <2>1. /\ DOMAIN Report(r) = DOMAIN r /\ Report(r).pc = r.pc /\ Report(r).end = r.end
        /\ Report(r).eof = r.eof /\ Report(r).out = r.out
    BY <1>1 DEF Report, ReaderRecords
  <2> QED
    BY <1>2, <2>1
<1>4. AtFileEnd'
  BY <1>1, <1>3 DEF Complete, AtFileEnd
<1>5. ASSUME NEW i \in DOMAIN frags, Readable(i), frags[i].at < r.end
      PROVE  IsReturned(i)
  <2>1. frags[i].at \in Nat
    BY <1>1, FragmentNumbers
  <2>2. frags[i].at < r.pos
    BY <1>1, <1>5, <2>1, CorruptBlock
  <2> QED
    BY <1>1, <1>5, <2>2 DEF Complete, NoneMissed
<1>6. NoneMissed'
  <2>1. \A i \in DOMAIN frags : Readable(i)' => Readable(i)
    BY ReaderKeeps
  <2>2. \A i \in DOMAIN frags : IsReturned(i) => IsReturned(i)'
    BY <1>3 DEF IsReturned
  <2> QED
    BY <1>3, <1>5, <2>1, <2>2 DEF NoneMissed, ReadAll
<1>7. Quiet'
  <2>1. damaged' # {}
    BY DEF Corrupt
  <2> QED
    BY <1>3, <2>1 DEF Quiet
<1> QED
  BY <1>4, <1>6, <1>7, ReaderKeeps DEF Complete

\* A record read as it was written is returned, when it is one fragment.
LEMMA DeliverComplete ==
    ASSUME CompleteInv, r.pc = "read",
           NEW i \in DOMAIN frags, r.pos = frags[i].at, frags[i].type \in {Full, First, Middle},
           NEW bytes \in Seq(FileBytes),
           r' = Deliver([r EXCEPT !.pos = EndOf(frags[i])], frags[i].type, r.pos, bytes),
           UNCHANGED <<frags, file, synced, records, w, damaged>>
    PROVE  Complete'
<1>1. /\ AlignInv /\ Complete /\ IInv /\ r \in ReaderRecords /\ r.pos \in Nat
      /\ r.out \in Seq(Outputs)
  BY ReaderNumbers DEF CompleteInv, ReaderRecords
<1>2. EndOf(frags[i]) \in Nat /\ frags[i].at \in Nat
  BY <1>1, FragmentNumbers
<1> DEFINE q == [r EXCEPT !.pos = EndOf(frags[i])]
<1>3. /\ q \in ReaderRecords /\ q.pc = r.pc /\ q.pos = EndOf(frags[i]) /\ q.end = r.end
      /\ q.eof = r.eof /\ q.out = r.out /\ q.fragmented = r.fragmented
      /\ q.reports = r.reports /\ q.failed = r.failed
  BY <1>1, <1>2 DEF ReaderRecords
<1>4. r' = Deliver(q, frags[i].type, r.pos, bytes)
  OBVIOUS
<1> HIDE DEF q
<1>5. r'.pc = "read" /\ r'.pos = EndOf(frags[i]) /\ r'.end = r.end /\ r'.eof = r.eof
  <2>1. frags[i].type \in {Full, First, Middle, Last}
    OBVIOUS
  <2>2. /\ Deliver(q, frags[i].type, r.pos, bytes).pc = q.pc
        /\ Deliver(q, frags[i].type, r.pos, bytes).pos = q.pos
        /\ Deliver(q, frags[i].type, r.pos, bytes).end = q.end
        /\ Deliver(q, frags[i].type, r.pos, bytes).eof = q.eof
    BY ZenonT(30), <1>1, <1>3, <2>1, DeliverReader
  <2> QED
    BY <1>3, <1>4, <2>2
<1>6. r'.out = r.out \/ \E o : r'.out = Append(r.out, o)
  <2> DEFINE type == frags[i].type
             d == Deliver(q, type, r.pos, bytes)
  <2>1. type \in {Full, First, Middle}
    OBVIOUS
  <2> HIDE DEF type
  <2>2. \/ d.out = q.out
        \/ type = Full /\ d.out = Append(q.out, [at |-> r.pos, bytes |-> bytes])
    BY SMTT(30), <1>3, <2>1, DeliverOut
  <2>3. r'.out = d.out
    BY <1>4 DEF type
  <2> QED
    BY <1>3, <2>2, <2>3
<1>7. frags[i].type = Full =>
        /\ r'.out = Append(r.out, [at |-> r.pos, bytes |-> bytes])
        /\ ~r'.fragmented /\ r'.failed = r.failed
        /\ ~r.fragmented => r'.reports = r.reports
  <2> SUFFICES ASSUME frags[i].type = Full
               PROVE  /\ r'.out = Append(r.out, [at |-> r.pos, bytes |-> bytes])
                      /\ ~r'.fragmented /\ r'.failed = r.failed
                      /\ ~r.fragmented => r'.reports = r.reports
    OBVIOUS
  <2> DEFINE d == Deliver(q, Full, r.pos, bytes)
  <2>1. /\ d.out = Append(q.out, [at |-> r.pos, bytes |-> bytes])
        /\ ~d.fragmented /\ d.failed = q.failed
        /\ ~q.fragmented => d.reports = q.reports
    BY <1>3, DeliverFull
  <2>2. r' = d
    BY <1>4
  <2> HIDE DEF d
  <2> QED
    BY <1>3, <2>1, <2>2
<1>8. AtFileEnd'
  BY <1>1, <1>5 DEF Complete, AtFileEnd
<1>9. ASSUME NEW j \in DOMAIN frags, Readable(j), frags[j].at < r'.pos
      PROVE  IsReturned(j)'
  <2>1. CASE frags[j].at < r.pos
    <3>1. IsReturned(j)
      BY <1>1, <1>9, <2>1 DEF Complete, NoneMissed
    <3> QED
      BY <1>1, <1>6, <3>1, ReturnedStays
  <2>2. CASE ~(frags[j].at < r.pos)
    <3>1. /\ frags[j].at \in Nat /\ EndOf(frags[j]) \in Nat
          /\ frags[j].at < EndOf(frags[j])
      <4>1. /\ frags[j].at \in Nat /\ frags[j].length \in Nat /\ EndOf(frags[j]) \in Nat
        BY <1>1, FragmentNumbers
      <4>2. EndOf(frags[j]) = frags[j].at + HeaderSize + frags[j].length
        BY DEF EndOf
      <4> QED
        BY ONLY <4>1, <4>2, Sizes
    <3>2. Ordered /\ DOMAIN frags \subseteq Nat
      BY <1>1 DEF Complete, IInv
    <3>3. ~(i < j)
      BY <1>2, <1>5, <1>9, <3>1, <3>2 DEF Ordered
    <3>4. ~(j < i)
      BY <1>2, <2>2, <3>1, <3>2 DEF Ordered
    <3>5. i = j
      BY <3>2, <3>3, <3>4
    <3>6. r'.out = Append(r.out, [at |-> r.pos, bytes |-> bytes])
      BY <1>7, <1>9, <3>5 DEF Readable
    <3>7. Len(r.out) + 1 \in DOMAIN r'.out /\ r'.out[Len(r.out) + 1].at = frags[j].at
      BY <1>1, <3>5, <3>6
    <3> QED
      BY <3>7 DEF IsReturned
  <2> QED
    BY <2>1, <2>2
<1>10. NoneMissed'
  <2>1. \A j \in DOMAIN frags : Readable(j)' => Readable(j)
    BY ReaderKeeps
  <2> QED
    BY <1>5, <1>9, <2>1 DEF NoneMissed, ReadAll
<1>11. Quiet'
  <2>1. AllFull' => frags[i].type = Full /\ AllFull
    BY ReaderKeeps DEF AllFull
  <2> QED
    BY <1>1, <1>5, <1>7, <2>1 DEF Complete, Quiet
<1> QED
  BY <1>8, <1>10, <1>11, ReaderKeeps DEF Complete

\* One call of read_physical_record, with what read_record makes of it.
LEMMA PhysicalRecordComplete ==
    ASSUME CompleteInv, PhysicalRecord
    PROVE  Complete'
<1>1. /\ r.pc = "read" /\ Size >= HeaderSize
      /\ UNCHANGED <<frags, file, synced, records, w, damaged>>
      /\ AlignInv /\ Complete /\ IInv /\ AtFileEnd
  BY DEF PhysicalRecord, CompleteInv, Complete, AlignInv
<1>2. /\ r.pos \in Nat /\ r.end \in Nat /\ r.pos <= r.end /\ Len(file) \in Nat
  BY <1>1, ReaderNumbers
<1>3. PICK i \in DOMAIN frags :
             /\ r.pos = frags[i].at /\ frags[i].type \in {Full, First, Middle}
             /\ \/ /\ r.eof /\ r' = AtEof(r)
                   /\ r.end < EndOf(frags[i]) \/ Corrupt
                \/ r' \in {BadRecord(r), BadRecord(Report(r))} /\ Corrupt
                \/ /\ EndOf(frags[i]) \in Nat /\ EndOf(frags[i]) <= r.end
                   /\ \E bytes \in Seq(FileBytes) :
                        r' = Deliver([r EXCEPT !.pos = EndOf(frags[i])], frags[i].type,
                                     r.pos, bytes)
  BY <1>1, PhysicalRecordCases
<1>4. ASSUME r.eof, r' = AtEof(r), r.end < EndOf(frags[i]) \/ Corrupt
      PROVE  Complete'
  <2>1. r.end = Len(file)
    BY <1>1, <1>4 DEF AtFileEnd
  <2>2. ASSUME NEW j \in DOMAIN frags, r.pos <= frags[j].at, Readable(j)
        PROVE  FALSE
    <3>1. /\ InFile(j) /\ frags[j].at \in Nat /\ frags[j].length \in Nat
          /\ EndOf(frags[j]) = frags[j].at + HeaderSize + frags[j].length
      BY <1>1, <2>2, FragmentNumbers DEF Readable, EndOf
    <3>2. EndOf(frags[j]) <= r.end /\ frags[j].at < r.end /\ EndOf(frags[j]) \in Nat
      BY <1>2, <2>1, <3>1, Sizes DEF InFile
    <3>3. CASE Corrupt
      BY <1>1, <2>2, <3>2, <3>3, CorruptBlock
    <3>4. CASE r.end < EndOf(frags[i])
      <4>1. EndOf(frags[i]) \in Nat /\ Ordered /\ DOMAIN frags \subseteq Nat
        BY <1>1, FragmentNumbers DEF Complete, IInv
      <4>2. i # j
        BY <1>2, <3>2, <3>4, <4>1
      <4>3. i < j => EndOf(frags[i]) <= frags[j].at
        BY <4>1 DEF Ordered
      <4>4. ~(i < j)
        BY <1>2, <3>1, <3>2, <3>4, <4>1, <4>3
      <4>5. j < i
        BY <4>1, <4>2, <4>4
      <4>6. EndOf(frags[j]) <= frags[i].at
        BY <4>1, <4>5 DEF Ordered
      <4> QED
        BY <1>2, <1>3, <2>2, <3>1, <4>6, Sizes
    <3> QED
      BY <1>4, <3>3, <3>4
  <2> QED
    BY <1>1, <1>4, <2>2, AtEofComplete
<1>5. ASSUME r' \in {BadRecord(r), BadRecord(Report(r))}, Corrupt
      PROVE  Complete'
  BY <1>1, <1>5, BadRecordComplete
<1>6. ASSUME NEW bytes \in Seq(FileBytes),
             r' = Deliver([r EXCEPT !.pos = EndOf(frags[i])], frags[i].type, r.pos, bytes)
      PROVE  Complete'
  BY <1>1, <1>3, <1>6, DeliverComplete
<1> QED
  BY <1>3, <1>4, <1>5, <1>6

\* A file without fragments has nothing to miss.
LEMMA InitComplete == Init => CompleteInv
<1> SUFFICES ASSUME Init
             PROVE  CompleteInv
  OBVIOUS
<1>1. AlignInv
  BY InitInv, AlignInit DEF AlignInv
<1>2. /\ DOMAIN frags = {} /\ Len(records) = 0 /\ w.durable = 0 /\ w.pc = "idle"
      /\ r.pc = "closed" /\ ~r.fragmented /\ r.reports = 0 /\ ~r.failed
  BY DEF Init
<1>3. Complete
  BY <1>2 DEF Complete, Ordered, SyncedRecords, AtFileEnd, NoneMissed, ReadAll, Quiet
<1> QED
  BY <1>1, <1>3 DEF CompleteInv

\* Every step of the writer, the crash and the reader keeps it.
LEMMA CompleteStep == CompleteInv /\ [Next]_vars => CompleteInv'
<1> SUFFICES ASSUME CompleteInv, [Next]_vars
             PROVE  CompleteInv'
  OBVIOUS
<1>1. AlignInv /\ AlignInv' /\ Complete
  BY AlignStep DEF CompleteInv
<1>2. CASE WriterStep
  <2>1. r' = r /\ w.pc # "crashed"
    <3>1. ASSUME NEW count, NEW pc, Emit(count, pc)
          PROVE  r' = r /\ w.pc # "crashed"
      BY <3>1 DEF Emit
    <3>2. ASSUME NEW n, AddRecord(n)
          PROVE  r' = r /\ w.pc # "crashed"
      BY <3>2 DEF AddRecord, Idle
    <3>3. Sync \/ SyncFails => r' = r /\ w.pc # "crashed"
      BY DEF Sync, SyncFails, Idle
    <3> QED
      BY <1>2, <3>1, <3>2, <3>3 DEF WriterStep, EmitFragment, EmitFails
  <2>2. r.pc = "closed"
    BY <1>1, <2>1 DEF AlignInv, ReaderInv
  <2>3. AtFileEnd' /\ NoneMissed' /\ Quiet'
    BY <2>1, <2>2, ClosedComplete
  <2>4. Ordered' /\ SyncedRecords'
    BY <1>2, WriterComplete
  <2> QED
    BY <1>1, <2>3, <2>4 DEF CompleteInv, Complete
<1>3. ASSUME NEW size, NEW bad, Reopen(size, bad)
      PROVE  CompleteInv'
  BY <1>1, <1>3, ReopenComplete DEF CompleteInv
<1>4. CASE ReadBlock
  BY <1>1, <1>4, ReadBlockComplete DEF CompleteInv
<1>5. CASE ReadFails
  BY <1>1, <1>5, ReadFailsComplete DEF CompleteInv
<1>6. CASE PhysicalRecord
  BY <1>1, <1>6, PhysicalRecordComplete DEF CompleteInv
<1>7. CASE EndOfFile
  BY <1>1, <1>7, EndOfFileComplete DEF CompleteInv
<1>8. CASE Finished \/ UNCHANGED vars
  <2>1. UNCHANGED vars
    BY <1>8 DEF Finished
  <2>2. r' = r /\ UNCHANGED <<frags, file, synced, records, w, damaged>>
    BY <2>1 DEF vars
  <2>3. \A i \in DOMAIN frags : IsReturned(i)' <=> IsReturned(i)
    BY <2>2 DEF IsReturned
  <2>4. AtFileEnd' /\ Quiet'
    BY <1>1, <2>2, ReaderKeeps DEF Complete, AtFileEnd, Quiet
  <2>5. NoneMissed'
    BY <1>1, <2>2, <2>3, ReaderKeeps DEF Complete, NoneMissed, ReadAll
  <2> QED
    BY <1>1, <2>2, <2>4, <2>5, ReaderKeeps DEF CompleteInv, Complete
<1> QED
  BY <1>2, <1>3, <1>4, <1>5, <1>6, <1>7, <1>8 DEF Next, ReaderStep

\* What the reader passes over is damaged or cut off: the fragments lie in the file
\* in order, what was synced is durable, and before the reader's place every
\* undamaged record of one fragment has been returned.
THEOREM CompleteInvariant == Spec => []CompleteInv
BY InitComplete, CompleteStep, PTL DEF Spec

\* log_reader.cc:61-118 and 124-187: for every block size, every sequence of
\* records and however many bytes are damaged, a damaged byte costs at most the records
\* of its own block; the others are returned wherever the crash cut the file.
THEOREM DamageStaysLocal == Spec => []DamageIsLocal
<1>1. CompleteInv => DamageIsLocal
  BY DEF CompleteInv, Complete, NoneMissed, Readable, DamageIsLocal
<1> QED
  BY <1>1, CompleteInvariant, PTL

\* posix_env.cc:256-268 with log_write.cc and log_reader.cc: a record of one
\* fragment that was added before a successful sync is read back after any crash
\* that changes no byte.
THEOREM DurableIsReturned == Spec => []DurableReturned
<1>1. CompleteInv => DurableReturned
  <2> SUFFICES ASSUME CompleteInv, ReadAll, damaged = {}, NEW i \in DOMAIN frags,
                      frags[i].rec <= w.durable, frags[i].type = Full
               PROVE  IsReturned(i)
    BY DEF DurableReturned
  <2>1. /\ AlignInv /\ IInv /\ Complete /\ synced \in Nat /\ synced <= Len(file)
        /\ Len(file) \in Nat
    BY DEF CompleteInv, AlignInv, IInv
  <2>2. EndOf(frags[i]) <= synced /\ EndOf(frags[i]) \in Nat
    BY <2>1, FragmentNumbers DEF Complete, SyncedRecords
  <2>3. InFile(i)
    BY <2>1, <2>2 DEF InFile, EndOf
  <2> QED
    BY <2>1, <2>3 DEF Complete, NoneMissed, Readable
<1> QED
  BY <1>1, CompleteInvariant, PTL

\* log_reader.cc:209-218 (report_corruption): an undamaged log in which every record
\* is one fragment is read without a report, wherever a crash cut it, so that
\* recover, which fails on the first report, does not fail.
THEOREM NoAlarmWithoutDamage == Spec => []NoFalseAlarm
<1>1. CompleteInv => NoFalseAlarm
  BY DEF CompleteInv, Complete, Quiet, AllFull, ReadAll, NoFalseAlarm
<1> QED
  BY <1>1, CompleteInvariant, PTL
=============================================================================
