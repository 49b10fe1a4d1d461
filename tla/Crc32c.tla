-------------------------------- MODULE Crc32c --------------------------------
(***************************************************************************)
(* Extend of crc32c.cc: it takes single bytes up to an aligned address,    *)
(* then four interleaved words at a time, one word at a time, and single   *)
(* bytes again.                                                            *)
(*                                                                         *)
(* A word is the set of the positions of its ones, exclusive or is the     *)
(* symmetric difference.  The width of a byte and the polynomial are       *)
(* constants; the tables of the code are those of its polynomial, entry c  *)
(* of kStrideExtensionTable i being c carried over 13 + i bytes of zeros.  *)
(* Data is all zeros but for one bit, of a byte or of the checksum that is *)
(* extended: every operation is affine, so that these decide all others;   *)
(* UtilityProofs lifts the restriction.                                    *)
(***************************************************************************)
EXTENDS Integers, Sequences

CONSTANTS ByteBits,   \* 8
          Poly,       \* the reversed polynomial, 0x82f63b78
          MaskShift,  \* 15
          MaskDelta,  \* kMaskDelta
          Lengths     \* of the data of one call

WordBytes == 4
WordBits == WordBytes * ByteBits

Power[n \in Nat] == IF n = 0 THEN 1 ELSE 2 * Power[n - 1]

ASSUME WordAssumption ==
    /\ ByteBits \in Nat \ {0} /\ Poly \subseteq 0..(WordBits - 1) /\ Lengths \subseteq Nat
    /\ MaskShift \in 0..WordBits /\ MaskDelta \in 0..(Power[WordBits] - 1)

VARIABLES data,    \* its bytes
          aligned, \* x, RoundUp< 4 >( p ), which may lie behind the data
          crc      \* the local variables

crcVars == <<data, aligned, crc>>

v ^^ w == (v \ w) \cup (w \ v)
Shift(w, n) == {b - n : b \in {c \in w : c >= n}}
ByteOf(w, i) == {b \in Shift(w, i * ByteBits) : b < ByteBits}

AllOnes == 0..(WordBits - 1)  \* kCRC32Xor
Words == SUBSET AllOnes
ByteValues == SUBSET (0..(ByteBits - 1))

\* A remainder, carried over one bit, over n bits and over one byte of zeros.
CarryBit(l) == Shift(l, 1) ^^ (IF 0 \in l THEN Poly ELSE {})
Carried[n \in Nat] == [l \in Words |-> IF n = 0 THEN l ELSE CarryBit(Carried[n - 1][l])]
CarryByte(l) == Carried[ByteBits][l]

\* A remainder, extended bit by bit by the bytes of the data from first to last.
Extended(l, first, last) ==
    LET r[i \in first..last] == IF i = first THEN l ELSE CarryByte(r[i - 1] ^^ data[i])
    IN  r[last]

ByteExtensionTable == [c \in ByteValues |-> CarryByte(c)]
StrideExtensionTable == [i \in 0..3 |-> [c \in ByteValues |-> Carried[(13 + i) * ByteBits][c]]]

-----------------------------------------------------------------------------
(* The macros.                                                             *)

\* STEP1
Step1(l, byte) == ByteExtensionTable[ByteOf(l, 0) ^^ byte] ^^ Shift(l, ByteBits)

ReadUint32LE(p) ==
    UNION {{b + i * ByteBits : b \in data[p + i + 1]} : i \in 0..(WordBytes - 1)}

\* STEP4: every byte of a lane is carried to where the lane's next word ends.
Step4(lane, word) ==
    LET carried == [i \in 0..3 |-> StrideExtensionTable[3 - i][ByteOf(lane, i)]]
    IN  word ^^ ((carried[0] ^^ carried[1]) ^^ (carried[2] ^^ carried[3]))

\* STEP4W, a loop of four steps.
StepW(w) == Shift(w, ByteBits) ^^ ByteExtensionTable[ByteOf(w, 0)]
Step4W(l, w) == StepW(StepW(StepW(StepW(w ^^ l))))

Combined(lanes) == Step4W(Step4W(Step4W(Step4W({}, lanes[1]), lanes[2]), lanes[3]), lanes[4])

\* crc32c.h: rotate and add, so that the checksum of a checksum is no special case.
Bits(n) == {b \in AllOnes : (n \div Power[b]) % 2 = 1}
Number(w) ==
    LET sum[n \in Nat] == IF n = 0 THEN 0
                           ELSE sum[n - 1] + (IF n - 1 \in w THEN Power[n - 1] ELSE 0)
    IN  sum[WordBits]
RotateRight(w, n) == {(b + WordBits - n) % WordBits : b \in w}
Mask(w) == Bits((Number(RotateRight(w, MaskShift)) + MaskDelta) % Power[WordBits])
Unmask(w) ==
    RotateRight(Bits((Number(w) + Power[WordBits] - MaskDelta) % Power[WordBits]),
                WordBits - MaskShift)

-----------------------------------------------------------------------------
(* Extend.                                                                 *)

Left == Len(data) - crc.p

Quiet == [pc |-> "idle", p |-> 0, l |-> {}, lanes |-> <<{}, {}, {}, {}>>, exact |-> {}]

\* A call for n bytes at an address that is misaligned by at; init_crc is given.
Begin(init_crc, bytes, at) ==
    /\ crc.pc = "idle"
    /\ data' = bytes
    /\ aligned' = (WordBytes - at) % WordBytes
    /\ crc' = [Quiet EXCEPT !.pc = IF aligned' <= Len(bytes) THEN "align" ELSE "stride",
                            !.l = init_crc ^^ AllOnes, !.exact = init_crc ^^ AllOnes]

\* The remainder the bytes up to p really have.
Moved(p) == [crc EXCEPT !.p = p, !.exact = Extended(crc.exact, crc.p, p)]

AlignByte ==
    /\ crc.pc = "align" /\ crc.p # aligned
    /\ crc' = [Moved(crc.p + 1) EXCEPT !.l = Step1(crc.l, data[crc.p + 1])]
    /\ UNCHANGED <<data, aligned>>

IsAligned ==
    /\ crc.pc = "align" /\ crc.p = aligned
    /\ crc' = [crc EXCEPT !.pc = "stride"]
    /\ UNCHANGED <<data, aligned>>

LoadSwath ==
    /\ crc.pc = "stride" /\ Left >= 16
    /\ crc' = [Moved(crc.p + 16) EXCEPT
                 !.pc = "swath",
                 !.lanes = [s \in 1..4 |-> ReadUint32LE(crc.p + 4 * (s - 1))
                                           ^^ (IF s = 1 THEN crc.l ELSE {})]]
    /\ UNCHANGED <<data, aligned>>

\* STEP16
StepSwath ==
    /\ crc.pc = "swath" /\ Left >= 16
    /\ crc' = [Moved(crc.p + 16) EXCEPT
                 !.lanes = [s \in 1..4 |-> Step4(crc.lanes[s], ReadUint32LE(crc.p + 4 * (s - 1)))]]
    /\ UNCHANGED <<data, aligned>>

\* Mutant: the lanes do not move on.
StepWord_Stays ==
    /\ crc.pc = "swath" /\ Left \in 4..15
    /\ crc' = [Moved(crc.p + 4) EXCEPT !.lanes[1] = Step4(crc.lanes[1], ReadUint32LE(crc.p))]
    /\ UNCHANGED <<data, aligned>>

StepWord ==
    /\ crc.pc = "swath" /\ Left \in 4..15
    /\ crc' = [Moved(crc.p + 4) EXCEPT
                 !.lanes = Append(Tail(@), Step4(crc.lanes[1], ReadUint32LE(crc.p)))]
    /\ UNCHANGED <<data, aligned>>

Combine ==
    /\ crc.pc = "swath" /\ Left < 4
    /\ crc' = [crc EXCEPT !.pc = "tail", !.l = Combined(crc.lanes)]
    /\ UNCHANGED <<data, aligned>>

FewBytes ==
    /\ crc.pc = "stride" /\ Left < 16
    /\ crc' = [crc EXCEPT !.pc = "tail"]
    /\ UNCHANGED <<data, aligned>>

TailByte ==
    /\ crc.pc = "tail" /\ Left > 0
    /\ crc' = [Moved(crc.p + 1) EXCEPT !.l = Step1(crc.l, data[crc.p + 1])]
    /\ UNCHANGED <<data, aligned>>

\* The checksum returned is crc.l with all its bits inverted.
Result == crc.l ^^ AllOnes
Return == crc.pc = "tail" /\ Left = 0 /\ crc' = Quiet /\ data' = <<>> /\ aligned' = 0

CrcInit == data = <<>> /\ aligned = 0 /\ crc = Quiet

Zeros(n) == [i \in 1..n |-> {}]

CrcNext ==
    \/ \E n \in Lengths, at \in 0..(WordBytes - 1) :
         \/ \E b \in AllOnes : Begin({b}, Zeros(n), at)
         \/ \E i \in 1..n, b \in 0..(ByteBits - 1) : Begin({}, [Zeros(n) EXCEPT ![i] = {b}], at)
    \/ AlignByte \/ IsAligned \/ LoadSwath \/ StepSwath \/ StepWord \/ Combine
    \/ FewBytes \/ TailByte \/ Return

CrcSpec == CrcInit /\ [][CrcNext]_crcVars

-----------------------------------------------------------------------------
\* Before every step of every loop the registers hold the remainder of the bytes
\* read so far, on whatever address they start: "the crc32c of concat(A, data)" of
\* crc32c.h, which a writer extends from the type and a reader computes at once.
\* Unmask returns what Mask was given.
ChecksumExact ==
    /\ crc.pc # "swath" => crc.l = crc.exact
    /\ crc.pc = "swath" => Combined(crc.lanes) = crc.exact
    /\ crc.pc = "tail" /\ Left = 0 => Unmask(Mask(Result)) = Result
=============================================================================
