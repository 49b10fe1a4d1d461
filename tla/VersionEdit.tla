----------------------------- MODULE VersionEdit -----------------------------
(***************************************************************************)
(* version_edit (version_edit.cc): an edit is filled field by field,       *)
(* encoded as one record of a MANIFEST, and decoded one field at a time,   *)
(* from the whole record or from what is there of it.                      *)
(*                                                                         *)
(* Nothing sets a compact pointer or a deleted file: set_compact_pointer   *)
(* is called for pointers that only another edit could have set, and       *)
(* remove_file has no definition.                                          *)
(***************************************************************************)
EXTENDS Coding

CONSTANTS Numbers,     \* the file, log and sequence numbers callers pass
          Names,       \* the comparators' names
          Levels, Keys, \* the levels and keys of the files added
          NumLevels,   \* config::kNumLevels
          MaxFiles     \* bound on the files of an edit

ASSUME NumbersAssumption == Numbers \subseteq 0..(Max64 - 1)
ASSUME NamesAssumption == \A name \in Names : name \in Seq(Bytes) /\ Len(name) < Max32
ASSUME LevelsAssumption ==
    NumLevels \in Nat /\ Levels \subseteq 0..(NumLevels - 1) /\ NumLevels < Max32

\* Internal keys are never empty; the tags are below 10.
ASSUME KeysAssumption == \A key \in Keys : key \in Seq(Bytes) \ {<<>>} /\ Len(key) < Max32
ASSUME TagsAssumption == 10 <= Max32

VARIABLES edit,      \* the edit that is written
          record,    \* what encode_to made of it
          taken,     \* how much of record decode_from was given
          input,     \* what it has not yet read
          decoded,   \* the edit it fills
          pc,
          msg        \* has decode_from met an error?

vars == <<edit, record, taken, input, decoded, pc, msg>>

None == <<>>   \* a field that is not set; others are sequences of one value
Cleared == [comparator |-> None, log_number |-> None, prev_log_number |-> None,
            next_file_number |-> None, last_sequence |-> None,
            deleted_files |-> {}, new_files |-> <<>>]

kComparator == 1
kCompactPointer == 5
kNewFile == 7

\* kLogNumber, kNextFileNumber, kLastSequence and kPrevLogNumber.
NumberField == [tag \in {2, 3, 4, 9} |->
    CASE tag = 2 -> "log_number" [] tag = 3 -> "next_file_number"
      [] tag = 4 -> "last_sequence" [] tag = 9 -> "prev_log_number"]

File(level, number, size, smallest, largest) ==
    [level |-> level, number |-> number, file_size |-> size, smallest |-> smallest, largest |-> largest]

-----------------------------------------------------------------------------
(* Filling the edit.                                                       *)

SetComparatorName(name) ==
    /\ pc = "fill"
    /\ edit' = [edit EXCEPT !.comparator = <<name>>]
    /\ UNCHANGED <<record, taken, input, decoded, pc, msg>>

SetNumber(tag, n) ==
    /\ pc = "fill"
    /\ edit' = [edit EXCEPT ![NumberField[tag]] = <<n>>]
    /\ UNCHANGED <<record, taken, input, decoded, pc, msg>>

AddFile(level, number, size, smallest, largest) ==
    /\ pc = "fill"
    /\ Len(edit.new_files) < MaxFiles
    /\ edit' = [edit EXCEPT !.new_files = Append(@, File(level, number, size, smallest, largest))]
    /\ UNCHANGED <<record, taken, input, decoded, pc, msg>>

-----------------------------------------------------------------------------
(* encode_to.                                                              *)

PutNumber(e, tag) ==
    LET field == e[NumberField[tag]] IN
    IF field = None THEN <<>> ELSE EncodeVarint(tag) \o EncodeVarint(field[1])

PutFile(f) ==
    EncodeVarint(kNewFile) \o EncodeVarint(f.level) \o EncodeVarint(f.number)
    \o EncodeVarint(f.file_size)
    \o PutLengthPrefixedSlice(f.smallest) \o PutLengthPrefixedSlice(f.largest)

Encoding(e) ==
    (IF e.comparator = None THEN <<>>
     ELSE EncodeVarint(kComparator) \o PutLengthPrefixedSlice(e.comparator[1]))
    \o PutNumber(e, 2) \o PutNumber(e, 9) \o PutNumber(e, 3) \o PutNumber(e, 4)
    \o FlattenSeq([i \in DOMAIN e.new_files |-> PutFile(e.new_files[i])])

EncodeTo ==
    /\ pc = "fill"
    /\ record' = Encoding(edit)
    /\ pc' = "encoded"
    /\ UNCHANGED <<edit, taken, input, decoded, msg>>

-----------------------------------------------------------------------------
(* decode_from.                                                            *)

GetLevel(in) ==
    LET v == GetVarint32(in) IN IF v.ok /\ v.value < NumLevels THEN v ELSE Failure(in)

GetInternalKey(in) ==
    LET str == GetLengthPrefixedSlice(in) IN IF str.ok /\ str.value # <<>> THEN str ELSE Failure(in)

\* The field that follows its tag, put into the edit e.
GetFile(in, e) ==
    LET level    == GetLevel(in)
        number   == GetVarint64(level.rest)
        size     == GetVarint64(number.rest)
        smallest == GetInternalKey(size.rest)
        largest  == GetInternalKey(smallest.rest)
        file     == File(level.value, number.value, size.value, smallest.value, largest.value)
    IN  IF level.ok /\ number.ok /\ size.ok /\ smallest.ok /\ largest.ok
          THEN Success([e EXCEPT !.new_files = Append(@, file)], largest.rest)
          ELSE Failure(in)

GetField(tag, in, e) ==
    CASE tag = kComparator ->
           LET str == GetLengthPrefixedSlice(in) IN
           IF str.ok THEN Success([e EXCEPT !.comparator = <<str.value>>], str.rest) ELSE str
      [] tag \in DOMAIN NumberField ->
           LET n == GetVarint64(in) IN
           IF n.ok THEN Success([e EXCEPT ![NumberField[tag]] = <<n.value>>], n.rest) ELSE n
      [] tag = kCompactPointer ->    \* read as if it were a deleted file
           LET level == GetLevel(in)
               n == GetVarint64(level.rest)
           IN  IF level.ok /\ n.ok
                 THEN Success([e EXCEPT !.deleted_files = @ \cup {<<level.value, n.value>>}], n.rest)
                 ELSE Failure(in)
      [] tag = kNewFile -> GetFile(in, e)
      [] OTHER -> Failure(in)

\* From the first n bytes of the record, again with an edit used before.
DecodeFrom(n) ==
    /\ pc \in {"encoded", "done"}
    /\ taken' = SubSeq(record, 1, n)
    /\ input' = taken'
    /\ decoded' = Cleared
    /\ msg' = FALSE
    /\ pc' = "decode"
    /\ UNCHANGED <<edit, record>>

DecodeField ==
    LET tag == GetVarint32(input)
        field == GetField(tag.value, tag.rest, decoded)
    IN  /\ pc = "decode" /\ ~msg /\ tag.ok
        /\ IF field.ok THEN decoded' = field.value /\ UNCHANGED msg
           ELSE msg' = TRUE /\ UNCHANGED decoded
        /\ input' = field.rest
        /\ UNCHANGED <<edit, record, taken, pc>>

\* Mutant: what is left when no tag can be read is ignored.
DecodingDone_IgnoresRest ==
    /\ pc = "decode" /\ (msg \/ ~GetVarint32(input).ok)
    /\ pc' = "done"
    /\ UNCHANGED <<edit, record, taken, input, decoded, msg>>

DecodingDone ==
    /\ pc = "decode" /\ (msg \/ ~GetVarint32(input).ok)
    /\ msg' = (msg \/ input # <<>>)
    /\ pc' = "done"
    /\ UNCHANGED <<edit, record, taken, input, decoded>>

-----------------------------------------------------------------------------
Init ==
    /\ edit = Cleared /\ record = <<>> /\ taken = <<>> /\ input = <<>>
    /\ decoded = Cleared /\ pc = "fill" /\ msg = FALSE

Next == \/ \E name \in Names : SetComparatorName(name)
        \/ \E tag \in DOMAIN NumberField, n \in Numbers : SetNumber(tag, n)
        \/ \E level \in Levels, number, size \in Numbers, smallest, largest \in Keys :
             AddFile(level, number, size, smallest, largest)
        \/ EncodeTo
        \/ \E n \in 0..Len(record) : DecodeFrom(n)
        \/ DecodeField \/ DecodingDone

Spec == Init /\ [][Next]_vars

-----------------------------------------------------------------------------
(* Properties.                                                             *)

\* decode_from undoes encode_to, for every choice of the fields anything fills and
\* numbers of every length.  Not among them are compact pointers, which encode_to
\* would write under kCompactPointer and decode_from read as deleted files: an edit
\* never has one at this commit.
RoundTrip == pc = "done" /\ taken = record => ~msg /\ decoded = edit

\* Of a part of a record decode_from accepts nothing but whole fields: what it
\* returns as ok is the edit whose encoding it was given.
AcceptedExactly == pc = "done" /\ ~msg => Encoding(decoded) = taken

=============================================================================
