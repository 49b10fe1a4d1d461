----------------------------- MODULE WriteBatch -----------------------------
(***************************************************************************)
(* write_batch (write_batch.cc, write_batch_internal.cc): a header of a    *)
(* sequence number and a count, and the records behind it.  Nothing calls  *)
(* set_sequence, and Delete does not exist.                                *)
(***************************************************************************)
EXTENDS Coding

CONSTANTS Data,      \* the keys and values of Put
          MaxPuts    \* bound on the records of a batch

VARIABLES rep,       \* rep_
          records    \* what was put since the last Clear

vars == <<rep, records>>

kTypeValue == 1

Header == Fixed64 + Fixed32
Count == DecodeFixed(SubSeq(rep, Fixed64 + 1, Header))
WithCount(n) == SubSeq(rep, 1, Fixed64) \o EncodeFixed(n, Fixed32)
                \o SubSeq(rep, Header + 1, Len(rep))

Put(key, value) ==
    /\ Len(records) < MaxPuts
    /\ rep' = WithCount(Count) \o <<kTypeValue>>
              \o PutLengthPrefixedSlice(key) \o PutLengthPrefixedSlice(value)
    /\ records' = Append(records, <<key, value>>)

Clear ==
    /\ rep' = [i \in 1..Header |-> 0]
    /\ records' = <<>>

Init == rep = [i \in 1..Header |-> 0] /\ records = <<>>

Next == (\E key, value \in Data : Put(key, value)) \/ Clear

Spec == Init /\ [][Next]_vars

-----------------------------------------------------------------------------
\* "count: fixed32" and "data: record[count]" (write_batch.cc:10-11): the header
\* counts the records that follow it.
CountsRecords == Count = Len(records)
=============================================================================
