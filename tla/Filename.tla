------------------------------ MODULE Filename ------------------------------
(***************************************************************************)
(* The names of the files of a database (filename.cc), and how they are    *)
(* read back.  A name is a word, a numeral and a suffix, any of which may  *)
(* be missing; a numeral is <<>> or <<n>>, since six digits or more are    *)
(* printed and any digits are read.                                        *)
(***************************************************************************)
EXTENDS Naturals, Sequences

Name(word, numeral, suffix) == [word |-> word, numeral |-> numeral, suffix |-> suffix]

MakeFileName(number, suffix) == Name("", <<number>>, suffix)
TableFileName(number) == MakeFileName(number, ".ldb")
LogFileName(number) == MakeFileName(number, ".log")
TempFileName(number) == MakeFileName(number, ".dbtmp")
DescriptorFileName(number) == Name("MANIFEST-", <<number>>, "")
LockFileName == Name("LOCK", <<>>, "")
CurrentFileName == Name("CURRENT", <<>>, "")
InfoLogFileName == Name("LOG", <<>>, "")
OldInfoLogFileName == Name("LOG.old", <<>>, "")

-----------------------------------------------------------------------------
(* parse_file_name.                                                        *)

NoFile == [type |-> "none", number |-> 0]
File(type, number) == [type |-> type, number |-> number]

\* consume_decimal_number: false unless there are digits; no numeral of a number
\* that was printed is too large.
StartsWithNumber(name) == name.numeral # <<>>

TypeOfSuffix(suffix) ==
    CASE suffix = ".log" -> "kLogFile"
      [] suffix \in {".sst", ".ldb"} -> "kTableFile"
      [] suffix = ".dbtmp" -> "kTempFile"
      [] OTHER -> "none"

ParseFileName(name) ==
    CASE name = CurrentFileName -> File("kCurrentFile", 0)
      [] name = LockFileName -> File("kDBLockFile", 0)
      [] name \in {InfoLogFileName, OldInfoLogFileName} -> File("kInfoLogFile", 0)
      [] name.word = "MANIFEST-" /\ StartsWithNumber(name) /\ name.suffix = "" ->
           File("kDescriptorFile", name.numeral[1])
      [] name.word = "" /\ StartsWithNumber(name) /\ TypeOfSuffix(name.suffix) # "none" ->
           File(TypeOfSuffix(name.suffix), name.numeral[1])
      [] OTHER -> NoFile
=============================================================================
