----------------------------- MODULE InternalKey -----------------------------
(***************************************************************************)
(* internal_key_comparator of src/src/leveldb/__detail/db_format.cc: an    *)
(* internal key is a user key and a number that packs a sequence number    *)
(* with a type; a key that only has to lie between two others is replaced  *)
(* by a shorter one, found by the comparator of the user keys.             *)
(*                                                                         *)
(* That comparator is the caller's (options.comparator); bytewise_         *)
(* comparator's functions are empty.  Of it the promises of comparator.h   *)
(* are used: compare is a total order, and the two find functions return   *)
(* their argument, or a key after it.                                      *)
(***************************************************************************)
EXTENDS Integers

CONSTANTS UserKeys,
          UserLess(_, _),   \* user_comparator_->compare( a, b ) < 0
          Size(_),          \* the length of a user key
          MaxSequence,      \* kMaxSequenceNumber
          TypeRange,        \* the numbers a type has room for
          NoKey

kTypeDeletion == 0
kTypeValue == 1
kValueTypeForSeek == kTypeValue
Types == {kTypeDeletion, kTypeValue}

ASSUME OrderAssumption ==
    /\ \A a \in UserKeys : ~UserLess(a, a)
    /\ \A a, b \in UserKeys : UserLess(a, b) \/ UserLess(b, a) \/ a = b
    /\ \A a, b, c \in UserKeys : UserLess(a, b) /\ UserLess(b, c) => UserLess(a, c)
ASSUME PackAssumption ==
    MaxSequence \in Nat /\ TypeRange \in Nat /\ TypeRange > kValueTypeForSeek

VARIABLES key,    \* the string that is shortened
          from,   \* what it was at first
          limit   \* the key it has to stay before, if any

keyVars == <<key, from, limit>>

\* pack_sequence_and_type
Pack(seq, t) == seq * TypeRange + t

InternalKeys == [user_key : UserKeys, number : {Pack(s, t) : s \in 0..MaxSequence, t \in Types}]

\* compare( a, b ) < 0: of one user key the latest number comes first.
KeyLess(a, b) ==
    \/ UserLess(a.user_key, b.user_key)
    \/ a.user_key = b.user_key /\ a.number > b.number

\* Mutant: the type that sorts last among those of a sequence number.
SeekNumber_LastType == Pack(MaxSequence, kTypeDeletion)

\* What sorts before every number of a user key.
SeekNumber == Pack(MaxSequence, kValueTypeForSeek)

\* tmp takes the place of the user key if it is shorter, and after it.
Shorten(tmp) ==
    key' = IF Size(tmp) < Size(key.user_key) /\ UserLess(key.user_key, tmp)
             THEN [user_key |-> tmp, number |-> SeekNumber] ELSE key

\* find_shortest_separator of the user's comparator.
UserSeparators(start, stop) ==
    {start} \cup {u \in UserKeys : UserLess(start, u) /\ UserLess(u, stop)}

\* find_short_successor of the user's comparator.
UserSuccessors(start) == {start} \cup {u \in UserKeys : UserLess(start, u)}

-----------------------------------------------------------------------------
Take(a, b) ==
    /\ key = NoKey
    /\ KeyLess(a, b)
    /\ key' = a /\ from' = a /\ limit' = b

FindShortestSeparator ==
    /\ key # NoKey /\ limit # NoKey
    /\ \E tmp \in UserSeparators(key.user_key, limit.user_key) : Shorten(tmp)
    /\ UNCHANGED <<from, limit>>

FindShortSuccessor ==
    /\ key # NoKey
    /\ \E tmp \in UserSuccessors(key.user_key) : Shorten(tmp)
    /\ limit' = NoKey
    /\ UNCHANGED from

KeyInit == key = NoKey /\ from = NoKey /\ limit = NoKey

KeyNext == \/ \E a, b \in InternalKeys : Take(a, b)
           \/ FindShortestSeparator
           \/ FindShortSuccessor

KeySpec == KeyInit /\ [][KeyNext]_keyVars

-----------------------------------------------------------------------------
\* The assertions of both functions, over any number of calls: the key stays at or
\* after what it was and before its limit; and once shortened it sorts before
\* every entry of its user key ("we need to use the highest-numbered ValueType",
\* db_format.h:30), so that it separates them from what it stood for.
KeysSeparate ==
    key # NoKey =>
      /\ key = from \/ KeyLess(from, key)
      /\ limit # NoKey => KeyLess(key, limit)
      /\ key # from => \A k \in InternalKeys : k.user_key = key.user_key => ~KeyLess(k, key)
=============================================================================
