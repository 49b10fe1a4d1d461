------------------------------ MODULE TableSpec ------------------------------
(***************************************************************************)
(* What lru_cache expects of its hash table (and LRUCache models as a      *)
(* function): one entry per key, insert and remove return the entry they   *)
(* displace.  HandleTable implements this specification.                   *)
(***************************************************************************)
CONSTANTS Keys, Handles, Null, KeyOf

VARIABLES mapping,   \* the entry of every key
          request,   \* the call in progress
          result     \* what the last call returned

specVars == <<mapping, request, result>>

Requests == [kind : {"look_up", "insert", "remove"}, key : Keys, entry : Handles \cup {Null}]
NoRequest == [kind |-> "none"]

SpecInit ==
    /\ mapping = [k \in Keys |-> Null]
    /\ request = NoRequest
    /\ result = Null

Call ==
    /\ request = NoRequest
    /\ request' \in Requests
    /\ request'.kind = "insert" => request'.entry \in Handles /\ KeyOf[request'.entry] = request'.key
    /\ UNCHANGED <<mapping, result>>

Return ==
    /\ request # NoRequest
    /\ result' = mapping[request.key]
    /\ mapping' = [mapping EXCEPT ![request.key] =
                     CASE request.kind = "look_up" -> @
                       [] request.kind = "insert"  -> request.entry
                       [] request.kind = "remove"  -> Null]
    /\ request' = NoRequest

TableContract == SpecInit /\ [][Call \/ Return]_specVars
=============================================================================
