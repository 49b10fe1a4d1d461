------------------------------- MODULE DbState -------------------------------
(***************************************************************************)
(* What db::Open promises of the directory, whatever fails and whenever    *)
(* the machine stops: there is no database, or one whose recoverable state *)
(* is the one some Open installed as a whole.  The state is abstracted to  *)
(* its log number, which only grows.                                       *)
(***************************************************************************)
EXTENDS Naturals

CONSTANT NoDb

VARIABLE log_number   \* what recovery would read, NoDb while nothing is installed

Init == log_number = NoDb

\* NewDB installs the empty database.
Create == log_number = NoDb /\ log_number' = 0

\* log_any_apply installs a newer state.
Install == log_number # NoDb /\ log_number' \in Nat /\ log_number' > log_number

Next == Create \/ Install

Spec == Init /\ [][Next]_log_number
=============================================================================
