---------------------------- MODULE MCPosixFiles ----------------------------
(* The files of posix_env.  Those that are written and those that are read *)
(* share no state: each behaviour exercises one kind.                      *)
(*                                                                         *)
(* Three threads read, so that two can race for the one slot of each       *)
(* limiter while a third gives it back.                                    *)
EXTENDS WritableFile, RandomAccess

CONSTANTS t1, t2, t3
VARIABLE subject

ThreeThreads == {t1, t2, t3}

mcVars == <<subject, vars, accessVars>>
MCInit == subject \in {"written", "read"} /\ Init /\ AccessInit
MCNext ==
    /\ UNCHANGED subject
    /\ \/ subject = "written" /\ Next /\ UNCHANGED accessVars
       \/ subject = "read" /\ AccessNext /\ UNCHANGED vars
MCSpec == MCInit /\ [][MCNext]_mcVars
=============================================================================
