------------------------------ MODULE MCDbOpen ------------------------------
EXTENDS DbOpen, TLC

CONSTANTS p1, p2

TwoProcs == {p1, p2}
OneProc == {p1}
NoProcs == {}

\* What the constructor links: nothing (the code), the head, the head in one
\* process and every version in the other.
NoneLinked == [p \in Procs |-> {}]
HeadLinked == [p \in Procs |-> {Dummy}]
MixedLinks == [p \in Procs |-> IF p = p1 THEN {Dummy} ELSE Versions]
=============================================================================
