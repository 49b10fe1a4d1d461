---------------------------- MODULE MCHandleTable ----------------------------
EXTENDS HandleTable

CONSTANTS a1, a2, b1, c1, d1, d2

AllHandles == {a1, a2, b1, c1, d1, d2}
AllKeys == {"a", "b", "c", "d"}

KeyOfHandle == [h \in AllHandles |->
    IF h \in {a1, a2} THEN "a" ELSE IF h = b1 THEN "b" ELSE IF h = c1 THEN "c" ELSE "d"]

\* Modulo 2, three keys collide; modulo 4, two of them part.
HashOfKey == [k \in AllKeys |->
    CASE k = "a" -> 0 [] k = "b" -> 2 [] k = "c" -> 4 [] k = "d" -> 1]
=============================================================================
