-------------------------- MODULE WritableFileProofs --------------------------
(***************************************************************************)
(* For every size of the buffer, every sequence of calls, and wherever     *)
(* write(), fdatasync() or close() is cut short or fails: nothing is lost, *)
(* repeated or reordered on the way through the buffer.                    *)
(***************************************************************************)
EXTENDS WritableFile, SequenceTheorems, TLAPS

Calls == [pc : {"idle", "append", "direct", "flush", "sync", "close"},
          data : Seq(Nat), rest : Seq(Nat)]

\* Only append has something left to do behind what it writes.
CallInv ==
    /\ buf \in Seq(Nat) /\ Len(buf) <= BufferSize
    /\ file \in Seq(Nat) /\ appended \in Nat /\ failed \in BOOLEAN
    /\ call \in Calls
    /\ call.pc = "idle" => call = Idle
    /\ call.pc # "append" => call.rest = <<>>
    /\ call.pc = "sync" /\ IsManifest => dir_synced

\* The bytes on their way: what the file has, and behind it the buffer, or
\* what the call in progress has taken from it.
Pending == IF call.pc = "idle" THEN buf ELSE call.data \o call.rest
Stream == file \o Pending

Increasing(s) == \A i, j \in DOMAIN s : i < j => s[i] < s[j]
InOrder(s, n) == s \in Seq(Nat) /\ Increasing(s) /\ \A i \in DOMAIN s : s[i] <= n

StreamInv ==
    /\ ~failed => Stream = Numbers(0, appended)
    /\ InOrder(Stream, appended)

IInv == CallInv /\ StreamInv

-----------------------------------------------------------------------------
(* Sequences.                                                              *)

\* What concatenation is,
LEMMA Joined ==
    ASSUME NEW s \in Seq(Nat), NEW t \in Seq(Nat)
    PROVE  /\ s \o t \in Seq(Nat) /\ Len(s \o t) = Len(s) + Len(t)
           /\ \A i \in 1..(Len(s) + Len(t)) :
                (s \o t)[i] = IF i <= Len(s) THEN s[i] ELSE t[i - Len(s)]
BY ConcatProperties

\* and that it is associative.
LEMMA Regroup ==
    ASSUME NEW s \in Seq(Nat), NEW t \in Seq(Nat), NEW u \in Seq(Nat)
    PROVE  (s \o t) \o u = s \o (t \o u)
BY SMTT(30), ConcatAssociative

\* The bytes of one append.
LEMMA NumbersTyped ==
    ASSUME NEW m \in Nat, NEW n \in Nat
    PROVE  /\ Numbers(m, n) \in Seq(Nat) /\ Len(Numbers(m, n)) = n
           /\ \A i \in 1..n : Numbers(m, n)[i] = m + i
<1> DEFINE s == [i \in 1..n |-> m + i]
<1>1. s \in [1..n -> Nat]
  OBVIOUS
<1> HIDE DEF s
<1>2. s \in Seq(Nat) /\ Len(s) = n
  BY <1>1
<1>3. s = Numbers(m, n)
  BY DEF s, Numbers
<1> QED
  BY <1>2, <1>3 DEF s

\* One append behind another.
LEMMA NumbersFollow ==
    ASSUME NEW m \in Nat, NEW n \in Nat
    PROVE  Numbers(0, m) \o Numbers(m, n) = Numbers(0, m + n)
<1> DEFINE a == Numbers(0, m)
           b == Numbers(m, n)
           c == Numbers(0, m + n)
<1>1. 0 \in Nat /\ m + n \in Nat
  OBVIOUS
<1>2. a \in Seq(Nat) /\ Len(a) = m /\ \A i \in 1..m : a[i] = 0 + i
  BY <1>1, NumbersTyped
<1>3. b \in Seq(Nat) /\ Len(b) = n /\ \A i \in 1..n : b[i] = m + i
  BY NumbersTyped
<1>4. c \in Seq(Nat) /\ Len(c) = m + n /\ \A i \in 1..(m + n) : c[i] = 0 + i
  BY <1>1, NumbersTyped
<1> HIDE DEF a, b, c
<1>5. /\ a \o b \in Seq(Nat) /\ Len(a \o b) = m + n
      /\ \A i \in 1..(m + n) : (a \o b)[i] = IF i <= m THEN a[i] ELSE b[i - m]
  <2>1. a \in Seq(Nat) /\ b \in Seq(Nat) /\ Len(a) = m /\ Len(b) = n
    BY <1>2, <1>3
  <2>2. /\ a \o b \in Seq(Nat) /\ Len(a \o b) = Len(a) + Len(b)
        /\ \A i \in 1..(Len(a) + Len(b)) :
             (a \o b)[i] = IF i <= Len(a) THEN a[i] ELSE b[i - Len(a)]
    BY ONLY <2>1, Joined
  <2> QED
    BY ONLY <2>1, <2>2
<1>6. ASSUME NEW i \in 1..(m + n)
      PROVE  (a \o b)[i] = c[i]
  <2>1. CASE i <= m
    BY <1>2, <1>4, <1>5, <2>1
  <2>2. CASE ~(i <= m)
    <3>1. i - m \in 1..n
      BY <2>2
    <3> QED
      BY ONLY SMTT(30), <1>1, <1>3, <1>4, <1>5, <2>2, <3>1, i \in 1..(m + n)
  <2> QED
    BY <2>1, <2>2
<1> QED
  BY <1>4, <1>5, <1>6, SeqEqual DEF a, b, c

\* What is cut off a sequence and what is left of it.
LEMMA CutInTwo ==
    ASSUME NEW s \in Seq(Nat), NEW k \in 0..Len(s)
    PROVE  /\ SubSeq(s, 1, k) \in Seq(Nat) /\ Len(SubSeq(s, 1, k)) = k
           /\ SubSeq(s, k + 1, Len(s)) \in Seq(Nat)
           /\ SubSeq(s, 1, k) \o SubSeq(s, k + 1, Len(s)) = s
<1>1. Len(s) \in Nat /\ k \in Nat /\ k <= Len(s)
  OBVIOUS
<1>2. /\ SubSeq(s, 1, k) \in Seq(Nat) /\ Len(SubSeq(s, 1, k)) = k
      /\ SubSeq(s, k + 1, Len(s)) \in Seq(Nat)
  BY <1>1
<1>3. SubSeq(s, 1, k) \o SubSeq(s, k + 1, Len(s)) = SubSeq(s, 1, Len(s))
  <2>1. 1 \in 1..(Len(s) + 1) /\ k \in (1 - 1)..Len(s) /\ Len(s) \in k..Len(s)
    BY <1>1
  <2> QED
    BY <2>1, ConcatAdjacentSubSeq
<1>4. SubSeq(s, 1, Len(s)) = s
  BY SubSeqFull
<1> QED
  BY <1>2, <1>3, <1>4

\* New bytes are behind all that came before.
LEMMA InOrderAppend ==
    ASSUME NEW s, NEW m \in Nat, NEW n \in Nat, InOrder(s, m)
    PROVE  InOrder(s \o Numbers(m, n), m + n)
<1> DEFINE b == Numbers(m, n)
           t == s \o b
<1>1. s \in Seq(Nat) /\ Len(s) \in Nat /\ DOMAIN s = 1..Len(s)
  BY DEF InOrder
<1>2. b \in Seq(Nat) /\ Len(b) = n /\ \A i \in 1..n : b[i] = m + i
  BY NumbersTyped
<1> HIDE DEF b
<1>3. /\ t \in Seq(Nat) /\ Len(t) = Len(s) + n
      /\ \A i \in 1..(Len(s) + n) : t[i] = IF i <= Len(s) THEN s[i] ELSE b[i - Len(s)]
  BY <1>1, <1>2, ConcatProperties
<1>4. \A i \in 1..Len(s) : s[i] \in Nat
  BY <1>1
<1>5. /\ \A i \in 1..Len(s) : s[i] <= m
      /\ \A i, j \in 1..Len(s) : i < j => s[i] < s[j]
  BY ONLY ZenonT(30), <1>1, InOrder(s, m) DEF InOrder, Increasing
<1> HIDE DEF t
<1>6. ASSUME NEW i \in 1..(Len(s) + n)
      PROVE  \/ i <= Len(s) /\ t[i] = s[i] /\ t[i] \in Nat /\ t[i] <= m
             \/ ~(i <= Len(s)) /\ t[i] = m + (i - Len(s))
  <2>1. CASE i <= Len(s)
    BY <1>1, <1>3, <1>4, <1>5, <2>1
  <2>2. CASE ~(i <= Len(s))
    <3>1. i - Len(s) \in 1..n
      BY <1>1, <2>2
    <3> QED
      BY <1>1, <1>2, <1>3, <2>2, <3>1
  <2> QED
    BY <2>1, <2>2
<1>7. ASSUME NEW i \in 1..(Len(s) + n), NEW j \in 1..(Len(s) + n), i < j
      PROVE  t[i] < t[j]
  <2>1. CASE j <= Len(s)
    <3>1. i \in 1..Len(s) /\ j \in 1..Len(s)
      BY <1>1, <1>7, <2>1
    <3>2. t[i] = s[i] /\ t[j] = s[j]
      BY <1>3, <3>1
    <3> QED
      BY <1>5, <1>7, <3>1, <3>2
  <2>2. CASE ~(j <= Len(s))
    <3>1. t[j] = m + (j - Len(s))
      BY <1>6, <2>2
    <3>2. (t[i] \in Nat /\ t[i] <= m) \/ t[i] = m + (i - Len(s))
      BY <1>6
    <3> QED
      BY <1>1, <1>7, <2>2, <3>1, <3>2
  <2> QED
    BY <2>1, <2>2
<1>8. \A i \in 1..(Len(s) + n) : t[i] <= m + n
  BY <1>1, <1>6
<1>9. DOMAIN t = 1..(Len(s) + n)
  BY <1>1, <1>3
<1> QED
  BY <1>3, <1>7, <1>8, <1>9 DEF InOrder, Increasing, t, b

\* What is dropped at the end leaves the rest in order.
LEMMA InOrderPrefix ==
    ASSUME NEW s \in Seq(Nat), NEW t \in Seq(Nat), NEW n, InOrder(s \o t, n)
    PROVE  InOrder(s, n)
<1>1. /\ Len(s) \in Nat /\ Len(t) \in Nat /\ DOMAIN s = 1..Len(s)
      /\ DOMAIN (s \o t) = 1..(Len(s) + Len(t))
      /\ \A i \in 1..Len(s) : (s \o t)[i] = s[i]
  BY ConcatProperties
<1>2. \A i \in DOMAIN s : i \in DOMAIN (s \o t)
  BY <1>1
<1> QED
  BY <1>1, <1>2 DEF InOrder, Increasing

\* The file alone is in order, too.
LEMMA StreamTyped ==
    ASSUME CallInv
    PROVE  Pending \in Seq(Nat) /\ Stream \in Seq(Nat)
<1>1. call.data \in Seq(Nat) /\ call.rest \in Seq(Nat) /\ buf \in Seq(Nat) /\ file \in Seq(Nat)
  BY DEF CallInv, Calls
<1>2. Pending \in Seq(Nat)
  BY <1>1, ConcatProperties DEF Pending
<1> QED
  BY <1>1, <1>2, ConcatProperties DEF Stream

-----------------------------------------------------------------------------
(* What one step does to the stream: nothing, unless append adds to it or  *)
(* an error takes its end away.                                            *)

Keeps == Stream' = Stream /\ appended' = appended /\ (failed => failed')

Grows == \E n \in Nat : /\ Stream' = Stream \o Numbers(appended, n)
                        /\ appended' = appended + n /\ failed' = failed

Drops == /\ failed' /\ appended' = appended
         /\ \E rest \in Seq(Nat) : Stream' \in Seq(Nat) /\ Stream = Stream' \o rest

\* A call that begins to write the buffer leaves it in its place.
LEMMA BeginKeeps ==
    ASSUME CallInv, call = Idle, NEW pc \in {"flush", "sync", "close"},
           call' = Writing(buf, pc, <<>>), UNCHANGED <<buf, file, appended, failed>>,
           pc = "sync" /\ IsManifest => dir_synced'
    PROVE  CallInv' /\ Keeps
<1>1. buf \in Seq(Nat) /\ <<>> \in Seq(Nat) /\ call.pc = "idle"
  BY DEF CallInv, Idle
<1>2. call'.pc = pc /\ call'.data = buf /\ call'.rest = <<>> /\ pc # "idle"
  BY DEF Writing
<1>3. call' \in Calls
  BY <1>1 DEF Calls, Writing
<1>4. CallInv'
  BY <1>2, <1>3 DEF CallInv
<1>5. Pending' = buf \o <<>> /\ Pending = buf
  BY <1>1, <1>2 DEF Pending
<1>6. Pending' = Pending
  BY <1>1, <1>5, ConcatEmptySeq
<1> QED
  BY <1>4, <1>6 DEF Keeps, Stream

\* A call that has written everything leaves nothing behind.
LEMMA FinishKeeps ==
    ASSUME CallInv, call.pc \notin {"idle", "append"}, call.data = <<>>, call' = Idle,
           buf' = <<>>, UNCHANGED <<file, appended>>, failed' = failed \/ failed' = TRUE
    PROVE  CallInv' /\ Keeps
<1>1. call.rest = <<>> /\ <<>> \in Seq(Nat) /\ failed \in BOOLEAN /\ Len(<<>>) <= BufferSize
  BY BufferAssumption DEF CallInv
<1>2. call'.pc = "idle" /\ call' \in Calls /\ call'.rest = <<>>
  BY <1>1 DEF Idle, Calls
<1>3. failed' \in BOOLEAN /\ (failed => failed')
  BY <1>1
<1>4. CallInv'
  BY <1>1, <1>2, <1>3 DEF CallInv
<1>5. Pending' = <<>> /\ Pending = <<>> \o <<>>
  BY <1>1, <1>2 DEF Pending
<1>6. Pending' = Pending
  BY <1>1, <1>5, ConcatEmptySeq
<1> QED
  BY <1>3, <1>4, <1>6 DEF Keeps, Stream

\* append: what fits goes into the buffer, the rest waits behind it.
LEMMA AppendGrows ==
    ASSUME CallInv, NEW n \in Sizes, AppendData(n)
    PROVE  CallInv' /\ Grows
<1> DEFINE room == BufferSize - Len(buf)
           data == Numbers(appended, n)
<1>1. /\ n \in Nat /\ BufferSize \in Nat /\ buf \in Seq(Nat) /\ Len(buf) \in Nat
      /\ room \in Nat /\ file \in Seq(Nat) /\ appended \in Nat /\ appended + n \in Nat
      /\ call = Idle /\ call.pc = "idle" /\ call \in Calls /\ failed \in BOOLEAN
  BY SizesAssumption, BufferAssumption DEF CallInv, AppendData, Idle
<1>2. data \in Seq(Nat) /\ Len(data) = n
  BY <1>1, NumbersTyped
<1>3. UNCHANGED <<file, dir_synced>> /\ appended' = appended + n
  BY DEF AppendData
<1>4. IF n <= room
        THEN buf' = buf \o data /\ Return
        ELSE /\ buf' = buf \o SubSeq(data, 1, room)
             /\ call' = Writing(buf \o SubSeq(data, 1, room), "append",
                                SubSeq(data, room + 1, n))
             /\ UNCHANGED failed
  BY DEF AppendData
<1>5. Stream = file \o buf
  BY <1>1 DEF Stream, Pending
<1>6. (file \o buf) \o data = file \o (buf \o data)
  <2>1. buf \in Seq(Nat) /\ file \in Seq(Nat) /\ data \in Seq(Nat)
    BY <1>1, <1>2
  <2> HIDE DEF data
  <2> QED
    BY ONLY <2>1, Regroup
<1> HIDE DEF room, data
<1>7. CASE n <= room
  <2>1. buf' = buf \o data /\ call' = Idle /\ failed' = failed
    BY <1>4, <1>7 DEF Return
  <2>2. buf' \in Seq(Nat) /\ Len(buf') = Len(buf) + n
    BY <1>1, <1>2, <2>1, ConcatProperties
  <2>3. Len(buf') <= BufferSize
    BY <1>1, <1>7, <2>2 DEF room
  <2>4. CallInv'
    BY <1>1, <1>3, <2>1, <2>2, <2>3 DEF CallInv
  <2>5. Stream' = file \o (buf \o data)
    BY <1>1, <1>3, <2>1 DEF Stream, Pending
  <2> QED
    BY <1>1, <1>3, <1>5, <1>6, <2>1, <2>4, <2>5 DEF Grows, data
<1>8. CASE ~(n <= room)
  <2> DEFINE head == SubSeq(data, 1, room)
             tail == SubSeq(data, room + 1, n)
             full == buf \o head
  <2>1. /\ buf' = full /\ call' = Writing(full, "append", tail) /\ failed' = failed
    BY <1>4, <1>8
  <2>2. /\ head \in Seq(Nat) /\ Len(head) = room /\ tail \in Seq(Nat)
        /\ head \o tail = data
    <3>1. room \in 0..Len(data)
      BY <1>1, <1>2, <1>8
    <3> QED
      BY <1>2, <3>1, CutInTwo
  <2> HIDE DEF head, tail
  <2>3. full \in Seq(Nat) /\ Len(full) = Len(buf) + room
    BY <1>1, <2>2, ConcatProperties
  <2>4. Len(full) <= BufferSize
    BY <1>1, <2>3 DEF room
  <2>5. full \o tail = buf \o data
    <3>1. (buf \o head) \o tail = buf \o (head \o tail)
      BY ONLY <1>1, <2>2, Regroup
    <3> QED
      BY ONLY <2>2, <3>1 DEF full
  <2> HIDE DEF full
  <2>6. call'.pc = "append" /\ call'.data = full /\ call'.rest = tail /\ call' \in Calls
    BY <2>1, <2>2, <2>3 DEF Writing, Calls
  <2>7. CallInv'
    BY <1>1, <1>3, <2>1, <2>3, <2>4, <2>6 DEF CallInv
  <2>8. Stream' = file \o (buf \o data)
    BY <1>3, <2>5, <2>6 DEF Stream, Pending
  <2> QED
    BY <1>1, <1>3, <1>5, <1>6, <2>1, <2>7, <2>8 DEF Grows, data
<1> QED
  BY <1>7, <1>8

\* write(): the bytes taken change from one side to the other.
LEMMA WriteKeeps ==
    ASSUME CallInv, NEW k \in 1..Len(call.data), WriteSome(k)
    PROVE  CallInv' /\ Keeps
<1> DEFINE data == call.data
           rest == call.rest
           head == SubSeq(data, 1, k)
           tail == SubSeq(data, k + 1, Len(data))
<1>1. /\ data \in Seq(Nat) /\ rest \in Seq(Nat) /\ Len(data) \in Nat /\ file \in Seq(Nat)
      /\ call \in Calls /\ data # <<>>
  BY DEF CallInv, Calls, WriteSome
<1>2. /\ file' = file \o head /\ call' = [call EXCEPT !.data = tail]
      /\ UNCHANGED <<buf, dir_synced, appended, failed>>
  BY DEF WriteSome
<1>3. call.pc # "idle"
  BY <1>1 DEF CallInv, Idle
<1>4. head \in Seq(Nat) /\ tail \in Seq(Nat) /\ head \o tail = data
  <2>1. k \in 0..Len(data)
    BY <1>1
  <2> QED
    BY <1>1, <2>1, CutInTwo
<1> HIDE DEF head, tail, data
<1>5. /\ call'.pc = call.pc /\ call'.data = tail /\ call'.rest = rest /\ call' \in Calls
  BY <1>1, <1>2, <1>4 DEF Calls, data
<1>6. file' \in Seq(Nat)
  BY <1>1, <1>2, <1>4, ConcatProperties
<1>7. CallInv'
  BY <1>2, <1>3, <1>5, <1>6 DEF CallInv
<1>8. (file \o head) \o (tail \o rest) = file \o (data \o rest)
  <2>1. tail \o rest \in Seq(Nat)
    BY <1>1, <1>4, ConcatProperties
  <2>2. (file \o head) \o (tail \o rest) = file \o (head \o (tail \o rest))
    <3> DEFINE behind == tail \o rest
    <3>1. behind \in Seq(Nat)
      BY <2>1
    <3> HIDE DEF behind
    <3>2. file \in Seq(Nat) /\ head \in Seq(Nat)
      BY <1>1, <1>4
    <3>3. (file \o head) \o behind = file \o (head \o behind)
      BY ONLY ZenonT(30), <3>1, <3>2, Regroup
    <3> QED
      BY <3>3 DEF behind
  <2>3. (head \o tail) \o rest = head \o (tail \o rest)
    <3>1. \A u \in Seq(Nat) : (head \o tail) \o u = head \o (tail \o u)
      BY ONLY <1>4, Regroup
    <3>2. rest \in Seq(Nat)
      BY <1>1
    <3> QED
      BY ONLY <3>1, <3>2
  <2> QED
    BY <1>4, <2>2, <2>3
<1>9. Stream' = (file \o head) \o (tail \o rest) /\ Stream = file \o (data \o rest)
  BY <1>2, <1>3, <1>5 DEF Stream, Pending, data
<1> QED
  BY <1>2, <1>7, <1>8, <1>9 DEF Keeps

\* An error of write(): what the call had left, and the buffer, are lost.
LEMMA ErrorDrops ==
    ASSUME CallInv, WriteFails
    PROVE  CallInv' /\ Drops
<1>1. /\ call \in Calls /\ file \in Seq(Nat) /\ <<>> \in Seq(Nat) /\ Len(<<>>) <= BufferSize
      /\ call.data # <<>>
  BY BufferAssumption DEF CallInv, WriteFails
<1>2. /\ buf' = <<>> /\ failed' = TRUE /\ UNCHANGED <<file, dir_synced, appended>>
      /\ call' = IF call.pc = "close" THEN [call EXCEPT !.data = <<>>] ELSE Idle
  BY DEF WriteFails
<1>3. CallInv' /\ Pending' = <<>>
  <2>1. CASE call.pc = "close"
    <3>1. /\ call'.pc = "close" /\ call'.data = <<>> /\ call'.rest = <<>> /\ call' \in Calls
      BY <1>1, <1>2, <2>1 DEF CallInv, Calls
    <3>2. Pending' = <<>>
      BY <1>1, <3>1, ConcatEmptySeq DEF Pending
    <3> QED
      BY <1>1, <1>2, <3>1, <3>2 DEF CallInv
  <2>2. CASE call.pc # "close"
    <3>1. call' = Idle /\ call'.pc = "idle" /\ call'.rest = <<>> /\ call' \in Calls
      BY <1>1, <1>2, <2>2 DEF Idle, Calls
    <3>2. Pending' = <<>>
      BY <1>2, <3>1 DEF Pending
    <3> QED
      BY <1>1, <1>2, <3>1, <3>2 DEF CallInv
  <2> QED
    BY <2>1, <2>2
<1>4. Stream' = file
  BY <1>1, <1>2, <1>3, ConcatEmptySeq DEF Stream
<1>5. Pending \in Seq(Nat) /\ Stream = file \o Pending
  BY StreamTyped DEF Stream
<1> QED
  BY <1>1, <1>2, <1>3, <1>4, <1>5 DEF Drops

\* append, behind the full buffer it has written.
LEMMA RestKeeps ==
    ASSUME CallInv, AppendRest
    PROVE  CallInv' /\ Keeps
<1>1. /\ call \in Calls /\ call.pc = "append" /\ call.data = <<>> /\ call.rest \in Seq(Nat)
      /\ <<>> \in Seq(Nat) /\ Len(<<>>) <= BufferSize /\ UNCHANGED <<file, dir_synced, appended>>
      /\ BufferSize \in Nat /\ Len(call.rest) \in Nat
  BY BufferAssumption DEF CallInv, AppendRest, Calls
<1>2. Pending = call.rest
  BY <1>1, ConcatEmptySeq DEF Pending
<1>3. CASE Len(call.rest) < BufferSize
  <2>1. buf' = call.rest /\ call' = Idle /\ failed' = failed
    BY <1>3 DEF AppendRest, Return
  <2>2. call'.pc = "idle" /\ call'.rest = <<>> /\ call' \in Calls
    BY <1>1, <2>1 DEF Idle, Calls
  <2>3. CallInv'
    BY <1>1, <1>3, <2>1, <2>2 DEF CallInv
  <2>4. Pending' = call.rest
    BY <2>1, <2>2 DEF Pending
  <2> QED
    BY <1>1, <1>2, <2>1, <2>3, <2>4 DEF Keeps, Stream
<1>4. CASE ~(Len(call.rest) < BufferSize)
  <2>1. buf' = <<>> /\ call' = Writing(call.rest, "direct", <<>>) /\ failed' = failed
    BY <1>4 DEF AppendRest
  <2>2. /\ call'.pc = "direct" /\ call'.data = call.rest /\ call'.rest = <<>>
        /\ call' \in Calls
    BY <1>1, <2>1 DEF Writing, Calls
  <2>3. CallInv'
    BY <1>1, <2>1, <2>2 DEF CallInv
  <2>4. Pending' = call.rest
    BY <1>1, <2>2, ConcatEmptySeq DEF Pending
  <2> QED
    BY <1>1, <1>2, <2>1, <2>3, <2>4 DEF Keeps, Stream
<1> QED
  BY <1>3, <1>4

\* Every call, and every step of one.
LEMMA StepStream ==
    ASSUME CallInv, Next
    PROVE  CallInv' /\ (Keeps \/ Grows \/ Drops)
<1>1. CASE Flush
  BY <1>1, BeginKeeps DEF Flush
<1>2. CASE Sync
  <2>1. IsManifest => dir_synced'
    BY <1>2 DEF Sync
  <2> QED
    BY <1>2, <2>1, BeginKeeps DEF Sync
<1>3. CASE Close
  BY <1>3, BeginKeeps DEF Close
<1>4. CASE SyncDirFails
  <2>1. call = Idle /\ call' = Idle /\ failed' = TRUE /\ UNCHANGED <<buf, file, appended>>
    BY <1>4 DEF SyncDirFails, ReturnError
  <2>2. CallInv'
    BY <2>1 DEF CallInv, Idle
  <2>3. Keeps
    BY <2>1 DEF Keeps, Stream, Pending
  <2> QED
    BY <2>2, <2>3
<1>5. CASE Written \/ DataSync \/ DataSyncFails \/ Closed
  <2>1. /\ call.pc \notin {"idle", "append"} /\ call.data = <<>> /\ call' = Idle
        /\ buf' = <<>> /\ UNCHANGED <<file, appended>>
        /\ failed' = failed \/ failed' = TRUE
    BY <1>5 DEF Written, DataSync, DataSyncFails, Closed, Return, ReturnError
  <2> QED
    BY <2>1, FinishKeeps
<1>6. ASSUME NEW n \in Sizes, AppendData(n)
      PROVE  CallInv' /\ Grows
  BY <1>6, AppendGrows
<1>7. ASSUME NEW k \in 1..Len(call.data), WriteSome(k)
      PROVE  CallInv' /\ Keeps
  BY <1>7, WriteKeeps
<1>8. CASE WriteFails
  BY <1>8, ErrorDrops
<1>9. CASE AppendRest
  BY <1>9, RestKeeps
<1> QED
  BY <1>1, <1>2, <1>3, <1>4, <1>5, <1>6, <1>7, <1>8, <1>9 DEF Next, Progress

-----------------------------------------------------------------------------
(* The theorems.                                                           *)

LEMMA InitInv == Init => IInv
<1> SUFFICES ASSUME Init
             PROVE  IInv
  OBVIOUS
<1>1. /\ buf = <<>> /\ file = <<>> /\ appended = 0 /\ failed = FALSE /\ call = Idle
      /\ <<>> \in Seq(Nat) /\ Len(<<>>) = 0
  BY DEF Init
<1>2. call.pc = "idle" /\ call.rest = <<>> /\ call \in Calls
  BY <1>1 DEF Idle, Calls
<1>3. CallInv
  <2>1. Len(buf) <= BufferSize
    BY <1>1, BufferAssumption
  <2>2. buf \in Seq(Nat) /\ file \in Seq(Nat) /\ appended \in Nat /\ failed \in BOOLEAN
    BY <1>1
  <2> QED
    BY <1>1, <1>2, <2>1, <2>2 DEF CallInv
<1>4. Stream = <<>>
  BY <1>1, <1>2, ConcatEmptySeq DEF Stream, Pending
<1>5. Numbers(0, 0) = <<>>
  <2>1. Numbers(0, 0) \in Seq(Nat) /\ Len(Numbers(0, 0)) = 0
    BY NumbersTyped
  <2> QED
    BY <2>1, EmptySeq
<1>6. DOMAIN <<>> = {}
  OBVIOUS
<1> QED
  BY <1>1, <1>3, <1>4, <1>5, <1>6 DEF IInv, StreamInv, InOrder, Increasing

LEMMA StepInv == IInv /\ [Next]_vars => IInv'
<1> SUFFICES ASSUME IInv, [Next]_vars
             PROVE  IInv'
  OBVIOUS
<1>1. CallInv /\ StreamInv /\ appended \in Nat
  BY DEF IInv, CallInv
<1>2. CASE UNCHANGED vars
  BY <1>2 DEF vars, IInv, CallInv, StreamInv, Stream, Pending
<1>3. ASSUME Next
      PROVE  CallInv' /\ (Keeps \/ Grows \/ Drops)
  BY <1>1, <1>3, StepStream
<1>4. CASE CallInv' /\ Keeps
  BY <1>1, <1>4 DEF IInv, StreamInv, Keeps
<1>5. CASE CallInv' /\ Grows
  <2>1. PICK n \in Nat : /\ Stream' = Stream \o Numbers(appended, n)
                         /\ appended' = appended + n /\ failed' = failed
    BY <1>5 DEF Grows
  <2>2. InOrder(Stream, appended) /\ (~failed => Stream = Numbers(0, appended))
    BY <1>1 DEF StreamInv
  <2>3. InOrder(Stream', appended')
    BY <1>1, <2>1, <2>2, InOrderAppend
  <2>4. ~failed' => Stream' = Numbers(0, appended')
    BY <1>1, <2>1, <2>2, NumbersFollow
  <2> QED
    BY <1>5, <2>3, <2>4 DEF IInv, StreamInv
<1>6. CASE CallInv' /\ Drops
  <2>1. failed' /\ appended' = appended
    BY <1>6 DEF Drops
  <2>2. PICK rest \in Seq(Nat) : Stream' \in Seq(Nat) /\ Stream = Stream' \o rest
    BY <1>6 DEF Drops
  <2>3. InOrder(Stream, appended)
    BY <1>1 DEF StreamInv
  <2>4. InOrder(Stream', appended)
    BY <2>2, <2>3, InOrderPrefix
  <2> QED
    BY <1>6, <2>1, <2>4 DEF IInv, StreamInv
<1> QED
  BY <1>2, <1>3, <1>4, <1>5, <1>6

\* What file, buffer and the call in progress hold is, without a failure, all that
\* was appended and in order; after one, in order still.
THEOREM FileInvariant == Spec => []IInv
BY InitInv, StepInv, PTL DEF Spec

\* posix_env.cc:205-254 and 270-290: for every size of the buffer and of the appends,
\* and whatever write() takes at a time, the buffer is never overfull, nothing is lost
\* while all calls succeed, and nothing is written twice or out of order after one fails.
THEOREM BufferIsExact == Spec => []BufferExact
<1>1. IInv => BufferExact
  <2> SUFFICES ASSUME IInv
               PROVE  BufferExact
    OBVIOUS
  <2>1. CallInv /\ StreamInv /\ file \in Seq(Nat) /\ Pending \in Seq(Nat)
    BY StreamTyped DEF IInv, CallInv
  <2>2. call = Idle => Stream = file \o buf
    BY DEF Stream, Pending, Idle
  <2>3. InOrder(file, appended)
    BY <2>1, InOrderPrefix DEF StreamInv, Stream
  <2> QED
    BY <2>1, <2>2, <2>3 DEF BufferExact, CallInv, StreamInv, InOrder, Increasing
<1> QED
  BY <1>1, FileInvariant, PTL

\* posix_env.cc:256-268: a sync that returns ok while nothing has failed leaves every
\* byte appended so far durable, and the directory entry of a manifest with it.
THEOREM SyncsAreDurable == Spec => SyncIsDurable
<1>1. ASSUME IInv, [Next]_vars, call.pc = "sync", call' = Idle, ~failed'
      PROVE  synced' = appended' /\ (IsManifest => dir_synced')
  <2>1. CallInv /\ StreamInv /\ file \in Seq(Nat) /\ appended \in Nat
    BY <1>1 DEF IInv, CallInv
  <2>2. DataSync
    <3>1. ~UNCHANGED vars
      BY <1>1 DEF vars, Idle
    <3>2. ASSUME NEW n \in Sizes, AppendData(n)
          PROVE  FALSE
      BY <1>1, <3>2 DEF AppendData, Idle
    <3>3. ~(Flush \/ Sync \/ SyncDirFails \/ Close)
      BY <1>1 DEF Flush, Sync, SyncDirFails, Close, Idle
    <3>4. ASSUME NEW k \in 1..Len(call.data), WriteSome(k)
          PROVE  FALSE
      <4>1. call'.pc = "sync"
        BY <1>1, <2>1, <3>4 DEF WriteSome, CallInv, Calls
      <4> QED
        BY <1>1, <4>1 DEF Idle
    <3>5. ~(WriteFails \/ AppendRest \/ Written \/ DataSyncFails \/ Closed)
      BY <1>1 DEF WriteFails, AppendRest, Written, DataSyncFails, Closed, ReturnError
    <3> QED
      BY <1>1, <3>1, <3>2, <3>3, <3>4, <3>5 DEF Next, Progress
  <2>3. /\ call.data = <<>> /\ synced' = Len(file) /\ UNCHANGED <<appended, dir_synced>>
        /\ failed' = failed
    BY <2>2 DEF DataSync, Return
  <2>4. call.rest = <<>> /\ (IsManifest => dir_synced)
    BY <1>1, <2>1 DEF CallInv
  <2>5. Stream = file
    <3>1. Pending = <<>> \o <<>> /\ <<>> \in Seq(Nat)
      BY <1>1, <2>3, <2>4 DEF Pending
    <3> QED
      BY <2>1, <3>1, ConcatEmptySeq DEF Stream
  <2>6. file = Numbers(0, appended)
    BY <1>1, <2>1, <2>3, <2>5 DEF StreamInv
  <2>7. Len(file) = appended
    BY <2>1, <2>6, NumbersTyped
  <2> QED
    BY <2>3, <2>4, <2>7
<1>2. IInv /\ [Next]_vars =>
        [call.pc = "sync" /\ call' = Idle /\ ~failed' =>
           synced' = appended' /\ (IsManifest => dir_synced')]_vars
  BY <1>1
<1> QED
  BY <1>2, FileInvariant, PTL DEF Spec, SyncIsDurable
=============================================================================
