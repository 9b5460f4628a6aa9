-------------------------- MODULE ConnectionProofs --------------------------
(***************************************************************************)
(* Proofs about a connection of a server: the order of its two streams of  *)
(* bytes, how often its end is reported, what can be cut off by a close,   *)
(* and when the wait of a coroutine fails.  They hold for any number of    *)
(* requests and any sizes of the buffers and of the reads.                 *)
(***************************************************************************)
EXTENDS Connection, Integers, WellFoundedInduction, TLAPS

-----------------------------------------------------------------------------
(* IOBuffer.                                                               *)

\* The content is a sequence of bytes.
LEMMA ContentType ==
  ASSUME NEW B, NEW b, IsIOBuffer(b, B)
  PROVE  /\ CanReadSize(b) \in Nat /\ Content(b) \in Seq(B) /\ Len(Content(b)) = CanReadSize(b)
         /\ \A i \in 1..CanReadSize(b) : Content(b)[i] = b.data[b.read_index + i - 1]
<1>1. CanReadSize(b) \in Nat /\ CanReadSize(b) = b.write_index - b.read_index
  BY DEF IsIOBuffer, CanReadSize
<1>2. \A i \in 1..CanReadSize(b) : b.read_index + i - 1 \in 0..b.size - 1
  BY <1>1 DEF IsIOBuffer
<1>3. \A i \in 1..CanReadSize(b) : b.data[b.read_index + i - 1] \in B
  BY <1>2 DEF IsIOBuffer
<1>4. Content(b) \in [1..CanReadSize(b) -> B]
  BY <1>3 DEF Content
<1>5. Content(b) \in Seq(B) /\ Len(Content(b)) = CanReadSize(b)
  BY <1>1, <1>4
<1> QED
  BY <1>1, <1>5 DEF Content

\* Moving the content to the front keeps it, and all that was consumed is room again.
LEMMA CompactedKeeps ==
  ASSUME NEW B, NEW b, IsIOBuffer(b, B)
  PROVE  /\ IsIOBuffer(Compacted(b), B) /\ Content(Compacted(b)) = Content(b)
         /\ CanWriteSize(Compacted(b)) = CanWriteSize(b) + b.read_index
<1> DEFINE k == Compacted(b)
<1>1. CanReadSize(b) \in 0..b.size /\ CanReadSize(b) = b.write_index - b.read_index
  BY DEF IsIOBuffer, CanReadSize
<1>2. \A i \in 0..b.size - 1 : i < CanReadSize(b) => b.read_index + i \in 0..b.size - 1
  BY <1>1 DEF IsIOBuffer
<1>3. /\ k.size = b.size /\ k.read_index = 0 /\ k.write_index = CanReadSize(b)
      /\ k.data = [i \in 0..b.size - 1 |-> IF i < CanReadSize(b) THEN b.data[b.read_index + i] ELSE b.data[i]]
      /\ k = [data |-> k.data, size |-> k.size, read_index |-> k.read_index, write_index |-> k.write_index]
  BY DEF Compacted
<1>4. k.data \in [0..b.size - 1 -> B]
  BY <1>2, <1>3 DEF IsIOBuffer
<1>5. IsIOBuffer(k, B)
  BY <1>1, <1>3, <1>4 DEF IsIOBuffer
<1>6. CanReadSize(k) = CanReadSize(b)
  BY <1>1, <1>3 DEF CanReadSize
<1>7. \A i \in 1..CanReadSize(b) : k.data[k.read_index + i - 1] = b.data[b.read_index + i - 1]
  <2> TAKE i \in 1..CanReadSize(b)
  <2>1. i - 1 \in 0..b.size - 1 /\ i - 1 < CanReadSize(b) /\ k.read_index + i - 1 = i - 1
    BY <1>1, <1>3 DEF IsIOBuffer
  <2>2. b.read_index + (i - 1) = b.read_index + i - 1
    BY DEF IsIOBuffer
  <2> HIDE DEF k
  <2> QED
    BY <2>1, <2>2, <1>3
<1> HIDE DEF k
<1>8. Content(k) = Content(b)
  BY <1>6, <1>7 DEF Content
<1>9. CanWriteSize(k) = CanWriteSize(b) + b.read_index
  BY <1>1, <1>3 DEF CanWriteSize, IsIOBuffer
<1> QED
  BY <1>5, <1>8, <1>9 DEF k

\* Growing the vector keeps the content.
LEMMA ResizedKeeps ==
  ASSUME NEW B, NEW b, IsIOBuffer(b, B), 0 \in B, NEW len \in Nat, CanWriteSize(b) < len
  PROVE  /\ IsIOBuffer(Resized(b, len), B) /\ Content(Resized(b, len)) = Content(b)
         /\ CanWriteSize(Resized(b, len)) = len
<1> DEFINE k == Resized(b, len)
<1>1. /\ k.size = b.write_index + len /\ k.read_index = b.read_index /\ k.write_index = b.write_index
      /\ k.data = [i \in 0..b.write_index + len - 1 |-> IF i < b.size THEN b.data[i] ELSE 0]
      /\ k = [data |-> k.data, size |-> k.size, read_index |-> k.read_index, write_index |-> k.write_index]
  BY DEF Resized
<1>2. b.write_index \in Nat /\ b.read_index \in 0..b.write_index /\ b.size \in Nat /\ b.write_index <= b.size
  BY DEF IsIOBuffer
<1>3. k.data \in [0..k.size - 1 -> B]
  BY <1>1, <1>2 DEF IsIOBuffer
<1>4. IsIOBuffer(k, B)
  BY <1>1, <1>2, <1>3 DEF IsIOBuffer
<1>5. CanReadSize(k) = CanReadSize(b) /\ CanReadSize(b) = b.write_index - b.read_index
  BY <1>1 DEF CanReadSize
<1>6. \A i \in 1..CanReadSize(b) : k.data[k.read_index + i - 1] = b.data[b.read_index + i - 1]
  <2> SUFFICES ASSUME NEW i \in 1..CanReadSize(b) PROVE k.data[k.read_index + i - 1] = b.data[b.read_index + i - 1]
    OBVIOUS
  <2>1. b.read_index + i - 1 \in 0..b.write_index + len - 1 /\ b.read_index + i - 1 < b.size
    BY <1>2, <1>5
  <2> QED
    BY <1>1, <2>1
<1> HIDE DEF k
<1>7. Content(k) = Content(b)
  BY <1>5, <1>6 DEF Content
<1>8. CanWriteSize(k) = len
  BY <1>1, <1>2 DEF CanWriteSize
<1> QED
  BY <1>4, <1>7, <1>8 DEF k

\* EnsureWritableSize makes room for len bytes, whichever of its branches it takes,
\* and the bytes that are not read yet stay as they are.
THEOREM EnsureKeeps ==
  ASSUME NEW B, NEW b, IsIOBuffer(b, B), 0 \in B, NEW len \in Nat
  PROVE  /\ IsIOBuffer(EnsureWritableSize(b, len), B)
         /\ Content(EnsureWritableSize(b, len)) = Content(b)
         /\ CanWriteSize(EnsureWritableSize(b, len)) >= len
<1>1. CanWriteSize(b) \in Nat /\ b.read_index \in Nat
  BY DEF IsIOBuffer, CanWriteSize
<1>2. CASE CanWriteSize(b) >= len
  BY <1>2 DEF EnsureWritableSize
<1>3. CASE CanWriteSize(b) < len /\ CanWriteSize(b) + b.read_index >= len
  BY <1>1, <1>3, CompactedKeeps DEF EnsureWritableSize
<1>4. CASE CanWriteSize(b) < len /\ CanWriteSize(b) + b.read_index < len
  BY <1>1, <1>4, ResizedKeeps DEF EnsureWritableSize
<1> QED
  BY <1>1, <1>2, <1>3, <1>4

\* Bytes that are put into the room follow the content.
LEMMA PutAppends ==
  ASSUME NEW B, NEW b, IsIOBuffer(b, B), NEW s \in Seq(B), Len(s) <= CanWriteSize(b)
  PROVE  IsIOBuffer(Put(b, s), B) /\ Content(Put(b, s)) = Content(b) \o s
<1> DEFINE k == Put(b, s)
<1>1. /\ k.size = b.size /\ k.read_index = b.read_index /\ k.write_index = b.write_index + Len(s)
      /\ k.data = [i \in 0..b.size - 1 |-> IF i \in b.write_index..b.write_index + Len(s) - 1
                                           THEN s[i - b.write_index + 1] ELSE b.data[i]]
      /\ k = [data |-> k.data, size |-> k.size, read_index |-> k.read_index, write_index |-> k.write_index]
  BY DEF Put
<1>2. /\ b.size \in Nat /\ b.write_index \in 0..b.size /\ b.read_index \in 0..b.write_index
      /\ Len(s) \in Nat /\ b.write_index + Len(s) <= b.size
  BY DEF IsIOBuffer, CanWriteSize
<1>3. \A i \in 0..b.size - 1 : i \in b.write_index..b.write_index + Len(s) - 1 =>
        i - b.write_index + 1 \in 1..Len(s) /\ s[i - b.write_index + 1] \in B
  BY <1>2
<1>4. k.data \in [0..b.size - 1 -> B]
  BY <1>1, <1>3 DEF IsIOBuffer
<1>5. IsIOBuffer(k, B)
  BY <1>1, <1>2, <1>4 DEF IsIOBuffer
<1>6. CanReadSize(k) = CanReadSize(b) + Len(s) /\ CanReadSize(b) = b.write_index - b.read_index
  BY <1>1, <1>2 DEF CanReadSize
<1> HIDE DEF k
<1>7. /\ Content(b) \in Seq(B) /\ Len(Content(b)) = CanReadSize(b) /\ CanReadSize(b) \in Nat
      /\ \A i \in 1..CanReadSize(b) : Content(b)[i] = b.data[b.read_index + i - 1]
  BY ContentType
<1>8. /\ Content(k) \in Seq(B) /\ Len(Content(k)) = CanReadSize(k)
      /\ \A i \in 1..CanReadSize(k) : Content(k)[i] = k.data[k.read_index + i - 1]
  BY <1>5, ContentType
<1>9. ASSUME NEW i \in 1..CanReadSize(k) PROVE Content(k)[i] = (Content(b) \o s)[i]
  <2>0. i \in Nat /\ i >= 1 /\ i <= CanReadSize(b) + Len(s) /\ k.read_index + i - 1 = b.read_index + i - 1
    BY <1>1, <1>2, <1>6, <1>7
  <2>a. /\ b.read_index \in Nat /\ b.write_index \in Nat /\ b.size \in Nat /\ Len(s) \in Nat
        /\ CanReadSize(b) = b.write_index - b.read_index
        /\ b.write_index + Len(s) <= b.size /\ b.write_index <= b.size
    BY <1>2, <1>6
  <2> DEFINE j == b.read_index + i - 1
  <2>b. j \in Int /\ j >= 0 /\ j = b.read_index + i - 1
    BY <2>0, <2>a
  <2> HIDE DEF j
  <2>1. CASE i <= CanReadSize(b)
    <3>0. i \in 1..CanReadSize(b)
      BY <2>0, <2>1, <1>7
    <3>1. j < b.write_index
      BY <2>0, <2>1, <2>a, <2>b
    <3>2. j \in 0..b.size - 1 /\ ~(j \in b.write_index..b.write_index + Len(s) - 1)
      BY <3>1, <2>a, <2>b
    <3>4. k.data[j] = b.data[j]
      BY <3>2, <1>1
    <3>3. (Content(b) \o s)[i] = Content(b)[i]
      BY <2>1, <1>6, <1>7, <1>2
    <3> QED
      BY <3>0, <3>3, <3>4, <2>0, <2>b, <1>7, <1>8
  <2>2. CASE i > CanReadSize(b)
    <3> DEFINE r == b.read_index
               w == b.write_index
               z == b.size
               n == Len(s)
               l == CanReadSize(b)
    <3>1. r \in Nat /\ w \in Nat /\ z \in Nat /\ n \in Nat /\ i \in Nat /\ l = w - r /\ w + n <= z
      BY <2>0, <2>a
    <3>a. i > l /\ i <= l + n /\ j = r + i - 1
      BY <2>0, <2>2, <2>b
    <3> HIDE DEF r, w, z, n, l
    <3>b. j \in 0..z - 1 /\ j \in w..w + n - 1
      BY ONLY <3>1, <3>a
    <3>l. j - w + 1 = i - l
      BY ONLY <3>1, <3>a
    <3>2. /\ j \in 0..b.size - 1 /\ j \in b.write_index..b.write_index + Len(s) - 1
          /\ j - b.write_index + 1 = i - CanReadSize(b)
      BY <3>b, <3>l DEF r, w, z, n, l
    <3>4. k.data[j] = s[i - CanReadSize(b)]
      BY <3>2, <1>1
    <3>3. (Content(b) \o s)[i] = s[i - Len(Content(b))]
      BY <2>2, <2>0, <1>7
    <3> QED
      BY <3>3, <3>4, <2>0, <2>b, <1>7, <1>8
  <2> QED
    BY <2>1, <2>2, <1>2, <1>6, <1>7
<1>10. Content(b) \o s \in Seq(B) /\ Len(Content(b) \o s) = CanReadSize(k)
  BY <1>6, <1>7, <1>2
<1>11. Content(k) = Content(b) \o s
  BY <1>8, <1>9, <1>10
<1> QED
  BY <1>5, <1>11 DEF k

\* WriteRawData appends its bytes and overwrites none: nothing that waits in the buffer
\* is lost when it is compacted or grows.
THEOREM WriteAppends ==
  ASSUME NEW B, NEW b, IsIOBuffer(b, B), 0 \in B, NEW s \in Seq(B)
  PROVE  IsIOBuffer(WriteRawData(b, s), B) /\ Content(WriteRawData(b, s)) = Content(b) \o s
<1> DEFINE k == EnsureWritableSize(b, Len(s))
<1>1. Len(s) \in Nat
  OBVIOUS
<1>2. IsIOBuffer(k, B) /\ Content(k) = Content(b) /\ CanWriteSize(k) >= Len(s)
  BY <1>1, EnsureKeeps
<1> HIDE DEF k
<1>3. Len(s) <= CanWriteSize(k)
  BY <1>1, <1>2 DEF CanWriteSize, IsIOBuffer
<1>4. IsIOBuffer(Put(k, s), B) /\ Content(Put(k, s)) = Content(k) \o s
  BY <1>2, <1>3, PutAppends, Zenon
<1> QED
  BY <1>2, <1>4 DEF WriteRawData, k

\* Consume drops the bytes that were taken, all of them when there are fewer, and keeps
\* the rest; the reset of the two indices of an empty buffer changes nothing.
THEOREM ConsumeDrops ==
  ASSUME NEW B, NEW b, IsIOBuffer(b, B), NEW len \in Nat
  PROVE  /\ IsIOBuffer(Consume(b, len), B)
         /\ len <= CanReadSize(b) =>
              Content(Consume(b, len)) = SubSeq(Content(b), len + 1, CanReadSize(b))
         /\ len > CanReadSize(b) => Content(Consume(b, len)) = << >>
<1> DEFINE n == IF len <= CanReadSize(b) THEN len ELSE CanReadSize(b)
           read == b.read_index + n
           k == Consume(b, len)
<1>1. /\ b.size \in Nat /\ b.write_index \in 0..b.size /\ b.read_index \in 0..b.write_index
      /\ CanReadSize(b) = b.write_index - b.read_index /\ CanReadSize(b) \in Nat
  BY DEF IsIOBuffer, CanReadSize
<1>2. n \in 0..CanReadSize(b) /\ read \in b.read_index..b.write_index
  BY <1>1
<1>3. /\ k.size = b.size /\ k.data = b.data
      /\ k.read_index = (IF read = b.write_index THEN 0 ELSE read)
      /\ k.write_index = (IF read = b.write_index THEN 0 ELSE b.write_index)
      /\ k = [data |-> k.data, size |-> k.size, read_index |-> k.read_index, write_index |-> k.write_index]
  BY DEF Consume, IsIOBuffer
<1> HIDE DEF n, k
<1>4. IsIOBuffer(k, B)
  BY <1>1, <1>2, <1>3 DEF IsIOBuffer
<1>5. CanReadSize(k) = CanReadSize(b) - n
  BY <1>1, <1>2, <1>3 DEF CanReadSize
<1>6. /\ Content(k) \in Seq(B) /\ Len(Content(k)) = CanReadSize(k)
      /\ \A i \in 1..CanReadSize(k) : Content(k)[i] = k.data[k.read_index + i - 1]
  BY <1>4, ContentType
<1>7. /\ Content(b) \in Seq(B) /\ Len(Content(b)) = CanReadSize(b)
      /\ \A i \in 1..CanReadSize(b) : Content(b)[i] = b.data[b.read_index + i - 1]
  BY ContentType
<1>8. ASSUME len <= CanReadSize(b) PROVE Content(k) = SubSeq(Content(b), len + 1, CanReadSize(b))
  <2> DEFINE rest == SubSeq(Content(b), len + 1, CanReadSize(b))
  <2>1. n = len
    BY <1>8 DEF n
  <2>2. rest \in Seq(B) /\ Len(rest) = CanReadSize(b) - len
    BY <1>8, <1>1, <1>7
  <2>3. \A i \in 1..CanReadSize(b) - len : rest[i] = Content(b)[len + i]
    BY <1>8, <1>1, <1>7
  <2>4. ASSUME NEW i \in 1..CanReadSize(b) - len PROVE Content(k)[i] = rest[i]
    <3>1. k.read_index = read /\ len + i \in 1..CanReadSize(b)
      BY <2>1, <1>1, <1>2, <1>3
    <3>2. b.read_index + (len + i) - 1 = k.read_index + i - 1
      BY <3>1, <2>1, <1>1
    <3> QED
      BY <3>1, <3>2, <2>1, <2>3, <1>3, <1>5, <1>6, <1>7
  <2> HIDE DEF rest
  <2>5. Content(k) = rest
    BY <2>1, <2>2, <2>4, <1>5, <1>6
  <2> QED
    BY <2>5 DEF rest
<1>9. ASSUME len > CanReadSize(b) PROVE Content(k) = << >>
  BY <1>9, <1>1, <1>5, <1>6 DEF n
<1> QED
  BY <1>4, <1>8, <1>9 DEF k

-----------------------------------------------------------------------------
(* Sequences.                                                              *)

LEMMA SameBytes ==
  ASSUME NEW S, NEW a \in Seq(S), NEW b \in Seq(S), Len(a) = Len(b), \A i \in 1..Len(a) : a[i] = b[i]
  PROVE  a = b
  OBVIOUS

\* Concatenation, as an operator that is expanded only where elements matter
Joined(a, b) == a \o b

LEMMA JoinedType ==
  ASSUME NEW S, NEW a \in Seq(S), NEW b \in Seq(S)
  PROVE  Joined(a, b) \in Seq(S) /\ Len(Joined(a, b)) = Len(a) + Len(b)
  BY DEF Joined

LEMMA JoinedAssociates ==
  ASSUME NEW S, NEW a \in Seq(S), NEW b \in Seq(S), NEW d \in Seq(S)
  PROVE  Joined(Joined(a, b), d) = Joined(a, Joined(b, d))
  BY DEF Joined

LEMMA JoinedEmpty ==
  ASSUME NEW S, NEW a \in Seq(S)
  PROVE  Joined(a, << >>) = a /\ Joined(<< >>, a) = a
  BY DEF Joined

\* The bytes u move from the front of one part to the end of the part before.
LEMMA JoinedRegroups ==
  ASSUME NEW S, NEW a \in Seq(S), NEW b \in Seq(S), NEW u \in Seq(S), NEW w \in Seq(S)
  PROVE  Joined(Joined(a, Joined(b, u)), w) = Joined(Joined(a, b), Joined(u, w))
<1>1. Joined(a, Joined(b, u)) = Joined(Joined(a, b), u)
  BY JoinedAssociates
<1>2. Joined(a, b) \in Seq(S)
  BY JoinedType, Zenon
<1>3. Joined(Joined(Joined(a, b), u), w) = Joined(Joined(a, b), Joined(u, w))
  BY <1>2, JoinedAssociates
<1> QED
  BY <1>1, <1>3, Zenon

\* A sequence is its first bytes and the others.
LEMMA Split ==
  ASSUME NEW S, NEW s \in Seq(S), NEW n \in 0..Len(s)
  PROVE  /\ SubSeq(s, 1, n) \in Seq(S) /\ Len(SubSeq(s, 1, n)) = n
         /\ SubSeq(s, n + 1, Len(s)) \in Seq(S) /\ Len(SubSeq(s, n + 1, Len(s))) = Len(s) - n
         /\ Joined(SubSeq(s, 1, n), SubSeq(s, n + 1, Len(s))) = s
<1> DEFINE a == SubSeq(s, 1, n)
           b == SubSeq(s, n + 1, Len(s))
<1>0. n \in Nat /\ Len(s) \in Nat /\ n <= Len(s)
  OBVIOUS
<1>1. a \in Seq(S) /\ Len(a) = n /\ \A i \in 1..n : a[i] = s[i]
  OBVIOUS
<1>2. b \in Seq(S) /\ Len(b) = Len(s) - n /\ \A i \in 1..Len(s) - n : b[i] = s[n + i]
  OBVIOUS
<1> HIDE DEF a, b
<1>3. a \o b \in Seq(S) /\ Len(a \o b) = Len(s)
  BY <1>0, <1>1, <1>2
<1>4. ASSUME NEW i \in 1..Len(s) PROVE (a \o b)[i] = s[i]
  <2>1. CASE i <= n
    BY <2>1, <1>1, <1>2
  <2>2. CASE i > n
    <3>1. (a \o b)[i] = b[i - n] /\ i - n \in 1..Len(s) - n /\ n + (i - n) = i
      BY <2>2, <1>1, <1>2
    <3> QED
      BY <3>1, <1>2
  <2>3. i <= n \/ i > n
    BY <1>0
  <2> QED
    BY ONLY <2>1, <2>2, <2>3, Zenon
<1> DEFINE d == a \o b
<1>5. d \in Seq(S) /\ Len(d) = Len(s) /\ \A i \in 1..Len(d) : d[i] = s[i]
  BY <1>3, <1>4
<1> HIDE DEF d
<1>6. d = s
  BY <1>5, SameBytes
<1> QED
  BY <1>1, <1>2, <1>6, Zenon DEF a, b, d, Joined

\* What write() or read() takes of the bytes, and what it leaves.
LEMMA UpToSplits ==
  ASSUME NEW S, NEW s \in Seq(S), NEW n \in Nat
  PROVE  /\ AtMost(Len(s), n) \in 0..Len(s) /\ AtMost(Len(s), n) <= n
         /\ UpTo(s, n) \in Seq(S) /\ Len(UpTo(s, n)) = AtMost(Len(s), n)
         /\ Without(s, AtMost(Len(s), n)) \in Seq(S)
         /\ Len(Without(s, AtMost(Len(s), n))) = Len(s) - AtMost(Len(s), n)
         /\ Joined(UpTo(s, n), Without(s, AtMost(Len(s), n))) = s
<1>1. AtMost(Len(s), n) \in 0..Len(s) /\ AtMost(Len(s), n) <= n
  BY DEF AtMost
<1> QED
  BY <1>1, Split DEF UpTo, Without

\* Induction, with the set of the numbers for which a fact holds.
LEMMA NatSet ==
  ASSUME NEW S, 0 \in S, \A m \in Nat : m \in S => m + 1 \in S
  PROVE  \A m \in Nat : m \in S
<1> SUFFICES ASSUME NEW n \in Nat \ S PROVE FALSE
  OBVIOUS
<1> DEFINE T == Nat \ S
<1>1. PICK m \in T : \A y \in T : ~(<<y, m>> \in OpToRel(<, Nat))
  BY WFMin, NatLessThanWellFounded, T # {}, Zenon
<1>2. m \in Nat /\ m # 0
  BY <1>1, Zenon
<1>3. m - 1 \in Nat /\ m = (m - 1) + 1 /\ m - 1 < m
  BY <1>2
<1>4. <<m - 1, m>> \in OpToRel(<, Nat)
  BY <1>2, <1>3 DEF OpToRel
<1>5. m - 1 \in S
  BY <1>1, <1>3, <1>4, Zenon
<1> QED
  BY <1>1, <1>3, <1>5, Zenon

-----------------------------------------------------------------------------
(* What an operator from the connection to the connection keeps.           *)

Fields == {"in", "out", "event", "watched", "status", "schedule_close", "flush_scheduled", "flush_task",
           "rcv", "snd", "fin", "reset", "nospace", "armed", "parsed", "garbage", "sent", "bad", "ended",
           "notified", "handed", "late", "answered", "written"}

IsConnection(k) == k = [f \in Fields |-> k[f]]

\* What only the reading of requests changes
Requested(k) == <<k.in, k.rcv, k.parsed, k.handed, k.sent, k.fin, k.reset, k.bad, k.late>>

\* What only a close or a response changes
Life(k) == <<k.watched, k.status, k.schedule_close, k.ended, k.notified>>

\* What only the writing changes
Stream(k) == <<k.snd, k.out, k.written>>

\* The bytes for the peer are on their way in order: StreamInOrder and its types
InOrder(k) ==
  /\ k.snd \in Seq(Nat) /\ k.written \in Seq(Nat) /\ Len(k.snd) <= SndBuf /\ IsIOBuffer(k.out, Nat)
  /\ ~k.reset => Joined(Joined(delivered, k.snd), Content(k.out)) = k.written

Good(k) == IsConnection(k) /\ InOrder(k) /\ "READ" \in k.event /\ k.notified \in Nat

LEMMA SameInOrder ==
  ASSUME NEW k, NEW m, InOrder(k), Requested(m) = Requested(k), Stream(m) = Stream(k)
  PROVE  InOrder(m)
<1>1. m.snd = k.snd /\ m.out = k.out /\ m.written = k.written /\ m.reset = k.reset
  BY DEF Requested, Stream
<1> QED
  BY <1>1 DEF InOrder

LEMMA EpollCtlKeeps ==
  ASSUME NEW k, IsConnection(k)
  PROVE  /\ IsConnection(EpollCtl(k)) /\ EpollCtl(k).event = k.event
         /\ Requested(EpollCtl(k)) = Requested(k) /\ Life(EpollCtl(k)) = Life(k) /\ Stream(EpollCtl(k)) = Stream(k)
<1> DEFINE r == EpollCtl(k)
<1>1. IsConnection(r) /\ \A f \in Fields \ {"armed", "nospace"} : r[f] = k[f]
  BY Zenon DEF EpollCtl, IsConnection, Fields
<1> HIDE DEF r
<1>2. r.event = k.event /\ Requested(r) = Requested(k) /\ Life(r) = Life(k) /\ Stream(r) = Stream(k)
  BY <1>1 DEF Requested, Life, Stream, Fields
<1> QED
  BY <1>1, <1>2 DEF r

LEMMA SetEventKeeps ==
  ASSUME NEW k, IsConnection(k), NEW event
  PROVE  /\ IsConnection(SetEvent(k, event)) /\ SetEvent(k, event).event = event
         /\ Requested(SetEvent(k, event)) = Requested(k) /\ Life(SetEvent(k, event)) = Life(k)
         /\ Stream(SetEvent(k, event)) = Stream(k)
<1> DEFINE r == [k EXCEPT !.event = event]
<1>1. IsConnection(r) /\ r.event = event /\ \A f \in Fields \ {"event"} : r[f] = k[f]
  BY DEF IsConnection, Fields
<1> HIDE DEF r
<1>2. Requested(r) = Requested(k) /\ Life(r) = Life(k) /\ Stream(r) = Stream(k)
  BY <1>1 DEF Requested, Life, Stream, Fields
<1>3. SetEvent(k, event) \in {r, EpollCtl(r)}
  BY DEF SetEvent, r
<1> QED
  BY <1>1, <1>2, <1>3, EpollCtlKeeps

LEMMA WritingKeeps ==
  ASSUME NEW k, IsConnection(k), "READ" \in k.event, NEW r \in {EnableWriting(k), DisableWriting(k), WritingAsNeeded(k)}
  PROVE  /\ IsConnection(r) /\ "READ" \in r.event
         /\ Requested(r) = Requested(k) /\ Life(r) = Life(k) /\ Stream(r) = Stream(k)
<1>1. r \in {SetEvent(k, k.event \cup {"WRITE"}), SetEvent(k, k.event \ {"WRITE"})}
  BY DEF WritingAsNeeded, EnableWriting, DisableWriting
<1>2. "READ" \in k.event \cup {"WRITE"} /\ "READ" \in k.event \ {"WRITE"}
  OBVIOUS
<1> QED
  BY <1>1, <1>2, SetEventKeeps

-----------------------------------------------------------------------------
(* Writing.                                                                *)

\* What write() takes of s goes to the socket, and the rest stays in the buffer or goes there.
LEMMA WriteKeeps ==
  ASSUME NEW k, Good(k), delivered \in Seq(Nat), ~k.reset, NEW s \in Seq(Nat), NEW m,
         IsConnection(m), \A f \in Fields \ {"snd", "nospace", "out", "written"} : m[f] = k[f],
         m.snd = Joined(k.snd, UpTo(s, SndBuf - Len(k.snd))),
         IsIOBuffer(m.out, Nat), Content(m.out) = Without(s, AtMost(Len(s), SndBuf - Len(k.snd))),
         m.written \in Seq(Nat), Joined(Joined(delivered, k.snd), s) = m.written
  PROVE  Good(m) /\ Requested(m) = Requested(k) /\ Life(m) = Life(k)
<1> DEFINE n == SndBuf - Len(k.snd)
<1>1. n \in Nat /\ k.snd \in Seq(Nat) /\ Len(k.snd) + n = SndBuf
  BY ConnectionAssumption DEF Good, InOrder
<1>2. /\ UpTo(s, n) \in Seq(Nat) /\ Len(UpTo(s, n)) <= n
      /\ Without(s, AtMost(Len(s), n)) \in Seq(Nat) /\ Joined(UpTo(s, n), Without(s, AtMost(Len(s), n))) = s
  BY <1>1, UpToSplits, ZenonT(60)
<1>3. m.snd = Joined(k.snd, UpTo(s, n)) /\ Content(m.out) = Without(s, AtMost(Len(s), n))
  OBVIOUS
<1>4. Requested(m) = Requested(k) /\ Life(m) = Life(k) /\ m.event = k.event /\ m.notified = k.notified /\ m.reset = k.reset
  BY DEF Requested, Life, Fields
<1> HIDE DEF n
<1>5. m.snd \in Seq(Nat) /\ Len(m.snd) <= SndBuf
  <2>1. Joined(k.snd, UpTo(s, n)) \in Seq(Nat) /\ Len(Joined(k.snd, UpTo(s, n))) = Len(k.snd) + Len(UpTo(s, n))
    BY <1>1, <1>2, JoinedType, Zenon
  <2>2. Len(k.snd) \in Nat /\ Len(UpTo(s, n)) \in Nat
    BY <1>1, <1>2
  <2> QED
    BY <2>1, <2>2, <1>1, <1>2, <1>3
<1>6. Joined(Joined(delivered, m.snd), Content(m.out)) = Joined(Joined(delivered, k.snd), s)
  BY <1>1, <1>2, <1>3, JoinedRegroups
<1>7. InOrder(m)
  BY <1>5, <1>6 DEF InOrder
<1> QED
  BY <1>4, <1>7 DEF Good

LEMMA HandleWriteKeeps ==
  ASSUME NEW k, Good(k), delivered \in Seq(Nat)
  PROVE  /\ Good(HandleWrite(k).c) /\ Requested(HandleWrite(k).c) = Requested(k) /\ Life(HandleWrite(k).c) = Life(k)
         /\ HandleWrite(k).ok \/ k.reset
<1> DEFINE bytes == Content(k.out)
           n == AtMost(Len(bytes), SndBuf - Len(k.snd))
           m == [Write(k, bytes) EXCEPT !.out = Consume(k.out, n)]
<1>1. CASE bytes = << >> \/ k.reset
  BY <1>1 DEF HandleWrite
<1>2. CASE ~k.reset /\ bytes # << >>
  <2>a. IsIOBuffer(k.out, Nat) /\ k.snd \in Seq(Nat) /\ k.written \in Seq(Nat) /\ Len(k.snd) <= SndBuf
    BY DEF Good, InOrder
  <2>b. SndBuf - Len(k.snd) \in Nat
    BY <2>a, ConnectionAssumption
  <2>c. Joined(Joined(delivered, k.snd), bytes) = k.written
    BY <1>2, Zenon DEF Good, InOrder
  <2>0. /\ IsIOBuffer(k.out, Nat) /\ k.snd \in Seq(Nat) /\ k.written \in Seq(Nat)
        /\ SndBuf - Len(k.snd) \in Nat /\ Joined(Joined(delivered, k.snd), bytes) = k.written
    BY <2>a, <2>b, <2>c, Zenon
  <2>1. bytes \in Seq(Nat) /\ Len(bytes) = CanReadSize(k.out)
    BY <2>0, ContentType
  <2>2. n \in 0..Len(bytes)
    BY <2>0, <2>1, UpToSplits, Zenon
  <2>3. IsIOBuffer(Consume(k.out, n), Nat) /\ Content(Consume(k.out, n)) = Without(bytes, n)
    <3> HIDE DEF n, bytes
    <3>1. n \in Nat /\ n <= CanReadSize(k.out)
      BY <2>1, <2>2
    <3>2. IsIOBuffer(Consume(k.out, n), Nat) /\ Content(Consume(k.out, n)) = SubSeq(Content(k.out), n + 1, CanReadSize(k.out))
      BY <2>0, <3>1, ConsumeDrops
    <3> QED
      BY <2>1, <3>2 DEF Without, bytes
  <2>4. /\ IsConnection(m) /\ \A f \in Fields \ {"snd", "nospace", "out", "written"} : m[f] = k[f]
        /\ m.snd = Joined(k.snd, UpTo(bytes, SndBuf - Len(k.snd))) /\ m.out = Consume(k.out, n) /\ m.written = k.written
    BY ZenonT(60) DEF Write, Good, IsConnection, Fields, Joined
  <2> HIDE DEF m, n, bytes
  <2>5. Good(m) /\ Requested(m) = Requested(k) /\ Life(m) = Life(k)
    BY <1>2, <2>0, <2>1, <2>3, <2>4, WriteKeeps DEF n
  <2>6. m = [Write(k, bytes) EXCEPT !.out = Consume(@, n)]
    BY DEF Write, Good, IsConnection, Fields, m
  <2>7. HandleWrite(k) = [c |-> WritingAsNeeded(m), ok |-> TRUE, n |-> n]
    BY <1>2, <2>6 DEF HandleWrite, n, bytes
  <2>8. LET r == WritingAsNeeded(m)
        IN  Good(r) /\ Requested(r) = Requested(m) /\ Life(r) = Life(m)
    <3> DEFINE r == WritingAsNeeded(m)
    <3>1. /\ IsConnection(r) /\ "READ" \in r.event
          /\ Requested(r) = Requested(m) /\ Life(r) = Life(m) /\ Stream(r) = Stream(m)
      BY <2>5, WritingKeeps DEF Good
    <3> HIDE DEF r
    <3>2. InOrder(r)
      BY <3>1, <2>5, SameInOrder DEF Good
    <3>3. r.notified \in Nat
      BY <3>1, <2>5 DEF Life, Good
    <3> QED
      BY <3>1, <3>2, <3>3 DEF Good, r
  <2> QED
    BY <2>5, <2>7, <2>8
<1> QED
  BY <1>1, <1>2

\* Bytes that follow those of the buffer are the last of the stream.
LEMMA AppendKeeps ==
  ASSUME NEW k, Good(k), delivered \in Seq(Nat), NEW s \in Seq(Nat), NEW m, IsConnection(m),
         m.event = k.event, m.notified = k.notified, m.reset = k.reset, m.snd = k.snd,
         m.out = WriteRawData(k.out, s), m.written = Joined(k.written, s)
  PROVE  Good(m)
<1>1. k.snd \in Seq(Nat) /\ k.written \in Seq(Nat) /\ Len(k.snd) <= SndBuf /\ IsIOBuffer(k.out, Nat)
  BY DEF Good, InOrder
<1>2. Content(k.out) \in Seq(Nat)
  BY <1>1, ContentType
<1>3. IsIOBuffer(m.out, Nat) /\ Content(m.out) = Joined(Content(k.out), s)
  BY <1>1, WriteAppends, Zenon DEF Joined
<1>4. m.written \in Seq(Nat) /\ Joined(delivered, k.snd) \in Seq(Nat)
  BY <1>1, JoinedType, Zenon
<1>5. Joined(Joined(delivered, k.snd), Joined(Content(k.out), s)) = Joined(Joined(Joined(delivered, k.snd), Content(k.out)), s)
  BY <1>2, <1>4, JoinedAssociates
<1>6. ~m.reset => Joined(Joined(delivered, m.snd), Content(m.out)) = m.written
  BY <1>3, <1>5 DEF Good, InOrder
<1> QED
  BY <1>1, <1>3, <1>4, <1>6 DEF Good, InOrder

LEMMA SendKeeps ==
  ASSUME NEW k, Good(k), delivered \in Seq(Nat), NEW s \in Seq(Nat), NEW errno
  PROVE  LET r == Send(k, s, errno).c IN Good(r) /\ Requested(r) = Requested(k) /\ Life(r) = Life(k)
<1> DEFINE r == Send(k, s, errno).c
           n == SndBuf - Len(k.snd)
<1> SUFFICES Good(r) /\ Requested(r) = Requested(k) /\ Life(r) = Life(k)
  OBVIOUS
<1>1. /\ IsConnection(k) /\ k.snd \in Seq(Nat) /\ k.written \in Seq(Nat) /\ Len(k.snd) <= SndBuf
      /\ IsIOBuffer(k.out, Nat) /\ n \in Nat /\ "READ" \in k.event
  BY ConnectionAssumption DEF Good, InOrder
<1>2. CASE CanReadSize(k.out) > 0
  <2> DEFINE m == [k EXCEPT !.out = WriteRawData(@, s), !.written = @ \o s]
  <2>1. /\ IsConnection(m) /\ m.out = WriteRawData(k.out, s) /\ m.written = Joined(k.written, s)
        /\ \A f \in Fields \ {"out", "written"} : m[f] = k[f]
    BY <1>1, Zenon DEF IsConnection, Fields, Joined
  <2>2. r = HandleWrite(m).c
    BY <1>2 DEF Send
  <2> HIDE DEF m, r
  <2>3. /\ m.event = k.event /\ m.notified = k.notified /\ m.reset = k.reset /\ m.snd = k.snd
        /\ Requested(m) = Requested(k) /\ Life(m) = Life(k)
    BY <2>1 DEF Fields, Requested, Life
  <2>4. Good(m)
    BY <2>1, <2>3, AppendKeeps
  <2> QED
    BY <2>2, <2>3, <2>4, HandleWriteKeeps
<1>3. CASE ~(CanReadSize(k.out) > 0) /\ (k.reset \/ s = << >>)
  <2>1. r \in {k, EnableWriting(k)}
    BY <1>3 DEF Send
  <2> HIDE DEF r
  <2>2. /\ IsConnection(r) /\ "READ" \in r.event
        /\ Requested(r) = Requested(k) /\ Life(r) = Life(k) /\ Stream(r) = Stream(k)
    BY <1>1, <2>1, WritingKeeps
  <2>3. InOrder(r)
    BY <2>2, SameInOrder DEF Good
  <2>4. r.notified \in Nat
    BY <2>2 DEF Good, Life
  <2> QED
    BY <2>2, <2>3, <2>4 DEF Good
<1>4. CASE ~(CanReadSize(k.out) > 0) /\ ~k.reset /\ s # << >>
  <2> DEFINE k1 == [Write(k, s) EXCEPT !.written = @ \o s]
             w == Joined(k.written, s)
  <2>1. /\ IsConnection(k1) /\ \A f \in Fields \ {"snd", "nospace", "written"} : k1[f] = k[f]
        /\ k1.snd = Joined(k.snd, UpTo(s, n)) /\ k1.written = w
    BY <1>1, ZenonT(60) DEF IsConnection, Write, Fields, Joined
  <2>2. w \in Seq(Nat) /\ Joined(Joined(delivered, k.snd), s) = w
    <3>1. CanReadSize(k.out) = 0 /\ Content(k.out) = << >>
      BY <1>1, <1>4, ContentType
    <3>2. Joined(delivered, k.snd) \in Seq(Nat)
      BY <1>1, JoinedType, Zenon
    <3>3. Joined(delivered, k.snd) = k.written
      BY <1>4, <3>1, <3>2, JoinedEmpty DEF Good, InOrder
    <3> QED
      BY <1>1, <3>3, JoinedType, Zenon
  <2>3. CASE Len(s) <= n
    <3>1. r = k1
      BY <1>4, <2>3 DEF Send
    <3>2. k1.out = k.out /\ \A f \in Fields \ {"snd", "nospace", "out", "written"} : k1[f] = k[f]
      BY <2>1, Zenon DEF Fields
    <3>3. Content(k1.out) = Without(s, AtMost(Len(s), n))
      <4>1. Content(k.out) = << >>
        BY <1>1, <1>4, ContentType
      <4>2. Without(s, AtMost(Len(s), n)) = << >>
        BY <2>3, <1>1 DEF Without, AtMost
      <4> QED
        BY <4>1, <4>2, <3>2
    <3> HIDE DEF k1, w, r, n
    <3> QED
      BY <1>1, <1>4, <2>1, <2>2, <3>1, <3>2, <3>3, WriteKeeps DEF n
  <2>4. CASE Len(s) > n
    <3> DEFINE rest == WriteRawData(k.out, Without(s, n))
               k2 == EnableWriting(k1)
               m == [k1 EXCEPT !.out = rest]
    <3>1. k1.out = k.out /\ "READ" \in k1.event
      BY <1>1, <2>1, Zenon DEF Fields
    <3>2. r = [k2 EXCEPT !.out = WriteRawData(@, Without(s, n))]
      BY <1>1, <1>4, <2>4 DEF Send
    <3>3. /\ IsConnection(m) /\ m.snd = k1.snd /\ m.written = w /\ m.out = rest
          /\ \A f \in Fields \ {"snd", "nospace", "out", "written"} : m[f] = k[f]
          /\ Requested(m) = Requested(k1) /\ Life(m) = Life(k1)
      <4> HIDE DEF k1, w, rest
      <4>1. /\ IsConnection(m) /\ m.snd = k1.snd /\ m.written = w /\ m.out = rest
            /\ \A f \in Fields \ {"out"} : m[f] = k1[f]
        BY <2>1, Zenon DEF IsConnection, Fields
      <4> HIDE DEF m
      <4> QED
        BY <4>1, <2>1 DEF Fields, Requested, Life
    <3>4. IsIOBuffer(rest, Nat) /\ Content(rest) = Without(s, AtMost(Len(s), n))
      <4>1. n \in 0..Len(s) /\ AtMost(Len(s), n) = n
        BY <1>1, <2>4 DEF AtMost
      <4>2. Without(s, n) \in Seq(Nat)
        BY <1>1, <4>1, UpToSplits, Zenon
      <4>3. Content(k.out) = << >>
        BY <1>1, <1>4, ContentType
      <4>4. IsIOBuffer(rest, Nat) /\ Content(rest) = Joined(Content(k.out), Without(s, n))
        BY <1>1, <4>2, WriteAppends, Zenon DEF Joined
      <4> QED
        BY <4>1, <4>2, <4>3, <4>4, JoinedEmpty
    <3> HIDE DEF k1, k2, w, m, rest, r
    <3>5. Good(m) /\ Requested(m) = Requested(k) /\ Life(m) = Life(k)
      BY <1>4, <2>1, <2>2, <3>3, <3>4, WriteKeeps, Zenon DEF n
    <3>6. /\ IsConnection(k2) /\ "READ" \in k2.event
          /\ Requested(k2) = Requested(k1) /\ Life(k2) = Life(k1) /\ Stream(k2) = Stream(k1)
      BY <2>1, <3>1, WritingKeeps DEF k2
    <3>7. k2.out = k.out
      BY <3>1, <3>6 DEF Stream
    <3>8. IsConnection(r) /\ r.out = rest /\ \A f \in Fields \ {"out"} : r[f] = k2[f]
      BY <3>2, <3>6, <3>7, Zenon DEF IsConnection, Fields, rest
    <3>9. /\ Requested(r) = Requested(k2) /\ Life(r) = Life(k2) /\ r.event = k2.event
          /\ r.snd = k2.snd /\ r.written = k2.written
      BY <3>8 DEF Requested, Life, Fields
    <3>10. Stream(r) = Stream(m)
      BY <2>1, <3>3, <3>6, <3>8, <3>9 DEF Stream
    <3>11. InOrder(r)
      BY <3>3, <3>5, <3>6, <3>9, <3>10, SameInOrder, Zenon DEF Good
    <3>12. r.notified \in Nat
      BY <3>3, <3>5, <3>6, <3>9, Zenon DEF Good, Life
    <3> QED
      BY <3>3, <3>5, <3>6, <3>8, <3>9, <3>11, <3>12, Zenon DEF Good
  <2> QED
    BY <1>1, <2>3, <2>4
<1> QED
  BY <1>2, <1>3, <1>4

-----------------------------------------------------------------------------
(* Responses and closes.                                                   *)

\* What a response does to the life of the connection: it closes only as the handler's own
\* close, and what has ended stays so.
Ends(k, m) ==
  /\ (k.ended => m.ended) /\ (k.schedule_close => m.schedule_close)
  /\ (m.watched => k.watched) /\ (co => m.watched = k.watched)
  /\ (k.status = "CLOSED" => m.status = "CLOSED")
  /\ \/ m.status = k.status /\ m.notified = k.notified
     \/ m.status = "CLOSED" /\ m.ended

LEMMA SameLifeEnds ==
  ASSUME NEW k, NEW m, Life(m) = Life(k)
  PROVE  Ends(k, m)
<1>1. m.watched = k.watched /\ m.status = k.status /\ m.schedule_close = k.schedule_close /\ m.ended = k.ended /\ m.notified = k.notified
  BY DEF Life
<1> QED
  BY <1>1 DEF Ends

LEMMA EndsTransitive ==
  ASSUME NEW k, NEW m, NEW p, Ends(k, m), Ends(m, p)
  PROVE  Ends(k, p)
  BY DEF Ends

LEMMA SendResponseKeeps ==
  ASSUME NEW k, Good(k), delivered \in Seq(Nat), NEW r \in Nat \ {0}, NEW ch
  PROVE  LET m == SendResponse(k, r, ch).c IN Good(m) /\ Requested(m) = Requested(k) /\ Ends(k, m)
<1> DEFINE k0 == [k EXCEPT !.answered = @ \cup {r}]
           first == IF codec = "line" /\ ch.empty THEN <<>> ELSE <<2 * r - 1>>
           second == IF codec = "raw" /\ ch.empty THEN <<>> ELSE <<2 * r, 2 * r>>
           s == SendResponse(k, r, ch)
           m == s.c
<1> SUFFICES Good(m) /\ Requested(m) = Requested(k) /\ Ends(k, m)
  OBVIOUS
<1>1. IsConnection(k0) /\ \A f \in Fields \ {"answered"} : k0[f] = k[f]
  BY Zenon DEF Good, IsConnection, Fields
<1>2. first \in Seq(Nat) /\ second \in Seq(Nat) /\ Frame(r) \in Seq(Nat)
  <2>1. 2 * r - 1 \in Nat /\ 2 * r \in Nat
    OBVIOUS
  <2> QED
    BY <2>1 DEF Frame
<1>3. CASE codec # "http"
  <2> DEFINE a == Send(k0, first, ch.errno)
  <2>1. s = IF a.ok THEN Send(a.c, second, ch.errno) ELSE a
    BY <1>3 DEF SendResponse, SendNext
  <2> HIDE DEF k0, first, second, s
  <2>2. /\ Requested(k0) = Requested(k) /\ Life(k0) = Life(k) /\ Stream(k0) = Stream(k)
        /\ k0.event = k.event /\ k0.notified = k.notified
    BY <1>1 DEF Requested, Life, Stream, Fields
  <2>3. Good(k0)
    BY <1>1, <2>2, SameInOrder DEF Good
  <2>4. Good(a.c) /\ Requested(a.c) = Requested(k0) /\ Life(a.c) = Life(k0)
    BY <2>3, <1>2, SendKeeps
  <2> HIDE DEF a
  <2>5. Good(m) /\ Requested(m) = Requested(a.c) /\ Life(m) = Life(a.c)
    BY <2>1, <2>4, <1>2, SendKeeps
  <2> QED
    BY <2>2, <2>4, <2>5, SameLifeEnds
<1>4. CASE codec = "http"
  <2>1. /\ IsConnection(m) /\ m.out = WriteRawData(k.out, Frame(r)) /\ m.written = Joined(k.written, Frame(r))
        /\ \A f \in Fields \ {"answered", "out", "written", "schedule_close", "flush_scheduled", "flush_task"} : m[f] = k[f]
        /\ (k.schedule_close => m.schedule_close)
    <3> DEFINE task == IF k.flush_scheduled THEN k0.flush_task ELSE "now"
               out == WriteRawData(k0.out, Frame(r))
               written == k0.written \o Frame(r)
    <3>1. m = [k0 EXCEPT !.out = out, !.written = written, !.schedule_close = @ \/ ch.close,
                         !.flush_scheduled = TRUE, !.flush_task = task]
      BY <1>4 DEF SendResponse
    <3>2. out = WriteRawData(k.out, Frame(r)) /\ written = Joined(k.written, Frame(r)) /\ k0.schedule_close = k.schedule_close
      BY <1>1 DEF Joined, Fields
    <3> HIDE DEF k0, task, out, written, m
    <3>3. /\ IsConnection(m) /\ m.out = out /\ m.written = written
          /\ \A f \in Fields \ {"out", "written", "schedule_close", "flush_scheduled", "flush_task"} : m[f] = k0[f]
          /\ (k0.schedule_close => m.schedule_close)
      BY <1>1, <3>1, ZenonT(60) DEF IsConnection, Fields
    <3> QED
      BY <1>1, <3>2, <3>3 DEF Fields
  <2> HIDE DEF m, s
  <2>2. /\ m.event = k.event /\ m.notified = k.notified /\ m.reset = k.reset /\ m.snd = k.snd
        /\ m.watched = k.watched /\ m.status = k.status /\ m.ended = k.ended
        /\ Requested(m) = Requested(k)
    BY <2>1 DEF Fields, Requested
  <2>3. Good(m)
    BY <1>2, <2>1, <2>2, AppendKeeps
  <2> QED
    BY <2>1, <2>2, <2>3 DEF Ends
<1> QED
  BY <1>3, <1>4

LEMMA CloseServiceKeeps ==
  ASSUME NEW k, Good(k), NEW block
  PROVE  LET m == CloseService(k, block)
         IN  /\ Good(m) /\ Requested(m) = Requested(k) /\ Stream(m) = Stream(k) /\ m.status = "CLOSED" /\ m.event = k.event
             /\ m.ended = k.ended /\ m.schedule_close = k.schedule_close
             /\ IF co THEN m.watched = k.watched ELSE ~m.watched
             /\ IF block THEN m.notified = k.notified ELSE m.notified > 0 /\ (k.notified = 0 => m.notified = 1)
<1> DEFINE k1 == [(IF co THEN k ELSE RemoveFdEvent(k)) EXCEPT !.status = "CLOSED"]
           m == CloseService(k, block)
<1>1. /\ IsConnection(k1) /\ \A f \in Fields \ {"watched", "armed", "status"} : k1[f] = k[f]
      /\ k1.status = "CLOSED" /\ IF co THEN k1.watched = k.watched ELSE ~k1.watched
  BY ZenonT(60) DEF RemoveFdEvent, Good, IsConnection, Fields
<1>2. k1.notified = k.notified /\ k1.notified \in Nat
  BY <1>1, Zenon DEF Good, Fields
<1> HIDE DEF k1
<1>3. /\ IsConnection(m) /\ \A f \in Fields \ {"notified"} : m[f] = k1[f]
      /\ m.notified = IF block THEN k1.notified ELSE IF k1.notified < 3 THEN k1.notified + 1 ELSE 3
  <2>1. m = IF block THEN k1 ELSE NotifyCodecClosed(k1)
    BY DEF CloseService, k1
  <2> HIDE DEF m
  <2> QED
    BY <1>1, <2>1 DEF NotifyCodecClosed, IsConnection, Fields
<1> HIDE DEF m
<1>4. /\ Requested(m) = Requested(k) /\ Stream(m) = Stream(k)
      /\ m.event = k.event /\ m.ended = k.ended /\ m.schedule_close = k.schedule_close
      /\ m.watched = k1.watched /\ m.status = k1.status
  BY <1>1, <1>3 DEF Requested, Stream, Fields
<1>5. InOrder(m)
  BY <1>4, SameInOrder DEF Good
<1>6. /\ m.notified \in Nat
      /\ IF block THEN m.notified = k.notified ELSE m.notified > 0 /\ (k.notified = 0 => m.notified = 1)
  BY <1>2, <1>3
<1>7. Good(m)
  BY <1>3, <1>4, <1>5, <1>6 DEF Good
<1> QED
  BY <1>1, <1>4, <1>6, <1>7 DEF m

LEMMA ResponseKeeps ==
  ASSUME NEW k, Good(k), delivered \in Seq(Nat), NEW r \in Nat \ {0}, NEW ch
  PROVE  LET m == Response(k, r, ch) IN Good(m) /\ Requested(m) = Requested(k) /\ Ends(k, m)
<1> DEFINE s == SendResponse(k, r, ch)
           k1 == [s.c EXCEPT !.ended = TRUE]
           m == Response(k, r, ch)
<1>1. Good(s.c) /\ Requested(s.c) = Requested(k) /\ Ends(k, s.c)
  BY SendResponseKeeps
<1>2. m = IF ~co /\ (~s.ok \/ (codec = "http" /\ ch.close)) THEN CloseService(k1, FALSE) ELSE s.c
  BY DEF Response, AfterResponse
<1> HIDE DEF s, m
<1>3. CASE ~co /\ (~s.ok \/ (codec = "http" /\ ch.close))
  <2>1. IsConnection(k1) /\ k1.ended = TRUE /\ \A f \in Fields \ {"ended"} : k1[f] = s.c[f]
    BY <1>1, Zenon DEF Good, IsConnection, Fields
  <2> HIDE DEF k1
  <2>2. /\ Requested(k1) = Requested(s.c) /\ Stream(k1) = Stream(s.c) /\ k1.event = s.c.event
        /\ k1.notified = s.c.notified /\ k1.schedule_close = s.c.schedule_close
    BY <2>1 DEF Requested, Stream, Fields
  <2>3. Good(k1)
    BY <1>1, <2>1, <2>2, SameInOrder DEF Good
  <2>4. /\ Good(m) /\ Requested(m) = Requested(k1) /\ m.status = "CLOSED"
        /\ m.ended = k1.ended /\ m.schedule_close = k1.schedule_close /\ (~co => ~m.watched)
    BY <1>2, <1>3, <2>3, CloseServiceKeeps, Zenon
  <2>5. Ends(k, m)
    BY <1>1, <1>3, <2>1, <2>2, <2>4 DEF Ends
  <2> QED
    BY <1>1, <2>2, <2>4, <2>5 DEF m
<1>4. CASE ~(~co /\ (~s.ok \/ (codec = "http" /\ ch.close)))
  BY <1>1, <1>2, <1>4, Zenon DEF m
<1> QED
  BY <1>3, <1>4

\* A close that was scheduled: nothing is left to send.
Finished(m) == m.status = "CLOSED" /\ m.notified > 0 /\ m.schedule_close /\ CanReadSize(m.out) = 0

LEMMA AfterWriteKeeps ==
  ASSUME NEW w, Good(w.c)
  PROVE  LET m == AfterWrite(w)
         IN  /\ Good(m) /\ Requested(m) = Requested(w.c) /\ m.ended = w.c.ended /\ m.schedule_close = w.c.schedule_close
             /\ (m.watched => w.c.watched) /\ (co => m.watched = w.c.watched)
             /\ (w.c.status = "CLOSED" => m.status = "CLOSED")
             /\ (m.status = w.c.status /\ m.notified = w.c.notified) \/ Finished(m)
<1> DEFINE k == w.c
           m == AfterWrite(w)
<1>1. CASE w.n > 0 /\ CanReadSize(k.out) = 0 /\ k.schedule_close
  <2>1. m = CloseService(k, FALSE)
    BY <1>1, Zenon DEF AfterWrite, OnDataFinishSend
  <2> HIDE DEF m, k
  <2>2. Good(k)
    BY DEF k
  <2>3. /\ Good(m) /\ Requested(m) = Requested(k) /\ Stream(m) = Stream(k) /\ m.status = "CLOSED"
        /\ m.ended = k.ended /\ m.schedule_close = k.schedule_close
        /\ (IF co THEN m.watched = k.watched ELSE ~m.watched) /\ m.notified > 0
    BY <2>1, <2>2, CloseServiceKeeps, Zenon
  <2>4. m.out = k.out
    BY <2>3 DEF Stream
  <2> QED
    BY <1>1, <2>3, <2>4 DEF Finished, m, k
<1>2. CASE ~(w.n > 0 /\ CanReadSize(k.out) = 0 /\ k.schedule_close)
  <2>1. m = k
    BY <1>2, Zenon DEF AfterWrite, OnDataFinishSend
  <2> QED
    BY <2>1
<1> QED
  BY <1>1, <1>2

LEMMA OnCodecMessageKeeps ==
  ASSUME NEW k, Good(k), delivered \in Seq(Nat), NEW r \in Nat \ {0}, NEW ch
  PROVE  LET m == OnCodecMessage(k, r, ch)
         IN  /\ Good(m) /\ Ends(k, m) /\ m.handed = Append(k.handed, r)
             /\ m.in = k.in /\ m.rcv = k.rcv /\ m.parsed = k.parsed /\ m.sent = k.sent
             /\ m.fin = k.fin /\ m.reset = k.reset /\ m.bad = k.bad
             /\ (k.late \/ k.notified > 0 => m.late)
<1> DEFINE k1 == [k EXCEPT !.handed = Append(@, r), !.late = @ \/ k.notified > 0]
           m == OnCodecMessage(k, r, ch)
<1>1. /\ IsConnection(k1) /\ k1.handed = Append(k.handed, r) /\ (k.late \/ k.notified > 0 => k1.late)
      /\ \A f \in Fields \ {"handed", "late"} : k1[f] = k[f]
  BY Zenon DEF Good, IsConnection, Fields
<1>2. m \in {k1, Response(k1, r, ch)}
  BY DEF OnCodecMessage
<1> HIDE DEF k1, m
<1>3. /\ Stream(k1) = Stream(k) /\ Life(k1) = Life(k) /\ k1.event = k.event /\ k1.notified = k.notified /\ k1.reset = k.reset
      /\ k1.in = k.in /\ k1.rcv = k.rcv /\ k1.parsed = k.parsed /\ k1.sent = k.sent /\ k1.fin = k.fin /\ k1.bad = k.bad
  BY <1>1 DEF Stream, Life, Fields
<1>4. InOrder(k1)
  BY <1>3 DEF InOrder, Stream, Good
<1>5. Good(k1) /\ Ends(k, k1)
  BY <1>1, <1>3, <1>4, SameLifeEnds DEF Good
<1>6. Good(m) /\ Requested(m) = Requested(k1) /\ Ends(k1, m)
  BY <1>2, <1>5, ResponseKeeps, SameLifeEnds
<1>7. Ends(k, m)
  BY <1>5, <1>6, EndsTransitive
<1>8. /\ m.in = k1.in /\ m.rcv = k1.rcv /\ m.parsed = k1.parsed /\ m.sent = k1.sent /\ m.handed = k1.handed
      /\ m.fin = k1.fin /\ m.reset = k1.reset /\ m.bad = k1.bad /\ m.late = k1.late
  BY <1>6 DEF Requested
<1> QED
  BY <1>1, <1>3, <1>6, <1>7, <1>8 DEF m

-----------------------------------------------------------------------------
(* The order of the requests.                                              *)

\* The bytes, or requests, after number m
From(s, m) == \A i \in 1..Len(s) : s[i] = m + i

LEMMA FromJoined ==
  ASSUME NEW a \in Seq(Nat), NEW b \in Seq(Nat), NEW m \in Nat
  PROVE  /\ From(a, m) /\ From(b, m + Len(a)) => From(Joined(a, b), m)
         /\ From(Joined(a, b), m) => From(a, m) /\ From(b, m + Len(a))
<1>0. Len(a) \in Nat /\ Len(b) \in Nat
  OBVIOUS
<1>1. \A i \in 1..Len(a) : Joined(a, b)[i] = a[i]
  BY DEF Joined
<1>2. \A i \in 1..Len(b) : Joined(a, b)[Len(a) + i] = b[i]
  BY DEF Joined
<1>3. Len(Joined(a, b)) = Len(a) + Len(b)
  BY JoinedType
<1>4. ASSUME From(a, m), From(b, m + Len(a)), NEW i \in 1..Len(Joined(a, b)) PROVE Joined(a, b)[i] = m + i
  <2>1. CASE i <= Len(a)
    BY <2>1, <1>0, <1>1, <1>4 DEF From
  <2>2. CASE i > Len(a)
    <3>1. i - Len(a) \in 1..Len(b) /\ Len(a) + (i - Len(a)) = i
      BY <2>2, <1>0, <1>3
    <3>2. Joined(a, b)[i] = b[i - Len(a)]
      BY <3>1, <1>2
    <3>3. b[i - Len(a)] = m + Len(a) + (i - Len(a))
      BY <3>1, <1>4 DEF From
    <3> QED
      BY <1>0, <3>2, <3>3
  <2> QED
    BY <2>1, <2>2, <1>0, <1>3
<1>5. ASSUME From(Joined(a, b), m) PROVE From(a, m)
  BY <1>0, <1>1, <1>3, <1>5 DEF From
<1>6. ASSUME From(Joined(a, b), m), NEW i \in 1..Len(b) PROVE b[i] = m + Len(a) + i
  <2>1. Len(a) + i \in 1..Len(Joined(a, b))
    BY <1>0, <1>3
  <2>2. Joined(a, b)[Len(a) + i] = m + (Len(a) + i)
    BY <2>1, <1>6 DEF From
  <2> QED
    BY <2>2, <1>0, <1>2
<1>7. From(a, m) /\ From(b, m + Len(a)) => From(Joined(a, b), m)
  BY <1>4 DEF From
<1>8. From(Joined(a, b), m) => From(b, m + Len(a))
  BY <1>6 DEF From
<1> QED
  BY <1>5, <1>7, <1>8

LEMMA FromEmpty ==
  ASSUME NEW m
  PROVE  From(<< >>, m)
  BY DEF From

\* Bytes of the stream before those of the buffer for incoming data
Taken(k) == 2 * Len(k.handed) + Len(k.parsed)

\* RequestsInOrder, where the bytes of the next requests are, and types
Heard(k) ==
  /\ k.handed \in Seq(Nat) /\ k.parsed \in Seq(Nat) /\ k.rcv \in Seq(Nat) /\ k.sent \in Nat /\ IsIOBuffer(k.in, Nat)
  /\ From(k.handed, 0) /\ From(k.parsed, 2 * Len(k.handed))
  /\ codec # "http" => k.parsed = << >>
  /\ ~k.bad => /\ From(Content(k.in), Taken(k)) /\ From(k.rcv, Taken(k) + CanReadSize(k.in))
               /\ ~k.reset => Taken(k) + CanReadSize(k.in) + Len(k.rcv) = k.sent

LEMMA SameHeard ==
  ASSUME NEW k, NEW m, Heard(k), Requested(m) = Requested(k)
  PROVE  Heard(m)
<1>1. /\ m.in = k.in /\ m.rcv = k.rcv /\ m.parsed = k.parsed /\ m.sent = k.sent /\ m.handed = k.handed
      /\ m.reset = k.reset /\ m.bad = k.bad
  BY DEF Requested
<1> QED
  BY <1>1, Zenon DEF Heard, Taken

LEMMA TakenType ==
  ASSUME NEW k, Heard(k)
  PROVE  Taken(k) \in Nat
<1>1. k.handed \in Seq(Nat) /\ k.parsed \in Seq(Nat)
  BY DEF Heard
<1>2. Len(k.handed) \in Nat /\ Len(k.parsed) \in Nat
  BY <1>1
<1>3. \A h, n \in Nat : 2 * h + n \in Nat
  OBVIOUS
<1> QED
  BY <1>2, <1>3, Zenon DEF Taken

\* Only the two ends of the reading differ
Reading(k, m) == IsConnection(m) /\ \A f \in Fields \ {"in", "rcv"} : m[f] = k[f]

LEMMA ReadingKeeps ==
  ASSUME NEW k, NEW m, Good(k), Reading(k, m)
  PROVE  /\ Good(m) /\ Life(m) = Life(k) /\ Stream(m) = Stream(k) /\ m.parsed = k.parsed /\ m.handed = k.handed
         /\ m.sent = k.sent /\ m.fin = k.fin /\ m.reset = k.reset /\ m.bad = k.bad /\ m.late = k.late
<1>1. /\ Life(m) = Life(k) /\ Stream(m) = Stream(k) /\ m.parsed = k.parsed /\ m.handed = k.handed
      /\ m.sent = k.sent /\ m.fin = k.fin /\ m.reset = k.reset /\ m.bad = k.bad /\ m.late = k.late
  BY DEF Reading, Life, Stream, Fields
<1>2. m.event = k.event /\ m.notified = k.notified
  BY DEF Reading, Fields
<1>3. InOrder(m)
  BY <1>1 DEF InOrder, Stream, Good
<1> QED
  BY <1>1, <1>2, <1>3 DEF Good, Reading

\* The bytes that one read() moves are the next of the stream, and there is one at least.
LEMMA ReadSomeKeeps ==
  ASSUME NEW k, Good(k), Heard(k)
  PROVE  LET m == ReadSome(k)
         IN  Good(m) /\ Heard(m) /\ Reading(k, m) /\ (k.rcv # << >> => Len(m.rcv) < Len(k.rcv))
<1> DEFINE m == ReadSome(k)
           room == EnsureWritableSize(k.in, kBlockSize)
           n == CanWriteSize(room)
           some == UpTo(k.rcv, n)
<1>1. k.rcv \in Seq(Nat) /\ IsIOBuffer(k.in, Nat) /\ kBlockSize \in Nat \ {0}
  BY ConnectionAssumption DEF Heard
<1>2. CASE k.rcv = << >>
  BY <1>2 DEF ReadSome, Reading, Good
<1>3. CASE k.rcv # << >>
  <2>1. IsIOBuffer(room, Nat) /\ Content(room) = Content(k.in) /\ n >= kBlockSize
    BY <1>1, EnsureKeeps
  <2>2. n \in Nat \ {0}
    <3>1. n \in Int
      BY <2>1 DEF IsIOBuffer, CanWriteSize
    <3> HIDE DEF n
    <3> QED
      BY <2>1, <1>1, <3>1
  <2>3. /\ some \in Seq(Nat) /\ Len(some) = AtMost(Len(k.rcv), n) /\ AtMost(Len(k.rcv), n) <= n
        /\ Without(k.rcv, Len(some)) \in Seq(Nat) /\ Len(Without(k.rcv, Len(some))) = Len(k.rcv) - Len(some)
        /\ Joined(some, Without(k.rcv, Len(some))) = k.rcv
    <3> HIDE DEF n
    <3> QED
      BY <1>1, <2>2, UpToSplits, Zenon
  <2>4. Len(some) > 0
    <3> HIDE DEF n
    <3> QED
      BY <1>1, <1>3, <2>2, <2>3 DEF AtMost
  <2>5. IsIOBuffer(Put(room, some), Nat) /\ Content(Put(room, some)) = Joined(Content(k.in), some)
    <3> HIDE DEF some
    <3>1. some \in Seq(Nat) /\ Len(some) <= CanWriteSize(room)
      BY <2>3
    <3> QED
      BY <2>1, <3>1, PutAppends, Zenon DEF Joined
  <2>6. /\ IsConnection(m) /\ \A f \in Fields \ {"in", "rcv"} : m[f] = k[f]
        /\ m.in = Put(room, some) /\ m.rcv = Without(k.rcv, Len(some))
    BY <1>3, Zenon DEF ReadSome, Good, IsConnection, Fields
  <2> HIDE DEF m, room, n, some
  <2>7. Reading(k, m) /\ Len(m.rcv) < Len(k.rcv)
    BY <2>3, <2>4, <2>6, <1>1 DEF Reading
  <2>8. Good(m) /\ m.parsed = k.parsed /\ m.handed = k.handed /\ m.sent = k.sent /\ m.reset = k.reset /\ m.bad = k.bad
    BY <2>7, ReadingKeeps
  <2>9. Taken(m) = Taken(k) /\ Taken(k) \in Nat
    BY <2>8, TakenType, Zenon DEF Taken
  <2>10. /\ Content(k.in) \in Seq(Nat) /\ Len(Content(k.in)) = CanReadSize(k.in) /\ CanReadSize(k.in) \in Nat
         /\ CanReadSize(m.in) = CanReadSize(k.in) + Len(some)
    <3>1. Content(k.in) \in Seq(Nat) /\ Len(Content(k.in)) = CanReadSize(k.in) /\ CanReadSize(k.in) \in Nat
      BY <1>1, ContentType
    <3>2. CanReadSize(m.in) = Len(Content(m.in))
      BY <2>5, <2>6, ContentType
    <3>3. Len(Joined(Content(k.in), some)) = Len(Content(k.in)) + Len(some)
      BY <3>1, <2>3, JoinedType, Zenon
    <3> QED
      BY <3>1, <3>2, <3>3, <2>5, <2>6
  <2>11. ASSUME ~k.bad
         PROVE  /\ From(Content(m.in), Taken(m)) /\ From(m.rcv, Taken(m) + CanReadSize(m.in))
                /\ ~m.reset => Taken(m) + CanReadSize(m.in) + Len(m.rcv) = m.sent
    <3>1. /\ From(Content(k.in), Taken(k)) /\ From(k.rcv, Taken(k) + CanReadSize(k.in))
          /\ ~k.reset => Taken(k) + CanReadSize(k.in) + Len(k.rcv) = k.sent
      BY <2>11 DEF Heard
    <3>2. From(some, Taken(k) + CanReadSize(k.in)) /\ From(m.rcv, Taken(k) + CanReadSize(k.in) + Len(some))
      <4>1. From(Joined(some, m.rcv), Taken(k) + CanReadSize(k.in)) /\ Taken(k) + CanReadSize(k.in) \in Nat
        BY <3>1, <2>3, <2>6, <2>9, <2>10
      <4>2. m.rcv \in Seq(Nat)
        BY <2>3, <2>6
      <4> QED
        BY <4>1, <4>2, <2>3, FromJoined
    <3>3. From(Joined(Content(k.in), some), Taken(k))
      BY <3>1, <3>2, <2>3, <2>9, <2>10, FromJoined, Zenon
    <3>4. Taken(k) + CanReadSize(k.in) + Len(some) = Taken(m) + CanReadSize(m.in)
      BY <2>9, <2>10, <2>3
    <3>5. ~m.reset => Taken(m) + CanReadSize(m.in) + Len(m.rcv) = m.sent
      <4>1. Len(m.rcv) = Len(k.rcv) - Len(some) /\ Len(k.rcv) \in Nat /\ Len(some) \in Nat
        BY <1>1, <2>3, <2>6
      <4> QED
        BY <4>1, <3>1, <2>8, <2>9, <2>10
    <3> QED
      BY <3>2, <3>3, <3>4, <3>5, <2>5, <2>6, <2>9
  <2>12. Heard(m)
    BY <2>3, <2>5, <2>6, <2>8, <2>11 DEF Heard
  <2> QED
    BY <2>7, <2>8, <2>12 DEF m
<1> QED
  BY <1>2, <1>3

\* One pass of each of the three loops
Pass(loop, k, ch) ==
  IF loop = "read" THEN ReadSome(k) ELSE IF loop = "decode" THEN DecodeMessage(k, ch) ELSE HttpCommit(k, ch)

ArePasses(f, loop, k, ch, n) == f = [i \in 0..n |-> IF i = 0 THEN k ELSE Pass(loop, f[i - 1], ch)]

LEMMA PassesExist ==
  ASSUME NEW loop, NEW k, NEW ch, NEW n \in Nat
  PROVE  \E f : ArePasses(f, loop, k, ch, n)
<1> DEFINE S == {m \in Nat : \E f : f = [i \in 0..m |-> IF i = 0 THEN k ELSE Pass(loop, f[i - 1], ch)]}
<1>1. 0 \in S
  <2> DEFINE f == [i \in 0..0 |-> k]
  <2>1. f = [i \in 0..0 |-> IF i = 0 THEN k ELSE Pass(loop, f[i - 1], ch)]
    OBVIOUS
  <2> QED
    BY <2>1, Zenon
<1>2. ASSUME NEW m \in Nat, m \in S PROVE m + 1 \in S
  <2>1. PICK f : f = [i \in 0..m |-> IF i = 0 THEN k ELSE Pass(loop, f[i - 1], ch)]
    BY <1>2
  <2> DEFINE g == [i \in 0..m + 1 |-> IF i <= m THEN f[i] ELSE Pass(loop, f[m], ch)]
  <2>2. ASSUME NEW i \in 0..m + 1 PROVE g[i] = IF i = 0 THEN k ELSE Pass(loop, g[i - 1], ch)
    BY <2>1
  <2>3. g = [i \in 0..m + 1 |-> IF i = 0 THEN k ELSE Pass(loop, g[i - 1], ch)]
    BY <2>2
  <2>4. \E h : h = [i \in 0..m + 1 |-> IF i = 0 THEN k ELSE Pass(loop, h[i - 1], ch)]
    BY <2>3, Zenon
  <2>5. m + 1 \in Nat
    OBVIOUS
  <2> QED
    BY <2>4, <2>5
<1> HIDE DEF S
<1>3. n \in S
  BY <1>1, <1>2, NatSet
<1> QED
  BY <1>3 DEF S, ArePasses

\* The recursive functions of the loops satisfy their definitions.
LEMMA ReadsStep ==
  ASSUME NEW k, NEW n \in Nat
  PROVE  Reads(k, n) = [i \in 0..n |-> IF i = 0 THEN k ELSE ReadSome(Reads(k, n)[i - 1])]
<1>1. \E f : ArePasses(f, "read", k, 0, n)
  BY PassesExist
<1>2. \E f : f = [i \in 0..n |-> IF i = 0 THEN k ELSE ReadSome(f[i - 1])]
  BY <1>1 DEF ArePasses, Pass
<1> QED
  BY <1>2, Zenon DEF Reads

LEMMA DecodesStep ==
  ASSUME NEW k, NEW ch, NEW n \in Nat
  PROVE  Decodes(k, ch, n) = [i \in 0..n |-> IF i = 0 THEN k ELSE DecodeMessage(Decodes(k, ch, n)[i - 1], ch)]
<1>1. \E f : ArePasses(f, "decode", k, ch, n)
  BY PassesExist
<1>2. \E f : f = [i \in 0..n |-> IF i = 0 THEN k ELSE DecodeMessage(f[i - 1], ch)]
  BY <1>1 DEF ArePasses, Pass
<1> QED
  BY <1>2, Zenon DEF Decodes

LEMMA HttpCommitsStep ==
  ASSUME NEW k, NEW ch, NEW n \in Nat
  PROVE  HttpCommits(k, ch, n) = [i \in 0..n |-> IF i = 0 THEN k ELSE HttpCommit(HttpCommits(k, ch, n)[i - 1], ch)]
<1>1. \E f : ArePasses(f, "commit", k, ch, n)
  BY PassesExist
<1>2. \E f : f = [i \in 0..n |-> IF i = 0 THEN k ELSE HttpCommit(f[i - 1], ch)]
  BY <1>1 DEF ArePasses, Pass
<1> QED
  BY <1>2, Zenon DEF HttpCommits

\* After i calls of read() at most Len(k.rcv) - i bytes are left.
LEMMA ReadsKeep ==
  ASSUME NEW k, Good(k), Heard(k), NEW n \in Nat
  PROVE  LET m == Reads(k, n)[n]
         IN  Good(m) /\ Heard(m) /\ Reading(k, m) /\ (Len(m.rcv) = 0 \/ Len(m.rcv) + n <= Len(k.rcv))
<1> DEFINE after == Reads(k, n)
           Holds(m, i) == Good(m) /\ Heard(m) /\ Reading(k, m) /\ (Len(m.rcv) = 0 \/ Len(m.rcv) + i <= Len(k.rcv))
           S == {i \in Nat : i <= n => Holds(after[i], i)}
<1>0. Len(k.rcv) \in Nat
  BY DEF Heard
<1>1. after = [i \in 0..n |-> IF i = 0 THEN k ELSE ReadSome(after[i - 1])]
  BY ReadsStep
<1> HIDE DEF after
<1>2. Holds(k, 0)
  BY <1>0 DEF Reading, Good
<1>3. after[0] = k
  BY <1>1
<1>4. 0 \in S
  BY <1>2, <1>3
<1>5. ASSUME NEW i \in Nat, i \in S PROVE i + 1 \in S
  <2>0. i + 1 \in Nat
    OBVIOUS
  <2> SUFFICES ASSUME i + 1 <= n PROVE Holds(after[i + 1], i + 1)
    <3> HIDE DEF Holds
    <3> QED
      BY <2>0
  <2>1. after[i + 1] = ReadSome(after[i])
    BY <1>1
  <2>2. Holds(after[i], i)
    BY <1>5
  <2> DEFINE p == after[i]
             m == after[i + 1]
  <2> HIDE DEF p, m
  <2>3. Good(p) /\ Heard(p) /\ Reading(k, p) /\ (Len(p.rcv) = 0 \/ Len(p.rcv) + i <= Len(k.rcv))
    BY <2>2 DEF p
  <2>4. m = ReadSome(p)
    BY <2>1 DEF p, m
  <2>5. Good(m) /\ Heard(m) /\ Reading(p, m) /\ (p.rcv # << >> => Len(m.rcv) < Len(p.rcv))
    BY <2>3, <2>4, ReadSomeKeeps
  <2>6. Reading(k, m)
    BY <2>3, <2>5 DEF Reading
  <2>7. p.rcv \in Seq(Nat) /\ m.rcv \in Seq(Nat)
    BY <2>3, <2>5 DEF Heard
  <2>8. Len(m.rcv) \in Nat /\ Len(p.rcv) \in Nat
    BY <2>7
  <2>9. Len(m.rcv) = 0 \/ Len(m.rcv) + (i + 1) <= Len(k.rcv)
    <3>1. CASE p.rcv = << >>
      BY <3>1, <2>4, <2>7 DEF ReadSome
    <3>2. CASE p.rcv # << >>
      <4>1. Len(p.rcv) # 0
        BY <3>2, <2>7
      <4>2. Len(p.rcv) + i <= Len(k.rcv) /\ Len(m.rcv) < Len(p.rcv)
        BY <3>2, <4>1, <2>3, <2>5
      <4>3. \A a, b, d \in Nat : b + i <= d /\ a < b => a + (i + 1) <= d
        OBVIOUS
      <4> QED
        BY <4>2, <4>3, <2>8, <1>0, Zenon
    <3> QED
      BY <3>1, <3>2, Zenon
  <2> QED
    BY <2>5, <2>6, <2>9, Zenon DEF m
<1> HIDE DEF S
<1>6. n \in S
  BY <1>4, <1>5, NatSet
<1> QED
  BY <1>6 DEF S, after

\* The loop of HandleRead takes the bytes in their order, and ends with none left in the
\* socket: read() would answer EAGAIN.
THEOREM HandleReadTakesAll ==
  ASSUME NEW k, Good(k), Heard(k)
  PROVE  LET m == HandleRead(k).c
         IN  Good(m) /\ Heard(m) /\ Reading(k, m) /\ m.rcv = << >>
<1> DEFINE n == Len(k.rcv)
           p == Reads(k, n)[n]
           m == HandleRead(k).c
<1>1. n \in Nat
  BY DEF Heard
<1>2. Good(p) /\ Heard(p) /\ Reading(k, p) /\ (Len(p.rcv) = 0 \/ Len(p.rcv) + n <= n)
  BY <1>1, ReadsKeep, Zenon
<1>3. m = [p EXCEPT !.in = EnsureWritableSize(@, kBlockSize)]
  BY DEF HandleRead
<1> HIDE DEF n, p, m
<1>4. p.rcv \in Seq(Nat) /\ IsIOBuffer(p.in, Nat)
  BY <1>2 DEF Heard
<1>5. p.rcv = << >>
  <2>1. Len(p.rcv) \in Nat
    BY <1>4
  <2>2. Len(p.rcv) = 0
    BY <1>1, <1>2, <2>1
  <2> QED
    BY <1>4, <2>2
<1>6. /\ IsIOBuffer(EnsureWritableSize(p.in, kBlockSize), Nat)
      /\ Content(EnsureWritableSize(p.in, kBlockSize)) = Content(p.in)
  BY <1>4, EnsureKeeps, ConnectionAssumption
<1>7. /\ IsConnection(m) /\ m.in = EnsureWritableSize(p.in, kBlockSize)
      /\ \A f \in Fields \ {"in"} : m[f] = p[f]
  BY <1>2, <1>3 DEF Good, IsConnection, Fields
<1>8. Reading(k, m) /\ Reading(p, m)
  BY <1>2, <1>7 DEF Reading, Fields
<1>9. /\ Good(m) /\ m.parsed = p.parsed /\ m.handed = p.handed /\ m.sent = p.sent /\ m.reset = p.reset /\ m.bad = p.bad
  BY <1>2, <1>8, ReadingKeeps
<1>10. m.rcv = p.rcv
  BY <1>7 DEF Fields
<1>11. CanReadSize(m.in) = CanReadSize(p.in)
  BY <1>4, <1>6, <1>7, ContentType
<1>12. Heard(m)
  BY <1>2, <1>6, <1>7, <1>9, <1>10, <1>11, Zenon DEF Heard, Taken
<1> QED
  BY <1>5, <1>8, <1>9, <1>10, <1>12 DEF m

-----------------------------------------------------------------------------
(* The codec.                                                              *)

\* A closed codec has sent all, or has an excuse
Safe(k) == k.late \/ k.ended \/ k.bad \/ k.status # "CLOSED" \/ (k.notified > 0 /\ CanReadSize(k.out) = 0)

\* What the handling of incoming data does to the life of the connection
Serves(k, m) ==
  /\ m.fin = k.fin /\ m.reset = k.reset
  /\ (k.ended => m.ended) /\ (k.schedule_close => m.schedule_close) /\ (k.late => m.late) /\ (k.bad => m.bad)
  /\ (m.watched => k.watched) /\ (co => m.watched = k.watched)
  /\ (k.status = "CLOSED" => m.status = "CLOSED")
  /\ \/ m.status = k.status /\ m.notified = k.notified
     \/ m.status = "CLOSED" /\ (m.ended \/ m.bad)
  /\ (Safe(k) => Safe(m))

LEMMA ServesReflexive ==
  ASSUME NEW k
  PROVE  Serves(k, k)
  BY DEF Serves

LEMMA ServesTransitive ==
  ASSUME NEW k, NEW m, NEW p, Serves(k, m), Serves(m, p)
  PROVE  Serves(k, p)
  BY DEF Serves

\* A request is handed over: k1 is k without its bytes.
LEMMA HandsOver ==
  ASSUME NEW k, Good(k), delivered \in Seq(Nat), NEW k1, IsConnection(k1), \A f \in Fields \ {"in", "parsed"} : k1[f] = k[f],
         NEW r \in Nat \ {0}, NEW ch, NEW m, m = OnCodecMessage(k1, r, ch)
  PROVE  /\ Good(m) /\ Serves(k, m) /\ m.bad = k.bad /\ m.handed = Append(k.handed, r)
         /\ m.in = k1.in /\ m.parsed = k1.parsed /\ m.rcv = k.rcv /\ m.sent = k.sent /\ m.reset = k.reset
<1>1. /\ Stream(k1) = Stream(k) /\ Life(k1) = Life(k) /\ k1.event = k.event /\ k1.notified = k.notified /\ k1.reset = k.reset
      /\ k1.rcv = k.rcv /\ k1.sent = k.sent /\ k1.fin = k.fin /\ k1.bad = k.bad /\ k1.late = k.late /\ k1.handed = k.handed
  BY DEF Stream, Life, Fields
<1>2. Good(k1)
  BY <1>1 DEF InOrder, Stream, Good
<1>3. /\ Good(m) /\ Ends(k1, m) /\ m.handed = Append(k1.handed, r)
      /\ m.in = k1.in /\ m.rcv = k1.rcv /\ m.parsed = k1.parsed /\ m.sent = k1.sent
      /\ m.fin = k1.fin /\ m.reset = k1.reset /\ m.bad = k1.bad
      /\ (k1.late \/ k1.notified > 0 => m.late)
  BY <1>2, OnCodecMessageKeeps
<1>4. /\ k1.watched = k.watched /\ k1.status = k.status /\ k1.schedule_close = k.schedule_close /\ k1.ended = k.ended
  BY <1>1 DEF Life
<1>5. Ends(k, m)
  BY <1>1, <1>3, <1>4 DEF Ends
<1>6. Safe(k) => Safe(m)
  BY <1>1, <1>3, <1>5 DEF Safe, Ends
<1>7. Serves(k, m)
  BY <1>1, <1>3, <1>5, <1>6 DEF Serves, Ends
<1> QED
  BY <1>1, <1>3, <1>7

\* The next request of the stream, and what Append does to the order
LEMMA NextRequest ==
  ASSUME NEW handed \in Seq(Nat), From(handed, 0), NEW bytes \in Seq(Nat), From(bytes, 2 * Len(handed)), Len(bytes) >= 2
  PROVE  /\ Decode(bytes) = Len(handed) + 1 /\ Decode(bytes) \in Nat \ {0}
         /\ Append(handed, Decode(bytes)) \in Seq(Nat) /\ Len(Append(handed, Decode(bytes))) = Len(handed) + 1
         /\ From(Append(handed, Decode(bytes)), 0)
         /\ Without(bytes, 2) \in Seq(Nat) /\ Len(Without(bytes, 2)) = Len(bytes) - 2
         /\ From(Without(bytes, 2), 2 * (Len(handed) + 1))
<1> DEFINE h == Len(handed)
<1>1. h \in Nat /\ Len(bytes) \in Nat /\ Len(bytes) >= 2 /\ 2 \in 1..Len(bytes)
  OBVIOUS
<1>2. bytes[2] = 2 * h + 2
  BY <1>1 DEF From
<1>3. \A i \in Nat : (2 * i + 2) \div 2 = i + 1
  OBVIOUS
<1> DEFINE r == Decode(bytes)
<1>4. r = h + 1 /\ r \in Nat \ {0}
  BY <1>1, <1>2, <1>3 DEF Decode
<1> HIDE DEF r
<1>5. Append(handed, r) \in Seq(Nat) /\ Len(Append(handed, r)) = h + 1
  BY <1>4
<1>6. From(Append(handed, r), 0)
  <2> SUFFICES ASSUME NEW i \in 1..h + 1 PROVE Append(handed, r)[i] = 0 + i
    BY <1>5 DEF From
  <2>1. CASE i = h + 1
    BY <2>1, <1>4
  <2>2. CASE i # h + 1
    <3>1. i \in 1..h
      BY <2>2, <1>1
    <3> QED
      BY <3>1 DEF From
  <2> QED
    BY <2>1, <2>2
<1>7. Without(bytes, 2) \in Seq(Nat) /\ Len(Without(bytes, 2)) = Len(bytes) - 2
  <2>1. 2 \in 0..Len(bytes)
    BY <1>1
  <2> QED
    BY <2>1, Split, Zenon DEF Without
<1>8. From(Without(bytes, 2), 2 * (h + 1))
  <2> SUFFICES ASSUME NEW i \in 1..Len(bytes) - 2 PROVE Without(bytes, 2)[i] = 2 * (h + 1) + i
    BY <1>7 DEF From
  <2>1. Without(bytes, 2)[i] = bytes[2 + i] /\ 2 + i \in 1..Len(bytes)
    BY <1>1 DEF Without
  <2>2. bytes[2 + i] = 2 * h + (2 + i)
    BY <2>1 DEF From
  <2> QED
    BY <2>1, <2>2, <1>1
<1> QED
  BY <1>4, <1>5, <1>6, <1>7, <1>8 DEF r

LEMMA DecodeMessageKeeps ==
  ASSUME NEW k, Good(k), Heard(k), delivered \in Seq(Nat), ~k.bad, codec # "http", NEW ch
  PROVE  LET m == DecodeMessage(k, ch)
         IN  /\ Good(m) /\ Heard(m) /\ Serves(k, m) /\ m.bad = k.bad
             /\ (CanReadSize(k.in) >= 2 => CanReadSize(m.in) = CanReadSize(k.in) - 2)
<1> DEFINE m == DecodeMessage(k, ch)
           bytes == Content(k.in)
           r == Decode(bytes)
           k1 == [k EXCEPT !.in = Consume(@, 2)]
<1>1. /\ k.handed \in Seq(Nat) /\ k.rcv \in Seq(Nat) /\ k.sent \in Nat /\ IsIOBuffer(k.in, Nat) /\ k.parsed = << >>
      /\ From(k.handed, 0) /\ From(bytes, Taken(k)) /\ From(k.rcv, Taken(k) + CanReadSize(k.in))
      /\ ~k.reset => Taken(k) + CanReadSize(k.in) + Len(k.rcv) = k.sent
  BY DEF Heard
<1>2. bytes \in Seq(Nat) /\ Len(bytes) = CanReadSize(k.in) /\ CanReadSize(k.in) \in Nat
  BY <1>1, ContentType
<1>3. Len(k.handed) \in Nat /\ Taken(k) = 2 * Len(k.handed)
  BY <1>1 DEF Taken
<1>4. CASE CanReadSize(k.in) < 2
  BY <1>2, <1>4, ServesReflexive DEF DecodeMessage
<1>5. CASE CanReadSize(k.in) >= 2
  <2>1. IsConnection(k1) /\ k1.in = Consume(k.in, 2) /\ \A f \in Fields \ {"in"} : k1[f] = k[f]
    BY Zenon DEF Good, IsConnection, Fields
  <2>2. m = OnCodecMessage(k1, r, ch)
    BY <1>2, <1>5 DEF DecodeMessage
  <2> HIDE DEF m, bytes, k1
  <2>3. /\ r = Len(k.handed) + 1 /\ r \in Nat \ {0} /\ Append(k.handed, r) \in Seq(Nat)
        /\ Len(Append(k.handed, r)) = Len(k.handed) + 1 /\ From(Append(k.handed, r), 0)
        /\ Without(bytes, 2) \in Seq(Nat) /\ Len(Without(bytes, 2)) = Len(bytes) - 2
        /\ From(Without(bytes, 2), 2 * (Len(k.handed) + 1))
    <3>1. k.handed \in Seq(Nat) /\ From(k.handed, 0) /\ bytes \in Seq(Nat) /\ From(bytes, 2 * Len(k.handed)) /\ Len(bytes) >= 2
      BY <1>1, <1>2, <1>3, <1>5
    <3> QED
      BY ONLY <3>1, NextRequest, Zenon
  <2> HIDE DEF r
  <2>a. r \in Nat \ {0}
    BY <2>3
  <2>4. k1.parsed = k.parsed /\ \A f \in Fields \ {"in", "parsed"} : k1[f] = k[f]
    BY <2>1 DEF Fields
  <2>5. /\ Good(m) /\ Serves(k, m) /\ m.bad = k.bad /\ m.handed = Append(k.handed, r)
        /\ m.in = k1.in /\ m.parsed = k1.parsed /\ m.rcv = k.rcv /\ m.sent = k.sent /\ m.reset = k.reset
    BY <2>1, <2>2, <2>a, <2>4, HandsOver
  <2>6. IsIOBuffer(m.in, Nat) /\ Content(m.in) = Without(bytes, 2)
    <3>1. IsIOBuffer(Consume(k.in, 2), Nat) /\ Content(Consume(k.in, 2)) = SubSeq(bytes, 2 + 1, CanReadSize(k.in))
      BY <1>1, <1>5, ConsumeDrops DEF bytes
    <3> QED
      BY <1>2, <2>1, <2>5, <3>1 DEF Without
  <2>7. CanReadSize(m.in) = CanReadSize(k.in) - 2
    BY <1>2, <2>3, <2>6, ContentType
  <2>8. m.parsed = << >> /\ Taken(m) = 2 * (Len(k.handed) + 1)
    BY <1>1, <1>3, <2>3, <2>4, <2>5 DEF Taken
  <2>9. Taken(m) + CanReadSize(m.in) = Taken(k) + CanReadSize(k.in)
    BY <1>2, <1>3, <2>7, <2>8
  <2>10. From(m.parsed, 2 * Len(m.handed)) /\ m.parsed \in Seq(Nat)
    BY <2>8 DEF From
  <2>11. Heard(m)
    BY <1>1, <2>3, <2>5, <2>6, <2>8, <2>9, <2>10 DEF Heard
  <2> QED
    BY <2>5, <2>7, <2>11 DEF m
<1> QED
  BY <1>2, <1>4, <1>5

LEMMA HttpCommitKeeps ==
  ASSUME NEW k, Good(k), Heard(k), delivered \in Seq(Nat), NEW ch
  PROVE  LET m == HttpCommit(k, ch)
         IN  /\ Good(m) /\ Heard(m) /\ Serves(k, m) /\ m.bad = k.bad
             /\ (Len(k.parsed) >= 2 => Len(m.parsed) = Len(k.parsed) - 2)
<1> DEFINE m == HttpCommit(k, ch)
           r == Decode(k.parsed)
           k1 == [k EXCEPT !.parsed = Without(@, 2)]
<1>1. /\ k.handed \in Seq(Nat) /\ k.parsed \in Seq(Nat) /\ From(k.handed, 0) /\ From(k.parsed, 2 * Len(k.handed))
  BY DEF Heard
<1>2. Len(k.handed) \in Nat /\ Len(k.parsed) \in Nat
  BY <1>1
<1>3. CASE Len(k.parsed) < 2
  BY <1>2, <1>3, ServesReflexive DEF HttpCommit
<1>4. CASE Len(k.parsed) >= 2
  <2>1. IsConnection(k1) /\ k1.parsed = Without(k.parsed, 2) /\ \A f \in Fields \ {"parsed"} : k1[f] = k[f]
    BY Zenon DEF Good, IsConnection, Fields
  <2>2. m = OnCodecMessage(k1, r, ch)
    BY <1>2, <1>4 DEF HttpCommit
  <2> HIDE DEF m, k1
  <2>3. /\ r = Len(k.handed) + 1 /\ r \in Nat \ {0} /\ Append(k.handed, r) \in Seq(Nat)
        /\ Len(Append(k.handed, r)) = Len(k.handed) + 1 /\ From(Append(k.handed, r), 0)
        /\ Without(k.parsed, 2) \in Seq(Nat) /\ Len(Without(k.parsed, 2)) = Len(k.parsed) - 2
        /\ From(Without(k.parsed, 2), 2 * (Len(k.handed) + 1))
    BY <1>1, <1>4, NextRequest, Zenon
  <2> HIDE DEF r
  <2>a. r \in Nat \ {0}
    BY <2>3
  <2>4. k1.in = k.in /\ \A f \in Fields \ {"in", "parsed"} : k1[f] = k[f]
    BY <2>1 DEF Fields
  <2>5. /\ Good(m) /\ Serves(k, m) /\ m.bad = k.bad /\ m.handed = Append(k.handed, r)
        /\ m.in = k1.in /\ m.parsed = k1.parsed /\ m.rcv = k.rcv /\ m.sent = k.sent /\ m.reset = k.reset
    BY <2>1, <2>2, <2>a, <2>4, HandsOver
  <2>6. Taken(m) = Taken(k)
    <3>1. Len(m.handed) = Len(k.handed) + 1 /\ Len(m.parsed) = Len(k.parsed) - 2
      BY <2>1, <2>3, <2>5
    <3>2. \A h, n \in Nat : 2 * (h + 1) + (n - 2) = 2 * h + n
      OBVIOUS
    <3> QED
      BY <1>2, <3>1, <3>2, Zenon DEF Taken
  <2>7. codec # "http" => m.parsed = << >>
    BY <1>4 DEF Heard
  <2>8. Heard(m)
    BY <2>1, <2>3, <2>4, <2>5, <2>6, <2>7 DEF Heard
  <2> QED
    BY <2>1, <2>3, <2>5, <2>8 DEF m
<1> QED
  BY <1>2, <1>3, <1>4

LEMMA DecodesKeep ==
  ASSUME NEW k, Good(k), Heard(k), delivered \in Seq(Nat), ~k.bad, codec # "http", NEW ch, NEW n \in Nat, 2 * n <= CanReadSize(k.in)
  PROVE  LET m == Decodes(k, ch, n)[n]
         IN  Good(m) /\ Heard(m) /\ Serves(k, m) /\ m.bad = k.bad /\ CanReadSize(m.in) = CanReadSize(k.in) - 2 * n
<1> DEFINE after == Decodes(k, ch, n)
           Holds(m, i) == Good(m) /\ Heard(m) /\ Serves(k, m) /\ m.bad = k.bad /\ CanReadSize(m.in) = CanReadSize(k.in) - 2 * i
           S == {i \in Nat : i <= n => Holds(after[i], i)}
<1>0. CanReadSize(k.in) \in Nat
  BY ContentType DEF Heard
<1>1. after = [i \in 0..n |-> IF i = 0 THEN k ELSE DecodeMessage(after[i - 1], ch)]
  BY DecodesStep
<1> HIDE DEF after
<1>2. Holds(k, 0)
  BY <1>0, ServesReflexive
<1>3. after[0] = k
  BY <1>1
<1>4. 0 \in S
  BY <1>2, <1>3
<1>5. ASSUME NEW i \in Nat, i \in S PROVE i + 1 \in S
  <2>0. i + 1 \in Nat
    OBVIOUS
  <2> SUFFICES ASSUME i + 1 <= n PROVE Holds(after[i + 1], i + 1)
    <3> HIDE DEF Holds
    <3> QED
      BY <2>0
  <2>1. after[i + 1] = DecodeMessage(after[i], ch)
    BY <1>1
  <2>2. Holds(after[i], i)
    BY <1>5
  <2> DEFINE p == after[i]
             m == after[i + 1]
  <2> HIDE DEF p, m
  <2>3. Good(p) /\ Heard(p) /\ Serves(k, p) /\ p.bad = k.bad /\ CanReadSize(p.in) = CanReadSize(k.in) - 2 * i
    BY <2>2 DEF p
  <2>4. m = DecodeMessage(p, ch)
    BY <2>1 DEF p, m
  <2>5. CanReadSize(p.in) >= 2 /\ CanReadSize(k.in) - 2 * i - 2 = CanReadSize(k.in) - 2 * (i + 1)
    BY <2>3, <1>0
  <2>6. /\ Good(m) /\ Heard(m) /\ Serves(p, m) /\ m.bad = p.bad
        /\ CanReadSize(m.in) = CanReadSize(p.in) - 2
    BY <2>3, <2>4, <2>5, DecodeMessageKeeps
  <2>7. Serves(k, m)
    BY <2>3, <2>6, ServesTransitive
  <2> QED
    BY <2>3, <2>5, <2>6, <2>7 DEF m
<1> HIDE DEF S
<1>6. n \in S
  BY <1>4, <1>5, NatSet
<1> QED
  BY <1>6 DEF S, after

LEMMA HttpCommitsKeep ==
  ASSUME NEW k, Good(k), Heard(k), delivered \in Seq(Nat), NEW ch, NEW n \in Nat, 2 * n <= Len(k.parsed)
  PROVE  LET m == HttpCommits(k, ch, n)[n]
         IN  Good(m) /\ Heard(m) /\ Serves(k, m) /\ m.bad = k.bad /\ Len(m.parsed) = Len(k.parsed) - 2 * n
<1> DEFINE after == HttpCommits(k, ch, n)
           Holds(m, i) == Good(m) /\ Heard(m) /\ Serves(k, m) /\ m.bad = k.bad /\ Len(m.parsed) = Len(k.parsed) - 2 * i
           S == {i \in Nat : i <= n => Holds(after[i], i)}
<1>0. Len(k.parsed) \in Nat
  BY DEF Heard
<1>1. after = [i \in 0..n |-> IF i = 0 THEN k ELSE HttpCommit(after[i - 1], ch)]
  BY HttpCommitsStep
<1> HIDE DEF after
<1>2. Holds(k, 0)
  BY <1>0, ServesReflexive
<1>3. after[0] = k
  BY <1>1
<1>4. 0 \in S
  BY <1>2, <1>3
<1>5. ASSUME NEW i \in Nat, i \in S PROVE i + 1 \in S
  <2>0. i + 1 \in Nat
    OBVIOUS
  <2> SUFFICES ASSUME i + 1 <= n PROVE Holds(after[i + 1], i + 1)
    <3> HIDE DEF Holds
    <3> QED
      BY <2>0
  <2>1. after[i + 1] = HttpCommit(after[i], ch)
    BY <1>1
  <2>2. Holds(after[i], i)
    <3> HIDE DEF Holds
    <3> QED
      BY <1>5
  <2> DEFINE p == after[i]
             m == after[i + 1]
  <2> HIDE DEF p, m
  <2>3. Good(p) /\ Heard(p) /\ Serves(k, p) /\ p.bad = k.bad /\ Len(p.parsed) = Len(k.parsed) - 2 * i
    BY <2>2 DEF p
  <2>4. m = HttpCommit(p, ch)
    BY <2>1 DEF p, m
  <2>5. Len(p.parsed) >= 2 /\ Len(k.parsed) - 2 * i - 2 = Len(k.parsed) - 2 * (i + 1)
    <3>1. \A a \in Nat : 2 * n <= a => a - 2 * i >= 2 /\ a - 2 * i - 2 = a - 2 * (i + 1)
      OBVIOUS
    <3> QED
      BY <2>3, <3>1, <1>0, Zenon
  <2>6. /\ Good(m) /\ Heard(m) /\ Serves(p, m) /\ m.bad = p.bad
        /\ Len(m.parsed) = Len(p.parsed) - 2
    BY <2>3, <2>4, <2>5, HttpCommitKeeps, Zenon
  <2>7. Serves(k, m)
    BY <2>3, <2>6, ServesTransitive
  <2> QED
    BY <2>3, <2>5, <2>6, <2>7, Zenon DEF m
<1> HIDE DEF S, Holds
<1>6. n \in S
  BY <1>4, <1>5, NatSet, Zenon
<1>7. Holds(after[n], n)
  BY <1>6 DEF S
<1> QED
  BY <1>7 DEF Holds, after

LEMMA Half ==
  ASSUME NEW m \in Nat
  PROVE  m \div 2 \in Nat /\ 2 * (m \div 2) <= m /\ m - 2 * (m \div 2) < 2
  OBVIOUS

\* RawCodecService::OnDataReceived hands over every whole frame that has arrived, in the
\* order of the stream: less than a frame stays in the buffer.
THEOREM RawTakesAll ==
  ASSUME NEW k, Good(k), Heard(k), delivered \in Seq(Nat), ~k.bad, codec # "http", NEW ch
  PROVE  LET m == RawReceived(k, ch)
         IN  Good(m) /\ Heard(m) /\ Serves(k, m) /\ m.bad = k.bad /\ CanReadSize(m.in) < 2
<1> DEFINE n == CanReadSize(k.in) \div 2
<1>1. CanReadSize(k.in) \in Nat
  BY ContentType DEF Heard
<1>2. n \in Nat /\ 2 * n <= CanReadSize(k.in) /\ CanReadSize(k.in) - 2 * n < 2
  BY <1>1, Half
<1>3. RawReceived(k, ch) = Decodes(k, ch, n)[n]
  BY DEF RawReceived
<1> HIDE DEF n
<1> QED
  BY <1>2, <1>3, DecodesKeep

\* The parser of HTTP commits every request that it has complete.
THEOREM CommitTakesAll ==
  ASSUME NEW k, Good(k), Heard(k), delivered \in Seq(Nat), NEW ch
  PROVE  LET m == Commit(k, ch)
         IN  Good(m) /\ Heard(m) /\ Serves(k, m) /\ m.bad = k.bad /\ Len(m.parsed) < 2
<1> DEFINE n == Len(k.parsed) \div 2
<1>1. Len(k.parsed) \in Nat
  BY DEF Heard
<1>2. n \in Nat /\ 2 * n <= Len(k.parsed) /\ Len(k.parsed) - 2 * n < 2
  BY <1>1, Half, Zenon
<1>3. Commit(k, ch) = HttpCommits(k, ch, n)[n]
  BY DEF Commit
<1> DEFINE m == HttpCommits(k, ch, n)[n]
<1> HIDE DEF n
<1>4. Good(m) /\ Heard(m) /\ Serves(k, m) /\ m.bad = k.bad /\ Len(m.parsed) = Len(k.parsed) - 2 * n
  BY <1>2, HttpCommitsKeep, Zenon
<1> HIDE DEF m
<1> QED
  BY <1>2, <1>3, <1>4, Zenon DEF m

\* After a bad request the codec is closed, and only a coroutine's event is still installed.
Served(k, m) ==
  /\ Good(m) /\ Heard(m) /\ Serves(k, m)
  /\ (m.bad => m.status = "CLOSED" /\ (co \/ ~m.watched))

LEMMA HttpParses ==
  ASSUME NEW k, Good(k), Heard(k), delivered \in Seq(Nat), ~k.bad, codec = "http", NEW ch, ~ch.bad
  PROVE  Served(k, HttpReceived(k, ch))
<1> DEFINE bytes == Content(k.in)
           k1 == [k EXCEPT !.parsed = @ \o bytes, !.in = Consume(@, Len(bytes))]
           m == HttpReceived(k, ch)
<1>1. /\ IsConnection(k1) /\ k1.parsed = Joined(k.parsed, bytes) /\ k1.in = Consume(k.in, Len(bytes))
      /\ \A f \in Fields \ {"in", "parsed"} : k1[f] = k[f]
  BY Zenon DEF Good, IsConnection, Fields, Joined
<1>2. m = Commit(k1, ch)
  BY DEF HttpReceived
<1> HIDE DEF k1, m, bytes
<1>3. /\ k.handed \in Seq(Nat) /\ k.parsed \in Seq(Nat) /\ k.rcv \in Seq(Nat) /\ k.sent \in Nat /\ IsIOBuffer(k.in, Nat)
      /\ From(k.handed, 0) /\ From(k.parsed, 2 * Len(k.handed))
      /\ From(bytes, Taken(k)) /\ From(k.rcv, Taken(k) + CanReadSize(k.in))
      /\ ~k.reset => Taken(k) + CanReadSize(k.in) + Len(k.rcv) = k.sent
  BY DEF Heard, bytes
<1>4. bytes \in Seq(Nat) /\ Len(bytes) = CanReadSize(k.in) /\ CanReadSize(k.in) \in Nat
  BY <1>3, ContentType DEF bytes
<1>5. /\ Stream(k1) = Stream(k) /\ Life(k1) = Life(k) /\ k1.event = k.event /\ k1.notified = k.notified /\ k1.reset = k.reset
      /\ k1.rcv = k.rcv /\ k1.sent = k.sent /\ k1.fin = k.fin /\ k1.bad = k.bad /\ k1.late = k.late /\ k1.handed = k.handed
      /\ k1.watched = k.watched /\ k1.status = k.status /\ k1.schedule_close = k.schedule_close /\ k1.ended = k.ended /\ k1.out = k.out
  BY <1>1 DEF Stream, Life, Fields
<1>6. Good(k1)
  BY <1>1, <1>5 DEF InOrder, Stream, Good
<1>7. Serves(k, k1)
  BY <1>5 DEF Serves, Safe
<1>8. IsIOBuffer(k1.in, Nat) /\ CanReadSize(k1.in) = 0 /\ From(Content(k1.in), Taken(k1))
  <2>1. IsIOBuffer(k1.in, Nat) /\ Content(k1.in) = SubSeq(Content(k.in), Len(bytes) + 1, CanReadSize(k.in))
    <3>1. IsIOBuffer(k.in, Nat) /\ Len(bytes) \in Nat /\ Len(bytes) <= CanReadSize(k.in)
      BY <1>3, <1>4
    <3>2. /\ IsIOBuffer(Consume(k.in, Len(bytes)), Nat)
          /\ Content(Consume(k.in, Len(bytes))) = SubSeq(Content(k.in), Len(bytes) + 1, CanReadSize(k.in))
      BY ONLY <3>1, ConsumeDrops
    <3> QED
      BY <1>1, <3>2
  <2>2. Content(k1.in) = << >>
    BY <1>4, <2>1 DEF bytes
  <2> QED
    <3>1. CanReadSize(k1.in) = Len(Content(k1.in))
      BY <2>1, ContentType, Zenon
    <3> QED
      BY <2>1, <2>2, <3>1, FromEmpty, Zenon
<1>9. k1.parsed \in Seq(Nat) /\ Len(k1.parsed) = Len(k.parsed) + CanReadSize(k.in)
  <2>1. Joined(k.parsed, bytes) \in Seq(Nat) /\ Len(Joined(k.parsed, bytes)) = Len(k.parsed) + Len(bytes)
    BY <1>3, <1>4, JoinedType, Zenon
  <2> QED
    BY <1>1, <1>4, <2>1
<1>10. Len(k.handed) \in Nat /\ Len(k.parsed) \in Nat /\ 2 * Len(k.handed) \in Nat
  BY <1>3
<1>11. Taken(k1) = Taken(k) + CanReadSize(k.in)
  <2>1. \A h, n, l \in Nat : 2 * h + (n + l) = (2 * h + n) + l
    OBVIOUS
  <2>2. Taken(k1) = 2 * Len(k.handed) + (Len(k.parsed) + CanReadSize(k.in))
    BY <1>5, <1>9 DEF Taken
  <2>3. Taken(k) = 2 * Len(k.handed) + Len(k.parsed)
    BY DEF Taken
  <2> DEFINE h == Len(k.handed)
             n == Len(k.parsed)
             l == CanReadSize(k.in)
  <2>4. h \in Nat /\ n \in Nat /\ l \in Nat /\ Taken(k1) = 2 * h + (n + l) /\ Taken(k) = 2 * h + n
    BY <1>4, <1>10, <2>2, <2>3
  <2> HIDE DEF h, n, l
  <2>5. Taken(k1) = Taken(k) + l
    BY ONLY <2>1, <2>4
  <2> QED
    BY <2>5 DEF l
<1>12. From(k1.parsed, 2 * Len(k.handed))
  <2>1. From(bytes, 2 * Len(k.handed) + Len(k.parsed))
    BY <1>3, Zenon DEF Taken
  <2> DEFINE h == 2 * Len(k.handed)
             a == k.parsed
  <2>2. h \in Nat /\ a \in Seq(Nat) /\ bytes \in Seq(Nat) /\ From(a, h) /\ From(bytes, h + Len(a))
    BY <1>3, <1>4, <1>10, <2>1, Zenon
  <2> HIDE DEF h, a
  <2>3. From(Joined(a, bytes), h)
    BY ONLY <2>2, FromJoined
  <2> QED
    BY <1>1, <2>3 DEF h, a
<1>13. Taken(k1) + CanReadSize(k1.in) = Taken(k) + CanReadSize(k.in)
  BY <1>4, <1>8, <1>11, TakenType
<1>14. Heard(k1)
  BY <1>3, <1>5, <1>8, <1>9, <1>12, <1>13 DEF Heard
<1>15. Good(m) /\ Heard(m) /\ Serves(k1, m) /\ m.bad = k1.bad
  BY <1>2, <1>6, <1>14, CommitTakesAll
<1> QED
  BY <1>5, <1>7, <1>15, ServesTransitive DEF Served, m

LEMMA HttpFails ==
  ASSUME NEW k, Good(k), Heard(k), delivered \in Seq(Nat), ~k.bad, codec = "http", NEW ch, ch.bad, CanReadSize(k.in) # 0
  PROVE  Served(k, HttpReceived(k, ch))
<1> DEFINE bytes == Content(k.in)
           some == UpTo(bytes, Len(bytes) - 1)
           k1 == [k EXCEPT !.parsed = @ \o some, !.bad = TRUE]
           failed == Commit(k1, ch)
           s == Send(failed, kBadRequest, ch.errno).c
           closed == CloseService(s, TRUE)
           m == HttpReceived(k, ch)
<1>1. /\ IsConnection(k1) /\ k1.parsed = Joined(k.parsed, some) /\ k1.bad = TRUE
      /\ \A f \in Fields \ {"parsed", "bad"} : k1[f] = k[f]
  BY Zenon DEF Good, IsConnection, Fields, Joined
<1>2. m = NotifyCodecClosed(closed)
  BY DEF HttpReceived
<1> HIDE DEF bytes
<1>3. /\ k.handed \in Seq(Nat) /\ k.parsed \in Seq(Nat) /\ k.rcv \in Seq(Nat) /\ k.sent \in Nat /\ IsIOBuffer(k.in, Nat)
      /\ From(k.handed, 0) /\ From(k.parsed, 2 * Len(k.handed)) /\ From(bytes, Taken(k))
  BY DEF Heard, bytes
<1>4. bytes \in Seq(Nat) /\ Len(bytes) = CanReadSize(k.in) /\ CanReadSize(k.in) \in Nat \ {0}
  BY <1>3, ContentType DEF bytes
<1>5. some \in Seq(Nat) /\ From(some, Taken(k))
  <2>1. Len(bytes) - 1 \in Nat
    BY <1>4
  <2>2. /\ some \in Seq(Nat) /\ Without(bytes, AtMost(Len(bytes), Len(bytes) - 1)) \in Seq(Nat)
        /\ Joined(some, Without(bytes, AtMost(Len(bytes), Len(bytes) - 1))) = bytes
    BY <1>4, <2>1, UpToSplits
  <2> HIDE DEF some
  <2> QED
    BY <1>3, <2>2, TakenType, FromJoined
<1> HIDE DEF k1, m, some
<1>6. /\ Stream(k1) = Stream(k) /\ k1.event = k.event /\ k1.notified = k.notified /\ k1.reset = k.reset /\ k1.in = k.in
      /\ k1.rcv = k.rcv /\ k1.sent = k.sent /\ k1.fin = k.fin /\ k1.late = k.late /\ k1.handed = k.handed
      /\ k1.watched = k.watched /\ k1.status = k.status /\ k1.schedule_close = k.schedule_close /\ k1.ended = k.ended
  BY <1>1 DEF Stream, Fields
<1>7. Good(k1)
  BY <1>1, <1>6 DEF InOrder, Stream, Good
<1>8. k1.parsed \in Seq(Nat) /\ From(k1.parsed, 2 * Len(k.handed))
  <2>1. 2 * Len(k.handed) \in Nat
    BY <1>3
  <2> QED
    <3>1. From(some, 2 * Len(k.handed) + Len(k.parsed)) /\ some \in Seq(Nat)
      BY <1>5, Zenon DEF Taken
    <3>2. From(Joined(k.parsed, some), 2 * Len(k.handed))
      <4> DEFINE h == 2 * Len(k.handed)
                 a == k.parsed
      <4>1. h \in Nat /\ a \in Seq(Nat) /\ some \in Seq(Nat) /\ From(a, h) /\ From(some, h + Len(a))
        BY <1>3, <2>1, <3>1, Zenon
      <4> HIDE DEF h, a
      <4>2. From(Joined(a, some), h)
        BY ONLY <4>1, FromJoined
      <4> QED
        BY <4>2 DEF h, a
    <3>3. Joined(k.parsed, some) \in Seq(Nat)
      BY <1>3, <3>1, JoinedType, Zenon
    <3> QED
      BY <1>1, <3>2, <3>3
<1>9. Heard(k1)
  BY <1>1, <1>3, <1>6, <1>8 DEF Heard
<1>10. Serves(k, k1)
  BY <1>1, <1>6 DEF Serves, Safe
<1>11. Good(failed) /\ Heard(failed) /\ Serves(k1, failed) /\ failed.bad = k1.bad
  BY <1>7, <1>9, CommitTakesAll
<1> HIDE DEF failed
<1>12. Good(s) /\ Requested(s) = Requested(failed) /\ Life(s) = Life(failed)
  <2>1. kBadRequest \in Seq(Nat)
    BY DEF kBadRequest
  <2> QED
    BY <1>11, <2>1, SendKeeps
<1> HIDE DEF s
<1>13. /\ Good(closed) /\ Requested(closed) = Requested(s) /\ closed.status = "CLOSED"
       /\ closed.ended = s.ended /\ closed.schedule_close = s.schedule_close
       /\ (IF co THEN closed.watched = s.watched ELSE ~closed.watched)
  BY <1>12, CloseServiceKeeps, Zenon
<1> HIDE DEF closed
<1>14. /\ IsConnection(m) /\ m.notified \in Nat /\ \A f \in Fields \ {"notified"} : m[f] = closed[f]
  <2>1. closed.notified \in Nat /\ IsConnection(closed)
    BY <1>13 DEF Good
  <2> DEFINE v == IF closed.notified < 3 THEN closed.notified + 1 ELSE 3
  <2>2. v \in Nat /\ m = [closed EXCEPT !.notified = v]
    BY <1>2, <2>1 DEF NotifyCodecClosed
  <2> HIDE DEF v
  <2> QED
    BY <2>1, <2>2, Zenon DEF IsConnection, Fields
<1>15. /\ Requested(m) = Requested(closed) /\ Stream(m) = Stream(closed) /\ m.event = closed.event
       /\ m.status = closed.status /\ m.watched = closed.watched /\ m.ended = closed.ended /\ m.schedule_close = closed.schedule_close
  BY <1>14 DEF Requested, Stream, Fields
<1>16. Good(m) /\ Heard(m)
  BY <1>11, <1>12, <1>13, <1>14, <1>15, SameInOrder, SameHeard DEF Good
<1>17. m.fin = failed.fin /\ m.reset = failed.reset /\ m.late = failed.late /\ m.bad = failed.bad
  BY <1>12, <1>13, <1>15 DEF Requested
<1>18. s.watched = failed.watched /\ s.ended = failed.ended /\ s.schedule_close = failed.schedule_close
  BY <1>12 DEF Life
<1>19. Serves(k, failed) /\ failed.bad
  BY <1>1, <1>10, <1>11, ServesTransitive
<1>20. Serves(k, m)
  BY <1>13, <1>15, <1>17, <1>18, <1>19 DEF Serves, Safe
<1> QED
  BY <1>13, <1>15, <1>16, <1>20 DEF Served, m

LEMMA OnDataReceivedKeeps ==
  ASSUME NEW k, Good(k), Heard(k), delivered \in Seq(Nat), codec \in {"raw", "line", "http"}, ~k.bad, NEW ch
  PROVE  Served(k, OnDataReceived(k, ch))
<1> DEFINE m == OnDataReceived(k, ch)
<1>1. CASE CanReadSize(k.in) = 0
  BY <1>1, ServesReflexive DEF OnDataReceived, Served
<1>2. CASE CanReadSize(k.in) # 0 /\ codec = "raw"
  <2>1. m = RawReceived(k, ch) /\ codec # "http"
    BY <1>2 DEF OnDataReceived
  <2> QED
    BY <2>1, RawTakesAll DEF Served
<1>3. CASE CanReadSize(k.in) # 0 /\ codec = "line"
  <2>1. m = DecodeMessage(k, ch) /\ codec # "http"
    BY <1>3 DEF OnDataReceived, LineReceived
  <2> QED
    BY <2>1, DecodeMessageKeeps DEF Served
<1>4. CASE CanReadSize(k.in) # 0 /\ codec = "http"
  <2>1. m = HttpReceived(k, ch)
    BY <1>4 DEF OnDataReceived
  <2> QED
    BY <1>4, <2>1, HttpParses, HttpFails
<1> QED
  BY <1>1, <1>2, <1>3, <1>4

\* What HandleWrite and HandleRead do: a close that was scheduled may come true.
Moved(k, m) ==
  /\ m.fin = k.fin /\ m.reset = k.reset /\ m.bad = k.bad /\ m.late = k.late
  /\ m.ended = k.ended /\ m.schedule_close = k.schedule_close
  /\ (m.watched => k.watched) /\ (co => m.watched = k.watched)
  /\ (k.status = "CLOSED" => m.status = "CLOSED")
  /\ (m.status = k.status /\ m.notified = k.notified) \/ Finished(m)

LEMMA SocketReadWriteKeeps ==
  ASSUME NEW k, Good(k), Heard(k), delivered \in Seq(Nat), NEW ev
  PROVE  LET s == SocketReadWrite(k, ev)
         IN  Good(s.c) /\ Heard(s.c) /\ Moved(k, s.c) /\ (s.ok \/ k.fin \/ k.reset)
<1> DEFINE w == IF "WRITE" \in ev THEN HandleWrite(k) ELSE [c |-> k, ok |-> TRUE, n |-> 0]
           p == AfterWrite(w)
           s == SocketReadWrite(k, ev)
<1>1. Good(w.c) /\ Requested(w.c) = Requested(k) /\ Life(w.c) = Life(k) /\ (w.ok \/ k.reset)
  BY HandleWriteKeeps
<1>2. s = IF ~w.ok THEN [c |-> w.c, ok |-> FALSE] ELSE IF "READ" \in ev THEN HandleRead(p) ELSE [c |-> p, ok |-> TRUE]
  BY DEF SocketReadWrite, ReadAfterWrite
<1> HIDE DEF w
<1>3. Heard(w.c)
  BY <1>1, SameHeard
<1>4. /\ w.c.fin = k.fin /\ w.c.reset = k.reset /\ w.c.bad = k.bad /\ w.c.late = k.late
      /\ w.c.ended = k.ended /\ w.c.schedule_close = k.schedule_close /\ w.c.watched = k.watched
      /\ w.c.status = k.status /\ w.c.notified = k.notified
  BY <1>1 DEF Requested, Life
<1>5. Moved(k, w.c)
  BY <1>4 DEF Moved
<1>6. /\ Good(p) /\ Requested(p) = Requested(w.c) /\ p.ended = w.c.ended /\ p.schedule_close = w.c.schedule_close
      /\ (p.watched => w.c.watched) /\ (co => p.watched = w.c.watched)
      /\ (w.c.status = "CLOSED" => p.status = "CLOSED")
      /\ (p.status = w.c.status /\ p.notified = w.c.notified) \/ Finished(p)
  BY <1>1, AfterWriteKeeps
<1> HIDE DEF p
<1>7. Heard(p) /\ p.fin = w.c.fin /\ p.reset = w.c.reset /\ p.bad = w.c.bad /\ p.late = w.c.late
  BY <1>3, <1>6, SameHeard DEF Requested
<1>8. Moved(k, p)
  BY <1>4, <1>6, <1>7 DEF Moved
<1> HIDE DEF s
<1>9. CASE ~w.ok
  BY <1>1, <1>2, <1>3, <1>5, <1>9 DEF s
<1>10. CASE w.ok /\ "READ" \notin ev
  BY <1>2, <1>6, <1>7, <1>8, <1>10 DEF s
<1>11. CASE w.ok /\ "READ" \in ev
  <2> DEFINE m == HandleRead(p).c
  <2>1. s = HandleRead(p)
    BY <1>2, <1>11
  <2>2. s.ok \/ p.fin \/ p.reset
    BY <2>1, Zenon DEF HandleRead
  <2>3. Good(m) /\ Heard(m) /\ Reading(p, m)
    BY <1>6, <1>7, HandleReadTakesAll
  <2> HIDE DEF m
  <2>4. /\ Life(m) = Life(p) /\ Stream(m) = Stream(p)
        /\ m.fin = p.fin /\ m.reset = p.reset /\ m.bad = p.bad /\ m.late = p.late
    BY <1>6, <2>3, ReadingKeeps
  <2>5. m.watched = p.watched /\ m.status = p.status /\ m.schedule_close = p.schedule_close /\ m.ended = p.ended /\ m.notified = p.notified /\ m.out = p.out
    BY <2>4 DEF Life, Stream
  <2>6. Moved(k, m)
    BY <1>8, <2>4, <2>5 DEF Moved, Finished
  <2> QED
    BY <1>4, <1>7, <2>1, <2>2, <2>3, <2>6 DEF s, m
<1> QED
  BY <1>9, <1>10, <1>11

Excused(k) == k.ended \/ k.schedule_close \/ k.bad

\* A handler of an event leaves the connection with its streams in order, and accounts
\* for the close: it was reported once, and nothing was cut off, or there is an excuse.
Handled(k, m) ==
  /\ Good(m) /\ Heard(m) /\ m.fin = k.fin /\ m.reset = k.reset
  /\ (m.watched => k.watched) /\ (co => m.watched = k.watched)
  /\ (k.status = "CLOSED" => m.status = "CLOSED") /\ (k.status = "CONNECTED" => m.status \in {"CONNECTED", "CLOSED"})
  /\ (m.bad => m.status = "CLOSED" /\ (co \/ ~m.watched))
  /\ (k.notified = 0 \/ Excused(k)) =>
       Excused(m) \/ m.notified = 0 \/ (m.notified = 1 /\ m.status = "CLOSED" /\ (co \/ ~m.watched))
  /\ (k.status = "CONNECTED" /\ ~k.fin /\ ~k.reset /\ m.status = "CLOSED") =>
       m.late \/ m.ended \/ m.bad \/ CanReadSize(m.out) = 0

LEMMA HandleEventKeeps ==
  ASSUME NEW k, Good(k), Heard(k), delivered \in Seq(Nat), codec \in {"raw", "line", "http"}, ~k.bad, NEW ev, NEW ch
  PROVE  Handled(k, HandleEvent(k, ev, ch))
<1> DEFINE s == SocketReadWrite(k, ev)
           a == s.c
           d == OnDataReceived(a, ch)
           m == HandleEvent(k, ev, ch)
<1>1. m = IF s.ok /\ ~ShouldClose(d) THEN d ELSE CloseService(d, FALSE)
  BY DEF HandleEvent, AfterReceived
<1>2. Good(a) /\ Heard(a) /\ Moved(k, a) /\ (s.ok \/ k.fin \/ k.reset)
  BY SocketReadWriteKeeps
<1> HIDE DEF s, m
<1>3. ~a.bad
  BY <1>2 DEF Moved
<1> HIDE DEF a
<1>4. Served(a, d)
  BY <1>2, <1>3, OnDataReceivedKeeps
<1> HIDE DEF d
<1>5. Good(d) /\ Heard(d) /\ Serves(a, d) /\ (d.bad => d.status = "CLOSED" /\ (co \/ ~d.watched))
  BY <1>4 DEF Served
<1>6. k.status = "CONNECTED" => Safe(a) /\ Safe(d)
  BY <1>2, <1>5 DEF Moved, Serves, Safe, Finished
<1>7. (k.notified = 0 \/ Excused(k)) => Excused(d) \/ d.notified = 0
  BY <1>2, <1>5 DEF Moved, Serves, Excused, Finished
<1>8. /\ d.fin = k.fin /\ d.reset = k.reset /\ (d.watched => k.watched) /\ (co => d.watched = k.watched)
      /\ (k.status = "CLOSED" => d.status = "CLOSED") /\ (k.status = "CONNECTED" => d.status \in {"CONNECTED", "CLOSED"})
  BY <1>2, <1>5 DEF Moved, Serves, Finished
<1>9. CASE s.ok /\ ~ShouldClose(d)
  <2>1. m = d
    BY <1>1, <1>9
  <2>2. k.status = "CONNECTED" /\ m.status = "CLOSED" => m.late \/ m.ended \/ m.bad \/ CanReadSize(m.out) = 0
    BY <1>6, <2>1 DEF Safe
  <2> QED
    BY <1>5, <1>7, <1>8, <2>1, <2>2 DEF Handled, m
<1>10. CASE ~(s.ok /\ ~ShouldClose(d))
  <2>1. m = CloseService(d, FALSE)
    BY <1>1, <1>10, Zenon
  <2>2. /\ Good(m) /\ Requested(m) = Requested(d) /\ Stream(m) = Stream(d) /\ m.status = "CLOSED"
        /\ m.ended = d.ended /\ m.schedule_close = d.schedule_close
        /\ (IF co THEN m.watched = d.watched ELSE ~m.watched)
        /\ m.notified > 0 /\ (d.notified = 0 => m.notified = 1)
    BY <1>5, <2>1, CloseServiceKeeps, ZenonT(60)
  <2>3. Heard(m) /\ m.fin = d.fin /\ m.reset = d.reset /\ m.bad = d.bad /\ m.late = d.late /\ m.out = d.out
    BY <1>5, <2>2, SameHeard DEF Requested, Stream
  <2>4. ~k.fin /\ ~k.reset => CanReadSize(m.out) = 0
    BY <1>2, <1>10, <2>3 DEF ShouldClose
  <2>5. (k.notified = 0 \/ Excused(k)) => Excused(m) \/ (m.notified = 1 /\ m.status = "CLOSED" /\ (co \/ ~m.watched))
    BY <1>7, <2>2, <2>3 DEF Excused
  <2> QED
    BY <1>8, <2>2, <2>3, <2>4, <2>5 DEF Handled, m
<1> QED
  BY <1>9, <1>10

-----------------------------------------------------------------------------
(* The invariant.                                                          *)

\* A coroutine runs only while its event is installed.  After a bad request no event of
\* the connection is handled any more, and neither after the end was reported.
Lives ==
  /\ Resumed => co /\ c.watched
  /\ c.bad => ~c.watched /\ c.status = "CLOSED"
  /\ Excused(c) \/ c.notified = 0 \/ (c.notified = 1 /\ c.status = "CLOSED" /\ ~c.watched)

\* Nothing but a task takes WRITE out of the monitored events between epoll_wait and the
\* event's handler.
Waits ==
  /\ fired \subseteq Events
  /\ sync /\ ~Resumed /\ "WRITE" \in fired /\ "READ" \notin fired => "WRITE" \in c.event
  /\ ErrorIsStaleWrite

ConnectionInv ==
  codec \in {"raw", "line", "http"} /\ delivered \in Seq(Nat) /\ Good(c) /\ Heard(c) /\ Lives /\ Waits

LEMMA NewBufferEmpty ==
  ASSUME NEW n \in Nat
  PROVE  IsIOBuffer(NewBuffer(n), Nat) /\ CanReadSize(NewBuffer(n)) = 0 /\ Content(NewBuffer(n)) = << >>
<1>1. IsIOBuffer(NewBuffer(n), Nat)
  BY DEF IsIOBuffer, NewBuffer
<1>2. CanReadSize(NewBuffer(n)) = 0
  BY DEF CanReadSize, NewBuffer
<1> QED
  BY <1>1, <1>2, ContentType

LEMMA InvInit == Init => ConnectionInv
<1> SUFFICES ASSUME Init PROVE ConnectionInv
  OBVIOUS
<1>1. /\ codec \in {"raw", "line", "http"} /\ delivered = << >> /\ fired = {} /\ routine = "start"
      /\ c.in = NewBuffer(kDefaultInitialSize) /\ c.out = NewBuffer(kDefaultInitialSize)
      /\ c.event = {"READ"} /\ c.notified = 0 /\ c.bad = FALSE /\ c.reset = FALSE
      /\ c.rcv = << >> /\ c.snd = << >> /\ c.parsed = << >> /\ c.handed = << >> /\ c.written = << >> /\ c.sent = 0
  BY DEF Init
<1>2. IsConnection(c)
  BY Zenon DEF Init, IsConnection, Fields
<1>3. /\ IsIOBuffer(c.in, Nat) /\ CanReadSize(c.in) = 0 /\ Content(c.in) = << >>
      /\ IsIOBuffer(c.out, Nat) /\ Content(c.out) = << >>
  BY <1>1, NewBufferEmpty, ConnectionAssumption
<1>4. << >> \in Seq(Nat) /\ Len(<< >>) = 0
  OBVIOUS
<1>5. Joined(Joined(<< >>, << >>), << >>) = << >>
  BY <1>4, JoinedEmpty, Zenon
<1>6. Good(c)
  BY <1>1, <1>2, <1>3, <1>4, <1>5, ConnectionAssumption DEF Good, InOrder
<1>7. Taken(c) = 0
  BY <1>1, <1>4 DEF Taken
<1>8. Heard(c)
  BY <1>1, <1>3, <1>4, <1>7, FromEmpty DEF Heard
<1>9. Lives /\ Waits
  BY <1>1 DEF Lives, Waits, Resumed, ErrorIsStaleWrite
<1> QED
  BY <1>1, <1>4, <1>6, <1>8, <1>9 DEF ConnectionInv

\* Bookkeeping of the loop and of epoll
LEMMA BookkeepingKeeps ==
  ASSUME NEW k, IsConnection(k), NEW events, NEW m \in {InNextTurn(k), AfterPump(k), Wake(k, events)}
  PROVE  /\ IsConnection(m) /\ m.event = k.event /\ Requested(m) = Requested(k) /\ Life(m) = Life(k) /\ Stream(m) = Stream(k)
<1>1. IsConnection(m) /\ \A f \in Fields \ {"flush_task", "armed"} : m[f] = k[f]
  BY DEF InNextTurn, AfterPump, Wake, IsConnection, Fields
<1> QED
  BY <1>1 DEF Requested, Life, Stream, Fields

LEMMA SameGood ==
  ASSUME NEW k, NEW m, Good(k), Heard(k), IsConnection(m), m.event = k.event, m.notified = k.notified,
         Requested(m) = Requested(k), Stream(m) = Stream(k)
  PROVE  Good(m) /\ Heard(m)
  BY SameInOrder, SameHeard DEF Good

\* The streams of the next state, by facts about the connection alone
LEMMA NextStreams ==
  ASSUME ConnectionInv, Good(c'), Heard(c'), delivered' = delivered, codec' = codec
  PROVE  codec' \in {"raw", "line", "http"} /\ delivered' \in Seq(Nat) /\ Good(c)' /\ Heard(c)'
<1>1. Good(c)'
  BY DEF Good, InOrder
<1>2. Heard(c)'
  BY DEF Heard
<1> QED
  BY <1>1, <1>2 DEF ConnectionInv

LEMMA SameLives ==
  ASSUME ConnectionInv, Life(c') = Life(c), c'.bad = c.bad, co' = co, routine' = routine
  PROVE  Lives'
<1>1. c'.watched = c.watched /\ c'.status = c.status /\ c'.schedule_close = c.schedule_close /\ c'.ended = c.ended /\ c'.notified = c.notified
  BY DEF Life
<1> QED
  BY <1>1 DEF ConnectionInv, Lives, Excused, Resumed

-----------------------------------------------------------------------------
(* The steps.                                                              *)

\* OnlyReplyTruncates, of one step
Accounted == Truncates => c'.ended \/ c'.late \/ c'.bad \/ routine = "error"

LEMMA StartStep ==
  ASSUME ConnectionInv, Start
  PROVE  ConnectionInv' /\ Accounted
<1> DEFINE k == [[c EXCEPT !.event = Events, !.status = "CONNECTED"] EXCEPT !.watched = TRUE]
<1>1. /\ c.status = "CONNECTING" /\ c' = EpollCtl(k) /\ routine' = IF co THEN "wait" ELSE routine
      /\ fired' = fired /\ codec' = codec /\ co' = co /\ sync' = sync /\ delivered' = delivered
  BY DEF Start, InstallFdEvent, Unchanged
<1>2. Good(c) /\ Heard(c) /\ Lives /\ Waits
  BY DEF ConnectionInv
<1>3. /\ IsConnection(k) /\ k.event = Events /\ k.status = "CONNECTED" /\ k.watched = TRUE
      /\ \A f \in Fields \ {"event", "status", "watched"} : k[f] = c[f]
  BY <1>2, Zenon DEF Good, IsConnection, Fields
<1> HIDE DEF k
<1>4. /\ IsConnection(c') /\ c'.event = Events /\ Requested(c') = Requested(k) /\ Life(c') = Life(k) /\ Stream(c') = Stream(k)
  BY <1>1, <1>3, EpollCtlKeeps
<1>5. /\ Requested(k) = Requested(c) /\ Stream(k) = Stream(c)
      /\ k.schedule_close = c.schedule_close /\ k.ended = c.ended /\ k.notified = c.notified
  BY <1>3 DEF Requested, Stream, Fields
<1>6. /\ c'.watched = TRUE /\ c'.status = "CONNECTED" /\ c'.schedule_close = c.schedule_close
      /\ c'.ended = c.ended /\ c'.notified = c.notified /\ c'.bad = c.bad
  BY <1>3, <1>4, <1>5 DEF Life, Requested
<1>7. Good(c') /\ Heard(c')
  BY <1>2, <1>4, <1>5, <1>6, SameInOrder, SameHeard DEF Good, Events
<1>8. Lives'
  BY <1>1, <1>2, <1>6 DEF Lives, Resumed, Excused
<1>9. Waits'
  BY <1>1, <1>2, <1>4 DEF Waits, ErrorIsStaleWrite, Resumed, Events
<1> QED
  BY <1>1, <1>7, <1>8, <1>9, NextStreams DEF ConnectionInv, Accounted, Truncates

LEMMA WaitingIOStep ==
  ASSUME ConnectionInv, WaitingIO
  PROVE  ConnectionInv' /\ Accounted
<1> DEFINE k == AfterPump(c)
<1>1. /\ ~Resumed /\ fired' = Ready(c) /\ c' = [k EXCEPT !.armed = FALSE, !.nospace = @ \/ Len(c.snd) = SndBuf]
      /\ routine' = routine /\ codec' = codec /\ co' = co /\ sync' = sync /\ delivered' = delivered
  BY DEF WaitingIO, Unchanged
<1>2. Good(c) /\ Heard(c) /\ Lives /\ Waits
  BY DEF ConnectionInv
<1>3. IsConnection(k) /\ k.event = c.event /\ Requested(k) = Requested(c) /\ Life(k) = Life(c) /\ Stream(k) = Stream(c)
  BY <1>2, BookkeepingKeeps DEF Good
<1> HIDE DEF k
<1>4. IsConnection(c') /\ \A f \in Fields \ {"armed", "nospace"} : c'[f] = k[f]
  BY <1>1, <1>3, Zenon DEF IsConnection, Fields
<1>5. c'.event = c.event /\ Requested(c') = Requested(c) /\ Life(c') = Life(c) /\ Stream(c') = Stream(c)
  BY <1>3, <1>4 DEF Requested, Life, Stream, Fields
<1>6. c'.notified = c.notified /\ c'.status = c.status /\ c'.bad = c.bad
  BY <1>5 DEF Life, Requested
<1>7. Good(c') /\ Heard(c')
  BY <1>2, <1>4, <1>5, <1>6, SameGood
<1>8. Lives'
  BY <1>1, <1>5, <1>6, SameLives
<1>9. Waits'
  BY <1>1, <1>5 DEF Waits, ErrorIsStaleWrite, Resumed, Events, Ready
<1> QED
  BY <1>1, <1>6, <1>7, <1>8, <1>9, NextStreams DEF ConnectionInv, Accounted, Truncates

\* A step that leaves the connection alone
LEMMA OtherStep ==
  ASSUME ConnectionInv, c' = c, codec' = codec, co' = co, sync' = sync, delivered' = delivered, Lives', Waits'
  PROVE  ConnectionInv' /\ Accounted
<1>1. Good(c') /\ Heard(c')
  BY DEF ConnectionInv
<1> QED
  BY <1>1, NextStreams DEF ConnectionInv, Accounted, Truncates

LEMMA InvokeRemovedStep ==
  ASSUME ConnectionInv, InvokeRemoved
  PROVE  ConnectionInv' /\ Accounted
<1>1. /\ ~c.watched /\ fired' = {} /\ c' = c /\ routine' = routine
      /\ codec' = codec /\ co' = co /\ sync' = sync /\ delivered' = delivered
  BY DEF InvokeRemoved, Unchanged
<1>2. Lives'
  BY <1>1, SameLives
<1>3. Waits'
  BY <1>1 DEF ConnectionInv, Lives, Waits, ErrorIsStaleWrite, Resumed
<1> QED
  BY <1>1, <1>2, <1>3, OtherStep

\* READ is always monitored, so an event that is none of the monitored ones was WRITE.
LEMMA InvokeIOEventStep ==
  ASSUME ConnectionInv, InvokeIOEvent
  PROVE  ConnectionInv' /\ Accounted
<1>1. /\ fired # {} /\ c.watched /\ co /\ routine = "wait" /\ routine' = IF c.event \cap fired # {} THEN "ready" ELSE "error"
      /\ fired' = fired /\ c' = c /\ codec' = codec /\ co' = co /\ sync' = sync /\ delivered' = delivered
  BY DEF InvokeIOEvent, Unchanged
<1>2. "READ" \in c.event /\ Lives /\ Waits
  BY DEF ConnectionInv, Good
<1>3. Lives'
  BY <1>1, <1>2 DEF Lives, Resumed, Excused
<1>4. routine' = "error" => fired = {"WRITE"} /\ ~sync
  <2> SUFFICES ASSUME routine' = "error" PROVE fired = {"WRITE"} /\ ~sync
    OBVIOUS
  <2>1. c.event \cap fired = {}
    BY <1>1
  <2>2. fired = {"WRITE"}
    BY <1>1, <1>2, <2>1, Zenon DEF Waits, Events
  <2>3. "WRITE" \notin c.event
    BY <2>1, <2>2
  <2> QED
    BY <1>1, <1>2, <2>2, <2>3 DEF Waits, Resumed
<1>5. Waits'
  BY <1>1, <1>2, <1>4 DEF Waits, ErrorIsStaleWrite, Resumed
<1> QED
  BY <1>1, <1>3, <1>5, OtherStep

LEMMA ReleaseStep ==
  ASSUME ConnectionInv, Release \/ UNCHANGED vars
  PROVE  ConnectionInv' /\ Accounted
<1>1. /\ fired' = fired /\ c' = c /\ routine' = routine
      /\ codec' = codec /\ co' = co /\ sync' = sync /\ delivered' = delivered
  BY DEF Release, Unchanged, vars
<1>2. Lives'
  BY <1>1, SameLives
<1>3. Waits'
  BY <1>1 DEF ConnectionInv, Waits, ErrorIsStaleWrite, Resumed
<1> QED
  BY <1>1, <1>2, <1>3, OtherStep

LEMMA FlushStep ==
  ASSUME ConnectionInv, Flush
  PROVE  ConnectionInv' /\ Accounted
<1> DEFINE k == [c EXCEPT !.flush_task = "none"]
           w == HandleWrite(k)
           p == AfterWrite(w)
<1>1. /\ fired = {} \/ Resumed
      /\ c' = [p EXCEPT !.flush_scheduled = FALSE]
      /\ fired' = fired /\ routine' = routine /\ codec' = codec /\ co' = co /\ sync' = sync /\ delivered' = delivered
  BY DEF Flush, TryFlushChannel, Unchanged
<1>2. Good(c) /\ Heard(c) /\ Lives /\ Waits /\ delivered \in Seq(Nat)
  BY DEF ConnectionInv
<1>3. IsConnection(k) /\ \A f \in Fields \ {"flush_task"} : k[f] = c[f]
  BY <1>2, Zenon DEF Good, IsConnection, Fields
<1> HIDE DEF k
<1>4. /\ k.event = c.event /\ k.notified = c.notified /\ Requested(k) = Requested(c) /\ Life(k) = Life(c) /\ Stream(k) = Stream(c)
  BY <1>3 DEF Requested, Life, Stream, Fields
<1>5. Good(k) /\ Heard(k)
  BY <1>2, <1>3, <1>4, SameGood
<1>6. Good(w.c) /\ Requested(w.c) = Requested(k) /\ Life(w.c) = Life(k)
  BY <1>2, <1>5, HandleWriteKeeps
<1> HIDE DEF w
<1>7. /\ Good(p) /\ Requested(p) = Requested(w.c) /\ p.ended = w.c.ended /\ p.schedule_close = w.c.schedule_close
      /\ (p.watched => w.c.watched) /\ (co => p.watched = w.c.watched)
      /\ (w.c.status = "CLOSED" => p.status = "CLOSED")
      /\ (p.status = w.c.status /\ p.notified = w.c.notified) \/ Finished(p)
  BY <1>6, AfterWriteKeeps
<1> HIDE DEF p
<1>8. IsConnection(c') /\ \A f \in Fields \ {"flush_scheduled"} : c'[f] = p[f]
  BY <1>1, <1>7, Zenon DEF Good, IsConnection, Fields
<1>9. c'.event = p.event /\ c'.notified = p.notified /\ Requested(c') = Requested(p) /\ Life(c') = Life(p) /\ Stream(c') = Stream(p)
  BY <1>8 DEF Requested, Life, Stream, Fields
<1>10. Good(c') /\ Heard(c')
  BY <1>5, <1>6, <1>7, <1>8, <1>9, SameInOrder, SameHeard DEF Good
<1>11. /\ w.c.watched = c.watched /\ w.c.status = c.status /\ w.c.schedule_close = c.schedule_close
       /\ w.c.ended = c.ended /\ w.c.notified = c.notified
  BY <1>4, <1>6 DEF Life
<1>12. /\ c'.watched = p.watched /\ c'.status = p.status /\ c'.schedule_close = p.schedule_close
       /\ c'.ended = p.ended /\ c'.notified = p.notified /\ c'.out = p.out
  BY <1>9 DEF Life, Stream
<1>13. c'.bad = c.bad
  BY <1>4, <1>6, <1>7, <1>9 DEF Requested
<1>14. Lives'
  BY <1>1, <1>2, <1>7, <1>11, <1>12, <1>13 DEF Lives, Excused, Resumed, Finished
<1>15. Waits'
  BY <1>1, <1>2 DEF Waits, ErrorIsStaleWrite, Resumed
<1>16. Accounted
  BY <1>7, <1>11, <1>12 DEF Accounted, Truncates, Finished
<1> QED
  BY <1>1, <1>10, <1>14, <1>15, <1>16, NextStreams DEF ConnectionInv

\* The codec as the handler: the connection is not bad, as its event is installed.
LEMMA InvokeCodecStep ==
  ASSUME ConnectionInv, NEW ch, InvokeCodec(ch)
  PROVE  ConnectionInv' /\ Accounted
<1>1. /\ c.watched /\ ~co /\ c' = HandleEvent(c, fired, ch) /\ fired' = {} /\ routine' = routine
      /\ codec' = codec /\ co' = co /\ sync' = sync /\ delivered' = delivered
  BY DEF InvokeCodec, Unchanged
<1>2. Good(c) /\ Heard(c) /\ Lives /\ Waits /\ delivered \in Seq(Nat) /\ codec \in {"raw", "line", "http"}
  BY DEF ConnectionInv
<1>3. ~c.bad
  BY <1>1, <1>2 DEF Lives
<1>4. Handled(c, c')
  BY <1>1, <1>2, <1>3, HandleEventKeeps
<1>5. Good(c') /\ Heard(c')
  BY <1>4 DEF Handled
<1>6. Lives'
  BY <1>1, <1>2, <1>4 DEF Lives, Handled, Excused, Resumed
<1>7. Waits'
  BY <1>1, <1>2 DEF Lives, Waits, ErrorIsStaleWrite, Resumed
<1>8. Accounted
  <2>1. (c.status = "CONNECTED" /\ ~c.fin /\ ~c.reset /\ c'.status = "CLOSED") =>
          c'.late \/ c'.ended \/ c'.bad \/ CanReadSize(c'.out) = 0
    BY <1>4 DEF Handled
  <2> QED
    BY <2>1 DEF Accounted, Truncates
<1> QED
  BY <1>1, <1>5, <1>6, <1>7, <1>8, NextStreams DEF ConnectionInv

\* The coroutine takes the event away itself when the codec is closed.
LEMMA ResumeRoutineStep ==
  ASSUME ConnectionInv, NEW ch, ResumeRoutine(ch)
  PROVE  ConnectionInv' /\ Accounted
<1> DEFINE k == IF routine = "error" THEN CloseService(c, TRUE) ELSE HandleEvent(c, fired, ch)
           t == InNextTurn(k)
<1>1. /\ Resumed /\ gone' = (k.status = "CLOSED") /\ c' = IF gone' THEN RemoveFdEvent(t) ELSE t
      /\ fired' = {} /\ routine' = "wait"
      /\ codec' = codec /\ co' = co /\ sync' = sync /\ delivered' = delivered
  BY Zenon DEF ResumeRoutine, Unchanged
<1>2. Good(c) /\ Heard(c) /\ Lives /\ Waits /\ delivered \in Seq(Nat) /\ codec \in {"raw", "line", "http"}
  BY DEF ConnectionInv
<1>3. co /\ c.watched /\ ~c.bad /\ (Excused(c) \/ c.notified = 0)
  BY <1>1, <1>2 DEF Lives
<1>4. /\ Good(k) /\ Heard(k) /\ (k.bad => k.status = "CLOSED")
      /\ Excused(k) \/ k.notified = 0 \/ (k.notified = 1 /\ k.status = "CLOSED")
      /\ \/ routine = "error"
         \/ c.status = "CONNECTED" /\ ~c.fin /\ ~c.reset /\ k.status = "CLOSED" =>
              k.late \/ k.ended \/ k.bad \/ CanReadSize(k.out) = 0
  <2>1. CASE routine = "error"
    <3>1. k = CloseService(c, TRUE)
      BY <2>1
    <3>2. /\ Good(k) /\ Requested(k) = Requested(c) /\ k.status = "CLOSED"
          /\ k.ended = c.ended /\ k.schedule_close = c.schedule_close /\ k.notified = c.notified
      BY <1>2, <3>1, CloseServiceKeeps, Zenon
    <3> HIDE DEF k
    <3>3. Heard(k) /\ k.bad = c.bad
      BY <1>2, <3>2, SameHeard DEF Requested
    <3> QED
      BY <1>3, <2>1, <3>2, <3>3 DEF Excused
  <2>2. CASE routine # "error"
    <3>1. k = HandleEvent(c, fired, ch)
      BY <2>2
    <3>2. Handled(c, k)
      BY <1>2, <1>3, <3>1, HandleEventKeeps, Zenon
    <3> HIDE DEF k
    <3> QED
      BY <1>3, <3>2 DEF Handled
  <2> QED
    BY <2>1, <2>2, Zenon
<1> HIDE DEF k
<1>5. IsConnection(t) /\ t.event = k.event /\ Requested(t) = Requested(k) /\ Life(t) = Life(k) /\ Stream(t) = Stream(k)
  BY <1>4, BookkeepingKeeps DEF Good
<1> HIDE DEF t
<1>6. /\ IsConnection(c') /\ (gone' => ~c'.watched)
      /\ \A f \in Fields \ {"watched", "armed"} : c'[f] = t[f]
  BY <1>1, <1>5, Zenon DEF RemoveFdEvent, IsConnection, Fields
<1>7. /\ c'.event = k.event /\ Requested(c') = Requested(k) /\ Stream(c') = Stream(k)
      /\ c'.status = t.status /\ c'.schedule_close = t.schedule_close /\ c'.ended = t.ended /\ c'.notified = t.notified
  BY <1>5, <1>6 DEF Requested, Stream, Fields
<1>8. /\ c'.status = k.status /\ c'.schedule_close = k.schedule_close /\ c'.ended = k.ended
      /\ c'.notified = k.notified /\ c'.bad = k.bad /\ c'.late = k.late /\ c'.out = k.out
  BY <1>5, <1>7 DEF Life, Requested, Stream
<1>9. Good(c') /\ Heard(c')
  BY <1>4, <1>6, <1>7, <1>8, SameGood
<1>10. Lives'
  BY <1>1, <1>4, <1>6, <1>8, Zenon DEF Lives, Excused, Resumed
<1>11. Waits'
  BY <1>1 DEF Waits, ErrorIsStaleWrite, Resumed
<1>12. Accounted
  <2> SUFFICES ASSUME Truncates, routine # "error" PROVE c'.ended \/ c'.late \/ c'.bad
    BY Zenon DEF Accounted
  <2>1. c.status = "CONNECTED" /\ c'.status = "CLOSED" /\ ~c.fin /\ ~c.reset /\ CanReadSize(c'.out) # 0
    BY DEF Truncates
  <2>2. k.late \/ k.ended \/ k.bad \/ CanReadSize(k.out) = 0
    BY <1>4, <1>8, <2>1, Zenon
  <2> QED
    BY <1>8, <2>1, <2>2, Zenon
<1> QED
  BY <1>1, <1>9, <1>10, <1>11, <1>12, NextStreams DEF ConnectionInv

LEMMA RespondStep ==
  ASSUME ConnectionInv, NEW r \in Requests, NEW ch, Respond(r, ch)
  PROVE  ConnectionInv' /\ Accounted
<1> DEFINE k == Response(c, r, ch)
<1>1. /\ ~sync /\ c' \in {k, InNextTurn(k)} /\ fired' = fired /\ routine' = routine
      /\ codec' = codec /\ co' = co /\ sync' = sync /\ delivered' = delivered
  BY DEF Respond, Unchanged
<1>2. Good(c) /\ Heard(c) /\ Lives /\ Waits /\ delivered \in Seq(Nat) /\ r \in Nat \ {0}
  BY ConnectionAssumption DEF ConnectionInv, Requests
<1>3. Good(k) /\ Requested(k) = Requested(c) /\ Ends(c, k)
  BY <1>2, ResponseKeeps
<1> HIDE DEF k
<1>4. IsConnection(c') /\ c'.event = k.event /\ Requested(c') = Requested(k) /\ Life(c') = Life(k) /\ Stream(c') = Stream(k)
  BY <1>1, <1>3, BookkeepingKeeps DEF Good
<1>5. /\ c'.watched = k.watched /\ c'.status = k.status /\ c'.schedule_close = k.schedule_close
      /\ c'.ended = k.ended /\ c'.notified = k.notified /\ c'.bad = c.bad
  BY <1>3, <1>4 DEF Life, Requested
<1>6. Heard(k)
  BY <1>2, <1>3, SameHeard
<1>7. Good(c') /\ Heard(c')
  BY <1>3, <1>4, <1>5, <1>6, SameGood
<1>8. Lives'
  BY <1>1, <1>2, <1>3, <1>5 DEF Lives, Ends, Excused, Resumed
<1>9. Waits'
  BY <1>1, <1>2 DEF Waits, ErrorIsStaleWrite
<1>10. Accounted
  BY <1>3, <1>5 DEF Accounted, Truncates, Ends
<1> QED
  BY <1>1, <1>7, <1>8, <1>9, <1>10, NextStreams DEF ConnectionInv

LEMMA StopStep ==
  ASSUME ConnectionInv, Stop
  PROVE  ConnectionInv' /\ Accounted
<1>1. /\ ~co /\ stopped' = TRUE /\ c' = CloseService(c, TRUE) /\ fired' = fired /\ routine' = routine
      /\ codec' = codec /\ co' = co /\ sync' = sync /\ delivered' = delivered
  BY DEF Stop, Unchanged
<1>2. Good(c) /\ Heard(c) /\ Lives /\ Waits
  BY DEF ConnectionInv
<1>3. /\ Good(c') /\ Requested(c') = Requested(c) /\ c'.status = "CLOSED" /\ c'.event = c.event
      /\ c'.ended = c.ended /\ c'.schedule_close = c.schedule_close /\ ~c'.watched /\ c'.notified = c.notified
  BY <1>1, <1>2, CloseServiceKeeps, Zenon
<1>4. Heard(c') /\ c'.bad = c.bad
  BY <1>2, <1>3, SameHeard DEF Requested
<1>5. Lives'
  BY <1>1, <1>2, <1>3, <1>4, Zenon DEF Lives, Excused, Resumed
<1>6. Waits'
  BY <1>1, <1>2, <1>3, Zenon DEF Waits, ErrorIsStaleWrite, Resumed
<1> QED
  BY <1>1, <1>3, <1>4, <1>5, <1>6, NextStreams, Zenon DEF ConnectionInv, Accounted, Truncates

\* What the peer does to the life of the connection: nothing
LEMMA PeerStep ==
  ASSUME ConnectionInv, Life(c') = Life(c), c'.bad = c.bad, c'.event = c.event,
         UNCHANGED <<codec, co, sync, fired, routine>>
  PROVE  Lives' /\ Waits' /\ Accounted
<1>1. Lives'
  BY SameLives
<1>2. Waits'
  BY DEF ConnectionInv, Waits, ErrorIsStaleWrite, Resumed
<1>3. c'.status = c.status
  BY DEF Life
<1> QED
  BY <1>1, <1>2, <1>3 DEF Accounted, Truncates

LEMMA AppendJoined ==
  ASSUME NEW S, NEW s \in Seq(S), NEW x \in S
  PROVE  <<x>> \in Seq(S) /\ Append(s, x) = Joined(s, <<x>>)
<1>1. <<x>> \in Seq(S) /\ Len(<<x>>) = 1 /\ <<x>>[1] = x
  OBVIOUS
<1>2. Append(s, x) \in Seq(S) /\ s \o <<x>> \in Seq(S) /\ Len(Append(s, x)) = Len(s \o <<x>>)
  BY <1>1
<1>3. \A i \in 1..Len(Append(s, x)) : Append(s, x)[i] = (s \o <<x>>)[i]
  BY <1>1
<1> QED
  BY <1>1, <1>2, <1>3, SameBytes DEF Joined

\* The next byte has the next number.
LEMMA PeerSendsStep ==
  ASSUME ConnectionInv, PeerSends
  PROVE  ConnectionInv' /\ Accounted
<1> DEFINE k == [c EXCEPT !.rcv = Append(@, c.sent + 1), !.sent = @ + 1]
           u == <<c.sent + 1>>
<1>1. /\ ~c.reset /\ c' = Wake(k, {"READ"}) /\ fired' = fired /\ routine' = routine
      /\ codec' = codec /\ co' = co /\ sync' = sync /\ delivered' = delivered
  BY DEF PeerSends, Unchanged
<1>2. Good(c) /\ Heard(c)
  BY DEF ConnectionInv
<1>3. /\ IsConnection(k) /\ k.rcv = Append(c.rcv, c.sent + 1) /\ k.sent = c.sent + 1
      /\ \A f \in Fields \ {"rcv", "sent"} : k[f] = c[f]
  BY <1>2, Zenon DEF Good, IsConnection, Fields
<1> HIDE DEF k
<1>4. Life(k) = Life(c) /\ Stream(k) = Stream(c) /\ k.event = c.event /\ k.notified = c.notified /\ k.reset = c.reset
      /\ k.bad = c.bad /\ k.in = c.in /\ k.parsed = c.parsed /\ k.handed = c.handed
  BY <1>3 DEF Life, Stream, Fields
<1>5. Good(k)
  BY <1>2, <1>3, <1>4 DEF Good, InOrder, Stream
<1>6. Taken(k) = Taken(c)
  BY <1>4 DEF Taken
<1>7. /\ c.rcv \in Seq(Nat) /\ c.sent \in Nat /\ c.sent + 1 \in Nat
      /\ IsIOBuffer(c.in, Nat) /\ CanReadSize(c.in) \in Nat /\ Taken(c) \in Nat
  <2>1. c.rcv \in Seq(Nat) /\ c.sent \in Nat /\ IsIOBuffer(c.in, Nat)
    BY <1>2, Zenon DEF Heard
  <2>2. CanReadSize(c.in) \in Nat
    BY <2>1, ContentType, Zenon
  <2>3. Taken(c) \in Nat
    BY <1>2, TakenType, Zenon
  <2> QED
    BY ONLY <2>1, <2>2, <2>3
<1>8. k.rcv = Joined(c.rcv, u) /\ u \in Seq(Nat)
  BY <1>3, <1>7, AppendJoined, Zenon
<1>a. Len(u) = 1 /\ u[1] = c.sent + 1
  OBVIOUS
<1> HIDE DEF u
<1>9. k.rcv \in Seq(Nat) /\ Len(k.rcv) = Len(c.rcv) + 1 /\ Len(c.rcv) \in Nat
  <2>1. k.rcv \in Seq(Nat) /\ Len(k.rcv) = Len(c.rcv) + Len(u)
    BY <1>7, <1>8, JoinedType, Zenon
  <2> QED
    BY <1>7, <1>a, <2>1
<1>10. ASSUME ~c.bad
       PROVE  /\ From(k.rcv, Taken(c) + CanReadSize(c.in))
              /\ Taken(c) + CanReadSize(c.in) + Len(k.rcv) = k.sent
  <2>1. From(c.rcv, Taken(c) + CanReadSize(c.in)) /\ Taken(c) + CanReadSize(c.in) + Len(c.rcv) = c.sent
    BY <1>1, <1>2, <1>10 DEF Heard
  <2>2. From(u, Taken(c) + CanReadSize(c.in) + Len(c.rcv))
    BY <1>7, <1>a, <2>1 DEF From
  <2>3. Taken(c) + CanReadSize(c.in) \in Nat
    BY <1>7
  <2> DEFINE n == Taken(c) + CanReadSize(c.in)
  <2> HIDE DEF n
  <2>4. From(k.rcv, n)
    <3>1. n \in Nat /\ From(c.rcv, n) /\ From(u, n + Len(c.rcv))
      BY <2>1, <2>2, <2>3 DEF n
    <3> QED
      BY <1>7, <1>8, <3>1, FromJoined, ZenonT(60)
  <2> QED
    BY <1>3, <1>7, <1>9, <2>1, <2>4 DEF n
<1>11. Heard(k)
  BY <1>2, <1>3, <1>4, <1>6, <1>7, <1>9, <1>10 DEF Heard
<1>12. IsConnection(c') /\ c'.event = k.event /\ Requested(c') = Requested(k) /\ Life(c') = Life(k) /\ Stream(c') = Stream(k)
  BY <1>1, <1>3, BookkeepingKeeps
<1>13. c'.notified = k.notified /\ c'.bad = k.bad
  BY <1>12 DEF Life, Requested
<1>14. Good(c') /\ Heard(c')
  BY <1>5, <1>11, <1>12, <1>13, SameGood
<1>15. Lives' /\ Waits' /\ Accounted
  BY <1>1, <1>4, <1>12, <1>13, PeerStep
<1> QED
  BY <1>1, <1>14, <1>15, NextStreams DEF ConnectionInv

\* A byte moves from the socket to the peer.
LEMMA PeerReadsStep ==
  ASSUME ConnectionInv, PeerReads
  PROVE  ConnectionInv' /\ Accounted
<1> DEFINE k == [c EXCEPT !.snd = Tail(@), !.nospace = FALSE]
           x == Head(c.snd)
<1>1. /\ c.snd # << >> /\ delivered' = Append(delivered, x) /\ c' \in {k, Wake(k, {"WRITE"})}
      /\ fired' = fired /\ routine' = routine /\ codec' = codec /\ co' = co /\ sync' = sync
  BY DEF PeerReads
<1>2. Good(c) /\ Heard(c) /\ delivered \in Seq(Nat)
  BY DEF ConnectionInv
<1>3. IsConnection(k) /\ k.snd = Tail(c.snd) /\ \A f \in Fields \ {"snd", "nospace"} : k[f] = c[f]
  BY <1>2, Zenon DEF Good, IsConnection, Fields
<1> HIDE DEF k
<1>4. IsConnection(c') /\ c'.event = k.event /\ Requested(c') = Requested(k) /\ Life(c') = Life(k) /\ Stream(c') = Stream(k)
  BY <1>1, <1>3, BookkeepingKeeps
<1>5. /\ Requested(k) = Requested(c) /\ Life(k) = Life(c) /\ k.event = c.event /\ k.out = c.out /\ k.written = c.written
  BY <1>3 DEF Requested, Life, Fields
<1>6. /\ c'.snd = Tail(c.snd) /\ c'.out = c.out /\ c'.written = c.written /\ c'.reset = c.reset
      /\ c'.bad = c.bad /\ c'.notified = c.notified /\ c'.event = c.event
  BY <1>3, <1>4, <1>5 DEF Requested, Life, Stream
<1>7. c.snd \in Seq(Nat) /\ Len(c.snd) <= SndBuf
  BY <1>2 DEF Good, InOrder
<1>8. /\ x \in Nat /\ Tail(c.snd) \in Seq(Nat) /\ Len(Tail(c.snd)) <= SndBuf
      /\ <<x>> \in Seq(Nat) /\ c.snd = Joined(<<x>>, Tail(c.snd))
  <2>1. x \in Nat /\ Tail(c.snd) \in Seq(Nat) /\ Len(Tail(c.snd)) = Len(c.snd) - 1 /\ Len(c.snd) \in Nat
    BY <1>1, <1>7
  <2>2. Len(Tail(c.snd)) <= SndBuf
    BY <1>7, <2>1, ConnectionAssumption
  <2>3. c.snd = Joined(<<x>>, Tail(c.snd))
    BY <1>1, <1>7 DEF Joined
  <2> QED
    BY <2>1, <2>2, <2>3
<1> DEFINE u == <<x>>
           t == Tail(c.snd)
<1>9. delivered' = Joined(delivered, u)
  BY <1>1, <1>2, <1>8, AppendJoined
<1>a. u \in Seq(Nat) /\ t \in Seq(Nat) /\ c.snd = Joined(u, t) /\ c'.snd = t
  BY <1>6, <1>8
<1> HIDE DEF x, u, t
<1>10. delivered' \in Seq(Nat)
  BY <1>2, <1>a, <1>9, JoinedType
<1>11. Joined(delivered', c'.snd) = Joined(delivered, c.snd)
  BY <1>2, <1>a, <1>9, JoinedAssociates
<1>12. Good(c)'
  BY <1>2, <1>4, <1>6, <1>8, <1>11 DEF Good, InOrder
<1>13. Heard(c')
  BY <1>2, <1>4, <1>5, SameHeard
<1>14. Heard(c)'
  BY <1>1, <1>13 DEF Heard
<1>15. Lives' /\ Waits' /\ Accounted
  BY <1>1, <1>4, <1>5, <1>6, PeerStep
<1> QED
  BY <1>1, <1>10, <1>12, <1>14, <1>15 DEF ConnectionInv

LEMMA PeerClosesStep ==
  ASSUME ConnectionInv, PeerCloses
  PROVE  ConnectionInv' /\ Accounted
<1> DEFINE k == [c EXCEPT !.fin = TRUE]
<1>1. /\ c' = Wake(k, {}) /\ fired' = fired /\ routine' = routine
      /\ codec' = codec /\ co' = co /\ sync' = sync /\ delivered' = delivered
  BY DEF PeerCloses, Unchanged
<1>2. Good(c) /\ Heard(c)
  BY DEF ConnectionInv
<1>3. IsConnection(k) /\ \A f \in Fields \ {"fin"} : k[f] = c[f]
  BY <1>2, Zenon DEF Good, IsConnection, Fields
<1> HIDE DEF k
<1>4. /\ Life(k) = Life(c) /\ Stream(k) = Stream(c) /\ k.event = c.event /\ k.notified = c.notified /\ k.reset = c.reset /\ k.bad = c.bad
      /\ k.in = c.in /\ k.rcv = c.rcv /\ k.parsed = c.parsed /\ k.handed = c.handed /\ k.sent = c.sent
  BY <1>3 DEF Life, Stream, Fields
<1>5. Good(k)
  BY <1>2, <1>3, <1>4 DEF Good, InOrder, Stream
<1>6. Heard(k)
  BY <1>2, <1>4, Zenon DEF Heard, Taken
<1>7. IsConnection(c') /\ c'.event = k.event /\ Requested(c') = Requested(k) /\ Life(c') = Life(k) /\ Stream(c') = Stream(k)
  BY <1>1, <1>3, BookkeepingKeeps
<1>8. c'.notified = k.notified /\ c'.bad = k.bad
  BY <1>7 DEF Life, Requested
<1>9. Good(c') /\ Heard(c')
  BY <1>5, <1>6, <1>7, <1>8, SameGood
<1>10. Lives' /\ Waits' /\ Accounted
  BY <1>1, <1>4, <1>7, <1>8, PeerStep
<1> QED
  BY <1>1, <1>9, <1>10, NextStreams DEF ConnectionInv

LEMMA PeerResetsStep ==
  ASSUME ConnectionInv, PeerResets
  PROVE  ConnectionInv' /\ Accounted
<1> DEFINE k == [c EXCEPT !.reset = TRUE, !.rcv = <<>>, !.snd = <<>>]
<1>1. /\ c' = Wake(k, {}) /\ fired' = fired /\ routine' = routine
      /\ codec' = codec /\ co' = co /\ sync' = sync /\ delivered' = delivered
  BY DEF PeerResets, Unchanged
<1>2. Good(c) /\ Heard(c)
  BY DEF ConnectionInv
<1>3. /\ IsConnection(k) /\ k.reset = TRUE /\ k.rcv = << >> /\ k.snd = << >>
      /\ \A f \in Fields \ {"reset", "rcv", "snd"} : k[f] = c[f]
  BY <1>2, Zenon DEF Good, IsConnection, Fields
<1> HIDE DEF k
<1>4. /\ Life(k) = Life(c) /\ k.event = c.event /\ k.notified = c.notified /\ k.bad = c.bad /\ k.out = c.out /\ k.written = c.written
      /\ k.in = c.in /\ k.parsed = c.parsed /\ k.handed = c.handed /\ k.sent = c.sent
  BY <1>3 DEF Life, Fields
<1>5. << >> \in Seq(Nat) /\ Len(<< >>) = 0
  OBVIOUS
<1>6. Good(k)
  BY <1>2, <1>3, <1>4, <1>5, ConnectionAssumption DEF Good, InOrder
<1>7. Heard(k)
  BY <1>2, <1>3, <1>4, <1>5, FromEmpty, Zenon DEF Heard, Taken
<1>8. IsConnection(c') /\ c'.event = k.event /\ Requested(c') = Requested(k) /\ Life(c') = Life(k) /\ Stream(c') = Stream(k)
  BY <1>1, <1>3, BookkeepingKeeps
<1>9. c'.notified = k.notified /\ c'.bad = k.bad
  BY <1>8 DEF Life, Requested
<1>10. Good(c') /\ Heard(c')
  BY <1>6, <1>7, <1>8, <1>9, SameGood
<1>11. Lives' /\ Waits' /\ Accounted
  BY <1>1, <1>4, <1>8, <1>9, PeerStep
<1> QED
  BY <1>1, <1>10, <1>11, NextStreams DEF ConnectionInv

-----------------------------------------------------------------------------
(* The theorems.                                                           *)

LEMMA InvStep ==
  ASSUME ConnectionInv, [Next]_vars
  PROVE  ConnectionInv' /\ Accounted
<1>1. CASE Loop
  BY <1>1, StartStep, WaitingIOStep, InvokeRemovedStep, InvokeIOEventStep, FlushStep,
     InvokeCodecStep, ResumeRoutineStep, RespondStep DEF Loop
<1>2. CASE Stop \/ Release
  BY <1>2, StopStep, ReleaseStep
<1>3. CASE PeerSends \/ PeerReads \/ PeerCloses \/ PeerResets
  BY <1>3, PeerSendsStep, PeerReadsStep, PeerClosesStep, PeerResetsStep
<1>4. CASE UNCHANGED vars
  BY <1>4, ReleaseStep
<1> QED
  BY <1>1, <1>2, <1>3, <1>4 DEF Next

\* ConnectionInv holds in every state of a connection, for every length of the buffers and
\* of the reads, every codec and every way to answer.
THEOREM InvariantTheorem == Spec => []ConnectionInv
  BY InvInit, InvStep, PTL DEF Spec

\* The bytes of the responses reach the peer whole and in order, whether Send, HandleWrite
\* or flush_fn_ writes them, and whatever write() takes at a time.
THEOREM StreamInOrderTheorem == Spec => []StreamInOrder
<1>1. ConnectionInv => StreamInOrder
  BY Zenon DEF ConnectionInv, Good, InOrder, StreamInOrder, Joined
<1> QED
  BY <1>1, InvariantTheorem, PTL

\* The handler gets the requests in order and each once, however HandleRead cuts the
\* stream and whatever OnDataReceived leaves in the buffer.
THEOREM RequestsInOrderTheorem == Spec => []RequestsInOrder
<1>1. ConnectionInv => RequestsInOrder
  BY DEF ConnectionInv, Heard, From, RequestsInOrder
<1> QED
  BY <1>1, InvariantTheorem, PTL

\* The delegate hears of the end of a connection at most once, unless the close came out
\* of a reply, of a scheduled close or of a bad request.
THEOREM NotifiedOnceTheorem == Spec => []NotifiedOnce
<1>1. ConnectionInv => NotifiedOnce
  BY DEF ConnectionInv, Lives, Excused, NotifiedOnce
<1> QED
  BY <1>1, InvariantTheorem, PTL

\* Wait returns Error only for a WRITE event that a task of the handler has made stale.
THEOREM ErrorIsStaleWriteTheorem == Spec => []ErrorIsStaleWrite
<1>1. ConnectionInv => ErrorIsStaleWrite
  BY DEF ConnectionInv, Waits
<1> QED
  BY <1>1, InvariantTheorem, PTL

\* CloseService leaves bytes of a response unsent only behind a reply that closes, a bad
\* request, a request after the end, or the error of Wait.
THEOREM OnlyReplyTruncatesTheorem == Spec => OnlyReplyTruncates
<1>1. ConnectionInv /\ [Next]_vars => [Accounted]_vars
  BY InvStep
<1>2. Spec => [][Accounted]_vars
  BY <1>1, InvariantTheorem, PTL DEF Spec
<1> QED
  BY <1>2 DEF OnlyReplyTruncates, Accounted
=============================================================================
