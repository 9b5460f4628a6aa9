------------------------- MODULE ServerQueueProofs --------------------------
(***************************************************************************)
(* How the tasks lie in the queues of the loops of a server, and what a    *)
(* step that takes or posts tasks leaves of their order.                   *)
(***************************************************************************)
EXTENDS Server, FiniteSetTheorems, TLAPS

\* A task, and how tasks lie in a queue
T(op, x) == [op |-> op, on |-> x]
Before(q, x, y) == \A i, j \in 1..Len(q) : q[i] = x /\ q[j] = y => i < j
Once(q, x) == \A i, j \in 1..Len(q) : q[i] = x /\ q[j] = x => i = j
Followed(q, x, y) == \A i \in 1..Len(q) : q[i] = x => \E j \in 1..Len(q) : i < j /\ q[j] = y
Count(q, x) == Cardinality({i \in 1..Len(q) : q[i] = x})

Queues == [1..Loops -> [0..Loops -> Seq(Task)]]

\* Where a task x about a connection may lie, given the states st, the I/O loops i and
\* the services s of the connections: in the queue that loop k fills for loop l
Fits(x, l, k, st, i, s) ==
  /\ x = T(x.op, x.on)
  /\ \/ x.op \in {"Start", "Stop"} /\ x.on = l /\ k = 0
     \/ /\ x.on \in Conns
        /\ \/ x.op = "open" /\ l = i[x.on] /\ k = s[x.on] /\ st[x.on] = "new"
           \/ x.op = "close" /\ l = i[x.on] /\ k = s[x.on] /\ st[x.on] \in {"new", "open", "closed"}
           \/ x.op = "remove" /\ l = s[x.on] /\ k = i[x.on] /\ st[x.on] = "closed"
           \/ x.op = "reply" /\ l = i[x.on] /\ st[x.on] \in {"open", "closed"}
           \/ x.op = "flush" /\ l = i[x.on] /\ k = i[x.on] /\ st[x.on] \in {"open", "closed"}
           \/ x.op = "late" /\ l = i[x.on] /\ k = i[x.on] /\ st[x.on] = "closed"

\* A codec is opened before it is closed, and a service is started before it is stopped.
QueueInv(ts, st, i, s) ==
  /\ ts \in Queues
  /\ \A l \in 1..Loops, k \in 0..Loops : \A x \in Range(ts[l][k]) : Fits(x, l, k, st, i, s)
  /\ \A c \in Conns : Before(ts[i[c]][s[c]], T("open", c), T("close", c)) /\ Once(ts[i[c]][s[c]], T("open", c))
  /\ \A l \in 1..Loops : /\ Before(ts[l][0], T("Start", l), T("Stop", l))
                         /\ Once(ts[l][0], T("Start", l)) /\ Once(ts[l][0], T("Stop", l))

\* On the loop of the service, a closed codec is removed after it is flushed: a task that
\* removes it follows, and holds a reference till then.
FlushesFirst(ts, i, c) == Followed(ts[i[c]][i[c]], T("flush", c), T("remove", c))
FlushInv(ts, st, i, s) == \A c \in Conns : i[c] = s[c] /\ st[c] = "closed" => FlushesFirst(ts, i, c)

-----------------------------------------------------------------------------
(* Sequences of tasks.                                                     *)

LEMMA TaskFields == \A o, x : T(o, x).op = o /\ T(o, x).on = x
  BY DEF T

LEMMA TaskEq == \A o, x, p, y : T(o, x) = T(p, y) => o = p /\ x = y
  BY TaskFields

LEMMA RangeIs == ASSUME NEW S, NEW q \in Seq(S) PROVE Range(q) = {q[i] : i \in 1..Len(q)}
  BY DEF Range

\* The head of a queue leaves it.
LEMMA TailQueue ==
  ASSUME NEW S, NEW q \in Seq(S), q # <<>>
  PROVE  /\ Tail(q) \in Seq(S) /\ Head(q) \in Range(q) /\ Head(q) \in S
         /\ Range(q) = Range(Tail(q)) \cup {Head(q)}
         /\ \A x, y : Before(q, x, y) => Before(Tail(q), x, y)
         /\ \A x : Once(q, x) => Once(Tail(q), x)
         /\ \A x : x # Head(q) /\ Before(q, x, Head(q)) => x \notin Range(q)
         /\ Once(q, Head(q)) => Head(q) \notin Range(Tail(q))
<1>1. /\ Tail(q) \in Seq(S) /\ Len(q) \in Nat /\ Len(q) >= 1 /\ Len(Tail(q)) = Len(q) - 1
      /\ Head(q) = q[1] /\ q[1] \in S
  OBVIOUS
<1>2. \A i \in 1..Len(Tail(q)) : Tail(q)[i] = q[i + 1] /\ i + 1 \in 1..Len(q)
  BY <1>1
<1>3. \A i \in 1..Len(q) : i = 1 \/ (i - 1 \in 1..Len(Tail(q)) /\ Tail(q)[i - 1] = q[i])
  BY <1>1
<1>4. Range(q) = {q[i] : i \in 1..Len(q)} /\ Range(Tail(q)) = {Tail(q)[i] : i \in 1..Len(Tail(q))}
  BY <1>1, RangeIs, Zenon
<1>5. 1 \in 1..Len(q)
  BY <1>1
<1>6. Range(q) = Range(Tail(q)) \cup {Head(q)}
  <2>1. ASSUME NEW x \in Range(q) PROVE x \in Range(Tail(q)) \cup {Head(q)}
    <3>1. PICK i \in 1..Len(q) : x = q[i]
      BY <2>1, <1>4
    <3> QED BY <3>1, <1>1, <1>3, <1>4, Zenon
  <2>2. ASSUME NEW x \in Range(Tail(q)) PROVE x \in Range(q)
    <3>1. PICK i \in 1..Len(Tail(q)) : x = Tail(q)[i]
      BY <2>2, <1>4
    <3> QED BY <3>1, <1>2, <1>4
  <2>3. Head(q) \in Range(q)
    BY <1>1, <1>4, <1>5
  <2> QED BY <2>1, <2>2, <2>3
<1>7. ASSUME NEW x, NEW y, Before(q, x, y) PROVE Before(Tail(q), x, y)
  <2> SUFFICES ASSUME NEW i \in 1..Len(Tail(q)), NEW j \in 1..Len(Tail(q)), Tail(q)[i] = x, Tail(q)[j] = y
               PROVE  i < j
    BY DEF Before
  <2>1. i + 1 < j + 1
    BY <1>2, <1>7 DEF Before
  <2> QED BY <2>1, <1>1
<1>8. ASSUME NEW x, Once(q, x) PROVE Once(Tail(q), x)
  <2> SUFFICES ASSUME NEW i \in 1..Len(Tail(q)), NEW j \in 1..Len(Tail(q)), Tail(q)[i] = x, Tail(q)[j] = x
               PROVE  i = j
    BY Zenon DEF Once
  <2>1. i + 1 = j + 1
    BY <1>2, <1>8 DEF Once
  <2> QED BY <2>1, <1>1
<1>9. ASSUME NEW x, x # Head(q), Before(q, x, Head(q)) PROVE x \notin Range(q)
  <2> SUFFICES ASSUME x \in Range(q) PROVE FALSE
    OBVIOUS
  <2>1. PICK i \in 1..Len(q) : q[i] = x
    BY <1>4
  <2>2. i < 1
    BY <1>1, <1>5, <1>9, <2>1 DEF Before
  <2> QED BY <2>2
<1>10. ASSUME Once(q, Head(q)) PROVE Head(q) \notin Range(Tail(q))
  <2> SUFFICES ASSUME Head(q) \in Range(Tail(q)) PROVE FALSE
    OBVIOUS
  <2>1. PICK i \in 1..Len(Tail(q)) : Tail(q)[i] = Head(q)
    BY <1>4
  <2>2. i + 1 = 1
    BY <1>1, <1>2, <1>5, <1>10, <2>1 DEF Once
  <2> QED BY <2>2, <1>1
<1> QED BY <1>1, <1>6, <1>7, <1>8, <1>9, <1>10

\* Tasks are appended to a queue.
LEMMA JoinQueue ==
  ASSUME NEW S, NEW q \in Seq(S), NEW r \in Seq(S)
  PROVE  /\ q \o r \in Seq(S) /\ Range(q \o r) = Range(q) \cup Range(r)
         /\ \A x, y : Before(q, x, y) /\ x \notin Range(r) => Before(q \o r, x, y)
         /\ \A x : Once(q, x) /\ x \notin Range(r) => Once(q \o r, x)
<1> DEFINE n == Len(q)
           m == Len(r)
<1>1. q \o r \in Seq(S) /\ n \in Nat /\ m \in Nat /\ Len(q \o r) = n + m
  OBVIOUS
<1>2. \A i \in 1..n : (q \o r)[i] = q[i] /\ i \in 1..(n + m)
  BY <1>1
<1>3. \A i \in 1..m : (q \o r)[n + i] = r[i] /\ n + i \in 1..(n + m)
  BY <1>1
<1>4. \A i \in 1..(n + m) : i \in 1..n \/ (i - n \in 1..m /\ (q \o r)[i] = r[i - n])
  BY <1>1
<1>5. /\ Range(q) = {q[i] : i \in 1..n} /\ Range(r) = {r[i] : i \in 1..m}
      /\ Range(q \o r) = {(q \o r)[i] : i \in 1..(n + m)}
  BY <1>1, RangeIs, Zenon
<1> HIDE DEF n, m
<1>6. Range(q \o r) = Range(q) \cup Range(r)
  <2>1. ASSUME NEW x \in Range(q \o r) PROVE x \in Range(q) \cup Range(r)
    <3>1. PICK i \in 1..(n + m) : x = (q \o r)[i]
      BY <2>1, <1>5, Zenon
    <3> QED BY <3>1, <1>2, <1>4, <1>5, Zenon
  <2>2. ASSUME NEW x \in Range(q) PROVE x \in Range(q \o r)
    <3>1. PICK i \in 1..n : x = q[i]
      BY <2>2, <1>5
    <3> QED BY <3>1, <1>2, <1>5, Zenon
  <2>3. ASSUME NEW x \in Range(r) PROVE x \in Range(q \o r)
    <3>1. PICK i \in 1..m : x = r[i]
      BY <2>3, <1>5
    <3> QED BY <3>1, <1>3, <1>5, Zenon
  <2> QED BY <2>1, <2>2, <2>3
<1>7. ASSUME NEW x, x \notin Range(r), NEW i \in 1..(n + m), (q \o r)[i] = x PROVE i \in 1..n /\ q[i] = x
  BY <1>7, <1>2, <1>4, <1>5, Zenon
<1>8. ASSUME NEW x, NEW y, Before(q, x, y), x \notin Range(r) PROVE Before(q \o r, x, y)
  <2> SUFFICES ASSUME NEW i \in 1..(n + m), NEW j \in 1..(n + m), (q \o r)[i] = x, (q \o r)[j] = y
               PROVE  i < j
    BY <1>1 DEF Before, n, m
  <2>1. i \in 1..n /\ q[i] = x
    BY <1>7, <1>8, Zenon
  <2>2. CASE j \in 1..n
    <3>1. q[j] = y
      BY <1>2, <2>2, Zenon
    <3> QED BY <2>1, <2>2, <3>1, <1>8 DEF Before, n
  <2>3. CASE j \notin 1..n
    BY <2>1, <2>3, <1>1 DEF n, m
  <2> QED BY <2>2, <2>3
<1>9. ASSUME NEW x, Once(q, x), x \notin Range(r) PROVE Once(q \o r, x)
  <2> SUFFICES ASSUME NEW i \in 1..(n + m), NEW j \in 1..(n + m), (q \o r)[i] = x, (q \o r)[j] = x
               PROVE  i = j
    BY <1>1 DEF Once, n, m
  <2>1. i \in 1..n /\ j \in 1..n /\ q[i] = x /\ q[j] = x
    BY <1>7, <1>9, Zenon
  <2> QED BY <2>1, <1>9 DEF Once, n
<1> QED BY <1>1, <1>6, <1>8, <1>9

\* One task is appended to a queue.
LEMMA AppendQueue ==
  ASSUME NEW S, NEW q \in Seq(S), NEW z \in S
  PROVE  /\ Append(q, z) \in Seq(S) /\ Range(Append(q, z)) = Range(q) \cup {z}
         /\ \A x, y : Before(q, x, y) /\ (z = x => x # y /\ y \notin Range(q)) => Before(Append(q, z), x, y)
         /\ \A x : Once(q, x) /\ (z = x => x \notin Range(q)) => Once(Append(q, z), x)
<1> DEFINE r == <<z>>
<1>1. r \in Seq(S) /\ Append(q, z) = q \o r /\ Range(r) = {z}
  <2>1. r \in Seq(S) /\ Append(q, z) = q \o r /\ Len(r) = 1 /\ r[1] = z
    OBVIOUS
  <2> HIDE DEF r
  <2>2. Range(r) = {r[i] : i \in 1..1}
    BY <2>1, RangeIs
  <2> QED BY <2>1, <2>2
<1> HIDE DEF r
<1>j. /\ q \o r \in Seq(S) /\ Range(q \o r) = Range(q) \cup Range(r)
      /\ \A x, y : Before(q, x, y) /\ x \notin Range(r) => Before(q \o r, x, y)
      /\ \A x : Once(q, x) /\ x \notin Range(r) => Once(q \o r, x)
  BY <1>1, JoinQueue
<1>2. Append(q, z) \in Seq(S) /\ Range(Append(q, z)) = Range(q) \cup {z}
  BY ONLY <1>1, <1>j
<1>3. /\ Range(Append(q, z)) = {Append(q, z)[i] : i \in 1..Len(Append(q, z))}
      /\ Range(q) = {q[i] : i \in 1..Len(q)}
  BY <1>2, RangeIs
<1>4. ASSUME NEW x, NEW y, Before(q, x, y), z = x => x # y /\ y \notin Range(q) PROVE Before(Append(q, z), x, y)
  <2>1. CASE z # x
    BY ONLY <2>1, <1>1, <1>4, <1>j, Zenon
  <2>2. CASE z = x
    <3>1. y \notin Range(Append(q, z))
      BY <2>2, <1>4, <1>2
    <3> QED BY <3>1, <1>3 DEF Before
  <2> QED BY <2>1, <2>2
<1>5. ASSUME NEW x, Once(q, x), z = x => x \notin Range(q) PROVE Once(Append(q, z), x)
  <2>1. CASE z # x
    BY ONLY <2>1, <1>1, <1>5, <1>j, Zenon
  <2>2. CASE z = x
    <3> SUFFICES ASSUME NEW i \in 1..Len(Append(q, z)), NEW j \in 1..Len(Append(q, z)),
                        Append(q, z)[i] = x, Append(q, z)[j] = x
                 PROVE  i = j
      BY DEF Once
    <3>1. ASSUME NEW k \in 1..Len(Append(q, z)), Append(q, z)[k] = x PROVE k = Len(q) + 1
      <4>1. k \in 1..Len(q) \/ k = Len(q) + 1
        OBVIOUS
      <4>2. CASE k \in 1..Len(q)
        <5>1. q[k] = x
          BY <3>1, <4>2
        <5> QED BY <5>1, <4>2, <2>2, <1>5, <1>3
      <4> QED BY <4>1, <4>2
    <3> QED BY <3>1
  <2> QED BY <2>1, <2>2
<1> QED BY <1>2, <1>4, <1>5

\* What follows a task in a queue still does when the head leaves, and when other tasks are appended.
LEMMA FollowedTail ==
  ASSUME NEW S, NEW q \in Seq(S), q # <<>>, NEW x, NEW y, Followed(q, x, y)
  PROVE  Followed(Tail(q), x, y)
<1>1. Tail(q) \in Seq(S) /\ Len(q) \in Nat /\ Len(q) >= 1 /\ Len(Tail(q)) = Len(q) - 1
  OBVIOUS
<1>2. \A i \in 1..Len(Tail(q)) : Tail(q)[i] = q[i + 1] /\ i + 1 \in 1..Len(q)
  BY <1>1
<1> SUFFICES ASSUME NEW i \in 1..Len(Tail(q)), Tail(q)[i] = x
             PROVE  \E j \in 1..Len(Tail(q)) : i < j /\ Tail(q)[j] = y
  BY DEF Followed
<1>3. PICK j \in 1..Len(q) : i + 1 < j /\ q[j] = y
  BY <1>2 DEF Followed
<1>4. j - 1 \in 1..Len(Tail(q)) /\ i < j - 1 /\ (j - 1) + 1 = j
  BY <1>1, <1>3
<1>5. Tail(q)[j - 1] = y
  BY <1>2, <1>3, <1>4
<1> QED BY <1>4, <1>5

LEMMA FollowedJoin ==
  ASSUME NEW S, NEW q \in Seq(S), NEW r \in Seq(S), NEW x, NEW y, Followed(q, x, y), x \notin Range(r)
  PROVE  Followed(q \o r, x, y)
<1> DEFINE n == Len(q)
           m == Len(r)
<1>1. n \in Nat /\ m \in Nat /\ Len(q \o r) = n + m
  OBVIOUS
<1>2. \A i \in 1..n : (q \o r)[i] = q[i] /\ i \in 1..(n + m)
  BY <1>1
<1>3. \A i \in 1..(n + m) : i \in 1..n \/ (i - n \in 1..m /\ (q \o r)[i] = r[i - n])
  BY <1>1
<1>4. Range(r) = {r[i] : i \in 1..m}
  BY RangeIs
<1> SUFFICES ASSUME NEW i \in 1..(n + m), (q \o r)[i] = x
             PROVE  \E j \in 1..(n + m) : i < j /\ (q \o r)[j] = y
  BY <1>1 DEF Followed, n, m
<1> HIDE DEF n, m
<1>5. i \in 1..n /\ q[i] = x
  BY <1>2, <1>3, <1>4, Zenon
<1>6. PICK j \in 1..n : i < j /\ q[j] = y
  BY <1>5 DEF Followed, n
<1> QED BY <1>2, <1>6, Zenon

LEMMA FollowedAppend ==
  ASSUME NEW S, NEW q \in Seq(S), NEW z \in S, NEW x, x # z
  PROVE  /\ \A y : Followed(q, x, y) => Followed(Append(q, z), x, y)
         /\ Followed(Append(q, z), x, z)
<1>1. Len(q) \in Nat /\ Len(Append(q, z)) = Len(q) + 1 /\ Append(q, z)[Len(q) + 1] = z
  OBVIOUS
<1>2. \A i \in 1..Len(q) : Append(q, z)[i] = q[i] /\ i \in 1..Len(Append(q, z))
  BY <1>1
<1>3. ASSUME NEW i \in 1..Len(Append(q, z)), Append(q, z)[i] = x PROVE i \in 1..Len(q) /\ q[i] = x
  <2>1. i \in 1..Len(q) \/ i = Len(q) + 1
    BY <1>1
  <2> QED BY <1>1, <1>2, <1>3, <2>1, Zenon
<1>4. ASSUME NEW y, Followed(q, x, y) PROVE Followed(Append(q, z), x, y)
  <2> SUFFICES ASSUME NEW i \in 1..Len(Append(q, z)), Append(q, z)[i] = x
               PROVE  \E j \in 1..Len(Append(q, z)) : i < j /\ Append(q, z)[j] = y
    BY DEF Followed
  <2>1. PICK j \in 1..Len(q) : i < j /\ q[j] = y
    BY <1>3, <1>4, Zenon DEF Followed
  <2> QED BY <1>2, <2>1, Zenon
<1>5. Followed(Append(q, z), x, z)
  <2> SUFFICES ASSUME NEW i \in 1..Len(Append(q, z)), Append(q, z)[i] = x
               PROVE  \E j \in 1..Len(Append(q, z)) : i < j /\ Append(q, z)[j] = z
    BY DEF Followed
  <2>1. i \in 1..Len(q)
    BY <1>3, Zenon
  <2>2. i < Len(q) + 1 /\ Len(q) + 1 \in 1..Len(Append(q, z))
    BY <1>1, <2>1
  <2> QED BY <1>1, <2>2, Zenon
<1> QED BY <1>4, <1>5

LEMMA CountType ==
  ASSUME NEW S, NEW q \in Seq(S), NEW x
  PROVE  /\ IsFiniteSet({i \in 1..Len(q) : q[i] = x}) /\ Count(q, x) \in Nat
         /\ x \notin Range(q) => Count(q, x) = 0
<1>1. IsFiniteSet(1..Len(q))
  BY FS_Interval
<1>2. IsFiniteSet({i \in 1..Len(q) : q[i] = x})
  BY <1>1, FS_Subset
<1>3. Count(q, x) \in Nat
  BY <1>2, FS_CardinalityType DEF Count
<1>4. ASSUME x \notin Range(q) PROVE Count(q, x) = 0
  <2>1. {i \in 1..Len(q) : q[i] = x} = {}
    BY <1>4, RangeIs
  <2> QED BY <2>1, FS_EmptySet, Zenon DEF Count
<1> QED BY <1>2, <1>3, <1>4

LEMMA CountAppend ==
  ASSUME NEW S, NEW q \in Seq(S), NEW z \in S, NEW x
  PROVE  Count(Append(q, z), x) = Count(q, x) + (IF z = x THEN 1 ELSE 0)
<1> DEFINE P == {i \in 1..Len(q) : q[i] = x}
           Q == {i \in 1..Len(Append(q, z)) : Append(q, z)[i] = x}
<1>1. IsFiniteSet(P) /\ Cardinality(P) \in Nat
  BY CountType, Zenon DEF Count
<1>c. Count(q, x) = Cardinality(P) /\ Count(Append(q, z), x) = Cardinality(Q)
  BY DEF Count
<1>2. Len(q) \in Nat /\ Len(Append(q, z)) = Len(q) + 1
  OBVIOUS
<1>3. \A i \in 1..Len(q) : Append(q, z)[i] = q[i]
  OBVIOUS
<1>4. Append(q, z)[Len(q) + 1] = z
  OBVIOUS
<1>5. \A i : i \in 1..Len(q) + 1 <=> i \in 1..Len(q) \/ i = Len(q) + 1
  BY <1>2
<1>6. CASE z = x
  <2>1. Q = P \cup {Len(q) + 1}
    BY <1>2, <1>3, <1>4, <1>5, <1>6
  <2>2. Len(q) + 1 \notin P
    BY <1>2
  <2>3. Cardinality(Q) = Cardinality(P) + 1
    BY <1>1, <2>1, <2>2, FS_AddElement, Zenon
  <2> HIDE DEF P, Q
  <2> QED BY <1>6, <2>3, <1>c
<1>7. CASE z # x
  <2>1. Q = P
    BY <1>2, <1>3, <1>4, <1>5, <1>7
  <2> HIDE DEF P, Q
  <2> QED BY <1>1, <1>7, <2>1, <1>c
<1> QED BY <1>6, <1>7

LEMMA CountTail ==
  ASSUME NEW S, NEW q \in Seq(S), q # <<>>, NEW x
  PROVE  Count(q, x) = Count(Tail(q), x) + (IF Head(q) = x THEN 1 ELSE 0)
<1> DEFINE P == {i \in 1..Len(Tail(q)) : Tail(q)[i] = x}
           Q == {i \in 1..Len(q) : q[i] = x}
           R == Q \ {1}
           f == [i \in P |-> i + 1]
<1>1. Tail(q) \in Seq(S) /\ Len(q) \in Nat /\ Len(q) >= 1 /\ Len(Tail(q)) = Len(q) - 1 /\ Head(q) = q[1]
  OBVIOUS
<1>2. IsFiniteSet(P) /\ Cardinality(P) \in Nat /\ IsFiniteSet(Q) /\ Cardinality(Q) \in Nat
  <2>1. IsFiniteSet(P) /\ IsFiniteSet(Q)
    BY <1>1, CountType, Zenon
  <2> QED BY <2>1, FS_CardinalityType, Zenon
<1>3. \A i \in 1..Len(Tail(q)) : Tail(q)[i] = q[i + 1] /\ i + 1 \in 1..Len(q)
  BY <1>1
<1>4. Cardinality(R) = Cardinality(P)
  <2>1. ASSUME NEW i \in P PROVE f[i] \in R
    BY <1>1, <1>3
  <2>2. ASSUME NEW j \in R PROVE \E i \in P : f[i] = j
    <3>1. j - 1 \in 1..Len(Tail(q)) /\ (j - 1) + 1 = j
      BY <1>1
    <3>2. j - 1 \in P
      BY <3>1, <1>3
    <3> QED BY <3>1, <3>2, Zenon
  <2>3. \A i, j \in P : f[i] = f[j] => i = j
    BY <1>1
  <2>4. f \in [P -> R]
    BY <2>1
  <2> HIDE DEF f, P, R
  <2>5. f \in Injection(P, R) /\ f \in Surjection(P, R)
    <3>1. DOMAIN f = P
      BY <2>4
    <3> QED BY <2>2, <2>3, <2>4, <3>1 DEF Injection, IsInjective, Surjection
  <2>6. ExistsBijection(P, R)
    BY <2>5 DEF ExistsBijection, Bijection
  <2> QED BY <1>2, <2>6, FS_Bijection
<1>5. 1 \in Q <=> Head(q) = x
  BY <1>1
<1>c. Count(q, x) = Cardinality(Q) /\ Count(Tail(q), x) = Cardinality(P)
  BY DEF Count
<1> HIDE DEF P, Q
<1>6. CASE Head(q) = x
  <2>1. Cardinality(R) = Cardinality(Q) - 1
    BY <1>2, <1>5, <1>6, FS_RemoveElement, Zenon
  <2>2. Cardinality(Q) = Cardinality(P) + 1
    BY <1>2, <1>4, <2>1
  <2> QED BY <1>6, <2>2, <1>c
<1>7. CASE Head(q) # x
  <2>1. R = Q
    BY <1>5, <1>7
  <2>2. Cardinality(Q) = Cardinality(P)
    BY <1>4, <2>1, Zenon
  <2> QED BY <1>2, <1>7, <2>2, <1>c
<1> QED BY <1>6, <1>7

LEMMA CountJoin ==
  ASSUME NEW S, NEW q \in Seq(S), NEW r \in Seq(S), NEW x, x \notin Range(r)
  PROVE  Count(q \o r, x) = Count(q, x)
<1>1. Len(q) \in Nat /\ Len(r) \in Nat /\ Len(q \o r) = Len(q) + Len(r)
  OBVIOUS
<1>2. \A i \in 1..Len(q) : (q \o r)[i] = q[i]
  OBVIOUS
<1>3. \A i \in 1..Len(q) + Len(r) : i \in 1..Len(q) \/ (i - Len(q) \in 1..Len(r) /\ (q \o r)[i] = r[i - Len(q)])
  OBVIOUS
<1>4. \A i \in 1..Len(r) : r[i] # x
  BY RangeIs
<1>5. {i \in 1..Len(q \o r) : (q \o r)[i] = x} = {i \in 1..Len(q) : q[i] = x}
  BY <1>1, <1>2, <1>3, <1>4
<1> QED BY <1>5, Zenon DEF Count

-----------------------------------------------------------------------------
(* A task is taken, or tasks are posted.                                   *)

\* The loops and the services of the connections
Homes == [Conns -> 1..Loops]

\* Loop l takes the task from its queue k and leaves the tasks ts.
Takes(l, k, task, ts) ==
  /\ busy[l] = Idle /\ tasks[l][k] # <<>>
  /\ task = Head(tasks[l][k]) /\ ts = [tasks EXCEPT ![l][k] = Tail(@)]

\* The queues after a task is taken, and what is known of it: it fits, and what must come before
\* it is done.
LEMMA PopKeeps ==
  ASSUME io \in Homes, service \in Homes, QueueInv(tasks, status, io, service),
         NEW l \in 1..Loops, NEW k \in 0..Loops, NEW task, NEW ts, Takes(l, k, task, ts)
  PROVE  /\ QueueInv(ts, status, io, service) /\ Fits(task, l, k, status, io, service)
         /\ task \in Range(tasks[l][k])
         /\ \A m \in 1..Loops, n \in 0..Loops :
              Range(ts[m][n]) \subseteq Range(tasks[m][n]) /\ Range(tasks[m][n]) \ {task} \subseteq Range(ts[m][n])
         /\ \A x : x # task /\ Before(tasks[l][k], x, task) => x \notin Range(tasks[l][k])
         /\ Once(tasks[l][k], task) => task \notin Range(ts[l][k])
<1>0. tasks[l][k] # <<>>
  BY DEF Takes
<1>1. tasks \in Queues /\ tasks[l][k] \in Seq(Task) /\ ts = [tasks EXCEPT ![l][k] = Tail(tasks[l][k])]
  BY Zenon DEF QueueInv, Queues, Takes
<1> DEFINE q == tasks[l][k]
           r == Tail(q)
<1>2. /\ r \in Seq(Task) /\ Head(q) \in Range(q) /\ Range(q) = Range(r) \cup {Head(q)}
      /\ \A x, y : Before(q, x, y) => Before(r, x, y)
      /\ \A x : Once(q, x) => Once(r, x)
  BY <1>0, <1>1, TailQueue
<1> HIDE DEF r
<1>3. /\ ts \in Queues /\ ts[l][k] = r
      /\ \A m \in 1..Loops, n \in 0..Loops : m # l \/ n # k => ts[m][n] = tasks[m][n]
  <2>1. /\ r \in Seq(Task) /\ ts = [tasks EXCEPT ![l][k] = r] /\ tasks \in Queues
        /\ l \in 1..Loops /\ k \in 0..Loops
    BY <1>1, <1>2 DEF r
  <2> QED BY ONLY <2>1, Zenon DEF Queues
<1>4. \A m \in 1..Loops, n \in 0..Loops :
        /\ Range(ts[m][n]) \subseteq Range(tasks[m][n])
        /\ \A x, y : Before(tasks[m][n], x, y) => Before(ts[m][n], x, y)
        /\ \A x : Once(tasks[m][n], x) => Once(ts[m][n], x)
        /\ \A x : x # Head(tasks[l][k]) /\ x \in Range(tasks[m][n]) => x \in Range(ts[m][n])
  <2> TAKE m \in 1..Loops, n \in 0..Loops
  <2>1. CASE m = l /\ n = k
    BY ONLY <2>1, <1>2, <1>3, Zenon
  <2>2. CASE m # l \/ n # k
    BY ONLY <2>2, <1>3
  <2> QED BY <2>1, <2>2
<1>5. Fits(Head(q), l, k, status, io, service)
  BY <1>2 DEF QueueInv
<1>6. \A c \in Conns : io[c] \in 1..Loops /\ io[c] \in 0..Loops /\ service[c] \in 1..Loops /\ service[c] \in 0..Loops
  BY ServerAssumption DEF Homes
<1>7. \A m \in 1..Loops, n \in 0..Loops : \A x \in Range(ts[m][n]) : Fits(x, m, n, status, io, service)
  BY <1>4 DEF QueueInv
<1>8. \A c \in Conns :
        Before(ts[io[c]][service[c]], T("open", c), T("close", c)) /\ Once(ts[io[c]][service[c]], T("open", c))
  BY <1>4, <1>6, Zenon DEF QueueInv
<1>9. \A m \in 1..Loops : /\ Before(ts[m][0], T("Start", m), T("Stop", m))
                          /\ Once(ts[m][0], T("Start", m)) /\ Once(ts[m][0], T("Stop", m))
  <2>1. 0 \in 0..Loops
    BY ServerAssumption
  <2> QED BY <2>1, <1>4 DEF QueueInv
<1>10. QueueInv(ts, status, io, service)
  BY <1>3, <1>7, <1>8, <1>9 DEF QueueInv
<1>11. task = Head(q) /\ tasks[l][k] = q /\ ts[l][k] = r
  BY <1>3 DEF Takes
<1>12. Head(q) \in Range(q) /\ (\A x : x # Head(q) /\ Before(q, x, Head(q)) => x \notin Range(q))
       /\ (Once(q, Head(q)) => Head(q) \notin Range(r))
  BY <1>0, <1>1, TailQueue DEF r
<1> HIDE DEF q
<1>13. /\ \A x : x # task /\ Before(tasks[l][k], x, task) => x \notin Range(tasks[l][k])
       /\ Once(tasks[l][k], task) => task \notin Range(ts[l][k])
  BY ONLY <1>11, <1>12
<1>14. \A m \in 1..Loops, n \in 0..Loops :
         Range(ts[m][n]) \subseteq Range(tasks[m][n]) /\ Range(tasks[m][n]) \ {task} \subseteq Range(ts[m][n])
  <2>1. \A m \in 1..Loops, n \in 0..Loops :
          /\ Range(ts[m][n]) \subseteq Range(tasks[m][n])
          /\ \A x : x # task /\ x \in Range(tasks[m][n]) => x \in Range(ts[m][n])
    BY ONLY <1>4, <1>11
  <2> QED BY ONLY <2>1
<1>15. Fits(task, l, k, status, io, service) /\ task \in Range(tasks[l][k])
  BY ONLY <1>5, <1>11, <1>12
<1> QED BY ONLY <1>10, <1>13, <1>14, <1>15

\* A task about a connection is posted.
LEMMA Posted ==
  ASSUME NEW ts \in Queues, NEW l \in 1..Loops, NEW k \in 0..Loops,
         NEW o \in {"open", "remove", "reply", "flush", "late"}, NEW c \in Conns
  PROVE  /\ Post(ts, k, l, o, c) \in Queues
         /\ \A m \in 1..Loops, n \in 0..Loops : m # l \/ n # k => Post(ts, k, l, o, c)[m][n] = ts[m][n]
         /\ Post(ts, k, l, o, c)[l][k] = Append(ts[l][k], T(o, c))
<1> DEFINE q == ts[l][k]
           z == T(o, c)
           r == Append(q, z)
           t2 == Post(ts, k, l, o, c)
<1>1. q \in Seq(Task) /\ z \in Task /\ t2 = [ts EXCEPT ![l][k] = r]
  BY Zenon DEF Queues, Post, T, Task
<1>2. r \in Seq(Task) /\ Range(r) = Range(q) \cup {z}
  BY <1>1, AppendQueue
<1> HIDE DEF r, t2
<1>3. /\ t2 \in Queues /\ t2[l][k] = r
      /\ \A m \in 1..Loops, n \in 0..Loops : m # l \/ n # k => t2[m][n] = ts[m][n]
  <2>1. /\ r \in Seq(Task) /\ t2 = [ts EXCEPT ![l][k] = r] /\ ts \in Queues
        /\ l \in 1..Loops /\ k \in 0..Loops
    BY <1>1, <1>2
  <2> QED BY ONLY <2>1, Zenon DEF Queues
<1> QED BY <1>2, <1>3 DEF r, t2

\* A task about a connection is posted to a queue where it fits.
LEMMA PostKeeps ==
  ASSUME NEW ts, NEW st, NEW i \in Homes, NEW s \in Homes, QueueInv(ts, st, i, s),
         NEW l \in 1..Loops, NEW k \in 0..Loops, NEW o \in {"open", "remove", "reply", "flush", "late"}, NEW c \in Conns,
         Fits(T(o, c), l, k, st, i, s),
         o = "open" => T("open", c) \notin Range(ts[l][k]) /\ T("close", c) \notin Range(ts[l][k])
  PROVE  QueueInv(Post(ts, k, l, o, c), st, i, s)
<1> DEFINE q == ts[l][k]
           z == T(o, c)
           r == Append(q, z)
           t2 == Post(ts, k, l, o, c)
<1>1. ts \in Queues /\ q \in Seq(Task) /\ z \in Task
  BY Zenon DEF QueueInv, Queues, T, Task
<1>2. /\ Range(r) = Range(q) \cup {z}
      /\ \A x, y : Before(q, x, y) /\ (z = x => x # y /\ y \notin Range(q)) => Before(r, x, y)
      /\ \A x : Once(q, x) /\ (z = x => x \notin Range(q)) => Once(r, x)
  BY <1>1, AppendQueue
<1>3. /\ t2 \in Queues /\ t2[l][k] = r
      /\ \A m \in 1..Loops, n \in 0..Loops : m # l \/ n # k => t2[m][n] = ts[m][n]
  <2>1. t2 \in Queues
    BY <1>1, Posted, Zenon
  <2> QED BY <1>1, <2>1, Zenon DEF Post, Queues, T
<1> HIDE DEF r, t2
<1> HIDE DEF q, z
<1>4. \A d \in Conns : i[d] \in 1..Loops /\ i[d] \in 0..Loops /\ s[d] \in 1..Loops /\ s[d] \in 0..Loops
  BY ServerAssumption DEF Homes
<1>5. \A m \in 1..Loops, n \in 0..Loops : \A x, y :
        Before(ts[m][n], x, y) /\ (z = x => x # y /\ y \notin Range(q)) => Before(t2[m][n], x, y)
  BY <1>2, <1>3 DEF q
<1>6. \A m \in 1..Loops, n \in 0..Loops : \A x :
        Once(ts[m][n], x) /\ (z = x => x \notin Range(q)) => Once(t2[m][n], x)
  BY <1>2, <1>3 DEF q
<1>7. \A m \in 1..Loops, n \in 0..Loops : \A x \in Range(t2[m][n]) : Fits(x, m, n, st, i, s)
  <2> TAKE m \in 1..Loops, n \in 0..Loops
  <2> TAKE x \in Range(t2[m][n])
  <2>1. CASE x \in Range(ts[m][n])
    BY <2>1 DEF QueueInv
  <2>2. CASE x \notin Range(ts[m][n])
    <3>1. m = l /\ n = k /\ x = z
      BY <2>2, <1>2, <1>3 DEF q
    <3> QED BY <3>1 DEF z
  <2> QED BY <2>1, <2>2
<1>8. ASSUME NEW d \in Conns
      PROVE  Before(t2[i[d]][s[d]], T("open", d), T("close", d)) /\ Once(t2[i[d]][s[d]], T("open", d))
  <2>1. z = T("open", d) => T("open", d) # T("close", d) /\ T("close", d) \notin Range(q) /\ T("open", d) \notin Range(q)
    BY TaskEq DEF z, q
  <2>2. Before(ts[i[d]][s[d]], T("open", d), T("close", d)) /\ Once(ts[i[d]][s[d]], T("open", d))
    BY DEF QueueInv
  <2> QED BY <1>4, <1>5, <1>6, <2>1, <2>2, Zenon
<1>9. ASSUME NEW m \in 1..Loops
      PROVE  /\ Before(t2[m][0], T("Start", m), T("Stop", m))
             /\ Once(t2[m][0], T("Start", m)) /\ Once(t2[m][0], T("Stop", m))
  <2>1. 0 \in 0..Loops /\ z # T("Start", m) /\ z # T("Stop", m)
    BY ServerAssumption, TaskEq DEF z
  <2>2. /\ Before(ts[m][0], T("Start", m), T("Stop", m))
        /\ Once(ts[m][0], T("Start", m)) /\ Once(ts[m][0], T("Stop", m))
    BY DEF QueueInv
  <2> QED BY <1>5, <1>6, <2>1, <2>2
<1>10. QueueInv(t2, st, i, s)
  BY <1>3, <1>7, <1>8, <1>9 DEF QueueInv
<1> QED BY <1>10 DEF t2

\* The application posts Start, or Stop behind it, to the loops of the services.
LEMMA PostEachKeeps ==
  ASSUME io \in Homes, service \in Homes, QueueInv(tasks, status, io, service),
         NEW o \in {"Start", "Stop"}, Services \subseteq 1..Loops,
         \A l \in 1..Loops : T("Stop", l) \notin Range(tasks[l][0]) /\ (o = "Start" => T("Start", l) \notin Range(tasks[l][0])),
         tasks' = PostEach(o, Services)
  PROVE  /\ QueueInv(tasks', status, io, service)
         /\ \A l \in 1..Loops, k \in 1..Loops : tasks'[l][k] = tasks[l][k]
         /\ \A l \in 1..Loops : Range(tasks'[l][0]) = Range(tasks[l][0]) \cup (IF l \in Services THEN {T(o, l)} ELSE {})
<1>0. 0 \in 0..Loops /\ \A k \in 1..Loops : k \in 0..Loops /\ k # 0
  BY ServerAssumption
<1>1. /\ \A l \in 1..Loops, k \in 0..Loops : tasks[l][k] \in Seq(Task)
      /\ tasks' = [l \in 1..Loops |-> IF l \in Services THEN [tasks[l] EXCEPT ![0] = Append(tasks[l][0], T(o, l))] ELSE tasks[l]]
  BY <1>0, Zenon DEF QueueInv, Queues, PostEach, T
<1>2. ASSUME NEW l \in 1..Loops, l \in Services
      PROVE  /\ T(o, l) \in Task /\ Append(tasks[l][0], T(o, l)) \in Seq(Task)
             /\ Range(Append(tasks[l][0], T(o, l))) = Range(tasks[l][0]) \cup {T(o, l)}
             /\ \A x, y : Before(tasks[l][0], x, y) /\ (T(o, l) = x => x # y /\ y \notin Range(tasks[l][0]))
                            => Before(Append(tasks[l][0], T(o, l)), x, y)
             /\ \A x : Once(tasks[l][0], x) /\ (T(o, l) = x => x \notin Range(tasks[l][0]))
                            => Once(Append(tasks[l][0], T(o, l)), x)
  <2>1. T(o, l) \in Task
    BY DEF T, Task
  <2>2. tasks[l][0] \in Seq(Task)
    BY <1>0, <1>1
  <2> QED BY <2>1, <2>2, AppendQueue
<1>3. tasks' \in Queues
  <2>1. ASSUME NEW l \in 1..Loops PROVE tasks'[l] \in [0..Loops -> Seq(Task)]
    BY <1>0, <1>1, <1>2 DEF QueueInv, Queues
  <2> QED BY <1>1, <2>1 DEF Queues
<1>4. \A l \in 1..Loops, k \in 1..Loops : tasks'[l][k] = tasks[l][k]
  BY <1>0, <1>1 DEF QueueInv, Queues
<1>5. \A l \in 1..Loops : tasks'[l][0] = IF l \in Services THEN Append(tasks[l][0], T(o, l)) ELSE tasks[l][0]
  BY <1>0, <1>1, Zenon DEF QueueInv, Queues
<1>6. \A l \in 1..Loops : Range(tasks'[l][0]) = Range(tasks[l][0]) \cup (IF l \in Services THEN {T(o, l)} ELSE {})
  BY <1>2, <1>5
<1>7. \A l \in 1..Loops, k \in 0..Loops : \A x \in Range(tasks'[l][k]) : Fits(x, l, k, status, io, service)
  <2> TAKE l \in 1..Loops, k \in 0..Loops
  <2> TAKE x \in Range(tasks'[l][k])
  <2>1. CASE k # 0
    <3>1. k \in 1..Loops
      BY <2>1, ServerAssumption
    <3> QED BY <3>1, <1>4 DEF QueueInv
  <2>2. CASE k = 0
    <3>1. x \in Range(tasks[l][0]) \/ x = T(o, l)
      BY <2>2, <1>6
    <3>2. ASSUME x = T(o, l) PROVE Fits(x, l, k, status, io, service)
      BY <2>2, <3>2, TaskFields DEF Fits
    <3> QED BY <2>2, <3>1, <3>2 DEF QueueInv
  <2> QED BY <2>1, <2>2
<1>8. \A c \in Conns : Before(tasks'[io[c]][service[c]], T("open", c), T("close", c)) /\ Once(tasks'[io[c]][service[c]], T("open", c))
  BY <1>4 DEF QueueInv, Homes
<1>9. ASSUME NEW l \in 1..Loops
      PROVE  /\ Before(tasks'[l][0], T("Start", l), T("Stop", l))
             /\ Once(tasks'[l][0], T("Start", l)) /\ Once(tasks'[l][0], T("Stop", l))
  <2>1. /\ Before(tasks[l][0], T("Start", l), T("Stop", l))
        /\ Once(tasks[l][0], T("Start", l)) /\ Once(tasks[l][0], T("Stop", l))
    BY DEF QueueInv
  <2>2. /\ T("Start", l) # T("Stop", l) /\ (T(o, l) = T("Stop", l) => o = "Stop") /\ (T(o, l) = T("Start", l) => o = "Start")
        /\ T("Stop", l) \notin Range(tasks[l][0]) /\ (o = "Start" => T("Start", l) \notin Range(tasks[l][0]))
    BY TaskEq
  <2>3. CASE l \notin Services
    BY <2>1, <2>3, <1>5
  <2>4. CASE l \in Services
    <3>1. tasks'[l][0] = Append(tasks[l][0], T(o, l)) /\ l \in 1..Loops
      BY <2>4, <1>5, Zenon
    <3>a. T(o, l) = T("Start", l) => T("Start", l) # T("Stop", l) /\ T("Stop", l) \notin Range(tasks[l][0])
      BY ONLY <2>2
    <3>b. \A x, y : Before(tasks[l][0], x, y) /\ (T(o, l) = x => x # y /\ y \notin Range(tasks[l][0]))
                      => Before(Append(tasks[l][0], T(o, l)), x, y)
      BY ONLY <2>4, <3>1, <1>2
    <3>2. Before(tasks'[l][0], T("Start", l), T("Stop", l))
      BY ONLY <2>1, <3>1, <3>a, <3>b
    <3>3. Once(tasks'[l][0], T("Start", l)) /\ Once(tasks'[l][0], T("Stop", l))
      BY ONLY <2>1, <2>2, <2>4, <3>1, <1>2, Zenon
    <3> QED BY <3>2, <3>3
  <2> QED BY <2>3, <2>4
<1> QED BY <1>3, <1>4, <1>6, <1>7, <1>8, <1>9 DEF QueueInv

\* What holds of the places of tasks goes over to other states and homes of connections, when
\* the tasks fit and a connection that moves has none.
LEMMA MoveKeeps ==
  ASSUME NEW ts, NEW st, NEW i \in Homes, NEW s \in Homes, QueueInv(ts, st, i, s),
         NEW st2, NEW i2 \in Homes, NEW s2 \in Homes,
         \A m \in 1..Loops, n \in 0..Loops : \A x \in Range(ts[m][n]) : Fits(x, m, n, st2, i2, s2),
         \A d \in Conns : \/ i2[d] = i[d] /\ s2[d] = s[d]
                          \/ \A m \in 1..Loops, n \in 0..Loops : T("open", d) \notin Range(ts[m][n])
  PROVE  QueueInv(ts, st2, i2, s2)
<1>1. ASSUME NEW d \in Conns
      PROVE  Before(ts[i2[d]][s2[d]], T("open", d), T("close", d)) /\ Once(ts[i2[d]][s2[d]], T("open", d))
  <2>1. CASE i2[d] = i[d] /\ s2[d] = s[d]
    BY <2>1 DEF QueueInv
  <2>2. CASE \A m \in 1..Loops, n \in 0..Loops : T("open", d) \notin Range(ts[m][n])
    <3>1. i2[d] \in 1..Loops /\ i2[d] \in 0..Loops /\ s2[d] \in 1..Loops /\ s2[d] \in 0..Loops
      BY ServerAssumption DEF Homes
    <3>2. ASSUME NEW m \in 1..Loops, NEW n \in 0..Loops
          PROVE  \A j \in 1..Len(ts[m][n]) : ts[m][n][j] # T("open", d)
      <4>1. ts[m][n] \in Seq(Task)
        BY Zenon DEF QueueInv, Queues
      <4>2. Range(ts[m][n]) = {ts[m][n][j] : j \in 1..Len(ts[m][n])}
        BY <4>1, RangeIs
      <4> QED BY <4>2, <2>2
    <3>3. \A m \in 1..Loops, n \in 0..Loops : \A y :
            Before(ts[m][n], T("open", d), y) /\ Once(ts[m][n], T("open", d))
      BY <3>2 DEF Before, Once
    <3> QED BY <3>1, <3>3, Zenon
  <2> QED BY <2>1, <2>2
<1> QED BY <1>1 DEF QueueInv

-----------------------------------------------------------------------------
(* IOService::Stop posts the tasks that close its codecs.                  *)

LEMMA OrdersSeq ==
  ASSUME NEW U, NEW S, S \subseteq U, IsFiniteSet(S), NEW q \in Orders(S)
  PROVE  q \in Seq(U) /\ Range(q) = S
<1>1. Cardinality(S) \in Nat
  BY FS_CardinalityType
<1>2. q \in [1..Cardinality(S) -> S] /\ Range(q) = S
  BY DEF Orders
<1>3. q \in [1..Cardinality(S) -> U]
  BY <1>2
<1> QED BY <1>1, <1>2, <1>3

LEMMA NothingAppended ==
  ASSUME NEW S PROVE \E z \in Seq(S) : Range(z) = {} /\ \A q \in Seq(S) : q \o z = q
<1> DEFINE z == << >>
<1>1. z \in Seq(S) /\ Len(z) = 0 /\ \A q \in Seq(S) : q \o z = q
  OBVIOUS
<1> HIDE DEF z
<1>2. Range(z) = {z[j] : j \in 1..0}
  BY <1>1, RangeIs, Zenon
<1>3. Range(z) = {}
  BY <1>2
<1> QED BY ONLY <1>1, <1>3, Zenon

\* The queues ts hold the tasks of the queues p, but for tasks that close codecs.
SameButCloses(p, ts) ==
  \A m \in 1..Loops, n \in 0..Loops : \A x : x.op # "close" => (x \in Range(ts[m][n]) <=> x \in Range(p[m][n]))

\* A queue p becomes q by tasks that close codecs.
Grows(p, q) == \E r \in Seq(Task) : q = p \o r /\ \A x \in Range(r) : x.op = "close"

\* Tasks that close codecs are appended to queues where they fit.
LEMMA ExtendKeeps ==
  ASSUME NEW ts, NEW st, NEW i \in Homes, NEW s \in Homes, QueueInv(ts, st, i, s),
         NEW t2 \in Queues,
         \A m \in 1..Loops, n \in 0..Loops : Grows(ts[m][n], t2[m][n]),
         \A m \in 1..Loops, n \in 0..Loops : \A x \in Range(t2[m][n]) : Fits(x, m, n, st, i, s)
  PROVE  /\ QueueInv(t2, st, i, s)
         /\ SameButCloses(ts, t2)
<1>1. ASSUME NEW m \in 1..Loops, NEW n \in 0..Loops
      PROVE  /\ \A x, y : Before(ts[m][n], x, y) /\ x.op # "close" => Before(t2[m][n], x, y)
             /\ \A x : Once(ts[m][n], x) /\ x.op # "close" => Once(t2[m][n], x)
             /\ \A x : x.op # "close" => (x \in Range(t2[m][n]) <=> x \in Range(ts[m][n]))
  <2>1. PICK r \in Seq(Task) : t2[m][n] = ts[m][n] \o r /\ \A x \in Range(r) : x.op = "close"
    BY Zenon DEF Grows
  <2>2. ts[m][n] \in Seq(Task)
    BY Zenon DEF QueueInv, Queues
  <2> DEFINE q == ts[m][n]
  <2>3. /\ Range(q \o r) = Range(q) \cup Range(r)
        /\ \A x, y : Before(q, x, y) /\ x \notin Range(r) => Before(q \o r, x, y)
        /\ \A x : Once(q, x) /\ x \notin Range(r) => Once(q \o r, x)
    BY <2>2, JoinQueue
  <2> HIDE DEF q
  <2>5. t2[m][n] = q \o r /\ ts[m][n] = q
    BY <2>1 DEF q
  <2>6. \A x : x.op # "close" => x \notin Range(r)
    BY <2>1
  <2> QED BY ONLY <2>3, <2>5, <2>6, Zenon
<1>2. \A c \in Conns : i[c] \in 1..Loops /\ i[c] \in 0..Loops /\ s[c] \in 1..Loops /\ s[c] \in 0..Loops
  BY ServerAssumption DEF Homes
<1>3. \A c \in Conns : Before(t2[i[c]][s[c]], T("open", c), T("close", c)) /\ Once(t2[i[c]][s[c]], T("open", c))
  <2> TAKE c \in Conns
  <2>1. T("open", c).op # "close"
    BY TaskFields
  <2>2. Before(ts[i[c]][s[c]], T("open", c), T("close", c)) /\ Once(ts[i[c]][s[c]], T("open", c))
    BY DEF QueueInv
  <2> QED BY <1>1, <1>2, <2>1, <2>2
<1>4. \A l \in 1..Loops : /\ Before(t2[l][0], T("Start", l), T("Stop", l))
                          /\ Once(t2[l][0], T("Start", l)) /\ Once(t2[l][0], T("Stop", l))
  <2> TAKE l \in 1..Loops
  <2>1. T("Start", l).op # "close" /\ T("Stop", l).op # "close" /\ 0 \in 0..Loops
    BY TaskFields, ServerAssumption
  <2>2. /\ Before(ts[l][0], T("Start", l), T("Stop", l))
        /\ Once(ts[l][0], T("Start", l)) /\ Once(ts[l][0], T("Stop", l))
    BY DEF QueueInv
  <2> QED BY <1>1, <2>1, <2>2
<1>5. SameButCloses(ts, t2)
  BY ONLY <1>1 DEF SameButCloses
<1> QED BY <1>3, <1>4, <1>5 DEF QueueInv

\* IOService::Stop posts a task to close each codec of the service.
LEMMA PostClosesKeeps ==
  ASSUME NEW ts, io \in Homes, service \in Homes, QueueInv(ts, status, io, service),
         IsFiniteSet(Stored), codecs_ \in [1..Loops -> SUBSET Conns], NEW l \in 1..Loops,
         \A c \in codecs_[l] : service[c] = l /\ status[c] \in {"new", "open", "closed"},
         PostCloses(l, ts)
  PROVE  /\ QueueInv(tasks', status, io, service)
         /\ SameButCloses(ts, tasks')
         /\ \A m \in 1..Loops, n \in 0..Loops : Grows(ts[m][n], tasks'[m][n])
<1>1. ASSUME NEW k \in 1..Loops
      PROVE  /\ IsFiniteSet(CloseTasks(l, k)) /\ CloseTasks(l, k) \subseteq Task
             /\ \A x \in CloseTasks(l, k) : x.op = "close" /\ Fits(x, k, l, status, io, service)
  <2>1. ASSUME NEW x \in CloseTasks(l, k)
        PROVE  x \in Task /\ x = T("close", x.on) /\ x.op = "close" /\ x.on \in codecs_[l] /\ x.on \in Conns /\ io[x.on] = k
    BY DEF CloseTasks, T, Task
  <2>2. [x \in CloseTasks(l, k) |-> <<l, x.on>>] \in Injection(CloseTasks(l, k), Stored)
    <3>1. ASSUME NEW x \in CloseTasks(l, k) PROVE <<l, x.on>> \in Stored
      BY <2>1 DEF Stored
    <3>2. ASSUME NEW x \in CloseTasks(l, k), NEW y \in CloseTasks(l, k), <<l, x.on>> = <<l, y.on>> PROVE x = y
      <4>1. x.on = y.on
        BY <3>2
      <4>2. x = T("close", x.on) /\ y = T("close", y.on)
        BY <2>1
      <4> QED BY <4>1, <4>2
    <3> QED BY <3>1, <3>2 DEF Injection, IsInjective
  <2>3. IsFiniteSet(CloseTasks(l, k))
    BY <2>2, FS_Injection
  <2>4. ASSUME NEW x \in CloseTasks(l, k) PROVE Fits(x, k, l, status, io, service)
    BY <2>1 DEF Fits
  <2> QED BY <2>1, <2>3, <2>4
<1>2. PICK q : /\ \A k \in 1..Loops : q[k] \in Orders(CloseTasks(l, k))
               /\ tasks' = [k \in 1..Loops |-> [ts[k] EXCEPT ![l] = @ \o q[k]]]
  BY Zenon DEF PostCloses
<1>3. ASSUME NEW k \in 1..Loops PROVE q[k] \in Seq(Task) /\ Range(q[k]) = CloseTasks(l, k)
  BY <1>1, <1>2, OrdersSeq, Zenon
<1>4. l \in 0..Loops /\ \A m \in 1..Loops : ts[m] \in [0..Loops -> Seq(Task)]
  <2>1. l \in 0..Loops
    BY ServerAssumption
  <2>2. ts \in Queues
    BY Zenon DEF QueueInv
  <2> QED BY ONLY <2>1, <2>2, Zenon DEF Queues
<1>5. ASSUME NEW m \in 1..Loops
      PROVE  /\ tasks'[m] \in [0..Loops -> Seq(Task)]
             /\ tasks'[m][l] = ts[m][l] \o q[m]
             /\ \A n \in 0..Loops : n # l => tasks'[m][n] = ts[m][n]
  <2>1. tasks'[m] = [ts[m] EXCEPT ![l] = ts[m][l] \o q[m]]
    BY <1>2, <1>4
  <2>2. ts[m][l] \o q[m] \in Seq(Task)
    <3>1. ts[m][l] \in Seq(Task) /\ q[m] \in Seq(Task)
      BY <1>3, <1>4, Zenon
    <3> QED BY ONLY <3>1, JoinQueue
  <2>3. ts[m] \in [0..Loops -> Seq(Task)] /\ l \in 0..Loops
    BY ONLY <1>4, m \in 1..Loops, Zenon
  <2>4. tasks'[m] \in [0..Loops -> Seq(Task)]
    BY ONLY <2>1, <2>2, <2>3
  <2>5. tasks'[m][l] = ts[m][l] \o q[m] /\ \A n \in 0..Loops : n # l => tasks'[m][n] = ts[m][n]
    BY ONLY <2>1, <2>3, Zenon
  <2> QED BY ONLY <2>4, <2>5
<1>6. tasks' \in Queues
  BY <1>2, <1>5, Zenon DEF Queues
<1>7. ASSUME NEW m \in 1..Loops, NEW n \in 0..Loops
      PROVE  Grows(ts[m][n], tasks'[m][n]) /\ \A x \in Range(tasks'[m][n]) : Fits(x, m, n, status, io, service)
  <2>0. ts[m][n] \in Seq(Task) /\ \A x \in Range(ts[m][n]) : Fits(x, m, n, status, io, service)
    BY Zenon DEF QueueInv, Queues
  <2>1. CASE n = l
    <3>1. tasks'[m][n] = ts[m][n] \o q[m] /\ q[m] \in Seq(Task) /\ Range(q[m]) = CloseTasks(l, m)
      BY <2>1, <1>3, <1>5, Zenon
    <3>2. Range(tasks'[m][n]) = Range(ts[m][n]) \cup CloseTasks(l, m)
      BY ONLY <2>0, <3>1, JoinQueue
    <3>3. \A x \in CloseTasks(l, m) : x.op = "close" /\ Fits(x, m, n, status, io, service)
      BY <2>1, <1>1
    <3> QED BY ONLY <2>0, <3>1, <3>2, <3>3, Zenon DEF Grows
  <2>2. CASE n # l
    <3>1. tasks'[m][n] = ts[m][n]
      BY <2>2, <1>5, Zenon
    <3>2. PICK z \in Seq(Task) : Range(z) = {} /\ \A p \in Seq(Task) : p \o z = p
      BY NothingAppended, Zenon
    <3> QED BY ONLY <2>0, <3>1, <3>2, z \in Seq(Task), Zenon DEF Grows
  <2> QED BY <2>1, <2>2
<1>8. QueueInv(tasks', status, io, service) /\ SameButCloses(ts, tasks')
  BY <1>6, <1>7, ExtendKeeps
<1> QED BY <1>7, <1>8

-----------------------------------------------------------------------------
(* OnCodecClosed posts the removal of the codec.                           *)

\* The queues ts hold the task x of loop k for loop l in addition to the queues p.
Adds(p, ts, l, k, x) ==
  \A m \in 1..Loops, n \in 0..Loops : \A y :
    y \in Range(ts[m][n]) <=> y \in Range(p[m][n]) \/ (m = l /\ n = k /\ y = x)

\* What is in the queues after a task is posted
LEMMA PostedRange ==
  ASSUME NEW ts \in Queues, NEW l \in 1..Loops, NEW k \in 0..Loops,
         NEW o \in {"open", "remove", "reply", "flush", "late"}, NEW c \in Conns
  PROVE  Adds(ts, Post(ts, k, l, o, c), l, k, T(o, c))
<1> DEFINE t2 == Post(ts, k, l, o, c)
<1>1. ts[l][k] \in Seq(Task) /\ T(o, c) \in Task
  BY Zenon DEF Queues, T, Task
<1>2. Range(Append(ts[l][k], T(o, c))) = Range(ts[l][k]) \cup {T(o, c)}
  BY ONLY <1>1, AppendQueue
<1>3. ASSUME NEW m \in 1..Loops, NEW n \in 0..Loops
      PROVE  t2[m][n] = IF m = l /\ n = k THEN Append(ts[l][k], T(o, c)) ELSE ts[m][n]
  BY Zenon DEF Post, Queues, T
<1> HIDE DEF t2
<1>4. ASSUME NEW m \in 1..Loops, NEW n \in 0..Loops, NEW x
      PROVE  x \in Range(t2[m][n]) <=> x \in Range(ts[m][n]) \/ (m = l /\ n = k /\ x = T(o, c))
  BY <1>2, <1>3
<1>5. Adds(ts, t2, l, k, T(o, c))
  BY ONLY <1>4 DEF Adds
<1> QED BY ONLY <1>5 DEF t2

\* OnCodecClosed of a codec that is closed
LEMMA ReportKeeps ==
  ASSUME io \in Homes, service \in Homes, NEW ts, NEW st, QueueInv(ts, st, io, service),
         NEW c \in Conns, st[c] = "closed", OnCodecClosed(ts, c)
  PROVE  QueueInv(tasks', st, io, service) /\ Adds(ts, tasks', service[c], io[c], T("remove", c))
<1>1. /\ io[c] \in 1..Loops /\ io[c] \in 0..Loops /\ service[c] \in 1..Loops /\ ts \in Queues
      /\ "remove" \in {"open", "remove", "reply", "flush", "late"}
  <2>1. io[c] \in 1..Loops /\ service[c] \in 1..Loops
    BY Zenon DEF Homes
  <2>2. 1..Loops \subseteq 0..Loops
    BY ONLY ServerAssumption DEF ServerAssumption
  <2>3. ts \in Queues
    BY Zenon DEF QueueInv
  <2> QED BY ONLY <2>1, <2>2, <2>3
<1>2. tasks' = Post(ts, io[c], service[c], "remove", c)
  BY DEF OnCodecClosed
<1>3. Fits(T("remove", c), service[c], io[c], st, io, service)
  BY TaskFields DEF Fits
<1>4. QueueInv(Post(ts, io[c], service[c], "remove", c), st, io, service)
  BY <1>1, <1>3, PostKeeps
<1>5. Adds(ts, Post(ts, io[c], service[c], "remove", c), service[c], io[c], T("remove", c))
  BY ONLY <1>1, c \in Conns, PostedRange
<1> QED BY ONLY <1>2, <1>4, <1>5

-----------------------------------------------------------------------------
(* A closed codec is removed after it is flushed.                          *)

LEMMA PopFlushes ==
  ASSUME NEW i \in Homes, NEW s, NEW st, tasks \in Queues, FlushInv(tasks, st, i, s),
         NEW l \in 1..Loops, NEW k \in 0..Loops, NEW task, NEW ts, Takes(l, k, task, ts)
  PROVE  FlushInv(ts, st, i, s)
<1> SUFFICES ASSUME NEW d \in Conns, FlushesFirst(tasks, i, d) PROVE FlushesFirst(ts, i, d)
  BY Zenon DEF FlushInv
<1> DEFINE m == i[d]
<1>1. m \in 1..Loops /\ m \in 0..Loops
  BY ServerAssumption DEF Homes
<1> HIDE DEF m
<1>2. tasks[m][m] \in Seq(Task) /\ Followed(tasks[m][m], T("flush", d), T("remove", d))
  BY <1>1, Zenon DEF Queues, FlushesFirst, m
<1>3. CASE l = m /\ k = m
  <2>1. ts[m][m] = Tail(tasks[m][m]) /\ tasks[m][m] # <<>>
    BY <1>1, <1>3, Zenon DEF Takes, Queues
  <2>2. Followed(Tail(tasks[m][m]), T("flush", d), T("remove", d))
    BY ONLY <1>2, <2>1, FollowedTail
  <2> QED BY ONLY <2>1, <2>2 DEF FlushesFirst, m
<1>4. CASE ~(l = m /\ k = m)
  <2>1. ts[m][m] = tasks[m][m]
    BY <1>1, <1>4, Zenon DEF Takes, Queues
  <2> QED BY ONLY <1>2, <2>1 DEF FlushesFirst, m
<1> QED BY <1>3, <1>4

\* A task is posted that does not flush this codec.
LEMMA PostFlushes ==
  ASSUME NEW i \in Homes, NEW ts \in Queues, NEW l \in 1..Loops, NEW k \in 0..Loops,
         NEW o \in {"open", "remove", "reply", "flush", "late"}, NEW c \in Conns, NEW d \in Conns, T(o, c) # T("flush", d)
  PROVE  /\ FlushesFirst(ts, i, d) => FlushesFirst(Post(ts, k, l, o, c), i, d)
         /\ o = "remove" /\ c = d /\ l = i[d] /\ k = i[d] => FlushesFirst(Post(ts, k, l, o, c), i, d)
<1> DEFINE m == i[d]
           x == T("flush", d)
           z == T(o, c)
           q == ts[m][m]
           t2 == Post(ts, k, l, o, c)
<1>1. m \in 1..Loops /\ m \in 0..Loops
  BY ServerAssumption DEF Homes
<1>2. q \in Seq(Task) /\ z \in Task /\ x # z
  BY <1>1, Zenon DEF Queues, T, Task
<1>3. (l = m /\ k = m => t2[m][m] = Append(q, z)) /\ (~(l = m /\ k = m) => t2[m][m] = q)
  <2>1. /\ \A a \in 1..Loops, b \in 0..Loops : a # l \/ b # k => t2[a][b] = ts[a][b]
        /\ t2[l][k] = Append(ts[l][k], z)
    BY Zenon DEF Post, Queues, T
  <2> HIDE DEF m, z, t2
  <2> QED BY ONLY <1>1, <2>1, Zenon DEF q
<1> HIDE DEF m, x, z, q, t2
<1>4. (\A y : Followed(q, x, y) => Followed(Append(q, z), x, y)) /\ Followed(Append(q, z), x, z)
  BY ONLY <1>2, FollowedAppend
<1>5. FlushesFirst(ts, i, d) => FlushesFirst(t2, i, d)
  BY ONLY <1>3, <1>4, Zenon DEF FlushesFirst, m, x, q
<1>6. o = "remove" /\ c = d /\ l = m /\ k = m => FlushesFirst(t2, i, d)
  BY ONLY <1>3, <1>4, Zenon DEF FlushesFirst, m, x, z
<1> QED BY ONLY <1>5, <1>6 DEF m, t2

\* Tasks that close codecs are appended.
LEMMA ExtendFlushes ==
  ASSUME NEW i \in Homes, NEW s, NEW st, NEW ts \in Queues, NEW t2, FlushInv(ts, st, i, s),
         \A m \in 1..Loops, n \in 0..Loops : Grows(ts[m][n], t2[m][n])
  PROVE  FlushInv(t2, st, i, s)
<1> SUFFICES ASSUME NEW d \in Conns, FlushesFirst(ts, i, d) PROVE FlushesFirst(t2, i, d)
  BY Zenon DEF FlushInv
<1> DEFINE m == i[d]
<1>1. m \in 1..Loops /\ m \in 0..Loops
  BY ServerAssumption DEF Homes
<1> HIDE DEF m
<1>2. ts[m][m] \in Seq(Task) /\ Followed(ts[m][m], T("flush", d), T("remove", d))
  BY <1>1, Zenon DEF Queues, FlushesFirst, m
<1>3. PICK r \in Seq(Task) : t2[m][m] = ts[m][m] \o r /\ \A x \in Range(r) : x.op = "close"
  BY <1>1, Zenon DEF Grows
<1>4. T("flush", d) \notin Range(r)
  BY <1>3, TaskFields
<1>5. Followed(ts[m][m] \o r, T("flush", d), T("remove", d))
  BY ONLY <1>2, <1>4, r \in Seq(Task), FollowedJoin
<1> QED BY ONLY <1>3, <1>5 DEF FlushesFirst, m
=============================================================================
