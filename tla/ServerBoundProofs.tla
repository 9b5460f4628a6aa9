------------------------- MODULE ServerBoundProofs --------------------------
(***************************************************************************)
(* For any number of loops and connections and any limit: the server       *)
(* keeps its limit of connections up to the services that accept at once,  *)
(* and reports its end once but for the connections that are reported as   *)
(* closed again.                                                           *)
(***************************************************************************)
EXTENDS ServerProofs

-----------------------------------------------------------------------------
(* The limit of connections.                                               *)

\* The loops between the test of the limit and the count
Accepting == {l \in 1..Loops : \E c \in Conns : busy[l] = <<"accept", c>>}

\* Each of them has found room for one connection more: what is counted and what is about
\* to be counted is bounded together.
LimitInv ==
  /\ kClientConnLimit \in Nat /\ client_count_ \in Int
  /\ busy \in [1..Loops -> {Idle} \cup ({"accept", "use"} \X Conns)]
  /\ Accepting \subseteq Services
  /\ client_count_ + Cardinality(Accepting) <= kClientConnLimit + Cardinality(Services) - 1

\* The services are finite and at least one.
LEMMA ServicesFinite == IsFiniteSet(Services) /\ Cardinality(Services) \in Nat /\ Cardinality(Services) >= 1
<1>1. CASE reuse_port
  <2>1. IsFiniteSet(1..Loops) /\ Cardinality(1..Loops) = Loops
    BY FS_Interval, ServerAssumption, 1 \in Int, Loops \in Int
  <2> QED BY <1>1, <2>1, ServerAssumption DEF Services
<1>2. CASE ~reuse_port
  <2>1. IsFiniteSet({1}) /\ Cardinality({1}) = 1
    BY FS_Singleton
  <2> QED BY <1>2, <2>1 DEF Services
<1> QED BY <1>1, <1>2

\* A step that lets no loop pass the test and counts no connection keeps the bound.
LEMMA KeepsBound ==
  ASSUME LimitInv, UNCHANGED build, client_count_' \in Int, client_count_' <= client_count_,
         busy' \in [1..Loops -> {Idle} \cup ({"accept", "use"} \X Conns)], Accepting' \subseteq Accepting
  PROVE  LimitInv'
<1>1. Services' = Services /\ kClientConnLimit' = kClientConnLimit
  BY DEF build, Services
<1>2. IsFiniteSet(Accepting) /\ Cardinality(Accepting) \in Nat
  BY ServicesFinite, FS_Subset, FS_CardinalityType DEF LimitInv
<1>3. Cardinality(Accepting') \in Nat /\ Cardinality(Accepting') <= Cardinality(Accepting)
  BY <1>2, FS_Subset, FS_CardinalityType
<1> QED BY <1>1, <1>2, <1>3, ServicesFinite DEF LimitInv

\* A loop that passes the test is one of the services, which bound the loops between test
\* and count.
LEMMA AcceptKeeps ==
  ASSUME LimitInv, NEW s \in Services, NEW c \in Conns, Accept(s, c)
  PROVE  LimitInv'
<1>1. Services' = Services /\ kClientConnLimit' = kClientConnLimit /\ client_count_' = client_count_
  BY DEF Accept, build, server, Services
<1>2. CASE ~CanCreateNewChannel
  <2>1. busy' = busy
    BY <1>2 DEF Accept
  <2> QED BY <1>1, <2>1 DEF LimitInv, Accepting
<1>3. CASE CanCreateNewChannel
  <2>1. busy' = [busy EXCEPT ![s] = <<"accept", c>>]
    BY <1>3 DEF Accept
  <2>2. Accepting' \subseteq Services
    BY <2>1 DEF LimitInv, Accepting
  <2>3. Cardinality(Accepting') \in Nat /\ Cardinality(Accepting') <= Cardinality(Services)
    BY <2>2, ServicesFinite, FS_Subset, FS_CardinalityType
  <2>4. client_count_ <= kClientConnLimit - 1
    BY <1>3 DEF CanCreateNewChannel, LimitInv
  <2>5. busy' \in [1..Loops -> {Idle} \cup ({"accept", "use"} \X Conns)]
    BY <2>1, Zenon DEF LimitInv
  <2> QED BY <1>1, <2>2, <2>3, <2>4, <2>5, ServicesFinite DEF LimitInv
<1> QED BY <1>2, <1>3

\* The connection that is counted was about to be counted.
LEMMA CreateKeeps ==
  ASSUME LimitInv, NEW l \in 1..Loops, NEW c \in Conns, CreateAndStore(l, c)
  PROVE  LimitInv'
<1>1. Services' = Services /\ kClientConnLimit' = kClientConnLimit /\ client_count_' = client_count_ + 1
  BY DEF CreateAndStore, build, Services
<1>2. busy' = [busy EXCEPT ![l] = Idle] /\ busy[l] = <<"accept", c>>
  BY DEF CreateAndStore
<1>3. l \in Accepting
  BY <1>2 DEF Accepting
<1>4. Accepting' = Accepting \ {l}
  <2>1. \A d \in Conns : Idle # <<"accept", d>>
    BY ServerAssumption
  <2>2. busy'[l] = Idle /\ \A k \in 1..Loops \ {l} : busy'[k] = busy[k]
    BY <1>2 DEF LimitInv
  <2> QED BY <2>1, <2>2 DEF Accepting
<1>5. IsFiniteSet(Accepting) /\ Cardinality(Accepting) \in Nat
  BY ServicesFinite, FS_Subset, FS_CardinalityType DEF LimitInv
<1>6. Cardinality(Accepting') = Cardinality(Accepting) - 1
  BY <1>3, <1>4, <1>5, FS_RemoveElement
<1>7. busy' \in [1..Loops -> {Idle} \cup ({"accept", "use"} \X Conns)]
  BY <1>2 DEF LimitInv
<1> QED BY <1>1, <1>4, <1>5, <1>6, <1>7, ServicesFinite DEF LimitInv

\* A task counts no connection, and leaves what the loops are in the middle of.
LEMMA TaskKeeps ==
  ASSUME LimitInv, NEW l \in 1..Loops, RunTask(l)
  PROVE  LimitInv'
<1>1. UNCHANGED build
  BY DEF RunTask, build
<1>2. PICK k \in 0..Loops :
        LET task == Head(tasks[l][k])
            ts == [tasks EXCEPT ![l][k] = Tail(@)]
        IN  \/ Start(l, ts) \/ Stop(l, ts) \/ Open(task.on, ts) \/ Close(task.on, ts)
            \/ RemoveProtocolService(l, task.on, ts) \/ Reply(task.on, ts) \/ Flush(task.on, ts)
  BY Zenon DEF RunTask
<1> DEFINE task == Head(tasks[l][k])
           ts == [tasks EXCEPT ![l][k] = Tail(@)]
<1>3. busy' = busy
  BY <1>2, Zenon DEF Start, Stop, Open, Close, RemoveProtocolService, Reply, Flush
<1>4. client_count_' \in Int /\ client_count_' <= client_count_
  <2>1. CASE RemoveProtocolService(l, task.on, ts)
    BY <2>1 DEF RemoveProtocolService, LimitInv
  <2>2. CASE ~RemoveProtocolService(l, task.on, ts)
    <3>1. client_count_' = client_count_
      BY <1>2, <2>2, Zenon DEF Start, Stop, Open, Close, Reply, Flush, SendResponse, ReplyAndClose, CloseService, OnCodecClosed, server
    <3> QED BY <3>1 DEF LimitInv
  <2> QED BY <2>1, <2>2
<1>5. Accepting' = Accepting
  BY <1>3 DEF Accepting
<1> QED BY <1>1, <1>3, <1>4, <1>5, KeepsBound DEF LimitInv

\* HandleEvent is not about accepting.
LEMMA HandleEventKeeps ==
  ASSUME LimitInv, NEW c \in Conns, HandleEventCloses(c) \/ HandleEventEnds(c)
  PROVE  LimitInv'
<1>1. UNCHANGED build /\ client_count_' = client_count_
  BY Zenon DEF HandleEventCloses, HandleEventEnds, ReplyAndClose, CloseService, OnCodecClosed
<1>2. PICK v \in {Idle, <<"use", c>>} : busy' = [busy EXCEPT ![io[c]] = v]
  BY Zenon DEF HandleEventCloses, HandleEventEnds
<1>3. \A d \in Conns : v # <<"accept", d>>
  BY ServerAssumption
<1>4. Accepting' \subseteq Accepting
  BY <1>2, <1>3 DEF Accepting, LimitInv
<1>5. busy' \in [1..Loops -> {Idle} \cup ({"accept", "use"} \X Conns)]
  <2>1. v \in {Idle} \cup ({"accept", "use"} \X Conns)
    OBVIOUS
  <2> QED BY <1>2, <2>1, Zenon DEF LimitInv
<1> QED BY <1>1, <1>4, <1>5, KeepsBound DEF LimitInv

\* The limit of connections is passed by no more than the services that were between
\* CanCreateNewChannel and IncreaseChannelCount, for any number of loops.
THEOREM LimitTheorem == Spec => []LimitHolds
<1>1. Init => LimitInv
  <2> SUFFICES ASSUME Init PROVE LimitInv
    OBVIOUS
  <2>1. kClientConnLimit \in Nat /\ client_count_ = 0 /\ busy = [l \in 1..Loops |-> Idle]
    BY ServerAssumption, Zenon DEF Init
  <2>2. Accepting = {}
    <3>1. \A d \in Conns : Idle # <<"accept", d>>
      BY ServerAssumption
    <3> QED BY <2>1, <3>1, Zenon DEF Accepting
  <2>3. Cardinality(Accepting) = 0
    BY <2>2, FS_EmptySet
  <2> QED BY <2>1, <2>2, <2>3, ServicesFinite DEF LimitInv
<1>2. LimitInv /\ [Next]_vars => LimitInv'
  <2> SUFFICES ASSUME LimitInv, [Next]_vars PROVE LimitInv'
    OBVIOUS
  <2>1. CASE \/ ServeAddress \/ StopServer \/ UNCHANGED vars
             \/ \E c \in Conns : \/ PeerEnds(c) \/ HandleRequest(c) \/ ReplyInLoop(c)
                                \/ \E k \in 0..Loops : PostReply(c, k)
    <3>1. UNCHANGED build /\ busy' = busy /\ client_count_' = client_count_
      <4>1. CASE ServeAddress \/ StopServer \/ UNCHANGED vars
        BY <4>1, Zenon DEF ServeAddress, StopServer, vars, server
      <4>2. CASE \E c \in Conns : HandleRequest(c) \/ \E k \in 0..Loops : PostReply(c, k)
        BY <4>2, Zenon DEF HandleRequest, PostReply, server
      <4>3. CASE \E c \in Conns : PeerEnds(c) \/ ReplyInLoop(c)
        BY <4>3, Zenon DEF PeerEnds, ReplyInLoop, SendResponse, ReplyAndClose, CloseService, OnCodecClosed
      <4> QED BY <2>1, <4>1, <4>2, <4>3, Zenon
    <3>2. Accepting' = Accepting
      BY <3>1 DEF Accepting
    <3> QED BY <3>1, <3>2, KeepsBound DEF LimitInv
  <2>2. ASSUME NEW l \in 1..Loops, Progress(l) PROVE LimitInv'
    BY <2>2, TaskKeeps, CreateKeeps, HandleEventKeeps DEF Progress
  <2>3. ASSUME NEW c \in Conns, (\E s \in Services : Accept(s, c)) \/ HandleEventCloses(c)
        PROVE  LimitInv'
    BY <2>3, AcceptKeeps, HandleEventKeeps
  <2> QED BY <2>1, <2>2, <2>3 DEF Next
<1>3. LimitInv => LimitHolds
  <2> SUFFICES ASSUME LimitInv PROVE LimitHolds
    OBVIOUS
  <2>1. Cardinality(Accepting) \in Nat
    BY ServicesFinite, FS_Subset, FS_CardinalityType DEF LimitInv
  <2> QED BY <2>1, ServicesFinite DEF LimitInv, LimitHolds
<1> QED BY <1>1, <1>2, <1>3, PTL DEF Spec

-----------------------------------------------------------------------------
(* How often the end is reported.                                          *)

\* The removals of a connection that were reported but not run, and that are done; those of
\* them that found the codec removed; whether none can be done yet
Pending(ts, c) == Count(ts[service[c]][io[c]], T("remove", c))
Done(c) == notified[c] - Pending(tasks, c)
Extra == UNION {{c} \X (1..Done(c) - 1) : c \in Conns}
Kept(c) == status[c] \in {"none", "refused", "checked"} \/ c \in codecs_[service[c]]
AllStopped == serving # "no" /\ ioservices_ = {}

\* The services report once, and once more at most for each removal that found nothing.
ReportInv ==
  /\ notified \in [Conns -> Nat] /\ IsFiniteSet(Again)
  /\ \A c \in Conns : Done(c) \in Nat /\ (Done(c) = 0 <=> Kept(c))
  /\ callbacks <= (IF AllStopped THEN 1 ELSE 0) + Cardinality(Extra)

\* A task is taken: one removal less is pending when it is one.
LEMMA TakesPending ==
  ASSUME ServerInv, NEW l \in 1..Loops, NEW k \in 0..Loops, NEW task, NEW ts, Takes(l, k, task, ts), NEW d \in Conns
  PROVE  /\ Pending(tasks, d) = Pending(ts, d) + (IF task = T("remove", d) THEN 1 ELSE 0)
         /\ Pending(tasks, d) \in Nat /\ Pending(ts, d) \in Nat
<1>t. Taken(l, k, task, ts)
  BY TakesHead
<1>1. /\ QueueInv(ts, status, io, service) /\ Fits(task, l, k, status, io, service)
  BY ONLY <1>t DEF Taken
<1>2. /\ tasks \in Queues /\ ts \in Queues /\ service[d] \in 1..Loops /\ io[d] \in 0..Loops
  BY <1>1, AtHome DEF ServerInv, QueueInv
<1> DEFINE m == service[d]
           n == io[d]
           x == T("remove", d)
<1>3. tasks[m][n] \in Seq(Task) /\ ts[m][n] \in Seq(Task)
  BY <1>2, Zenon DEF Queues
<1>4. Count(tasks[m][n], x) \in Nat /\ Count(ts[m][n], x) \in Nat
  BY <1>3, CountType, Zenon
<1>5. CASE l = m /\ k = n
  <2>1. task = Head(tasks[m][n]) /\ ts[m][n] = Tail(tasks[m][n]) /\ tasks[m][n] # <<>>
    BY <1>2, <1>5, Zenon DEF Takes, Queues
  <2>2. Count(tasks[m][n], x) = Count(Tail(tasks[m][n]), x) + (IF Head(tasks[m][n]) = x THEN 1 ELSE 0)
    BY <1>3, <2>1, CountTail
  <2> HIDE DEF m, n, x
  <2>3. Count(tasks[m][n], x) = Count(ts[m][n], x) + (IF task = x THEN 1 ELSE 0)
    BY <2>1, <2>2
  <2> QED BY <1>4, <2>3 DEF Pending, m, n, x
<1>6. CASE ~(l = m /\ k = n)
  <2>1. ts[m][n] = tasks[m][n]
    BY <1>2, <1>6, Zenon DEF Takes, Queues
  <2>2. task # x
    BY <1>1, <1>6, TaskFields DEF Fits
  <2> HIDE DEF m, n, x
  <2>3. Count(tasks[m][n], x) = Count(ts[m][n], x) + (IF task = x THEN 1 ELSE 0)
    BY <1>4, <2>1, <2>2
  <2> QED BY <1>4, <2>3 DEF Pending, m, n, x
<1> QED BY <1>5, <1>6

\* A task about a connection is posted.
LEMMA PostPending ==
  ASSUME io \in Homes, service \in Homes, NEW ts \in Queues, NEW l \in 1..Loops, NEW k \in 0..Loops,
         NEW o \in {"open", "remove", "reply", "flush", "late"}, NEW c \in Conns, o = "remove" => l = service[c] /\ k = io[c], NEW d \in Conns
  PROVE  /\ Pending(Post(ts, k, l, o, c), d) = Pending(ts, d) + (IF o = "remove" /\ c = d THEN 1 ELSE 0)
         /\ Pending(ts, d) \in Nat
<1> DEFINE m == service[d]
           n == io[d]
           x == T("remove", d)
           t2 == Post(ts, k, l, o, c)
<1>1. m \in 1..Loops /\ n \in 0..Loops
  BY ServerAssumption DEF Homes
<1>2. ts[m][n] \in Seq(Task) /\ T(o, c) \in Task
  BY <1>1, Zenon DEF Queues, T, Task
<1>3. Count(ts[m][n], x) \in Nat
  BY <1>2, CountType, Zenon
<1>4. T(o, c) = x <=> o = "remove" /\ c = d
  BY TaskEq
<1>5. t2[m][n] = IF m = l /\ n = k THEN Append(ts[m][n], T(o, c)) ELSE ts[m][n]
  BY <1>1, Zenon DEF Post, Queues, T
<1>6. Count(Append(ts[m][n], T(o, c)), x) = Count(ts[m][n], x) + (IF T(o, c) = x THEN 1 ELSE 0)
  BY <1>2, CountAppend
<1>7. o = "remove" /\ c = d => m = l /\ n = k
  OBVIOUS
<1> HIDE DEF m, n, x, t2
<1>8. Count(t2[m][n], x) = Count(ts[m][n], x) + (IF o = "remove" /\ c = d THEN 1 ELSE 0)
  BY <1>3, <1>4, <1>5, <1>6, <1>7
<1> QED BY <1>3, <1>8 DEF Pending, m, n, x, t2

\* OnCodecClosed adds to what is pending and to what is reported.
LEMMA ReportPending ==
  ASSUME io \in Homes, service \in Homes, NEW ts \in Queues, NEW c \in Conns, notified \in [Conns -> Nat],
         OnCodecClosed(ts, c), NEW d \in Conns
  PROVE  notified'[d] - Pending(tasks', d) = notified[d] - Pending(ts, d)
<1>1. tasks' = Post(ts, io[c], service[c], "remove", c) /\ notified' = [notified EXCEPT ![c] = @ + 1]
  BY DEF OnCodecClosed
<1>2. io[c] \in 0..Loops /\ service[c] \in 1..Loops /\ "remove" \in {"open", "remove", "reply", "flush", "late"}
  BY ServerAssumption DEF Homes
<1>3. /\ Pending(Post(ts, io[c], service[c], "remove", c), d) = Pending(ts, d) + (IF c = d THEN 1 ELSE 0)
      /\ Pending(ts, d) \in Nat
  BY <1>2, PostPending
<1>4. notified'[d] = notified[d] + (IF c = d THEN 1 ELSE 0) /\ notified[d] \in Nat
  BY <1>1
<1>5. Pending(tasks', d) = Pending(ts, d) + (IF c = d THEN 1 ELSE 0)
  BY <1>1, <1>3
<1> QED BY <1>3, <1>4, <1>5

\* Reports are finitely many.
LEMMA AgainFinite ==
  ASSUME notified \in [Conns -> Nat], IsFiniteSet(Again), NEW c \in Conns, notified' = [notified EXCEPT ![c] = @ + 1]
  PROVE  IsFiniteSet(Again') /\ notified' \in [Conns -> Nat]
<1>1. \A d \in Conns : notified[d] \in Nat /\ notified'[d] = IF d = c THEN notified[d] + 1 ELSE notified[d]
  OBVIOUS
<1>2. Again' \subseteq Again \cup {<<c, notified[c]>>}
  <2> SUFFICES ASSUME NEW p \in Again' PROVE p \in Again \cup {<<c, notified[c]>>}
    OBVIOUS
  <2>1. PICK d \in Conns : p \in {d} \X (1..notified'[d] - 1)
    BY DEF Again
  <2>2. p = <<d, p[2]>> /\ p[2] \in 1..notified'[d] - 1
    BY <2>1
  <2>3. p[2] \in 1..notified[d] - 1 \/ (d = c /\ p[2] = notified[c])
    BY <1>1, <2>2
  <2>4. CASE p[2] \in 1..notified[d] - 1
    <3>1. p \in {d} \X (1..notified[d] - 1)
      BY <2>2, <2>4
    <3> QED BY <3>1 DEF Again
  <2>5. CASE d = c /\ p[2] = notified[c]
    BY <2>2, <2>5
  <2> QED BY <2>3, <2>4, <2>5
<1>3. IsFiniteSet(Again \cup {<<c, notified[c]>>})
  BY FS_AddElement, Zenon
<1>4. IsFiniteSet(Again')
  BY <1>2, <1>3, FS_Subset
<1> QED BY <1>1, <1>4

\* What is extra was reported again.
LEMMA ExtraFinite ==
  ASSUME ServerInv, ReportInv
  PROVE  /\ Extra \subseteq Again /\ IsFiniteSet(Extra) /\ Cardinality(Extra) \in Nat
         /\ Cardinality(Again) \in Nat /\ Cardinality(Extra) <= Cardinality(Again)
<1>1. ASSUME NEW d \in Conns PROVE Done(d) <= notified[d] /\ Done(d) \in Nat /\ notified[d] \in Nat
  <2>1. tasks[service[d]][io[d]] \in Seq(Task)
    BY AtHome, Zenon DEF ServerInv, QueueInv, Queues
  <2>2. Pending(tasks, d) \in Nat
    BY <2>1, CountType, Zenon DEF Pending
  <2>3. notified[d] \in Nat
    BY DEF ReportInv
  <2> QED BY <2>2, <2>3 DEF Done, ReportInv
<1>2. Extra \subseteq Again
  <2> SUFFICES ASSUME NEW p \in Extra PROVE p \in Again
    OBVIOUS
  <2>1. PICK d \in Conns : p \in {d} \X (1..Done(d) - 1)
    BY DEF Extra
  <2>2. 1..Done(d) - 1 \subseteq 1..notified[d] - 1
    BY <1>1
  <2>3. p \in {d} \X (1..notified[d] - 1)
    BY <2>1, <2>2
  <2> QED BY <2>3 DEF Again
<1>3. IsFiniteSet(Again) /\ Cardinality(Again) \in Nat
  BY FS_CardinalityType DEF ReportInv
<1> QED BY <1>2, <1>3, FS_Subset, FS_CardinalityType

\* A step that does no removal, and calls closed_callback_ at most for the first time
LEMMA ReportFrame ==
  ASSUME ServerInv, ReportInv, notified' \in [Conns -> Nat], IsFiniteSet(Again'),
         \A d \in Conns : Done(d)' = Done(d) /\ (Kept(d)' <=> Kept(d)),
         \/ callbacks' = callbacks /\ (AllStopped => AllStopped')
         \/ callbacks' <= (IF AllStopped' THEN 1 ELSE 0) /\ callbacks' \in Nat
  PROVE  ReportInv'
<1>1. Extra' = Extra
  BY DEF Extra
<1>2. Cardinality(Extra) \in Nat /\ callbacks \in Nat
  BY ExtraFinite DEF ServerInv, PhaseInv
<1>3. callbacks' <= (IF AllStopped' THEN 1 ELSE 0) + Cardinality(Extra)
  BY <1>2 DEF ReportInv
<1>4. \A d \in Conns : Done(d)' \in Nat /\ (Done(d)' = 0 <=> Kept(d)')
  BY DEF ReportInv
<1> QED BY <1>1, <1>3, <1>4 DEF ReportInv

\* What the steps of a codec on its loop have in common
LEMMA CodecReports ==
  ASSUME ServerInv, ReportInv, NEW c \in Conns, status[c] \in {"open", "closed"},
         NEW w \in {status[c], "closed"}, status' = [status EXCEPT ![c] = w],
         UNCHANGED <<serving, server, io, service>>,
         NEW ts \in Queues, \A d \in Conns : Pending(ts, d) = Pending(tasks, d),
         OnCodecClosed(ts, c) \/ (tasks' = ts /\ notified' = notified)
  PROVE  ReportInv'
<1>0. /\ codecs_' = codecs_ /\ ioservices_' = ioservices_ /\ callbacks' = callbacks /\ serving' = serving
      /\ io' = io /\ service' = service /\ io \in Homes /\ service \in Homes
      /\ notified \in [Conns -> Nat] /\ IsFiniteSet(Again)
  BY AtHome DEF server, ServerInv, ReportInv
<1>1. \A d \in Conns : Kept(d)' <=> Kept(d)
  <2>1. \A d \in Conns : status'[d] = IF d = c THEN w ELSE status[d]
    BY DEF ServerInv, ConnTypes
  <2> QED BY <1>0, <2>1 DEF Kept
<1>2. AllStopped' <=> AllStopped
  BY <1>0 DEF AllStopped
<1>3. ASSUME NEW d \in Conns PROVE Pending(tasks, d)' = Pending(tasks', d)
  BY <1>0 DEF Pending
<1>4. CASE OnCodecClosed(ts, c)
  <2>1. notified' \in [Conns -> Nat] /\ IsFiniteSet(Again')
    <3>1. notified' = [notified EXCEPT ![c] = @ + 1]
      BY <1>4 DEF OnCodecClosed
    <3> QED BY <1>0, <3>1, AgainFinite, Zenon
  <2>2. ASSUME NEW d \in Conns PROVE Done(d)' = Done(d)
    <3>1. notified'[d] - Pending(tasks', d) = notified[d] - Pending(ts, d)
      BY <1>0, <1>4, ReportPending
    <3> QED BY <3>1, <1>3 DEF Done
  <2> QED BY <1>0, <1>1, <1>2, <2>1, <2>2, ReportFrame
<1>5. CASE tasks' = ts /\ notified' = notified
  <2>1. notified' \in [Conns -> Nat] /\ IsFiniteSet(Again')
    BY <1>0, <1>5 DEF Again
  <2>2. \A d \in Conns : Done(d)' = Done(d)
    BY <1>3, <1>5 DEF Done
  <2> QED BY <1>0, <1>1, <1>2, <2>1, <2>2, ReportFrame
<1> QED BY <1>4, <1>5

\* ServeAddress, StopServer, and what changes no task
LEMMA ApplicationReports ==
  ASSUME ServerInv, ReportInv, ServeAddress \/ StopServer
  PROVE  ReportInv'
<1>0. /\ codecs_' = codecs_ /\ callbacks' = callbacks /\ status' = status /\ io' = io /\ service' = service /\ notified' = notified
      /\ (AllStopped => AllStopped')
      /\ \E o, S : tasks' = PostEach(o, S)
  BY DEF ServeAddress, StopServer, conns, server, AllStopped
<1>1. \A d \in Conns : io[d] \in 1..Loops /\ service[d] \in 1..Loops
  BY AtHome DEF ServerInv
<1>2. \A m, n \in 1..Loops : tasks'[m][n] = tasks[m][n]
  <2>1. PICK o, S : tasks' = PostEach(o, S)
    BY <1>0
  <2>2. tasks \in [1..Loops -> [0..Loops -> Seq(Task)]]
    BY DEF ServerInv, QueueInv, Queues
  <2> TAKE m, n \in 1..Loops
  <2>3. n \in 0..Loops /\ n # 0
    BY ServerAssumption
  <2>4. tasks'[m] = IF m \in S THEN [tasks[m] EXCEPT ![0] = Append(@, [op |-> o, on |-> m])] ELSE tasks[m]
    BY <2>1 DEF PostEach
  <2> QED BY <2>2, <2>3, <2>4
<1>3. \A d \in Conns : Done(d)' = Done(d) /\ (Kept(d)' <=> Kept(d))
  BY <1>0, <1>1, <1>2 DEF Done, Pending, Kept
<1>4. notified' \in [Conns -> Nat] /\ IsFiniteSet(Again')
  BY <1>0 DEF ReportInv, Again
<1> QED BY <1>0, <1>3, <1>4, ReportFrame

LEMMA AcceptReports ==
  ASSUME ServerInv, ReportInv, NEW l \in Services, NEW c \in Conns, Accept(l, c)
  PROVE  ReportInv'
<1>0. /\ codecs_' = codecs_ /\ callbacks' = callbacks /\ io' = io /\ service' = service /\ notified' = notified /\ tasks' = tasks
      /\ serving' = serving /\ ioservices_' = ioservices_ /\ status[c] = "none"
  BY DEF Accept, server
<1>1. PICK v \in {"checked", "refused"} : status' = [status EXCEPT ![c] = v]
  BY DEF Accept
<1>2. \A d \in Conns : status'[d] = IF d = c THEN v ELSE status[d]
  BY <1>1 DEF ServerInv, ConnTypes
<1>3. \A d \in Conns : Done(d)' = Done(d) /\ (Kept(d)' <=> Kept(d))
  BY <1>0, <1>2 DEF Done, Pending, Kept
<1>4. notified' \in [Conns -> Nat] /\ IsFiniteSet(Again') /\ (AllStopped => AllStopped')
  BY <1>0 DEF ReportInv, Again, AllStopped
<1> QED BY <1>0, <1>3, <1>4, ReportFrame

\* The connection that is stored was not reported.
LEMMA StoreReports ==
  ASSUME ServerInv, ReportInv, NEW l \in 1..Loops, NEW c \in Conns, CreateAndStore(l, c)
  PROVE  ReportInv'
<1>0. /\ callbacks' = callbacks /\ notified' = notified /\ serving' = serving /\ ioservices_' = ioservices_
      /\ codecs_' = [codecs_ EXCEPT ![l] = @ \cup {c}] /\ status' = [status EXCEPT ![c] = "new"]
      /\ service' = [service EXCEPT ![c] = l] /\ busy[l] = <<"accept", c>> /\ tasks' = Post(tasks, l, io'[c], "open", c)
      /\ io' = [io EXCEPT ![c] = GetNextIOWorkLoop(l)]
  BY DEF CreateAndStore
<1>1. status[c] = "checked" /\ notified \in [Conns -> Nat] /\ io \in Homes /\ service \in Homes
  BY <1>0, AtHome DEF ServerInv, BusyInv, ReportInv
<1>2. io' \in Homes /\ service' \in Homes /\ l \in 0..Loops /\ tasks \in Queues
  <2>1. GetNextIOWorkLoop(l) \in 1..Loops
    BY ServerAssumption DEF GetNextIOWorkLoop, ServerInv, ConnTypes
  <2>2. l \in 0..Loops
    BY ServerAssumption
  <2> QED BY <1>0, <1>1, <2>1, <2>2 DEF Homes, ServerInv, QueueInv
<1>3. \A d \in Conns : /\ status'[d] = IF d = c THEN "new" ELSE status[d]
                       /\ service'[d] = IF d = c THEN l ELSE service[d]
                       /\ d # c => io'[d] = io[d]
                       /\ service[d] \in 1..Loops /\ io[d] \in 0..Loops /\ service'[d] \in 1..Loops /\ io'[d] \in 0..Loops
  BY <1>0, <1>1, <1>2, ServerAssumption DEF ServerInv, ConnTypes, Homes
<1>4. \A m \in 1..Loops : codecs_'[m] = IF m = l THEN codecs_[m] \cup {c} ELSE codecs_[m]
  BY <1>0, Zenon DEF ServerInv, ConnTypes
<1>5. \A d \in Conns : Kept(d)' <=> Kept(d)
  <2> TAKE d \in Conns
  <2>1. CASE d = c
    <3>1. c \in codecs_'[l]
      BY <1>4, Zenon
    <3> QED BY <1>1, <1>3, <2>1, <3>1 DEF Kept
  <2>2. CASE d # c
    <3>1. d \in codecs_'[service[d]] <=> d \in codecs_[service[d]]
      <4>1. service[d] \in 1..Loops
        BY <1>3
      <4> QED BY <1>4, <2>2, <4>1, Zenon
    <3> QED BY <1>3, <2>2, <3>1 DEF Kept
  <2> QED BY <2>1, <2>2
<1>6. ASSUME NEW m \in 1..Loops, NEW n \in 0..Loops, NEW d \in Conns
      PROVE  Count(tasks'[m][n], T("remove", d)) = Count(tasks[m][n], T("remove", d))
  <2> DEFINE h == io'[c]
  <2>0. h \in 1..Loops
    BY <1>2 DEF Homes
  <2> HIDE DEF h
  <2>1. tasks'[m][n] = IF m = h /\ n = l THEN Append(tasks[m][n], T("open", c)) ELSE tasks[m][n]
    <3>1. tasks' = Post(tasks, l, h, "open", c)
      BY <1>0 DEF h
    <3> QED BY ONLY <1>2, <2>0, <3>1, m \in 1..Loops, n \in 0..Loops, Zenon DEF Post, Queues, T
  <2>2. tasks[m][n] \in Seq(Task) /\ T("open", c) \in Task /\ T("open", c) # T("remove", d)
    <3>1. T("open", c) # T("remove", d)
      BY TaskEq
    <3> QED BY <1>2, <3>1, Zenon DEF Queues, T, Task
  <2>3. Count(tasks[m][n], T("remove", d)) \in Nat
    BY <2>2, CountType, Zenon
  <2>4. Count(Append(tasks[m][n], T("open", c)), T("remove", d)) = Count(tasks[m][n], T("remove", d)) + 0
    BY <2>2, CountAppend
  <2> QED BY <2>1, <2>3, <2>4
<1>7. ASSUME NEW d \in Conns PROVE Done(d)' = Done(d)
  <2>1. CASE d # c
    <3>1. Pending(tasks, d)' = Pending(tasks, d)
      <4>1. /\ service'[d] = service[d] /\ io'[d] = io[d]
            /\ Count(tasks'[service[d]][io[d]], T("remove", d)) = Count(tasks[service[d]][io[d]], T("remove", d))
        BY <1>3, <1>6, <2>1
      <4> QED BY ONLY <4>1 DEF Pending
    <3>2. notified' = notified
      BY <1>0, Zenon
    <3> QED BY ONLY <3>1, <3>2, Zenon DEF Done
  <2>2. CASE d = c
    <3>1. \A m \in 1..Loops, n \in 0..Loops : T("remove", c) \notin Range(tasks[m][n])
      <4> SUFFICES ASSUME NEW m \in 1..Loops, NEW n \in 0..Loops, T("remove", c) \in Range(tasks[m][n]) PROVE FALSE
        OBVIOUS
      <4>1. Fits(T("remove", c), m, n, status, io, service)
        BY Zenon DEF ServerInv, QueueInv
      <4>2. T("remove", c).op = "remove" /\ T("remove", c).on = c
        BY TaskFields
      <4> QED BY ONLY <1>1, <4>1, <4>2 DEF Fits
    <3>2. \A m \in 1..Loops, n \in 0..Loops : Count(tasks[m][n], T("remove", c)) = 0
      <4> TAKE m \in 1..Loops, n \in 0..Loops
      <4>1. tasks[m][n] \in Seq(Task) /\ T("remove", c) \notin Range(tasks[m][n])
        BY <1>2, <3>1, Zenon DEF Queues
      <4> QED BY ONLY <4>1, CountType, Zenon
    <3>3. Pending(tasks, c)' = 0 /\ Pending(tasks, c) = 0
      <4>1. /\ service'[c] \in 1..Loops /\ io'[c] \in 0..Loops /\ service[c] \in 1..Loops /\ io[c] \in 0..Loops
        BY <1>3, Zenon
      <4>2. Count(tasks'[service'[c]][io'[c]], T("remove", c)) = 0 /\ Count(tasks[service[c]][io[c]], T("remove", c)) = 0
        BY <1>6, <3>2, <4>1
      <4> QED BY ONLY <4>2 DEF Pending
    <3>4. notified' = notified
      BY <1>0, Zenon
    <3> QED BY ONLY <2>2, <3>3, <3>4, Zenon DEF Done
  <2> QED BY <2>1, <2>2
<1>8. notified' \in [Conns -> Nat] /\ IsFiniteSet(Again') /\ (AllStopped => AllStopped')
  BY <1>0 DEF ReportInv, Again, AllStopped
<1> QED BY <1>0, <1>5, <1>7, <1>8, ReportFrame

\* A codec that was started is closed or answered on its loop, from queues p with the same
\* removals pending.
LEMMA AnswerReports ==
  ASSUME ServerInv, ReportInv, NEW c \in Conns, status[c] \in {"open", "closed"},
         UNCHANGED <<serving, ioservices_, listening_, is_stopping_, callbacks, io, service>>,
         NEW p \in Queues, \A d \in Conns : Pending(p, d) = Pending(tasks, d),
         \/ CloseService(c, p) \/ SendResponse(c, p) \/ ReplyAndClose(c, p)
         \/ tasks' = p /\ UNCHANGED <<codecs_, client_count_, status, notified>>
  PROVE  ReportInv'
<1>0. io \in Homes /\ service \in Homes /\ io[c] \in 1..Loops /\ io[c] \in 0..Loops /\ status = [status EXCEPT ![c] = status[c]]
  BY AtHome, Zenon DEF ServerInv, ConnTypes
<1>1. PICK ts : /\ \/ ts = p
                   \/ ts = Post(p, io[c], io[c], "flush", c)
                   \/ ts = Post(p, io[c], io[c], "late", c)
                /\ \/ OnCodecClosed(ts, c) /\ status' = [status EXCEPT ![c] = "closed"]
                   \/ tasks' = ts /\ notified' = notified /\ status' = status
                /\ UNCHANGED <<codecs_, client_count_>>
  <2>1. CASE SendResponse(c, p)
    <3>1. UNCHANGED <<codecs_, client_count_, status, notified>> /\ tasks' \in {p, PostFlush(p, c, "late"), PostFlush(p, c, "flush")}
      BY <2>1 DEF SendResponse
    <3> QED BY <3>1, Zenon DEF PostFlush
  <2>2. CASE ~SendResponse(c, p)
    BY <2>2, Zenon DEF CloseService, ReplyAndClose, PostFlush, OnCodecClosed
  <2> QED BY <2>1, <2>2
<1>2. ts \in Queues /\ \A d \in Conns : Pending(ts, d) = Pending(tasks, d)
  <2>1. CASE ts = p
    BY <2>1, Zenon
  <2>2. ASSUME NEW o \in {"flush", "late"}, ts = Post(p, io[c], io[c], o, c)
        PROVE  ts \in Queues /\ \A d \in Conns : Pending(ts, d) = Pending(tasks, d)
    <3>1. o \in {"open", "remove", "reply", "flush", "late"} /\ o # "remove"
      OBVIOUS
    <3>2. ts \in Queues
      BY <1>0, <2>2, <3>1, Posted, Zenon
    <3>3. ASSUME NEW d \in Conns PROVE Pending(ts, d) = Pending(p, d)
      <4>1. Pending(Post(p, io[c], io[c], o, c), d) = Pending(p, d) + 0 /\ Pending(p, d) \in Nat
        BY <1>0, <3>1, PostPending
      <4> QED BY ONLY <2>2, <4>1
    <3> QED BY <3>2, <3>3, Zenon
  <2> QED BY <1>1, <2>1, <2>2
<1>3. UNCHANGED <<serving, server, io, service>>
  BY <1>1, Zenon DEF server
<1> QED BY <1>0, <1>1, <1>2, <1>3, CodecReports, Zenon

\* HandleEvent on the loop of a codec
LEMMA EventReports ==
  ASSUME ServerInv, ReportInv, NEW c \in Conns, PeerEnds(c) \/ HandleEventCloses(c) \/ HandleEventEnds(c)
  PROVE  ReportInv'
<1>1. /\ \/ CloseService(c, tasks) \/ ReplyAndClose(c, tasks)
         \/ tasks' = tasks /\ UNCHANGED <<codecs_, client_count_, status, notified>>
      /\ UNCHANGED <<serving, ioservices_, listening_, is_stopping_, callbacks, io, service>>
  BY Zenon DEF PeerEnds, HandleEventCloses, HandleEventEnds
<1>2. status[c] \in {"open", "closed"}
  <2>1. status[c] = "open" \/ busy[io[c]] = <<"use", c>>
    BY Zenon DEF PeerEnds, HandleEventCloses, HandleEventEnds
  <2> QED BY <2>1, AtHome, Zenon DEF ServerInv, BusyInv
<1>3. tasks \in Queues
  BY Zenon DEF ServerInv, QueueInv
<1> QED BY <1>1, <1>2, <1>3, AnswerReports, Zenon

\* A request, and the replies of handlers
LEMMA RequestReports ==
  ASSUME ServerInv, ReportInv, NEW c \in Conns, HandleRequest(c) \/ ReplyInLoop(c) \/ \E k \in 0..Loops : PostReply(c, k)
  PROVE  ReportInv'
<1>0. tasks \in Queues /\ io \in Homes /\ service \in Homes /\ io[c] \in 1..Loops /\ io[c] \in 0..Loops
  BY AtHome, Zenon DEF ServerInv, QueueInv
<1>1. CASE HandleRequest(c)
  <2>1. /\ tasks' = tasks /\ UNCHANGED <<codecs_, client_count_, status, notified>> /\ status[c] \in {"open", "closed"}
        /\ UNCHANGED <<serving, ioservices_, listening_, is_stopping_, callbacks, io, service>>
    BY <1>1, Zenon DEF HandleRequest, server, conns
  <2> QED BY <1>0, <2>1, AnswerReports, Zenon
<1>2. CASE ReplyInLoop(c)
  <2>1. /\ \/ SendResponse(c, tasks) \/ ReplyAndClose(c, tasks)
           \/ tasks' = tasks /\ UNCHANGED <<codecs_, client_count_, status, notified>>
        /\ UNCHANGED <<serving, ioservices_, listening_, is_stopping_, callbacks, io, service>>
    BY <1>2, Zenon DEF ReplyInLoop
  <2>2. status[c] \in {"open", "closed"}
    BY <1>2, RepliesIs, Zenon DEF ReplyInLoop, ServerInv
  <2> QED BY <1>0, <2>1, <2>2, AnswerReports, Zenon
<1>3. ASSUME NEW k \in 0..Loops, PostReply(c, k) PROVE ReportInv'
  <2>1. /\ tasks' = tasks \/ tasks' = Post(tasks, k, io[c], "reply", c)
        /\ UNCHANGED <<serving, server, io, service>> /\ status' = status /\ notified' = notified
    BY <1>3, Zenon DEF PostReply, conns
  <2>2. status[c] \in {"open", "closed"} /\ status' = [status EXCEPT ![c] = status[c]]
    BY <1>3, <2>1, RepliesIs, Zenon DEF PostReply, ServerInv, ConnTypes
  <2>3. "reply" \in {"open", "remove", "reply", "flush", "late"}
    OBVIOUS
  <2>4. tasks' \in Queues
    <3>1. Post(tasks, k, io[c], "reply", c) \in Queues
      BY <1>0, <2>3, Posted, Zenon
    <3> QED BY ONLY <1>0, <2>1, <3>1, Zenon
  <2>5. ASSUME NEW d \in Conns PROVE Pending(tasks', d) = Pending(tasks, d)
    <3>1. Pending(Post(tasks, k, io[c], "reply", c), d) = Pending(tasks, d) + 0 /\ Pending(tasks, d) \in Nat
      BY <1>0, <2>3, PostPending
    <3> QED BY <2>1, <3>1
  <2> QED BY <2>1, <2>2, <2>4, <2>5, CodecReports, Zenon
<1> QED BY <1>1, <1>2, <1>3, Zenon

\* Close, the functor of a reply, and flush_fn_
LEMMA CodecTaskReports ==
  ASSUME ServerInv, ServerInv', ReportInv, NEW l \in 1..Loops, NEW k \in 0..Loops, NEW task, NEW ts, Takes(l, k, task, ts),
         UNCHANGED <<build, serving, index>>,
         \/ task.op = "close" /\ Close(task.on, ts)
         \/ task.op = "reply" /\ Reply(task.on, ts)
         \/ task.op \in {"flush", "late"} /\ Flush(task.on, ts)
  PROVE  ReportInv'
<1>t. Taken(l, k, task, ts)
  BY TakesHead
<1> DEFINE c == task.on
<1>1. ts \in Queues /\ Fits(task, l, k, status, io, service)
  BY <1>t DEF Taken, QueueInv
<1>2. /\ task = T(task.op, c) /\ c \in Conns /\ status[c] \in {"new", "open", "closed"}
      /\ task.op # "close" => status[c] \in {"open", "closed"}
  BY <1>1 DEF Fits
<1>3. \A d \in Conns : Pending(ts, d) = Pending(tasks, d)
  <2> TAKE d \in Conns
  <2>1. Pending(tasks, d) = Pending(ts, d) + (IF task = T("remove", d) THEN 1 ELSE 0) /\ Pending(ts, d) \in Nat
    BY TakesPending
  <2>2. task # T("remove", d)
    BY TaskFields
  <2> QED BY <2>1, <2>2
<1> HIDE DEF c
<1>4. CASE task.op = "close" /\ Close(c, ts)
  <2>1. /\ status' = [status EXCEPT ![c] = IF @ = "new" THEN "abort" ELSE "closed"] /\ OnCodecClosed(ts, c)
        /\ UNCHANGED <<serving, server, io, service>>
    BY <1>4 DEF Close, OnCodecClosed, server
  <2>2. status[c] # "new"
    <3>1. status'[c] # "abort"
      BY <1>2, Zenon DEF ServerInv, ConnTypes
    <3> QED BY <1>2, <2>1, <3>1 DEF ServerInv, ConnTypes
  <2>3. status' = [status EXCEPT ![c] = "closed"]
    BY <2>1, <2>2
  <2> QED BY <1>1, <1>2, <1>3, <2>1, <2>2, <2>3, CodecReports, Zenon
<1>5. CASE \/ task.op = "reply" /\ Reply(c, ts)
           \/ task.op \in {"flush", "late"} /\ Flush(c, ts)
  <2>1. /\ \/ CloseService(c, ts) \/ SendResponse(c, ts) \/ ReplyAndClose(c, ts)
           \/ tasks' = ts /\ UNCHANGED <<codecs_, client_count_, status, notified>>
        /\ UNCHANGED <<serving, ioservices_, listening_, is_stopping_, callbacks, io, service>>
    BY <1>5, Zenon DEF Reply, Flush
  <2>2. status[c] \in {"open", "closed"}
    BY <1>2, <1>5
  <2> QED BY <1>1, <1>2, <1>3, <2>1, <2>2, AnswerReports, Zenon
<1> QED BY <1>4, <1>5 DEF c

\* Start, Open and Stop do no removal; Stop reports a service that has not reported.
LEMMA ServiceReports ==
  ASSUME ServerInv, ReportInv, NEW l \in 1..Loops, NEW k \in 0..Loops, NEW task, NEW ts, Takes(l, k, task, ts),
         UNCHANGED <<build, serving, index>>,
         \/ task.op = "Start" /\ Start(l, ts)
         \/ task.op = "open" /\ Open(task.on, ts)
         \/ task.op = "Stop" /\ Stop(l, ts)
  PROVE  ReportInv'
<1>t. Taken(l, k, task, ts)
  BY TakesHead
<1>1. /\ ts \in Queues /\ QueueInv(ts, status, io, service) /\ Fits(task, l, k, status, io, service) /\ task \in Range(tasks[l][k])
  BY <1>t, Zenon DEF Taken, QueueInv
<1>2. /\ codecs_' = codecs_ /\ io' = io /\ service' = service /\ notified' = notified /\ serving' = serving
  BY DEF Start, Open, Stop, conns, server
<1>3. \A d \in Conns : Kept(d)' <=> Kept(d)
  <2>1. CASE task.op = "open"
    <3>1. task.on \in Conns /\ status[task.on] = "new" /\ status' = [status EXCEPT ![task.on] = "open"]
      BY <1>1, <2>1 DEF Fits, Open
    <3>2. \A d \in Conns : status'[d] = IF d = task.on THEN "open" ELSE status[d]
      BY <3>1 DEF ServerInv, ConnTypes
    <3> QED BY <1>2, <3>1, <3>2 DEF Kept
  <2>2. CASE task.op # "open"
    <3>1. status' = status
      BY <2>2 DEF Start, Stop, conns
    <3> QED BY <1>2, <3>1 DEF Kept
  <2> QED BY <2>1, <2>2
<1>4. \A d \in Conns : /\ service[d] \in 1..Loops /\ io[d] \in 0..Loops /\ io \in Homes /\ service \in Homes
  BY AtHome DEF ServerInv
<1>5. ASSUME NEW d \in Conns PROVE Pending(tasks', d) = Pending(ts, d)
  <2>1. CASE tasks' = ts
    BY <2>1
  <2>2. CASE task.op = "Stop" /\ Stop(l, ts)
    <3>1. /\ io \in Homes /\ service \in Homes /\ IsFiniteSet(Stored) /\ codecs_ \in [1..Loops -> SUBSET Conns]
          /\ \A c \in codecs_[l] : service[c] = l /\ status[c] \in {"new", "open", "closed"}
          /\ QueueInv(ts, status, io, service) /\ PostCloses(l, ts) /\ l \in 1..Loops
      BY <1>1, <1>4, <2>2 DEF CountInv, StoredInv, ConnTypes, ServerInv, Stop
    <3>2. \A m \in 1..Loops, n \in 0..Loops : Grows(ts[m][n], tasks'[m][n])
      BY ONLY <3>1, PostClosesKeeps
    <3>3. Grows(ts[service[d]][io[d]], tasks'[service[d]][io[d]]) /\ ts[service[d]][io[d]] \in Seq(Task)
      BY <1>1, <1>4, <3>2, Zenon DEF Queues
    <3>4. PICK r \in Seq(Task) : /\ tasks'[service[d]][io[d]] = ts[service[d]][io[d]] \o r
                                 /\ \A x \in Range(r) : x.op = "close"
      BY <3>3, Zenon DEF Grows
    <3>5. T("remove", d) \notin Range(r)
      BY <3>4, TaskFields, Zenon
    <3>6. Count(ts[service[d]][io[d]] \o r, T("remove", d)) = Count(ts[service[d]][io[d]], T("remove", d))
      BY <3>3, <3>5, CountJoin
    <3> QED BY <3>4, <3>6, Zenon DEF Pending
  <2> QED BY <2>1, <2>2 DEF Start, Open
<1>6. ASSUME NEW d \in Conns PROVE Done(d)' = Done(d)
  <2>1. Pending(tasks, d) = Pending(ts, d) + (IF task = T("remove", d) THEN 1 ELSE 0) /\ Pending(ts, d) \in Nat
    BY TakesPending
  <2>2. task # T("remove", d)
    BY TaskFields
  <2>3. Pending(tasks, d)' = Pending(tasks', d)
    BY <1>2 DEF Pending
  <2> QED BY <1>2, <1>5, <2>1, <2>2, <2>3 DEF Done
<1>7. \/ callbacks' = callbacks /\ (AllStopped => AllStopped')
      \/ callbacks' <= (IF AllStopped' THEN 1 ELSE 0) /\ callbacks' \in Nat
  <2>1. CASE task.op # "Stop"
    <3>1. callbacks' = callbacks /\ ioservices_' = ioservices_
      BY <2>1 DEF Start, Open, server
    <3> QED BY <1>2, <3>1 DEF AllStopped
  <2>2. CASE task.op = "Stop"
    <3>1. T("Stop", l) \in Range(tasks[l][0])
      BY <1>1, <2>2 DEF Fits
    <3>2. serving = "stopping" /\ l \in ioservices_ /\ callbacks = 0
      <4>1. /\ serving = "stopping" /\ l \in Services /\ l \notin is_stopping_
            /\ \A m \in Services : m \notin ioservices_ <=> m \in is_stopping_ /\ codecs_[m] = {}
        BY <3>1, Zenon DEF ServerInv, PhaseInv
      <4>2. callbacks \in Nat /\ (callbacks > 0 => ioservices_ = {})
        BY Zenon DEF ServerInv, PhaseInv
      <4>3. l \in ioservices_
        BY <4>1, Zenon
      <4> QED BY ONLY <4>1, <4>2, <4>3
    <3>3. CASE codecs_[l] = {}
      <4>1. ioservices_' = ioservices_ \ {l} /\ callbacks' = callbacks + (IF ioservices_' = {} THEN 1 ELSE 0)
        BY <2>2, <3>3 DEF Stop, IOServiceStoped
      <4> QED BY <1>2, <3>2, <4>1 DEF AllStopped
    <3>4. CASE codecs_[l] # {}
      <4>1. ioservices_' = ioservices_ /\ callbacks' = callbacks
        BY <2>2, <3>4 DEF Stop
      <4> QED BY <1>2, <4>1 DEF AllStopped
    <3> QED BY <3>3, <3>4
  <2> QED BY <2>1, <2>2
<1>8. notified' \in [Conns -> Nat] /\ IsFiniteSet(Again')
  BY <1>2 DEF ReportInv, Again
<1> QED BY <1>3, <1>6, <1>7, <1>8, ReportFrame

\* RemoveProtocolService: a removal that finds nothing is one of Extra.
LEMMA RemoveReports ==
  ASSUME ServerInv, ServerInv', ReportInv, NEW l \in 1..Loops, NEW k \in 0..Loops, NEW task, NEW ts, Takes(l, k, task, ts),
         task.op = "remove", RemoveProtocolService(l, task.on, ts), UNCHANGED <<build, serving, index>>
  PROVE  ReportInv'
<1>t. Taken(l, k, task, ts)
  BY TakesHead
<1> DEFINE c == task.on
<1>1. Fits(task, l, k, status, io, service)
  BY ONLY <1>t DEF Taken
<1>2. task = T("remove", c) /\ c \in Conns /\ l = service[c] /\ status[c] = "closed"
  BY <1>1 DEF Fits
<1> HIDE DEF c
<1>3. /\ codecs_' = [codecs_ EXCEPT ![l] = @ \ {c}] /\ tasks' = ts
      /\ IF l \in is_stopping_ /\ codecs_'[l] = {} THEN IOServiceStoped(l) ELSE UNCHANGED <<ioservices_, callbacks>>
      /\ status' = status /\ io' = io /\ service' = service /\ notified' = notified /\ serving' = serving
  BY DEF c, RemoveProtocolService, conns
<1>4. /\ notified' \in [Conns -> Nat] /\ IsFiniteSet(Again') /\ callbacks \in Nat /\ callbacks' \in Nat
      /\ Cardinality(Extra) \in Nat /\ IsFiniteSet(Extra)
  BY <1>3, ExtraFinite, Zenon DEF ReportInv, Again, ServerInv, PhaseInv
<1>5. ASSUME NEW d \in Conns PROVE Done(d)' = Done(d) + (IF d = c THEN 1 ELSE 0) /\ Done(d) \in Nat /\ (Done(d) = 0 <=> Kept(d))
  <2>1. /\ Pending(tasks, d) = Pending(ts, d) + (IF task = T("remove", d) THEN 1 ELSE 0)
        /\ Pending(tasks, d) \in Nat /\ Pending(ts, d) \in Nat
    BY TakesPending
  <2>2. task = T("remove", d) <=> d = c
    BY <1>2, TaskEq
  <2>3. Pending(tasks, d)' = Pending(ts, d)
    BY <1>3 DEF Pending
  <2>4. notified[d] \in Nat /\ notified'[d] = notified[d]
    BY <1>3 DEF ReportInv
  <2>5. Done(d) \in Nat /\ (Done(d) = 0 <=> Kept(d))
    BY DEF ReportInv
  <2>6. Done(d) = notified[d] - Pending(tasks, d) /\ Done(d)' = notified'[d] - Pending(tasks, d)'
    BY Zenon DEF Done
  <2>7. Pending(tasks, d) = Pending(ts, d) + (IF d = c THEN 1 ELSE 0)
    BY ONLY <2>1, <2>2
  <2>8. Done(d)' = Done(d) + (IF d = c THEN 1 ELSE 0)
    BY ONLY <2>1, <2>3, <2>4, <2>6, <2>7
  <2> QED BY ONLY <2>5, <2>8, Zenon
<1>6. codecs_ \in [1..Loops -> SUBSET Conns] /\ \A d \in Conns : service[d] \in 1..Loops
  BY AtHome DEF ServerInv, ConnTypes
<1>7. ASSUME NEW d \in Conns PROVE Kept(d)' <=> Kept(d) /\ d # c
  <2>1. service[d] \in 1..Loops
    BY <1>6
  <2>2. d \in codecs_'[service[d]] <=> d \in codecs_[service[d]] /\ d # c
    BY <1>2, <1>3, <1>6, <2>1
  <2> QED BY <1>2, <1>3, <2>2 DEF Kept
<1>8. \A d \in Conns : Done(d)' \in Nat /\ (Done(d)' = 0 <=> Kept(d)')
  <2> TAKE d \in Conns
  <2> QED BY <1>5, <1>7
<1>9. (AllStopped => AllStopped') /\ callbacks' <= callbacks + (IF AllStopped' THEN 1 ELSE 0)
  <2>1. CASE l \in is_stopping_ /\ codecs_'[l] = {}
    <3>1. ioservices_' = ioservices_ \ {l} /\ callbacks' = callbacks + (IF ioservices_' = {} THEN 1 ELSE 0)
      BY <1>3, <2>1 DEF IOServiceStoped
    <3>2. serving # "no"
      BY <2>1 DEF ServerInv, PhaseInv
    <3> QED BY <1>3, <1>4, <3>1, <3>2 DEF AllStopped
  <2>2. CASE ~(l \in is_stopping_ /\ codecs_'[l] = {})
    <3>1. ioservices_' = ioservices_ /\ callbacks' = callbacks
      BY <1>3, <2>2
    <3> QED BY <1>3, <1>4, <3>1 DEF AllStopped
  <2> QED BY <2>1, <2>2
<1>10. callbacks <= (IF AllStopped THEN 1 ELSE 0) + Cardinality(Extra)
  BY DEF ReportInv
<1>11. callbacks' <= (IF AllStopped' THEN 1 ELSE 0) + Cardinality(Extra')
  <2>1. CASE c \in codecs_[l]
    <3>1. Done(c) = 0
      BY <1>2, <1>5, <2>1 DEF Kept
    <3>2. ASSUME NEW d \in Conns PROVE 1..Done(d)' - 1 = 1..Done(d) - 1
      BY <1>5, <3>1
    <3>3. Extra' = Extra
      BY <3>2, Zenon DEF Extra
    <3>4. ~AllStopped
      <4>1. l \in Services
        BY <2>1 DEF ServerInv, StoredInv
      <4> QED BY <2>1, <4>1 DEF ServerInv, PhaseInv, AllStopped
    <3> QED BY <1>4, <1>9, <1>10, <3>3, <3>4
  <2>2. CASE c \notin codecs_[l]
    <3>1. Done(c) \in Nat /\ Done(c) > 0 /\ Done(c)' = Done(c) + 1
      BY ONLY <1>2, <1>5, <2>2, SMTT(30) DEF Kept
    <3> DEFINE n == Done(c)
               E == {<<c, n>>}
    <3>2. <<c, n>> \notin Extra
      BY <3>1, SMTT(30) DEF Extra
    <3>3. Extra' = Extra \cup {<<c, n>>}
      <4>1. ASSUME NEW d \in Conns, d # c PROVE {d} \X (1..Done(d)' - 1) = {d} \X (1..Done(d) - 1)
        BY <1>5, <4>1
      <4>2. {c} \X (1..Done(c)' - 1) = ({c} \X (1..Done(c) - 1)) \cup {<<c, n>>}
        BY <3>1
      <4>3. Extra' = UNION {{d} \X (1..Done(d)' - 1) : d \in Conns}
        BY DEF Extra
      <4> HIDE DEF n
      <4>4. ASSUME NEW p PROVE p \in Extra' <=> p \in Extra \/ p = <<c, n>>
        <5>1. p \in Extra' <=> \E d \in Conns : p \in {d} \X (1..Done(d)' - 1)
          BY <4>3
        <5>2. p \in Extra <=> \E d \in Conns : p \in {d} \X (1..Done(d) - 1)
          BY DEF Extra
        <5> QED BY <1>2, <4>1, <4>2, <5>1, <5>2
      <4> QED BY <4>4
    <3>4. Cardinality(Extra') = Cardinality(Extra) + 1
      BY <1>4, <3>2, <3>3, FS_AddElement, Zenon
    <3> QED BY <1>4, <1>9, <1>10, <3>4
  <2> QED BY <2>1, <2>2
<1> QED BY <1>4, <1>8, <1>11 DEF ReportInv

\* A loop runs a task.
LEMMA RunTaskReports ==
  ASSUME ServerInv, ServerInv', ReportInv, NEW l \in 1..Loops, RunTask(l)
  PROVE  ReportInv'
<1>1. PICK k \in 0..Loops :
        /\ tasks[l][k] # <<>>
        /\ LET task == Head(tasks[l][k])
               ts == [tasks EXCEPT ![l][k] = Tail(@)]
           IN  \/ task.op = "Start" /\ Start(l, ts)
               \/ task.op = "Stop" /\ Stop(l, ts)
               \/ task.op = "open" /\ Open(task.on, ts)
               \/ task.op = "close" /\ Close(task.on, ts)
               \/ task.op = "remove" /\ RemoveProtocolService(l, task.on, ts)
               \/ task.op = "reply" /\ Reply(task.on, ts)
               \/ task.op \in {"flush", "late"} /\ Flush(task.on, ts)
  BY Zenon DEF RunTask
<1> DEFINE task == Head(tasks[l][k])
           ts == [tasks EXCEPT ![l][k] = Tail(@)]
<1>2. Takes(l, k, task, ts) /\ UNCHANGED <<build, serving, index>>
  BY <1>1, Zenon DEF Takes, RunTask
<1>3. \/ (task.op = "Start" /\ Start(l, ts)) \/ (task.op = "open" /\ Open(task.on, ts)) \/ (task.op = "Stop" /\ Stop(l, ts))
      \/ (task.op = "close" /\ Close(task.on, ts)) \/ (task.op = "reply" /\ Reply(task.on, ts))
      \/ (task.op \in {"flush", "late"} /\ Flush(task.on, ts))
      \/ task.op = "remove" /\ RemoveProtocolService(l, task.on, ts)
  BY <1>1, Zenon
<1> HIDE DEF task, ts
<1> QED BY <1>2, <1>3, ServiceReports, CodecTaskReports, RemoveReports

\* ReportInv is an invariant, inductive relative to ServerInv.
LEMMA ReportInvariant == Spec => []ReportInv
<1>1. Init => ServerInv /\ ReportInv
  <2> SUFFICES ASSUME Init PROVE ServerInv /\ ReportInv
    OBVIOUS
  <2>1. ServerInv
    BY InitServer
  <2>2. /\ notified = [c \in Conns |-> 0] /\ status = [c \in Conns |-> "none"] /\ callbacks = 0
        /\ tasks = [l \in 1..Loops |-> [k \in 0..Loops |-> <<>>]]
    BY DEF Init
  <2>3. ASSUME NEW c \in Conns PROVE Done(c) = 0 /\ Kept(c)
    <3>1. tasks[service[c]][io[c]] = <<>>
      BY <2>1, <2>2, AtHome DEF ServerInv
    <3>2. DOMAIN << >> = {}
      OBVIOUS
    <3>3. Pending(tasks, c) = 0
      <4>1. {i \in DOMAIN << >> : << >>[i] = T("remove", c)} = {}
        BY <3>2
      <4> QED BY <3>1, <4>1, FS_EmptySet DEF Pending, Count
    <3> QED BY <2>2, <3>3 DEF Done, Kept
  <2>4. Extra = {}
    <3>1. ASSUME NEW c \in Conns PROVE {c} \X (1..Done(c) - 1) = {}
      BY ONLY <2>3
    <3> QED BY ONLY <3>1, Zenon DEF Extra
  <2>5. Again = {}
    BY <2>2 DEF Again
  <2> QED BY <2>1, <2>2, <2>3, <2>4, <2>5, FS_EmptySet DEF ReportInv
<1>2. ServerInv /\ ServerInv' /\ ReportInv /\ [Next]_vars => ReportInv'
  <2> SUFFICES ASSUME ServerInv, ServerInv', ReportInv, [Next]_vars PROVE ReportInv'
    OBVIOUS
  <2>1. CASE UNCHANGED vars
    <3>1. /\ tasks' = tasks /\ serving' = serving /\ status' = status /\ io' = io /\ service' = service
          /\ ioservices_' = ioservices_ /\ codecs_' = codecs_ /\ callbacks' = callbacks /\ notified' = notified
      BY <2>1 DEF vars, server, conns
    <3>2. \A d \in Conns : Done(d)' = Done(d) /\ (Kept(d)' <=> Kept(d))
      BY <3>1 DEF Done, Pending, Kept
    <3>3. notified' \in [Conns -> Nat] /\ IsFiniteSet(Again')
      BY <3>1 DEF ReportInv, Again
    <3> QED BY <3>1, <3>2, <3>3, ReportFrame DEF AllStopped
  <2>2. ASSUME NEW l \in 1..Loops, Progress(l) PROVE ReportInv'
    BY <2>2, RunTaskReports, StoreReports, EventReports DEF Progress
  <2>3. ASSUME NEW c \in Conns, (\E s \in Services : Accept(s, c)) \/ PeerEnds(c) \/ HandleEventCloses(c)
        PROVE  ReportInv'
    BY <2>3, AcceptReports, EventReports
  <2>4. ASSUME NEW c \in Conns, HandleRequest(c) \/ ReplyInLoop(c) \/ \E k \in 0..Loops : PostReply(c, k)
        PROVE  ReportInv'
    BY <2>4, RequestReports, Zenon
  <2> QED BY <2>1, <2>2, <2>3, <2>4, ApplicationReports DEF Next
<1> QED BY <1>1, <1>2, ServerInvariant, PTL DEF Spec

\* closed_callback_ is called at most once, and once more for each time that a connection is
\* reported as closed again.
THEOREM ReportsTheorem == Spec => []StopReports
<1>1. ServerInv /\ ReportInv => StopReports
  <2> SUFFICES ASSUME ServerInv, ReportInv PROVE StopReports
    OBVIOUS
  <2>1. /\ Cardinality(Extra) \in Nat /\ Cardinality(Again) \in Nat /\ Cardinality(Extra) <= Cardinality(Again)
        /\ callbacks \in Nat /\ callbacks <= (IF AllStopped THEN 1 ELSE 0) + Cardinality(Extra)
    BY ExtraFinite DEF ReportInv, ServerInv, PhaseInv
  <2>2. callbacks <= 1 + Cardinality(Again)
    BY ONLY <2>1
  <2> QED BY <2>2 DEF StopReports
<1> QED BY <1>1, ServerInvariant, ReportInvariant, PTL
=============================================================================
