---------------------------- MODULE ServerProofs ----------------------------
(***************************************************************************)
(* For any number of loops and connections and any limit: the server       *)
(* counts what it stores, closes no codec that was not started, destroys   *)
(* no codec of its own loop that an event or a flush has yet to use, and   *)
(* when it reports its end nothing is left.                                *)
(***************************************************************************)
EXTENDS ServerQueueProofs

\* What the state of a connection says of the codecs and the queues, which codecs an event
\* uses, which have requests, which are stored, and what a loop is in the middle of
ConnTypes ==
  /\ io \in [Conns -> 1..Loops] /\ service \in [Conns -> 1..Loops] /\ index \in 0..Loops - 1
  /\ status \in [Conns -> {"none", "refused", "checked", "new", "open", "closed"}]
  /\ busy \in [1..Loops -> {Idle} \cup ({"accept", "use"} \X Conns)]
  /\ codecs_ \in [1..Loops -> SUBSET Conns]

OpenInv ==
  \A c \in Conns : /\ status[c] = "new" => T("open", c) \in Range(tasks[io[c]][service[c]])
                   /\ status[c] \in {"new", "open"} => c \in codecs_[service[c]]
                   /\ reuse_port => io[c] = service[c]

UseInv == \A c \in Conns : io[c] = service[c] /\ busy[io[c]] = <<"use", c>> => c \in codecs_[service[c]]

RequestInv == handlers \in [Conns -> Nat] /\ \A c \in Conns : handlers[c] > 0 => status[c] \in {"open", "closed"}

StoredInv ==
  \A l \in 1..Loops : \A c \in codecs_[l] :
    service[c] = l /\ l \in Services /\ status[c] \in {"new", "open", "closed"}

BusyInv ==
  /\ \A c \in Conns : status[c] = "checked" => \E l \in listening_ : busy[l] = <<"accept", c>>
  /\ \A l \in 1..Loops, c \in Conns :
       /\ busy[l] = <<"accept", c>> => status[c] = "checked" /\ l \in listening_
       /\ busy[l] = <<"use", c>> => l = io[c] /\ status[c] = "closed"
  /\ \A l, m \in 1..Loops, c \in Conns : busy[l] = <<"accept", c>> /\ busy[m] = <<"accept", c>> => l = m

\* How far the services are: started, listening, stopping, reported
PhaseInv ==
  /\ ioservices_ \subseteq Services /\ listening_ \subseteq Services /\ is_stopping_ \subseteq Services
  /\ serving \in {"no", "yes", "stopping"} /\ callbacks \in Nat
  /\ serving = "no" => ioservices_ = {} /\ listening_ = {} /\ is_stopping_ = {} /\ callbacks = 0
  /\ serving = "yes" => ioservices_ = Services /\ is_stopping_ = {}
  /\ \A l \in 1..Loops : /\ T("Start", l) \in Range(tasks[l][0]) => serving # "no" /\ l \in Services \ is_stopping_
                         /\ T("Stop", l) \in Range(tasks[l][0]) => serving = "stopping" /\ l \in Services \ is_stopping_
  /\ is_stopping_ \cap listening_ = {}
  /\ serving # "no" => \A l \in Services : l \notin ioservices_ <=> l \in is_stopping_ /\ codecs_[l] = {}
  /\ callbacks > 0 => ioservices_ = {}

CountInv == IsFiniteSet(Stored) /\ client_count_ = Cardinality(Stored)

ServerInv ==
  /\ QueueInv(tasks, status, io, service) /\ FlushInv(tasks, status, io, service) /\ ConnTypes /\ OpenInv /\ UseInv
  /\ RequestInv /\ StoredInv /\ BusyInv /\ PhaseInv /\ CountInv

LEMMA AtHome ==
  ASSUME ConnTypes
  PROVE  /\ io \in Homes /\ service \in Homes
         /\ \A c \in Conns : io[c] \in 1..Loops /\ io[c] \in 0..Loops /\ service[c] \in 1..Loops /\ service[c] \in 0..Loops
         /\ \A l \in 1..Loops : l \in 0..Loops /\ l # 0
         /\ 0 \in 0..Loops /\ Services \subseteq 1..Loops
  BY ServerAssumption DEF ConnTypes, Homes, Services

\* What loops are in the middle of
LEMMA BusyWith ==
  \A c, d \in Conns : /\ Idle # <<"accept", c>> /\ Idle # <<"use", c>> /\ <<"accept", c>> # <<"use", d>>
                      /\ (<<"accept", c>> = <<"accept", d>> => c = d) /\ (<<"use", c>> = <<"use", d>> => c = d)
  BY ServerAssumption

-----------------------------------------------------------------------------
(* The steps of the application and of the codecs.                         *)

\* ServeAddress and StopServer post to loops that have no such task.
LEMMA ApplicationKeeps ==
  ASSUME ServerInv, ServeAddress \/ StopServer
  PROVE  ServerInv'
<1> USE DEF ServerInv
<1>0. /\ UNCHANGED <<build, busy, listening_, is_stopping_, codecs_, client_count_, callbacks, index, conns, handlers>>
      /\ Services' = Services
  BY DEF ServeAddress, StopServer, build, server, requests, Services
<1>1. PICK o \in {"Start", "Stop"} :
        /\ tasks' = PostEach(o, Services) /\ ioservices_' = Services
        /\ o = "Start" => serving = "no" /\ serving' = "yes"
        /\ o = "Stop" => serving = "yes" /\ serving' = "stopping"
  BY DEF ServeAddress, StopServer, PhaseInv, server
<1>2. \A l \in 1..Loops : T("Stop", l) \notin Range(tasks[l][0]) /\ (o = "Start" => T("Start", l) \notin Range(tasks[l][0]))
  BY <1>1 DEF PhaseInv
<1>3. io \in Homes /\ service \in Homes /\ Services \subseteq 1..Loops
  BY AtHome
<1>4. /\ QueueInv(tasks', status, io, service)
      /\ \A l \in 1..Loops, k \in 1..Loops : tasks'[l][k] = tasks[l][k]
      /\ \A l \in 1..Loops : Range(tasks'[l][0]) = Range(tasks[l][0]) \cup (IF l \in Services THEN {T(o, l)} ELSE {})
  <2>1. QueueInv(tasks, status, io, service) /\ o \in {"Start", "Stop"} /\ tasks' = PostEach(o, Services)
    BY <1>1, Zenon
  <2> QED BY ONLY <1>2, <1>3, <2>1, PostEachKeeps, Zenon
<1>5. QueueInv(tasks, status, io, service)' /\ ConnTypes' /\ CountInv'
  BY <1>0, <1>4, Zenon DEF conns, ConnTypes, CountInv, Stored
<1>6. OpenInv' /\ UseInv' /\ RequestInv' /\ FlushInv(tasks, status, io, service)'
  <2>1. OpenInv' /\ UseInv' /\ RequestInv'
    BY <1>0, <1>4, AtHome DEF conns, build, OpenInv, UseInv, RequestInv
  <2>2. FlushInv(tasks', status, io, service)
    BY <1>4, AtHome, Zenon DEF FlushInv, FlushesFirst
  <2> QED BY <1>0, <2>1, <2>2, Zenon DEF conns
<1>7. StoredInv' /\ BusyInv'
  BY <1>0 DEF conns, build, StoredInv, BusyInv
<1>8. PhaseInv'
  <2>1. \A l \in 1..Loops :
          /\ T("Start", l) \in Range(tasks'[l][0]) => l \in Services \ is_stopping_
          /\ T("Stop", l) \in Range(tasks'[l][0]) => o = "Stop" /\ l \in Services \ is_stopping_
    BY <1>1, <1>2, <1>4, TaskEq DEF PhaseInv
  <2> QED BY <1>0, <1>1, <2>1 DEF PhaseInv
<1> QED BY <1>5, <1>6, <1>7, <1>8, Zenon

\* A connection of which there are no tasks yet is accepted or refused.
LEMMA AcceptConnKeeps ==
  ASSUME ServerInv, NEW l \in Services, NEW c \in Conns, Accept(l, c)
  PROVE  ServerInv'
<1> USE DEF ServerInv
<1>0. /\ UNCHANGED <<build, tasks, serving, server, index, io, service, notified, handlers>> /\ Services' = Services
      /\ busy[l] = Idle /\ l \in listening_ /\ status[c] = "none" /\ l \in 1..Loops
  BY AtHome DEF Accept, build, requests, Services
<1>1. PICK v \in {"checked", "refused"} :
        /\ status' = [status EXCEPT ![c] = v]
        /\ v = "checked" => busy' = [busy EXCEPT ![l] = <<"accept", c>>]
        /\ v = "refused" => busy' = busy
  BY DEF Accept
<1>2. QueueInv(tasks, status, io, service)'
  <2>1. \A m \in 1..Loops, n \in 0..Loops : \A x \in Range(tasks[m][n]) : Fits(x, m, n, status', io, service)
    <3> TAKE m \in 1..Loops, n \in 0..Loops
    <3> TAKE x \in Range(tasks[m][n])
    <3>1. Fits(x, m, n, status, io, service)
      BY Zenon DEF QueueInv
    <3>2. x.on \in Conns /\ x.op \in {"open", "close", "remove", "reply", "flush", "late"} => x.on # c
      BY <3>1, <1>0, Zenon DEF Fits
    <3>3. \A d \in Conns : d # c => status'[d] = status[d]
      BY <1>1, Zenon DEF ConnTypes
    <3> QED BY <3>1, <3>2, <3>3 DEF Fits
  <2>2. io \in Homes /\ service \in Homes
    BY AtHome, Zenon
  <2> QED BY <1>0, <2>1, <2>2, MoveKeeps, Zenon
<1>3. ConnTypes' /\ CountInv' /\ StoredInv'
  <2>1. codecs_' = codecs_ /\ client_count_' = client_count_ /\ io' = io /\ service' = service /\ index' = index
    BY <1>0, Zenon DEF server
  <2>2. ConnTypes'
    <3>1. status' \in [Conns -> {"none", "refused", "checked", "new", "open", "closed"}]
      BY <1>1 DEF ConnTypes
    <3>2. busy' \in [1..Loops -> {Idle} \cup ({"accept", "use"} \X Conns)]
      BY <1>0, <1>1 DEF ConnTypes
    <3> QED BY <2>1, <3>1, <3>2, Zenon DEF ConnTypes
  <2>3. CountInv'
    BY <2>1, Zenon DEF CountInv, Stored
  <2>4. StoredInv'
    BY <1>0, <1>1, <2>1 DEF StoredInv, ConnTypes
  <2> QED BY <2>2, <2>3, <2>4
<1>4. /\ \A d \in Conns : d # c => status'[d] = status[d]
      /\ status'[c] = v
      /\ \A m \in 1..Loops : m # l => busy'[m] = busy[m]
      /\ \A d \in Conns : busy'[l] # <<"use", d>>
      /\ \A d \in Conns : busy'[l] = <<"accept", d>> => d = c /\ v = "checked"
      /\ v = "checked" => busy'[l] = <<"accept", c>>
  <2>1. CASE v = "checked"
    <3>1. /\ \A d \in Conns : d # c => status'[d] = status[d]
          /\ status'[c] = v /\ busy'[l] = <<"accept", c>>
          /\ \A m \in 1..Loops : m # l => busy'[m] = busy[m]
      BY <1>0, <1>1, <2>1, Zenon DEF ConnTypes
    <3> QED BY <2>1, <3>1, BusyWith, Zenon
  <2>2. CASE v = "refused"
    BY <1>0, <1>1, <2>2, BusyWith, Zenon DEF ConnTypes
  <2> QED BY <2>1, <2>2, Zenon
<1>5. OpenInv'
  BY <1>0, <1>4, Zenon DEF OpenInv, build, server
<1>6. UseInv' /\ RequestInv' /\ FlushInv(tasks, status, io, service)'
  <2>1. UseInv'
    BY <1>0, <1>4, AtHome, Zenon DEF UseInv, server
  <2>2. handlers' = handlers /\ \A d \in Conns : handlers[d] > 0 => d # c
    BY <1>0 DEF RequestInv
  <2>3. RequestInv'
    BY <1>4, <2>2, Zenon DEF RequestInv
  <2>4. \A d \in Conns : status'[d] = "closed" => status[d] = "closed"
    BY <1>4
  <2>5. FlushInv(tasks, status, io, service)'
    BY <1>0, <2>4, Zenon DEF FlushInv, FlushesFirst
  <2> QED BY <2>1, <2>3, <2>5, Zenon
<1>7. BusyInv'
  <2>1. listening_' = listening_ /\ listening_ \subseteq 1..Loops /\ io' = io
    BY <1>0, AtHome, Zenon DEF PhaseInv, server
  <2>2. \A d \in Conns : status'[d] = "checked" => \E m \in listening_ : busy'[m] = <<"accept", d>>
    <3>2. ASSUME NEW d \in Conns, status'[d] = "checked", d # c PROVE \E m \in listening_ : busy'[m] = <<"accept", d>>
      <4>1. PICK m \in listening_ : busy[m] = <<"accept", d>>
        BY <3>2, <1>4, Zenon DEF BusyInv
      <4>2. m # l
        BY <4>1, <1>0, BusyWith, Zenon
      <4> QED BY <4>1, <4>2, <1>4, <2>1
    <3> QED BY <1>4, <3>2, <2>1, <1>0, Zenon
  <2>3. \A m \in 1..Loops : busy[m] # <<"accept", c>> /\ busy[m] # <<"use", c>>
    BY <1>0 DEF BusyInv
  <2>4. \A m \in 1..Loops, d \in Conns :
          /\ busy'[m] = <<"accept", d>> => status'[d] = "checked" /\ m \in listening_
          /\ busy'[m] = <<"use", d>> => m = io[d] /\ status'[d] = "closed"
    BY <1>0, <1>4, <2>3 DEF BusyInv
  <2>5. \A m, n \in 1..Loops, d \in Conns : busy'[m] = <<"accept", d>> /\ busy'[n] = <<"accept", d>> => m = n
    BY <1>0, <1>4, <2>3 DEF BusyInv
  <2> QED BY <2>1, <2>2, <2>4, <2>5, Zenon DEF BusyInv
<1>8. PhaseInv'
  BY <1>0, Zenon DEF PhaseInv, server
<1> QED BY <1>2, <1>3, <1>5, <1>6, <1>7, <1>8, Zenon

\* The connection that was accepted is stored, and opened on its loop.
LEMMA StoreKeeps ==
  ASSUME ServerInv, NEW l \in 1..Loops, NEW c \in Conns, CreateAndStore(l, c)
  PROVE  ServerInv'
<1> USE DEF ServerInv
<1>0. /\ UNCHANGED <<build, serving, ioservices_, listening_, is_stopping_, callbacks, notified, handlers>> /\ Services' = Services
      /\ busy[l] = <<"accept", c>> /\ busy' = [busy EXCEPT ![l] = Idle]
      /\ status' = [status EXCEPT ![c] = "new"] /\ service' = [service EXCEPT ![c] = l]
      /\ codecs_' = [codecs_ EXCEPT ![l] = @ \cup {c}] /\ client_count_' = client_count_ + 1
  BY DEF CreateAndStore, build, requests, Services
<1>1. status[c] = "checked" /\ l \in listening_ /\ l \in Services /\ l \notin is_stopping_
  BY <1>0, Zenon DEF BusyInv, PhaseInv
<1>2. PICK h \in 1..Loops : io' = [io EXCEPT ![c] = h] /\ (reuse_port => h = l)
  <2>1. GetNextIOWorkLoop(l) \in 1..Loops /\ (reuse_port => GetNextIOWorkLoop(l) = l)
    BY ServerAssumption DEF GetNextIOWorkLoop, ConnTypes
  <2>2. io' = [io EXCEPT ![c] = GetNextIOWorkLoop(l)]
    BY DEF CreateAndStore
  <2> QED BY ONLY <2>1, <2>2, Zenon
<1>3. ConnTypes'
  <2>1. index' \in 0..Loops - 1
    BY ServerAssumption DEF CreateAndStore, ConnTypes
  <2> QED BY <1>0, <1>2, <2>1, Zenon DEF ConnTypes
<1>4. /\ \A d \in Conns : d # c => status'[d] = status[d] /\ io'[d] = io[d] /\ service'[d] = service[d]
      /\ status'[c] = "new" /\ io'[c] = h /\ service'[c] = l
      /\ \A m \in 1..Loops : codecs_'[m] = IF m = l THEN codecs_[m] \cup {c} ELSE codecs_[m]
      /\ \A m \in 1..Loops : busy'[m] = IF m = l THEN Idle ELSE busy[m]
  BY <1>0, <1>2, Zenon DEF ConnTypes
<1>5. \A m \in 1..Loops, n \in 0..Loops, o \in {"open", "close", "remove", "reply", "flush", "late"} : T(o, c) \notin Range(tasks[m][n])
  BY <1>1, TaskFields DEF QueueInv, Fits
<1>6. /\ QueueInv(tasks', status', io', service')
      /\ \A m \in 1..Loops, n \in 0..Loops : m # h \/ n # l => tasks'[m][n] = tasks[m][n]
      /\ Range(tasks'[h][l]) = Range(tasks[h][l]) \cup {T("open", c)}
      /\ FlushInv(tasks', status', io', service')
  <2>1. \A m \in 1..Loops, n \in 0..Loops : \A x \in Range(tasks[m][n]) : Fits(x, m, n, status', io', service')
    <3> TAKE m \in 1..Loops, n \in 0..Loops
    <3> TAKE x \in Range(tasks[m][n])
    <3>1. Fits(x, m, n, status, io, service)
      BY Zenon DEF QueueInv
    <3>2. x.on \in Conns /\ x.op \in {"open", "close", "remove", "reply", "flush", "late"} => x.on # c
      BY <3>1, <1>1, Zenon DEF Fits
    <3> QED BY <3>1, <3>2, <1>4 DEF Fits
  <2>2. io \in Homes /\ service \in Homes /\ io' \in Homes /\ service' \in Homes /\ l \in 0..Loops
    BY <1>3, AtHome, Zenon DEF ConnTypes, Homes
  <2>3. \A d \in Conns : \/ io'[d] = io[d] /\ service'[d] = service[d]
                         \/ \A m \in 1..Loops, n \in 0..Loops : T("open", d) \notin Range(tasks[m][n])
    BY <1>4, <1>5, Zenon
  <2>4. QueueInv(tasks, status', io', service')
    BY <2>1, <2>2, <2>3, MoveKeeps
  <2>5. Fits(T("open", c), h, l, status', io', service')
    BY <1>4, TaskFields DEF Fits
  <2>6. tasks' = Post(tasks, l, h, "open", c)
    BY <1>4, Zenon DEF CreateAndStore
  <2>7. T("open", c) \notin Range(tasks[h][l]) /\ T("close", c) \notin Range(tasks[h][l])
    BY <2>2, <1>5, Zenon
  <2>8. "open" \in {"open", "remove", "reply", "flush", "late"} /\ c \in Conns /\ h \in 1..Loops
    OBVIOUS
  <2> DEFINE t2 == Post(tasks, l, h, "open", c)
  <2>9. QueueInv(t2, status', io', service')
    BY ONLY <2>2, <2>4, <2>5, <2>7, <2>8, PostKeeps, Zenon
  <2>10. tasks \in Queues
    BY DEF QueueInv
  <2>11. \A m \in 1..Loops, n \in 0..Loops : m # h \/ n # l => t2[m][n] = tasks[m][n]
    BY ONLY <2>2, <2>8, <2>10 DEF Post, Queues
  <2>12. Range(t2[h][l]) = Range(tasks[h][l]) \cup {T("open", c)}
    <3>1. t2[h][l] = Append(tasks[h][l], T("open", c)) /\ tasks[h][l] \in Seq(Task) /\ T("open", c) \in Task
      BY ONLY <2>2, <2>8, <2>10, Zenon DEF Post, Queues, T, Task
    <3> HIDE DEF t2
    <3>2. Range(Append(tasks[h][l], T("open", c))) = Range(tasks[h][l]) \cup {T("open", c)}
      BY ONLY <3>1, AppendQueue
    <3> QED BY <3>1, <3>2
  <2>13. ASSUME NEW d \in Conns, status'[d] = "closed", io'[d] = service'[d] PROVE FlushesFirst(t2, io', d)
    <3>1. d # c
      BY <1>4, <2>13
    <3>2. FlushesFirst(tasks, io, d)
      BY <1>4, <2>13, <3>1, Zenon DEF FlushInv
    <3>3. T("open", c) # T("flush", d)
      BY TaskEq, Zenon
    <3>4. FlushesFirst(t2, io, d)
      BY <2>2, <2>8, <2>10, <3>2, <3>3, PostFlushes, Zenon
    <3> HIDE DEF t2
    <3> QED BY <1>4, <3>1, <3>4, Zenon DEF FlushesFirst
  <2>14. FlushInv(t2, status', io', service')
    BY <2>13, Zenon DEF FlushInv
  <2> QED BY <2>6, <2>9, <2>11, <2>12, <2>14, Zenon
<1>7. \A m \in 1..Loops, n \in 0..Loops :
        /\ Range(tasks[m][n]) \subseteq Range(tasks'[m][n])
        /\ \A x \in Range(tasks'[m][n]) : x \in Range(tasks[m][n]) \/ x = T("open", c)
  BY <1>6
<1>8. OpenInv'
  <2>1. T("open", c) \in Range(tasks'[h][l])
    BY <1>6, Zenon
  <2> SUFFICES ASSUME NEW d \in Conns
               PROVE  /\ status'[d] = "new" => T("open", d) \in Range(tasks'[io'[d]][service'[d]])
                      /\ status'[d] \in {"new", "open"} => d \in codecs_'[service'[d]]
                      /\ reuse_port' => io'[d] = service'[d]
    BY Zenon DEF OpenInv
  <2>2. reuse_port' = reuse_port
    BY <1>0 DEF build
  <2>3. CASE d = c
    BY <1>2, <1>4, <2>1, <2>2, <2>3, Zenon
  <2>4. CASE d # c
    <3>1. /\ status'[d] = status[d] /\ io'[d] = io[d] /\ service'[d] = service[d]
          /\ io[d] \in 1..Loops /\ service[d] \in 1..Loops /\ service[d] \in 0..Loops
      BY <1>4, <2>4, AtHome, Zenon
    <3>2. Range(tasks[io[d]][service[d]]) \subseteq Range(tasks'[io[d]][service[d]])
      BY <3>1, <1>7, Zenon
    <3>3. codecs_[service[d]] \subseteq codecs_'[service[d]]
      BY <3>1, <1>4, Zenon
    <3> QED BY <2>2, <3>1, <3>2, <3>3, Zenon DEF OpenInv
  <2> QED BY <2>3, <2>4, Zenon
<1>9. UseInv' /\ RequestInv'
  <2>1. ASSUME NEW d \in Conns, io'[d] = service'[d], busy'[io'[d]] = <<"use", d>> PROVE d \in codecs_'[service'[d]]
    <3>0. io'[d] \in 1..Loops
      BY <1>3, Zenon DEF ConnTypes
    <3>1. busy[io'[d]] = <<"use", d>>
      BY <3>0, <2>1, <1>4, BusyWith, Zenon
    <3>2. d # c
      BY <3>1, <3>0, <1>1, Zenon DEF BusyInv
    <3>3. io'[d] = io[d] /\ service'[d] = service[d] /\ service[d] \in 1..Loops
      BY <3>2, <1>4, AtHome, Zenon
    <3>4. d \in codecs_[service[d]]
      BY <2>1, <3>1, <3>3, Zenon DEF UseInv
    <3>5. codecs_'[service[d]] = IF service[d] = l THEN codecs_[service[d]] \cup {c} ELSE codecs_[service[d]]
      BY ONLY <1>4, <3>3, Zenon
    <3>6. d \in codecs_'[service[d]]
      BY ONLY <3>4, <3>5
    <3> QED BY ONLY <3>3, <3>6
  <2>2. handlers' = handlers /\ \A d \in Conns : handlers[d] > 0 => d # c
    BY <1>0, <1>1 DEF RequestInv
  <2>3. RequestInv'
    BY <1>4, <2>2, Zenon DEF RequestInv
  <2> QED BY <2>1, <2>3, Zenon DEF UseInv
<1>10. StoredInv'
  BY <1>0, <1>1, <1>4 DEF StoredInv, ConnTypes
<1>11. BusyInv'
  <2>1. listening_ \subseteq 1..Loops /\ listening_' = listening_
    BY <1>0, AtHome DEF PhaseInv
  <2>2. \A m \in 1..Loops : busy'[m] # <<"accept", c>>
    <3>1. \A m \in 1..Loops : busy[m] = <<"accept", c>> => m = l
      BY <1>0 DEF BusyInv
    <3> QED BY <3>1, <1>4, BusyWith, Zenon
  <2>3. ASSUME NEW d \in Conns, status'[d] = "checked" PROVE \E m \in listening_ : busy'[m] = <<"accept", d>>
    <3>1. d # c
      BY <2>3, <1>4, Zenon
    <3>2. PICK m \in listening_ : busy[m] = <<"accept", d>>
      BY <2>3, <3>1, <1>4 DEF BusyInv
    <3> QED BY <3>1, <3>2, <1>0, <1>4, <2>1, BusyWith
  <2>4. ASSUME NEW m \in 1..Loops, NEW d \in Conns
        PROVE  /\ busy'[m] = <<"accept", d>> => d # c /\ busy[m] = <<"accept", d>>
               /\ busy'[m] = <<"use", d>> => d # c /\ busy[m] = <<"use", d>>
    <3>1. busy[m] = <<"use", d>> => d # c
      BY <1>1 DEF BusyInv
    <3> QED BY <3>1, <2>2, <1>4, BusyWith, Zenon
  <2>5. \A m \in 1..Loops, d \in Conns :
          /\ busy'[m] = <<"accept", d>> => status'[d] = "checked" /\ m \in listening_
          /\ busy'[m] = <<"use", d>> => m = io'[d] /\ status'[d] = "closed"
    BY <1>4, <2>4 DEF BusyInv
  <2>6. \A m, n \in 1..Loops, d \in Conns : busy'[m] = <<"accept", d>> /\ busy'[n] = <<"accept", d>> => m = n
    BY <2>4 DEF BusyInv
  <2> QED BY <2>1, <2>3, <2>5, <2>6, Zenon DEF BusyInv
<1>12. PhaseInv'
  <2>1. \A m \in 1..Loops : /\ T("Start", m) \in Range(tasks'[m][0]) => T("Start", m) \in Range(tasks[m][0])
                            /\ T("Stop", m) \in Range(tasks'[m][0]) => T("Stop", m) \in Range(tasks[m][0])
    BY <1>7, AtHome, TaskEq, Zenon
  <2>2. \A m \in Services : m \in is_stopping_ => codecs_'[m] = codecs_[m]
    BY <1>1, <1>4, AtHome, Zenon
  <2> QED BY <1>0, <2>1, <2>2, Zenon DEF PhaseInv
<1>13. CountInv'
  <2>1. <<l, c>> \notin Stored
    BY <1>1, Zenon DEF Stored, StoredInv
  <2>2. Stored' = Stored \cup {<<l, c>>}
    <3>1. ASSUME NEW x \in (1..Loops) \X Conns
          PROVE  x[2] \in codecs_'[x[1]] <=> (x[2] \in codecs_[x[1]] \/ x = <<l, c>>)
      <4>1. x = <<x[1], x[2]>> /\ x[1] \in 1..Loops
        OBVIOUS
      <4>2. x = <<l, c>> <=> x[1] = l /\ x[2] = c
        BY <4>1
      <4>3. codecs_'[x[1]] = IF x[1] = l THEN codecs_[x[1]] \cup {c} ELSE codecs_[x[1]]
        BY <4>1, <1>4, Zenon
      <4> QED BY ONLY <4>2, <4>3, Zenon
    <3>2. <<l, c>> \in (1..Loops) \X Conns
      OBVIOUS
    <3> QED BY <3>1, <3>2, Zenon DEF Stored
  <2> QED BY <1>0, <2>1, <2>2, FS_AddElement, Zenon DEF CountInv
<1> QED BY <1>3, <1>6, <1>8, <1>9, <1>10, <1>11, <1>12, <1>13, Zenon

\* A codec becomes closed that was started.
LEMMA ClosedKeeps ==
  ASSUME ConnTypes, NEW ts, QueueInv(ts, status, io, service), NEW c \in Conns, status[c] \in {"open", "closed"}
  PROVE  QueueInv(ts, [status EXCEPT ![c] = "closed"], io, service)
<1> DEFINE st == [status EXCEPT ![c] = "closed"]
<1>1. st[c] = "closed" /\ \A d \in Conns : d # c => st[d] = status[d]
  BY DEF ConnTypes
<1> HIDE DEF st
<1>2. \A m \in 1..Loops, n \in 0..Loops : \A x \in Range(ts[m][n]) : Fits(x, m, n, st, io, service)
  <2> TAKE m \in 1..Loops, n \in 0..Loops
  <2> TAKE x \in Range(ts[m][n])
  <2>1. Fits(x, m, n, status, io, service)
    BY Zenon DEF QueueInv
  <2>2. CASE x.on = c
    BY <1>1, <2>1, <2>2 DEF Fits
  <2>3. CASE x.on # c
    BY <1>1, <2>1, <2>3, Zenon DEF Fits
  <2> QED BY ONLY <2>2, <2>3
<1>3. io \in Homes /\ service \in Homes
  BY AtHome, Zenon
<1>4. QueueInv(ts, st, io, service)
  BY <1>2, <1>3, MoveKeeps, Zenon
<1> QED BY <1>4, Zenon DEF st

\* What the steps of the codecs leave of the queues p: no task of a service is new, and none to
\* open a codec is lost.
SameServices(p, ts) ==
  \A m \in 1..Loops, n \in 0..Loops : \A x :
    /\ x.op \in {"Start", "Stop"} /\ x \in Range(ts[m][n]) => x \in Range(p[m][n])
    /\ x.op = "open" /\ x \in Range(p[m][n]) => x \in Range(ts[m][n])

LEMMA AddsSame ==
  ASSUME NEW p, NEW ts, NEW l, NEW k, NEW o \in {"remove", "reply", "flush", "late"}, NEW c, Adds(p, ts, l, k, T(o, c))
  PROVE  SameServices(p, ts)
<1>1. T(o, c).op \notin {"Start", "Stop"}
  BY TaskFields
<1> QED BY <1>1, Zenon DEF Adds, SameServices

\* A codec that was started is reported as closed, and may have been flushed before.
LEMMA ReportCodec ==
  ASSUME ConnTypes, NEW p, QueueInv(p, status, io, service), FlushInv(p, status, io, service),
         NEW c \in Conns, status[c] \in {"open", "closed"}, status' = [status EXCEPT ![c] = "closed"],
         NEW ts, ts = p \/ ts = Post(p, io[c], io[c], "flush", c), OnCodecClosed(ts, c)
  PROVE  QueueInv(tasks', status', io, service) /\ FlushInv(tasks', status', io, service) /\ SameServices(p, tasks')
<1>1. /\ io \in Homes /\ service \in Homes /\ io[c] \in 1..Loops /\ io[c] \in 0..Loops /\ service[c] \in 1..Loops
      /\ status'[c] = "closed" /\ \A d \in Conns : d # c => status'[d] = status[d]
      /\ "flush" \in {"open", "remove", "reply", "flush", "late"} /\ "remove" \in {"open", "remove", "reply", "flush", "late"}
  BY AtHome, Zenon DEF ConnTypes
<1>2. QueueInv(p, status', io, service) /\ p \in Queues
  BY ClosedKeeps, Zenon DEF QueueInv
<1>3. /\ QueueInv(ts, status', io, service) /\ SameServices(p, ts)
      /\ \A d \in Conns : d # c /\ FlushesFirst(p, io, d) => FlushesFirst(ts, io, d)
  <2>1. CASE ts = p
    BY <1>2, <2>1, Zenon DEF SameServices
  <2>2. CASE ts = Post(p, io[c], io[c], "flush", c)
    <3>1. Fits(T("flush", c), io[c], io[c], status', io, service)
      BY <1>1, TaskFields DEF Fits
    <3>2. QueueInv(Post(p, io[c], io[c], "flush", c), status', io, service)
      BY <1>1, <1>2, <3>1, PostKeeps
    <3>3. Adds(p, Post(p, io[c], io[c], "flush", c), io[c], io[c], T("flush", c))
      BY ONLY <1>1, <1>2, c \in Conns, PostedRange
    <3>4. SameServices(p, ts)
      BY ONLY <2>2, <3>3, AddsSame
    <3>5. ASSUME NEW d \in Conns, d # c, FlushesFirst(p, io, d) PROVE FlushesFirst(ts, io, d)
      <4>1. T("flush", c) # T("flush", d)
        BY <3>5, TaskEq, Zenon
      <4> QED BY <1>1, <1>2, <2>2, <3>5, <4>1, PostFlushes, Zenon
    <3> QED BY <2>2, <3>2, <3>4, <3>5, Zenon
  <2> QED BY <2>1, <2>2
<1>4. QueueInv(tasks', status', io, service) /\ Adds(ts, tasks', service[c], io[c], T("remove", c))
  BY <1>1, <1>3, ReportKeeps, Zenon
<1>5. tasks' = Post(ts, io[c], service[c], "remove", c) /\ ts \in Queues
  BY <1>3, Zenon DEF OnCodecClosed, QueueInv
<1>6. ASSUME NEW d \in Conns, io[d] = service[d], status'[d] = "closed" PROVE FlushesFirst(tasks', io, d)
  <2>1. T("remove", c) # T("flush", d)
    BY TaskEq, Zenon
  <2>2. CASE d = c
    BY <1>1, <1>5, <1>6, <2>1, <2>2, PostFlushes, Zenon
  <2>3. CASE d # c
    <3>1. FlushesFirst(ts, io, d)
      BY <1>1, <1>3, <1>6, <2>3, Zenon DEF FlushInv
    <3> QED BY <1>1, <1>5, <2>1, <3>1, PostFlushes, Zenon
  <2> QED BY <2>2, <2>3
<1>7. FlushInv(tasks', status', io, service)
  BY <1>6, Zenon DEF FlushInv
<1>8. SameServices(ts, tasks')
  <2>1. "remove" \in {"remove", "reply", "flush", "late"}
    OBVIOUS
  <2> QED BY ONLY <1>4, <2>1, AddsSame
<1> QED BY <1>3, <1>4, <1>7, <1>8, Zenon DEF SameServices

\* A task is posted for a codec that was started, flush_fn_ as the codec is found.
LEMMA PostCodec ==
  ASSUME ConnTypes, NEW p, QueueInv(p, status, io, service), FlushInv(p, status, io, service),
         NEW c \in Conns, status[c] \in {"open", "closed"}, NEW k \in 0..Loops, NEW o \in {"reply", "flush", "late"},
         o # "reply" => k = io[c], o = "flush" => status[c] = "open", o = "late" => status[c] = "closed"
  PROVE  /\ QueueInv(Post(p, k, io[c], o, c), status, io, service) /\ FlushInv(Post(p, k, io[c], o, c), status, io, service)
         /\ SameServices(p, Post(p, k, io[c], o, c))
<1> DEFINE t2 == Post(p, k, io[c], o, c)
<1>1. /\ io \in Homes /\ service \in Homes /\ io[c] \in 1..Loops
      /\ o \in {"open", "remove", "reply", "flush", "late"} /\ o \in {"remove", "reply", "flush", "late"} /\ o # "open"
  BY AtHome, Zenon
<1>2. p \in Queues
  BY Zenon DEF QueueInv
<1>3. Fits(T(o, c), io[c], k, status, io, service)
  BY <1>1, TaskFields DEF Fits
<1>4. QueueInv(t2, status, io, service)
  BY <1>1, <1>3, PostKeeps
<1>5. Adds(p, t2, io[c], k, T(o, c))
  BY ONLY <1>1, <1>2, c \in Conns, k \in 0..Loops, PostedRange
<1>6. SameServices(p, t2)
  BY ONLY <1>1, <1>5, AddsSame
<1>7. ASSUME NEW d \in Conns, io[d] = service[d], status[d] = "closed" PROVE FlushesFirst(t2, io, d)
  <2>1. FlushesFirst(p, io, d)
    BY <1>7, Zenon DEF FlushInv
  <2>2. T(o, c) # T("flush", d)
    BY <1>7, TaskEq
  <2> QED BY <1>1, <1>2, <2>1, <2>2, PostFlushes, Zenon
<1> QED BY <1>4, <1>6, <1>7, Zenon DEF FlushInv

\* CloseService of a codec that was started, or nothing
LEMMA CloseCodec ==
  ASSUME ConnTypes, NEW p, QueueInv(p, status, io, service), FlushInv(p, status, io, service),
         NEW c \in Conns, status[c] \in {"open", "closed"},
         CloseService(c, p) \/ (tasks' = p /\ UNCHANGED <<codecs_, client_count_, status, notified>>)
  PROVE  \E w \in {status[c], "closed"} :
           /\ QueueInv(tasks', status', io, service) /\ FlushInv(tasks', status', io, service) /\ SameServices(p, tasks')
           /\ status' = [status EXCEPT ![c] = w] /\ UNCHANGED <<codecs_, client_count_>>
<1>1. CASE CloseService(c, p)
  <2>1. status' = [status EXCEPT ![c] = "closed"] /\ OnCodecClosed(p, c) /\ UNCHANGED <<codecs_, client_count_>>
    BY <1>1, Zenon DEF CloseService, OnCodecClosed
  <2> QED BY <2>1, ReportCodec, Zenon
<1>2. CASE tasks' = p /\ UNCHANGED <<codecs_, client_count_, status, notified>>
  <2>1. status' = [status EXCEPT ![c] = status[c]]
    BY <1>2, Zenon DEF ConnTypes
  <2>2. SameServices(p, tasks')
    BY <1>2, Zenon DEF SameServices
  <2> QED BY <1>2, <2>1, <2>2, Zenon
<1> QED BY <1>1, <1>2

\* A reply on the loop of a codec that was started
LEMMA AnswerCodec ==
  ASSUME ConnTypes, NEW p, QueueInv(p, status, io, service), FlushInv(p, status, io, service),
         NEW c \in Conns, status[c] \in {"open", "closed"}, SendResponse(c, p) \/ ReplyAndClose(c, p)
  PROVE  \E w \in {status[c], "closed"} :
           /\ QueueInv(tasks', status', io, service) /\ FlushInv(tasks', status', io, service) /\ SameServices(p, tasks')
           /\ status' = [status EXCEPT ![c] = w] /\ UNCHANGED <<codecs_, client_count_>>
<1>1. CASE ReplyAndClose(c, p)
  <2>1. PICK ts : CloseService(c, ts) /\ (ts = p \/ ts = Post(p, io[c], io[c], "flush", c))
    BY <1>1, Zenon DEF ReplyAndClose, PostFlush
  <2>2. status' = [status EXCEPT ![c] = "closed"] /\ OnCodecClosed(ts, c) /\ UNCHANGED <<codecs_, client_count_>>
    BY <2>1, Zenon DEF CloseService, OnCodecClosed
  <2> QED BY <2>1, <2>2, ReportCodec, Zenon
<1>2. CASE SendResponse(c, p)
  <2>1. /\ UNCHANGED <<codecs_, client_count_, status, notified>>
        /\ tasks' = p \/ tasks' = Post(p, io[c], io[c], IF status[c] = "closed" THEN "late" ELSE "flush", c)
    BY <1>2, Zenon DEF SendResponse, PostFlush
  <2>2. CASE tasks' = p
    BY <2>1, <2>2, CloseCodec, Zenon
  <2>3. PICK o \in {"flush", "late"} : /\ o = "flush" => status[c] = "open"
                                       /\ o = "late" => status[c] = "closed"
                                       /\ tasks' = p \/ tasks' = Post(p, io[c], io[c], o, c)
    BY <2>1
  <2>4. CASE tasks' = Post(p, io[c], io[c], o, c)
    <3>1. io[c] \in 0..Loops /\ o \in {"reply", "flush", "late"}
      BY AtHome, Zenon
    <3>2. /\ QueueInv(tasks', status, io, service) /\ FlushInv(tasks', status, io, service)
          /\ SameServices(p, tasks')
      BY <2>3, <2>4, <3>1, PostCodec, Zenon
    <3>3. status' = [status EXCEPT ![c] = status[c]]
      BY <2>1, Zenon DEF ConnTypes
    <3> QED BY <2>1, <3>2, <3>3, Zenon
  <2> QED BY <2>2, <2>3, <2>4
<1> QED BY <1>1, <1>2

\* What the steps of a codec have in common: it is started, and stays open or is closed; what is
\* stored and how far the services are does not change; an event comes to use it only when it
\* is stored.
LEMMA CodecKeeps ==
  ASSUME ServerInv, NEW c \in Conns, status[c] \in {"open", "closed"},
         NEW w \in {status[c], "closed"}, status' = [status EXCEPT ![c] = w],
         UNCHANGED <<build, serving, server, index, io, service>>,
         QueueInv(tasks', status', io, service), FlushInv(tasks', status', io, service), SameServices(tasks, tasks'),
         handlers' \in [Conns -> Nat], \A d \in Conns : handlers'[d] > 0 => d = c \/ handlers[d] > 0,
         NEW v, busy' = [busy EXCEPT ![io[c]] = v],
         \/ v = busy[io[c]]
         \/ v = Idle /\ busy[io[c]] = <<"use", c>>
         \/ v = <<"use", c>> /\ busy[io[c]] = Idle /\ c \in codecs_[service[c]] /\ w = "closed"
  PROVE  ServerInv'
<1> USE DEF ServerInv
<1>0. /\ Services' = Services /\ reuse_port' = reuse_port /\ serving' = serving /\ index' = index /\ io' = io /\ service' = service
      /\ ioservices_' = ioservices_ /\ listening_' = listening_ /\ is_stopping_' = is_stopping_ /\ codecs_' = codecs_
      /\ client_count_' = client_count_ /\ callbacks' = callbacks
  BY DEF build, server, Services
<1>1. /\ \A d \in Conns : io[d] \in 1..Loops /\ io[d] \in 0..Loops /\ service[d] \in 1..Loops /\ service[d] \in 0..Loops
      /\ 0 \in 0..Loops
  BY AtHome, Zenon
<1>2. /\ status'[c] = w /\ w \in {"open", "closed"} /\ (status[c] = "closed" => w = "closed")
      /\ \A d \in Conns : d # c => status'[d] = status[d]
  BY Zenon DEF ConnTypes
<1>3. busy'[io[c]] = v /\ \A m \in 1..Loops : m # io[c] => busy'[m] = busy[m]
  BY <1>1, Zenon DEF ConnTypes
<1>4. ConnTypes'
  <2>1. v \in {Idle} \cup ({"accept", "use"} \X Conns)
    BY <1>1 DEF ConnTypes
  <2>2. busy' \in [1..Loops -> {Idle} \cup ({"accept", "use"} \X Conns)]
    BY <2>1, Zenon DEF ConnTypes
  <2>3. status' \in [Conns -> {"none", "refused", "checked", "new", "open", "closed"}]
    BY <1>2, Zenon DEF ConnTypes
  <2> QED BY <1>0, <2>2, <2>3, Zenon DEF ConnTypes
<1>5. OpenInv'
  <2>1. ASSUME NEW d \in Conns, status'[d] = "new" PROVE T("open", d) \in Range(tasks'[io[d]][service[d]])
    <3>1. T("open", d) \in Range(tasks[io[d]][service[d]]) /\ T("open", d).op = "open"
      BY <2>1, <1>2, TaskFields DEF OpenInv
    <3> QED BY <3>1, <1>1, Zenon DEF SameServices
  <2>2. \A d \in Conns : status'[d] \in {"new", "open"} => d \in codecs_[service[d]]
    BY <1>2 DEF OpenInv
  <2> QED BY <1>0, <2>1, <2>2, Zenon DEF OpenInv
<1>6. UseInv' /\ RequestInv'
  <2>1. ASSUME NEW d \in Conns, busy'[io[d]] = <<"use", d>>, busy[io[d]] # <<"use", d>> PROVE d = c /\ c \in codecs_[service[c]]
    <3>1. v = <<"use", c>> /\ c \in codecs_[service[c]] /\ io[d] = io[c]
      BY <1>1, <1>3, <2>1, BusyWith, Zenon
    <3> QED BY <1>3, <2>1, <3>1, BusyWith, Zenon
  <2>2. UseInv'
    BY <1>0, <2>1, Zenon DEF UseInv
  <2>3. RequestInv'
    BY <1>2, Zenon DEF RequestInv
  <2> QED BY <2>2, <2>3
<1>7. StoredInv'
  BY <1>0, <1>2 DEF StoredInv
<1>8. BusyInv'
  <2>1. \A m \in 1..Loops, d \in Conns :
          /\ busy'[m] = <<"accept", d>> <=> busy[m] = <<"accept", d>>
          /\ busy'[m] = <<"use", d>> => busy[m] = <<"use", d>> \/ (m = io[c] /\ d = c /\ w = "closed")
    BY <1>1, <1>3, BusyWith, Zenon
  <2>2. listening_ \subseteq 1..Loops
    BY AtHome, Zenon DEF PhaseInv
  <2>3. \A d \in Conns : /\ status'[d] = "checked" <=> status[d] = "checked"
                         /\ status[d] = "closed" => status'[d] = "closed"
    BY <1>2, Zenon
  <2>4. \A d \in Conns : status[d] = "checked" => \E m \in listening_ : busy'[m] = <<"accept", d>>
    <3>1. \A d \in Conns : status[d] = "checked" => \E m \in listening_ : busy[m] = <<"accept", d>>
      BY Zenon DEF BusyInv
    <3> QED BY ONLY <2>1, <2>2, <3>1, Zenon
  <2>5. \A m \in 1..Loops, d \in Conns :
          /\ busy'[m] = <<"accept", d>> => status'[d] = "checked" /\ m \in listening_
          /\ busy'[m] = <<"use", d>> => m = io[d] /\ status'[d] = "closed"
    BY <1>2, <2>1, <2>3 DEF BusyInv
  <2>6. \A l, m \in 1..Loops, d \in Conns : busy'[l] = <<"accept", d>> /\ busy'[m] = <<"accept", d>> => l = m
    BY <2>1 DEF BusyInv
  <2>7. listening_' = listening_ /\ io' = io
    BY <1>0, Zenon
  <2> QED BY ONLY <2>3, <2>4, <2>5, <2>6, <2>7 DEF BusyInv
<1>9. PhaseInv'
  <2>1. ASSUME NEW m \in 1..Loops
        PROVE  /\ T("Start", m) \in Range(tasks'[m][0]) => T("Start", m) \in Range(tasks[m][0])
               /\ T("Stop", m) \in Range(tasks'[m][0]) => T("Stop", m) \in Range(tasks[m][0])
    <3>1. T("Start", m).op = "Start" /\ T("Stop", m).op = "Stop"
      BY TaskFields
    <3> QED BY <1>1, <3>1, Zenon DEF SameServices
  <2> QED BY <1>0, <2>1, Zenon DEF PhaseInv
<1>10. CountInv'
  BY <1>0, Zenon DEF CountInv, Stored
<1> QED BY <1>0, <1>4, <1>5, <1>6, <1>7, <1>8, <1>9, <1>10

\* The same for a step after a task was taken, with the queues ts
LEMMA StayKeeps ==
  ASSUME ServerInv, NEW c \in Conns, status[c] \in {"open", "closed"},
         NEW w \in {status[c], "closed"}, status' = [status EXCEPT ![c] = w],
         UNCHANGED <<build, busy, serving, server, index, io, service, handlers>>,
         QueueInv(tasks', status', io, service), FlushInv(tasks', status', io, service),
         NEW ts, SameServices(tasks, ts), SameServices(ts, tasks')
  PROVE  ServerInv'
<1>1. busy' = [busy EXCEPT ![io[c]] = busy[io[c]]]
  BY Zenon DEF ServerInv, ConnTypes
<1>2. handlers' \in [Conns -> Nat] /\ \A d \in Conns : handlers'[d] > 0 => d = c \/ handlers[d] > 0
  BY Zenon DEF ServerInv, RequestInv
<1>3. SameServices(tasks, tasks')
  BY Zenon DEF SameServices
<1>4. UNCHANGED <<build, serving, server, index, io, service>>
  OBVIOUS
<1> QED BY <1>1, <1>2, <1>3, <1>4, CodecKeeps, Zenon

\* HandleEvent finds the end of the stream.
LEMMA PeerKeeps ==
  ASSUME ServerInv, NEW c \in Conns, PeerEnds(c)
  PROVE  ServerInv'
<1> USE DEF ServerInv
<1>1. /\ status[c] = "open" /\ CloseService(c, tasks)
      /\ UNCHANGED <<build, busy, serving, index, io, service, handlers>>
      /\ UNCHANGED <<ioservices_, listening_, is_stopping_, callbacks>>
  BY Zenon DEF PeerEnds, requests
<1>2. PICK w \in {status[c], "closed"} :
        /\ QueueInv(tasks', status', io, service) /\ FlushInv(tasks', status', io, service) /\ SameServices(tasks, tasks')
        /\ status' = [status EXCEPT ![c] = w] /\ UNCHANGED <<codecs_, client_count_>>
  BY <1>1, CloseCodec, Zenon
<1>3. UNCHANGED <<build, busy, serving, server, index, io, service, handlers>> /\ SameServices(tasks, tasks)
  BY <1>1, <1>2, Zenon DEF server, SameServices
<1> QED BY <1>1, <1>2, <1>3, StayKeeps, Zenon

\* HandleEvent closes the codec and goes on: it is stored.
LEMMA EventClosesKeeps ==
  ASSUME ServerInv, NEW c \in Conns, HandleEventCloses(c)
  PROVE  ServerInv'
<1> USE DEF ServerInv
<1>1. /\ status[c] = "open" /\ ReplyAndClose(c, tasks)
      /\ busy[io[c]] = Idle /\ busy' = [busy EXCEPT ![io[c]] = <<"use", c>>]
      /\ UNCHANGED <<build, serving, index, io, service, handlers>>
      /\ UNCHANGED <<ioservices_, listening_, is_stopping_, callbacks>>
  BY Zenon DEF HandleEventCloses
<1>2. /\ QueueInv(tasks', status', io, service) /\ FlushInv(tasks', status', io, service) /\ SameServices(tasks, tasks')
      /\ UNCHANGED <<codecs_, client_count_>>
  BY <1>1, AnswerCodec, Zenon
<1>3. status' = [status EXCEPT ![c] = "closed"] /\ c \in codecs_[service[c]]
  BY <1>1, Zenon DEF ReplyAndClose, CloseService, OpenInv
<1>4. handlers' \in [Conns -> Nat] /\ \A d \in Conns : handlers'[d] > 0 => d = c \/ handlers[d] > 0
  BY <1>1, Zenon DEF RequestInv
<1>5. UNCHANGED <<build, serving, server, index, io, service>>
  BY <1>1, <1>2, Zenon DEF server
<1> QED BY <1>1, <1>2, <1>3, <1>4, <1>5, CodecKeeps, Zenon

\* The end of HandleEvent, which may report the codec again
LEMMA EventEndsKeeps ==
  ASSUME ServerInv, NEW c \in Conns, HandleEventEnds(c)
  PROVE  ServerInv'
<1> USE DEF ServerInv
<1>1. /\ busy[io[c]] = <<"use", c>> /\ busy' = [busy EXCEPT ![io[c]] = Idle]
      /\ CloseService(c, tasks) \/ (tasks' = tasks /\ UNCHANGED <<codecs_, client_count_, status, notified>>)
      /\ UNCHANGED <<build, serving, index, io, service, handlers>>
      /\ UNCHANGED <<ioservices_, listening_, is_stopping_, callbacks>>
  BY Zenon DEF HandleEventEnds, requests
<1>2. status[c] = "closed"
  BY <1>1, AtHome, Zenon DEF BusyInv
<1>3. PICK w \in {status[c], "closed"} :
        /\ QueueInv(tasks', status', io, service) /\ FlushInv(tasks', status', io, service) /\ SameServices(tasks, tasks')
        /\ status' = [status EXCEPT ![c] = w] /\ UNCHANGED <<codecs_, client_count_>>
  BY <1>1, <1>2, CloseCodec, Zenon
<1>4. handlers' \in [Conns -> Nat] /\ \A d \in Conns : handlers'[d] > 0 => d = c \/ handlers[d] > 0
  BY <1>1, Zenon DEF RequestInv
<1>5. UNCHANGED <<build, serving, server, index, io, service>>
  BY <1>1, <1>3, Zenon DEF server
<1> QED BY <1>1, <1>2, <1>3, <1>4, <1>5, CodecKeeps, Zenon

\* A codec that is open has a request.
LEMMA RequestKeeps ==
  ASSUME ServerInv, NEW c \in Conns, HandleRequest(c)
  PROVE  ServerInv'
<1> USE DEF ServerInv
<1>1. /\ status[c] = "open" /\ handlers' = [handlers EXCEPT ![c] = @ + 1]
      /\ UNCHANGED <<build, tasks, busy, serving, server, index, status, io, service>>
  BY Zenon DEF HandleRequest, conns
<1>2. handlers' \in [Conns -> Nat] /\ \A d \in Conns : handlers'[d] > 0 => d = c \/ handlers[d] > 0
  BY <1>1 DEF RequestInv
<1>3. /\ status' = [status EXCEPT ![c] = status[c]] /\ busy' = [busy EXCEPT ![io[c]] = busy[io[c]]]
      /\ SameServices(tasks, tasks')
  BY <1>1, Zenon DEF ConnTypes, SameServices
<1>4. QueueInv(tasks', status', io, service) /\ FlushInv(tasks', status', io, service)
  BY <1>1, Zenon
<1>5. UNCHANGED <<build, serving, server, index, io, service>>
  BY <1>1, Zenon
<1> QED BY <1>1, <1>2, <1>3, <1>4, <1>5, CodecKeeps, Zenon

\* A codec that has a request was started.
LEMMA RepliesIs ==
  ASSUME RequestInv, NEW c \in Conns, Replies(c)
  PROVE  /\ status[c] \in {"open", "closed"}
         /\ handlers' \in [Conns -> Nat] /\ \A d \in Conns : handlers'[d] > 0 => d = c \/ handlers[d] > 0
<1>1. handlers \in [Conns -> Nat] /\ handlers[c] > 0 /\ handlers' = [handlers EXCEPT ![c] = @ - 1]
  BY Zenon DEF RequestInv, Replies
<1>2. handlers' \in [Conns -> Nat] /\ \A d \in Conns : handlers'[d] > 0 => d = c \/ handlers[d] > 0
  BY ONLY <1>1
<1> QED BY <1>1, <1>2, Zenon DEF RequestInv

LEMMA ReplyInLoopKeeps ==
  ASSUME ServerInv, NEW c \in Conns, ReplyInLoop(c)
  PROVE  ServerInv'
<1> USE DEF ServerInv
<1>1. /\ Replies(c)
      /\ \/ SendResponse(c, tasks) \/ ReplyAndClose(c, tasks)
         \/ tasks' = tasks /\ UNCHANGED <<codecs_, client_count_, status, notified>>
      /\ UNCHANGED <<build, busy, serving, index, io, service>>
      /\ UNCHANGED <<ioservices_, listening_, is_stopping_, callbacks>>
  BY Zenon DEF ReplyInLoop
<1>2. /\ status[c] \in {"open", "closed"}
      /\ handlers' \in [Conns -> Nat] /\ \A d \in Conns : handlers'[d] > 0 => d = c \/ handlers[d] > 0
  BY <1>1, RepliesIs, Zenon
<1>3. PICK w \in {status[c], "closed"} :
        /\ QueueInv(tasks', status', io, service) /\ FlushInv(tasks', status', io, service) /\ SameServices(tasks, tasks')
        /\ status' = [status EXCEPT ![c] = w] /\ UNCHANGED <<codecs_, client_count_>>
  BY <1>1, <1>2, AnswerCodec, CloseCodec, Zenon
<1>4. UNCHANGED <<build, serving, server, index, io, service>> /\ busy' = [busy EXCEPT ![io[c]] = busy[io[c]]]
  BY <1>1, <1>3, Zenon DEF server, ConnTypes
<1> QED BY <1>2, <1>3, <1>4, CodecKeeps, Zenon

LEMMA PostReplyKeeps ==
  ASSUME ServerInv, NEW c \in Conns, NEW k \in 0..Loops, PostReply(c, k)
  PROVE  ServerInv'
<1> USE DEF ServerInv
<1>1. /\ Replies(c) /\ (tasks' = tasks \/ tasks' = Post(tasks, k, io[c], "reply", c))
      /\ UNCHANGED <<build, busy, serving, server, index, status, io, service>>
  BY Zenon DEF PostReply, conns
<1>2. /\ status[c] \in {"open", "closed"}
      /\ handlers' \in [Conns -> Nat] /\ \A d \in Conns : handlers'[d] > 0 => d = c \/ handlers[d] > 0
  BY <1>1, RepliesIs, Zenon
<1>3. QueueInv(tasks', status, io, service) /\ FlushInv(tasks', status, io, service) /\ SameServices(tasks, tasks')
  <2>1. CASE tasks' = tasks
    BY <2>1, Zenon DEF SameServices
  <2>2. CASE tasks' = Post(tasks, k, io[c], "reply", c)
    <3>1. /\ QueueInv(Post(tasks, k, io[c], "reply", c), status, io, service)
          /\ FlushInv(Post(tasks, k, io[c], "reply", c), status, io, service)
          /\ SameServices(tasks, Post(tasks, k, io[c], "reply", c))
      BY <1>2, PostCodec
    <3> QED BY <2>2, <3>1, Zenon
  <2> QED BY <1>1, <2>1, <2>2, Zenon
<1>4. /\ UNCHANGED <<build, serving, server, index, io, service>> /\ busy' = [busy EXCEPT ![io[c]] = busy[io[c]]]
      /\ status' = [status EXCEPT ![c] = status[c]] /\ status' = status
  BY <1>1, Zenon DEF ConnTypes
<1> QED BY <1>2, <1>3, <1>4, CodecKeeps, Zenon

-----------------------------------------------------------------------------
(* The tasks.                                                              *)

\* What is known when a task is run: it fits, and what must come before it is done.
Taken(l, k, task, ts) ==
  /\ QueueInv(ts, status, io, service) /\ FlushInv(ts, status, io, service) /\ Fits(task, l, k, status, io, service)
  /\ task \in Range(tasks[l][k])
  /\ \A m \in 1..Loops, n \in 0..Loops :
       Range(ts[m][n]) \subseteq Range(tasks[m][n]) /\ Range(tasks[m][n]) \ {task} \subseteq Range(ts[m][n])
  /\ \A x : x # task /\ Before(tasks[l][k], x, task) => x \notin Range(tasks[l][k])
  /\ Once(tasks[l][k], task) => task \notin Range(ts[l][k])

LEMMA TakesHead ==
  ASSUME ServerInv, NEW l \in 1..Loops, NEW k \in 0..Loops, NEW task, NEW ts, Takes(l, k, task, ts)
  PROVE  Taken(l, k, task, ts)
<1>1. QueueInv(tasks, status, io, service) /\ io \in Homes /\ service \in Homes
  BY AtHome DEF ServerInv
<1>2. FlushInv(tasks, status, io, service) /\ tasks \in Queues
  BY Zenon DEF ServerInv, QueueInv
<1>3. FlushInv(ts, status, io, service)
  BY ONLY <1>1, <1>2, l \in 1..Loops, k \in 0..Loops, Takes(l, k, task, ts), PopFlushes, Zenon
<1> QED BY ONLY <1>1, <1>3, l \in 1..Loops, k \in 0..Loops, Takes(l, k, task, ts), PopKeeps, ZenonT(30) DEF Taken

\* A codec is started when the task is run that closes, answers or flushes it.
LEMMA TakenKeeps ==
  ASSUME NEW l, NEW k, NEW task, NEW ts, Taken(l, k, task, ts), task.op # "open"
  PROVE  SameServices(tasks, ts)
  BY Zenon DEF Taken, SameServices

\* StartProtocolService: it is the only task to open this codec.
LEMMA OpenKeeps ==
  ASSUME ServerInv, NEW l \in 1..Loops, NEW k \in 0..Loops, NEW task, NEW ts, Takes(l, k, task, ts),
         task.op = "open", Open(task.on, ts), UNCHANGED <<build, serving, index>>
  PROVE  ServerInv'
<1>t. Taken(l, k, task, ts)
  BY TakesHead, Zenon
<1> USE DEF ServerInv
<1> DEFINE c == task.on
<1>1. /\ QueueInv(ts, status, io, service) /\ FlushInv(ts, status, io, service) /\ Fits(task, l, k, status, io, service)
      /\ \A m \in 1..Loops, n \in 0..Loops :
           Range(ts[m][n]) \subseteq Range(tasks[m][n]) /\ Range(tasks[m][n]) \ {task} \subseteq Range(ts[m][n])
      /\ Once(tasks[l][k], task) => task \notin Range(ts[l][k])
  BY ONLY <1>t, Zenon DEF Taken
<1>2. task = T("open", c) /\ c \in Conns /\ l = io[c] /\ k = service[c] /\ status[c] = "new"
  BY <1>1, Zenon DEF Fits
<1> HIDE DEF c
<1>3. \A m \in 1..Loops, n \in 0..Loops : T("open", c) \notin Range(ts[m][n])
  <2>1. T("open", c) \notin Range(ts[l][k])
    BY <1>1, <1>2, Zenon DEF QueueInv
  <2>2. ASSUME NEW m \in 1..Loops, NEW n \in 0..Loops, T("open", c) \in Range(ts[m][n]) PROVE m = l /\ n = k
    <3>1. Fits(T("open", c), m, n, status, io, service)
      BY <2>2, <1>1 DEF QueueInv
    <3> QED BY ONLY <3>1, <1>2, TaskFields, SMTT(30) DEF Fits
  <2> QED BY <2>1, <2>2, Zenon
<1>4. /\ status' = [status EXCEPT ![c] = "open"] /\ tasks' = ts /\ UNCHANGED <<busy, server, io, service, notified, handlers>>
      /\ UNCHANGED <<build, serving, index>>
  BY Zenon DEF Open, requests, c
<1>5. status'[c] = "open" /\ \A d \in Conns : d # c => status'[d] = status[d]
  BY <1>2, <1>4 DEF ConnTypes
<1>6. QueueInv(tasks', status', io, service)
  <2>1. \A m \in 1..Loops, n \in 0..Loops : \A x \in Range(ts[m][n]) : Fits(x, m, n, status', io, service)
    <3> TAKE m \in 1..Loops, n \in 0..Loops
    <3> TAKE x \in Range(ts[m][n])
    <3>0. Fits(x, m, n, status, io, service)
      BY <1>1, Zenon DEF QueueInv
    <3>1. Fits(x, m, n, status, io, service) /\ x # T("open", c)
      BY <1>3, <3>0, Zenon
    <3>2. CASE x.on = c
      BY <1>2, <1>5, <3>1, <3>2, Zenon DEF Fits
    <3>3. CASE x.on # c
      BY <1>5, <3>1, <3>3 DEF Fits
    <3> QED BY <3>2, <3>3, Zenon
  <2>2. io \in Homes /\ service \in Homes
    BY AtHome
  <2> QED BY <1>1, <1>4, <2>1, <2>2, MoveKeeps, Zenon
<1>7. /\ Services' = Services /\ reuse_port' = reuse_port /\ serving' = serving /\ index' = index /\ io' = io /\ service' = service
      /\ ioservices_' = ioservices_ /\ listening_' = listening_ /\ is_stopping_' = is_stopping_ /\ codecs_' = codecs_
      /\ client_count_' = client_count_ /\ callbacks' = callbacks /\ busy' = busy /\ handlers' = handlers
  BY <1>4 DEF build, server, Services
<1>8. \A d \in Conns : io[d] \in 1..Loops /\ io[d] \in 0..Loops /\ service[d] \in 1..Loops /\ service[d] \in 0..Loops
  BY AtHome, Zenon
<1>9. ConnTypes' /\ CountInv'
  <2>1. status' \in [Conns -> {"none", "refused", "checked", "new", "open", "closed"}]
    BY <1>4, Zenon DEF ConnTypes
  <2> QED BY <1>7, <2>1, Zenon DEF ConnTypes, CountInv, Stored
<1>10. OpenInv'
  <2>1. ASSUME NEW d \in Conns, status'[d] = "new" PROVE T("open", d) \in Range(tasks'[io[d]][service[d]])
    <3>0. d # c /\ status[d] = "new"
      BY ONLY <2>1, <1>5
    <3>1. T("open", d) \in Range(tasks[io[d]][service[d]])
      BY <3>0, Zenon DEF OpenInv
    <3>2. T("open", d) # task
      BY ONLY <3>0, <1>2, TaskEq, Zenon
    <3> QED BY <3>1, <3>2, <1>1, <1>4, <1>8, Zenon
  <2>2. \A d \in Conns : status'[d] \in {"new", "open"} => d \in codecs_[service[d]]
    BY <1>2, <1>5 DEF OpenInv
  <2> QED BY <1>7, <2>1, <2>2, Zenon DEF OpenInv
<1>11. UseInv' /\ RequestInv' /\ FlushInv(tasks, status, io, service)'
  <2>1. UseInv'
    BY <1>7, Zenon DEF UseInv
  <2>2. RequestInv'
    BY <1>5, <1>7, Zenon DEF RequestInv
  <2>3. \A d \in Conns : status'[d] = "closed" => status[d] = "closed"
    BY <1>5
  <2>4. FlushInv(ts, status', io, service)
    BY <1>1, <2>3, Zenon DEF FlushInv
  <2> QED BY <1>4, <1>7, <2>1, <2>2, <2>4, Zenon
<1>12. StoredInv' /\ BusyInv'
  <2>1. \A d \in Conns : /\ status'[d] = "checked" <=> status[d] = "checked"
                         /\ status'[d] = "closed" <=> status[d] = "closed"
                         /\ status[d] \in {"new", "open", "closed"} => status'[d] \in {"new", "open", "closed"}
    BY <1>2, <1>5, Zenon
  <2>2. \A m \in 1..Loops : codecs_[m] \subseteq Conns
    BY Zenon DEF ConnTypes
  <2>3. StoredInv'
    BY <1>7, <2>1, <2>2, Zenon DEF StoredInv
  <2>4. BusyInv'
    BY <1>7, <2>1, Zenon DEF BusyInv
  <2> QED BY <2>3, <2>4
<1>13. PhaseInv'
  <2>1. \A m \in 1..Loops : Range(tasks'[m][0]) \subseteq Range(tasks[m][0])
    BY <1>1, <1>4, AtHome, Zenon
  <2> QED BY <1>7, <2>1, Zenon DEF PhaseInv
<1> QED BY <1>6, <1>7, <1>9, <1>10, <1>11, <1>12, <1>13

\* The task of IOService::Stop: the codec was started.
LEMMA CloseKeeps ==
  ASSUME ServerInv, NEW l \in 1..Loops, NEW k \in 0..Loops, NEW task, NEW ts, Takes(l, k, task, ts),
         task.op = "close", Close(task.on, ts), UNCHANGED <<build, serving, index>>
  PROVE  ServerInv'
<1>t. Taken(l, k, task, ts)
  BY TakesHead, Zenon
<1> USE DEF ServerInv
<1> DEFINE c == task.on
<1>1. /\ QueueInv(ts, status, io, service) /\ FlushInv(ts, status, io, service) /\ Fits(task, l, k, status, io, service)
      /\ \A x : x # task /\ Before(tasks[l][k], x, task) => x \notin Range(tasks[l][k])
  BY ONLY <1>t, Zenon DEF Taken
<1>2. task = T("close", c) /\ c \in Conns /\ l = io[c] /\ k = service[c] /\ status[c] \in {"new", "open", "closed"}
  BY <1>1, Zenon DEF Fits
<1> HIDE DEF c
<1>3. status[c] \in {"open", "closed"}
  <2>1. T("open", c) \notin Range(tasks[l][k])
    <3>1. T("open", c) # T("close", c)
      BY TaskEq, Zenon
    <3>2. Before(tasks[l][k], T("open", c), T("close", c))
      BY <1>2, Zenon DEF QueueInv
    <3> QED BY <1>1, <1>2, <3>1, <3>2, Zenon
  <2> QED BY <1>2, <2>1, Zenon DEF OpenInv
<1>4. /\ status' = [status EXCEPT ![c] = "closed"] /\ OnCodecClosed(ts, c)
      /\ UNCHANGED <<build, busy, serving, server, index, io, service, handlers>>
  BY <1>3, Zenon DEF Close, OnCodecClosed, c, server, requests
<1>5. /\ QueueInv(tasks', status', io, service) /\ FlushInv(tasks', status', io, service) /\ SameServices(ts, tasks')
  BY <1>1, <1>2, <1>3, <1>4, ReportCodec, Zenon
<1>6. SameServices(tasks, ts)
  BY ONLY <1>t, task.op = "close", TakenKeeps
<1> QED BY <1>2, <1>3, <1>4, <1>5, <1>6, StayKeeps, Zenon

\* The functor of a reply
LEMMA ReplyKeeps ==
  ASSUME ServerInv, NEW l \in 1..Loops, NEW k \in 0..Loops, NEW task, NEW ts, Takes(l, k, task, ts),
         task.op = "reply", Reply(task.on, ts), UNCHANGED <<build, serving, index>>
  PROVE  ServerInv'
<1>t. Taken(l, k, task, ts)
  BY TakesHead, Zenon
<1> USE DEF ServerInv
<1> DEFINE c == task.on
<1>1. QueueInv(ts, status, io, service) /\ FlushInv(ts, status, io, service) /\ Fits(task, l, k, status, io, service)
  BY ONLY <1>t, Zenon DEF Taken
<1>2. c \in Conns /\ status[c] \in {"open", "closed"}
  BY <1>1, Zenon DEF Fits
<1>3. /\ SendResponse(c, ts) \/ ReplyAndClose(c, ts)
      /\ UNCHANGED <<build, busy, serving, index, io, service, handlers>>
      /\ UNCHANGED <<ioservices_, listening_, is_stopping_, callbacks>>
  BY Zenon DEF Reply
<1> HIDE DEF c
<1>4. PICK w \in {status[c], "closed"} :
        /\ QueueInv(tasks', status', io, service) /\ FlushInv(tasks', status', io, service) /\ SameServices(ts, tasks')
        /\ status' = [status EXCEPT ![c] = w] /\ UNCHANGED <<codecs_, client_count_>>
  BY <1>1, <1>2, <1>3, AnswerCodec, Zenon
<1>5. SameServices(tasks, ts)
  BY ONLY <1>t, task.op = "reply", TakenKeeps
<1>6. UNCHANGED <<build, busy, serving, server, index, io, service, handlers>>
  BY <1>3, <1>4, Zenon DEF server
<1> QED BY <1>2, <1>4, <1>5, <1>6, StayKeeps, Zenon

\* flush_fn_
LEMMA FlushKeeps ==
  ASSUME ServerInv, NEW l \in 1..Loops, NEW k \in 0..Loops, NEW task, NEW ts, Takes(l, k, task, ts),
         task.op \in {"flush", "late"}, Flush(task.on, ts), UNCHANGED <<build, serving, index>>
  PROVE  ServerInv'
<1>t. Taken(l, k, task, ts)
  BY TakesHead, Zenon
<1> USE DEF ServerInv
<1> DEFINE c == task.on
<1>1. QueueInv(ts, status, io, service) /\ FlushInv(ts, status, io, service) /\ Fits(task, l, k, status, io, service)
  BY ONLY <1>t, Zenon DEF Taken
<1>2. c \in Conns /\ status[c] \in {"open", "closed"}
  BY <1>1, Zenon DEF Fits
<1>3. /\ CloseService(c, ts) \/ (tasks' = ts /\ UNCHANGED <<codecs_, client_count_, status, notified>>)
      /\ UNCHANGED <<build, busy, serving, index, io, service, handlers>>
      /\ UNCHANGED <<ioservices_, listening_, is_stopping_, callbacks>>
  BY Zenon DEF Flush, requests
<1> HIDE DEF c
<1>4. PICK w \in {status[c], "closed"} :
        /\ QueueInv(tasks', status', io, service) /\ FlushInv(tasks', status', io, service) /\ SameServices(ts, tasks')
        /\ status' = [status EXCEPT ![c] = w] /\ UNCHANGED <<codecs_, client_count_>>
  BY <1>1, <1>2, <1>3, CloseCodec, Zenon
<1>5. SameServices(tasks, ts)
  <2>1. task.op # "open"
    OBVIOUS
  <2> QED BY ONLY <1>t, <2>1, TakenKeeps
<1>6. UNCHANGED <<build, busy, serving, server, index, io, service, handlers>>
  BY <1>3, <1>4, Zenon DEF server
<1> QED BY <1>2, <1>4, <1>5, <1>6, StayKeeps, Zenon

\* What the steps of a service have in common: the connections do not change, and of the
\* tasks only such that close codecs are new.
LEMMA ServiceKeeps ==
  ASSUME ServerInv, NEW l \in 1..Loops, NEW k \in 0..Loops, NEW task, NEW ts, Takes(l, k, task, ts),
         task.op \in {"Start", "Stop"}, UNCHANGED <<build, serving, index, busy, codecs_, client_count_, conns, requests>>,
         SameButCloses(ts, tasks'),
         listening_' = listening_ \cup {l} \/ listening_' = listening_ \ {l}
  PROVE  /\ ConnTypes' /\ OpenInv' /\ UseInv' /\ RequestInv' /\ StoredInv' /\ BusyInv' /\ CountInv'
         /\ Services' = Services /\ l = task.on /\ k = 0
<1>t. Taken(l, k, task, ts)
  BY TakesHead
<1> USE DEF ServerInv
<1>0. /\ Services' = Services /\ reuse_port' = reuse_port /\ serving' = serving /\ index' = index /\ io' = io /\ service' = service
      /\ codecs_' = codecs_ /\ client_count_' = client_count_ /\ busy' = busy /\ status' = status /\ handlers' = handlers
  BY Zenon DEF build, conns, requests, Services
<1>b. busy[l] = Idle
  BY Zenon DEF Takes
<1>1. /\ Fits(task, l, k, status, io, service)
      /\ \A m \in 1..Loops, n \in 0..Loops :
           Range(ts[m][n]) \subseteq Range(tasks[m][n]) /\ Range(tasks[m][n]) \ {task} \subseteq Range(ts[m][n])
  BY ONLY <1>t, Zenon DEF Taken
<1>2. l = task.on /\ k = 0
  BY <1>1, Zenon DEF Fits
<1>3. \A d \in Conns : io[d] \in 1..Loops /\ io[d] \in 0..Loops /\ service[d] \in 1..Loops /\ service[d] \in 0..Loops
  BY AtHome, Zenon
<1>4. ConnTypes' /\ CountInv' /\ StoredInv'
  BY <1>0, Zenon DEF ConnTypes, CountInv, Stored, StoredInv
<1>5. OpenInv'
  <2>1. ASSUME NEW d \in Conns, status[d] = "new" PROVE T("open", d) \in Range(tasks'[io[d]][service[d]])
    <3>0. T("open", d) \in Range(tasks[io[d]][service[d]])
      BY <2>1, Zenon DEF OpenInv
    <3>1. T("open", d) \in Range(tasks[io[d]][service[d]]) /\ T("open", d) # task /\ T("open", d).op # "close"
      <4>1. "open" # task.op /\ "open" # "close"
        OBVIOUS
      <4> QED BY ONLY <3>0, <4>1, TaskFields, Zenon
    <3> QED BY <3>1, <1>1, <1>3, Zenon DEF SameButCloses
  <2> QED BY <1>0, <2>1, Zenon DEF OpenInv
<1>6. UseInv' /\ RequestInv'
  BY <1>0, Zenon DEF UseInv, RequestInv
<1>7. BusyInv'
  <2>1. \A d \in Conns : busy[l] # <<"accept", d>>
    BY <1>b, BusyWith, Zenon
  <2>2. ASSUME NEW d \in Conns, status[d] = "checked" PROVE \E m \in listening_' : busy[m] = <<"accept", d>>
    <3>1. PICK m \in listening_ : busy[m] = <<"accept", d>>
      BY <2>2, Zenon DEF BusyInv
    <3>2. m # l
      BY <2>1, <3>1, Zenon
    <3> QED BY <3>1, <3>2, Zenon
  <2>3. ASSUME NEW m \in 1..Loops, NEW d \in Conns, busy[m] = <<"accept", d>> PROVE status[d] = "checked" /\ m \in listening_'
    <3>1. m # l /\ m \in listening_ /\ status[d] = "checked"
      BY <2>1, <2>3, Zenon DEF BusyInv
    <3> QED BY <3>1, Zenon
  <2>4. /\ \A m \in 1..Loops, d \in Conns : busy[m] = <<"use", d>> => m = io[d] /\ status[d] = "closed"
        /\ \A m, n \in 1..Loops, d \in Conns : busy[m] = <<"accept", d>> /\ busy[n] = <<"accept", d>> => m = n
    BY Zenon DEF BusyInv
  <2>5. busy' = busy /\ io' = io /\ status' = status
    BY <1>0, Zenon
  <2> QED BY ONLY <2>2, <2>3, <2>4, <2>5 DEF BusyInv
<1> QED BY <1>0, <1>2, <1>4, <1>5, <1>6, <1>7, Zenon

\* IOService::Start, before any Stop
LEMMA StartKeeps ==
  ASSUME ServerInv, NEW l \in 1..Loops, NEW k \in 0..Loops, NEW task, NEW ts, Takes(l, k, task, ts),
         task.op = "Start", Start(l, ts), UNCHANGED <<build, serving, index>>
  PROVE  ServerInv'
<1>t. Taken(l, k, task, ts)
  BY TakesHead
<1> USE DEF ServerInv
<1>0. /\ listening_' = listening_ \cup {l} /\ tasks' = ts
      /\ UNCHANGED <<build, serving, index, busy, codecs_, client_count_, conns, requests>>
      /\ ioservices_' = ioservices_ /\ is_stopping_' = is_stopping_ /\ callbacks' = callbacks
  BY DEF Start
<1>1. /\ ConnTypes' /\ OpenInv' /\ UseInv' /\ RequestInv' /\ StoredInv' /\ BusyInv' /\ CountInv'
      /\ Services' = Services /\ l = task.on /\ k = 0
  <2>1. SameButCloses(ts, tasks')
    BY <1>0, Zenon DEF SameButCloses
  <2> QED BY <1>0, <2>1, ServiceKeeps, Zenon
<1>2. /\ QueueInv(ts, status, io, service) /\ FlushInv(ts, status, io, service)
      /\ Fits(task, l, k, status, io, service) /\ task \in Range(tasks[l][k])
      /\ \A m \in 1..Loops, n \in 0..Loops : Range(ts[m][n]) \subseteq Range(tasks[m][n])
  BY ONLY <1>t, Zenon DEF Taken
<1>3. QueueInv(tasks, status, io, service)' /\ FlushInv(tasks, status, io, service)'
  BY <1>0, <1>2, Zenon DEF conns
<1>4. PhaseInv'
  <2>1. T("Start", l) \in Range(tasks[l][0])
    BY <1>1, <1>2, Zenon DEF Fits
  <2>2. serving # "no" /\ l \in Services \ is_stopping_
    BY <2>1, Zenon DEF PhaseInv
  <2>3. \A m \in 1..Loops : Range(tasks'[m][0]) \subseteq Range(tasks[m][0])
    BY <1>0, <1>2, AtHome, Zenon
  <2>4. listening_' \subseteq Services /\ is_stopping_ \cap listening_' = {}
    BY <1>0, <2>2, Zenon DEF PhaseInv
  <2>5. \A m \in 1..Loops :
          /\ T("Start", m) \in Range(tasks'[m][0]) => serving # "no" /\ m \in Services \ is_stopping_
          /\ T("Stop", m) \in Range(tasks'[m][0]) => serving = "stopping" /\ m \in Services \ is_stopping_
    BY <2>3, Zenon DEF PhaseInv
  <2>6. serving' = serving /\ codecs_' = codecs_
    BY <1>0, Zenon
  <2> QED BY <1>0, <1>1, <2>2, <2>4, <2>5, <2>6 DEF PhaseInv
<1> QED BY <1>1, <1>3, <1>4, Zenon

\* IOService::Stop, which is run once and after Start: the service has not reported yet.
LEMMA StopKeeps ==
  ASSUME ServerInv, NEW l \in 1..Loops, NEW k \in 0..Loops, NEW task, NEW ts, Takes(l, k, task, ts),
         task.op = "Stop", Stop(l, ts), UNCHANGED <<build, serving, index>>
  PROVE  ServerInv'
<1>t. Taken(l, k, task, ts)
  BY TakesHead, Zenon
<1> USE DEF ServerInv
<1>0. /\ listening_' = listening_ \ {l} /\ is_stopping_' = is_stopping_ \cup {l} /\ PostCloses(l, ts)
      /\ UNCHANGED <<build, serving, index, busy, codecs_, client_count_, conns, requests>>
  BY Zenon DEF Stop
<1>1. /\ QueueInv(ts, status, io, service) /\ FlushInv(ts, status, io, service)
      /\ Fits(task, l, k, status, io, service) /\ task \in Range(tasks[l][k])
      /\ \A m \in 1..Loops, n \in 0..Loops : Range(ts[m][n]) \subseteq Range(tasks[m][n])
      /\ \A x : x # task /\ Before(tasks[l][k], x, task) => x \notin Range(tasks[l][k])
      /\ Once(tasks[l][k], task) => task \notin Range(ts[l][k])
  BY ONLY <1>t, Zenon DEF Taken
<1>2. task = T("Stop", l) /\ k = 0
  BY <1>1, Zenon DEF Fits
<1>3. QueueInv(tasks', status, io, service) /\ SameButCloses(ts, tasks') /\ FlushInv(tasks', status, io, service)
  <2>1. /\ io \in Homes /\ service \in Homes /\ IsFiniteSet(Stored) /\ codecs_ \in [1..Loops -> SUBSET Conns]
        /\ \A c \in codecs_[l] : service[c] = l /\ status[c] \in {"new", "open", "closed"}
        /\ QueueInv(ts, status, io, service) /\ PostCloses(l, ts) /\ l \in 1..Loops
    BY <1>0, <1>1, AtHome, Zenon DEF CountInv, StoredInv, ConnTypes
  <2>2. /\ QueueInv(tasks', status, io, service) /\ SameButCloses(ts, tasks')
        /\ \A m \in 1..Loops, n \in 0..Loops : Grows(ts[m][n], tasks'[m][n])
    BY ONLY <2>1, PostClosesKeeps, Zenon
  <2>3. ts \in Queues
    BY <1>1, Zenon DEF QueueInv
  <2>4. FlushInv(tasks', status, io, service)
    BY ONLY <1>1, <2>1, <2>2, <2>3, ExtendFlushes, Zenon
  <2> QED BY ONLY <2>2, <2>4
<1>4. ConnTypes' /\ OpenInv' /\ UseInv' /\ RequestInv' /\ StoredInv' /\ BusyInv' /\ CountInv' /\ Services' = Services
  BY <1>0, <1>3, ServiceKeeps, Zenon
<1>5. PhaseInv'
  <2>1. serving = "stopping" /\ l \in Services \ is_stopping_
    BY <1>1, <1>2, Zenon DEF PhaseInv
  <2>2. l \in ioservices_ /\ callbacks = 0
    <3>1. serving # "no"
      BY <2>1, Zenon
    <3>2. l \in ioservices_
      BY <2>1, <3>1, Zenon DEF PhaseInv
    <3>3. callbacks \in Nat /\ (callbacks > 0 => ioservices_ = {})
      BY Zenon DEF PhaseInv
    <3> QED BY ONLY <3>2, <3>3
  <2>3. T("Start", l) \notin Range(ts[l][0]) /\ T("Stop", l) \notin Range(ts[l][0])
    <3>1. T("Start", l) # T("Stop", l) /\ Before(tasks[l][0], T("Start", l), T("Stop", l)) /\ Once(tasks[l][0], T("Stop", l))
      BY TaskEq, Zenon DEF QueueInv
    <3> QED BY <3>1, <1>1, <1>2, Zenon
  <2>4. ASSUME NEW m \in 1..Loops
        PROVE  /\ T("Start", m) \in Range(tasks'[m][0]) => T("Start", m) \in Range(tasks[m][0]) /\ m # l
               /\ T("Stop", m) \in Range(tasks'[m][0]) => T("Stop", m) \in Range(tasks[m][0]) /\ m # l
    <3>1. T("Start", m).op # "close" /\ T("Stop", m).op # "close" /\ 0 \in 0..Loops
      BY TaskFields, AtHome, Zenon
    <3> QED BY <3>1, <1>1, <1>3, <2>3, Zenon DEF SameButCloses
  <2>5. serving' = serving /\ codecs_' = codecs_ /\ listening_' = listening_ \ {l} /\ is_stopping_' = is_stopping_ \cup {l}
    BY <1>0, Zenon
  <2>6. CASE codecs_[l] = {}
    <3>1. ioservices_' = ioservices_ \ {l} /\ callbacks' = (IF ioservices_' = {} THEN 1 ELSE 0)
      <4>1. IOServiceStoped(l)
        BY <2>6, Zenon DEF Stop
      <4> QED BY ONLY <2>2, <4>1 DEF IOServiceStoped
    <3> QED BY <1>4, <2>1, <2>2, <2>4, <2>5, <2>6, <3>1, Zenon DEF PhaseInv
  <2>7. CASE codecs_[l] # {}
    <3>1. ioservices_' = ioservices_ /\ callbacks' = callbacks
      BY <2>7, Zenon DEF Stop
    <3> QED BY <1>4, <2>1, <2>2, <2>4, <2>5, <2>7, <3>1, Zenon DEF PhaseInv
  <2> QED BY <2>6, <2>7, Zenon
<1> QED BY <1>0, <1>3, <1>4, <1>5, Zenon DEF conns

\* RemoveProtocolService: the loop of the service is in no handler of the codec.
LEMMA RemoveKeeps ==
  ASSUME ServerInv, NEW l \in 1..Loops, NEW k \in 0..Loops, NEW task, NEW ts, Takes(l, k, task, ts),
         task.op = "remove", RemoveProtocolService(l, task.on, ts), UNCHANGED <<build, serving, index>>
  PROVE  ServerInv'
<1>t. Taken(l, k, task, ts)
  BY TakesHead, Zenon
<1> USE DEF ServerInv
<1> DEFINE c == task.on
<1>b. busy[l] = Idle
  BY Zenon DEF Takes
<1>1. /\ QueueInv(ts, status, io, service) /\ FlushInv(ts, status, io, service) /\ Fits(task, l, k, status, io, service)
      /\ \A m \in 1..Loops, n \in 0..Loops :
           Range(ts[m][n]) \subseteq Range(tasks[m][n]) /\ Range(tasks[m][n]) \ {task} \subseteq Range(ts[m][n])
  BY ONLY <1>t, Zenon DEF Taken
<1>2. task = T("remove", c) /\ c \in Conns /\ l = service[c] /\ k = io[c] /\ status[c] = "closed"
  BY <1>1, Zenon DEF Fits
<1>3. /\ codecs_' = [codecs_ EXCEPT ![l] = @ \ {c}] /\ tasks' = ts
      /\ client_count_' = client_count_ - (IF c \in codecs_[l] THEN 1 ELSE 0)
      /\ IF l \in is_stopping_ /\ codecs_'[l] = {}
         THEN ioservices_' = ioservices_ \ {l} /\ callbacks' = callbacks + (IF ioservices_' = {} THEN 1 ELSE 0)
         ELSE ioservices_' = ioservices_ /\ callbacks' = callbacks
      /\ UNCHANGED <<build, serving, index, busy, listening_, is_stopping_, conns, requests>>
  BY DEF RemoveProtocolService, IOServiceStoped
<1> HIDE DEF c
<1>4. /\ Services' = Services /\ reuse_port' = reuse_port /\ serving' = serving /\ index' = index /\ io' = io /\ service' = service
      /\ busy' = busy /\ status' = status /\ listening_' = listening_ /\ is_stopping_' = is_stopping_ /\ handlers' = handlers
  BY <1>3 DEF build, conns, requests, Services
<1>5. /\ \A d \in Conns : io[d] \in 1..Loops /\ io[d] \in 0..Loops /\ service[d] \in 1..Loops /\ service[d] \in 0..Loops
      /\ 0 \in 0..Loops
  BY AtHome, Zenon
<1>6. \A m \in 1..Loops : codecs_'[m] = IF m = l THEN codecs_[m] \ {c} ELSE codecs_[m]
  BY <1>3, Zenon DEF ConnTypes
<1>7. ConnTypes'
  BY <1>3, <1>4, Zenon DEF ConnTypes
<1>8. OpenInv'
  <2>1. ASSUME NEW d \in Conns, status[d] = "new" PROVE T("open", d) \in Range(tasks'[io[d]][service[d]])
    <3>0. T("open", d) \in Range(tasks[io[d]][service[d]])
      BY <2>1, Zenon DEF OpenInv
    <3>1. T("open", d) \in Range(tasks[io[d]][service[d]]) /\ T("open", d) # task
      BY ONLY <3>0, <1>2, TaskEq
    <3> QED BY <3>1, <1>1, <1>3, <1>5, Zenon
  <2>2. \A d \in Conns : status[d] \in {"new", "open"} => d # c /\ d \in codecs_'[service[d]]
    BY <1>2, <1>5, <1>6, Zenon DEF OpenInv
  <2> QED BY <1>4, <2>1, <2>2, Zenon DEF OpenInv
<1>9. UseInv' /\ RequestInv'
  <2>1. io[c] = service[c] => busy[io[c]] # <<"use", c>>
    BY <1>b, <1>2, BusyWith, Zenon
  <2>2. UseInv'
    BY <1>4, <1>5, <1>6, <2>1, Zenon DEF UseInv
  <2>3. RequestInv'
    BY <1>4, Zenon DEF RequestInv
  <2> QED BY <2>2, <2>3
<1>10. StoredInv' /\ BusyInv'
  <2>1. \A m \in 1..Loops : codecs_'[m] \subseteq codecs_[m]
    BY <1>6, Zenon
  <2>2. StoredInv'
    BY <1>4, <2>1, Zenon DEF StoredInv
  <2>3. BusyInv'
    BY <1>4, Zenon DEF BusyInv
  <2> QED BY <2>2, <2>3, Zenon
<1>11. PhaseInv'
  <2>1. \A m \in 1..Loops : Range(tasks'[m][0]) \subseteq Range(tasks[m][0])
    BY <1>1, <1>3, <1>5, Zenon
  <2>2. Services \subseteq 1..Loops
    BY AtHome, Zenon
  <2>3. CASE l \in is_stopping_ /\ codecs_'[l] = {}
    <3>1. ioservices_' = ioservices_ \ {l} /\ callbacks' = callbacks + (IF ioservices_' = {} THEN 1 ELSE 0)
      BY <1>3, <2>3, Zenon
    <3>2. \A m \in Services : m \notin ioservices_' <=> m \in is_stopping_ /\ codecs_'[m] = {}
      BY <1>6, <2>2, <2>3, <3>1, Zenon DEF PhaseInv
    <3>3. callbacks' \in Nat /\ (callbacks' > 0 => ioservices_' = {})
      <4>1. callbacks \in Nat /\ (callbacks > 0 => ioservices_ = {})
        BY Zenon DEF PhaseInv
      <4> QED BY ONLY <3>1, <4>1
    <3>4. ioservices_' \subseteq ioservices_ /\ serving # "no" /\ serving # "yes"
      BY <2>3, <3>1, Zenon DEF PhaseInv
    <3> QED BY <1>4, <2>1, <2>3, <3>2, <3>3, <3>4, Zenon DEF PhaseInv
  <2>4. CASE ~(l \in is_stopping_ /\ codecs_'[l] = {})
    <3>1. ioservices_' = ioservices_ /\ callbacks' = callbacks
      BY <1>3, <2>4, Zenon
    <3>2. serving # "no" => \A m \in Services : m \notin ioservices_' <=> m \in is_stopping_ /\ codecs_'[m] = {}
      BY <1>6, <2>2, <2>4, <3>1, Zenon DEF PhaseInv
    <3> QED BY <1>4, <2>1, <3>1, <3>2, Zenon DEF PhaseInv
  <2> QED BY <2>3, <2>4
<1>12. CountInv'
  <2>1. ASSUME NEW x \in (1..Loops) \X Conns
        PROVE  x[2] \in codecs_'[x[1]] <=> (x[2] \in codecs_[x[1]] /\ x # <<l, c>>)
    <3>1. x = <<x[1], x[2]>> /\ x[1] \in 1..Loops
      OBVIOUS
    <3>2. x = <<l, c>> <=> x[1] = l /\ x[2] = c
      BY <3>1
    <3>3. codecs_'[x[1]] = IF x[1] = l THEN codecs_[x[1]] \ {c} ELSE codecs_[x[1]]
      BY <3>1, <1>6, Zenon
    <3> QED BY ONLY <3>2, <3>3, Zenon
  <2>2. Stored' = Stored \ {<<l, c>>}
    BY <2>1, Zenon DEF Stored
  <2>3. <<l, c>> \in Stored <=> c \in codecs_[l]
    BY <1>2, Zenon DEF Stored
  <2>4. IsFiniteSet(Stored') /\ Cardinality(Stored') = Cardinality(Stored) - (IF c \in codecs_[l] THEN 1 ELSE 0)
    <3>0. IsFiniteSet(Stored) /\ Cardinality(Stored) \in Nat
      BY FS_CardinalityType, Zenon DEF CountInv
    <3>1. CASE c \in codecs_[l]
      BY <3>0, <3>1, <2>2, <2>3, FS_RemoveElement, Zenon
    <3>2. CASE c \notin codecs_[l]
      <4>1. Stored' = Stored
        BY <2>2, <2>3, <3>2, Zenon
      <4> QED BY <3>0, <3>2, <4>1
    <3> QED BY <3>1, <3>2, Zenon
  <2> QED BY <1>3, <2>4, Zenon DEF CountInv
<1> QED BY <1>1, <1>3, <1>4, <1>7, <1>8, <1>9, <1>10, <1>11, <1>12, Zenon

\* A loop runs a task.
LEMMA RunTaskKeeps ==
  ASSUME ServerInv, NEW l \in 1..Loops, RunTask(l)
  PROVE  ServerInv'
<1>1. PICK k \in 0..Loops :
        /\ tasks[l][k] # <<>>
        /\ LET task == Head(tasks[l][k])
               ts == [tasks EXCEPT ![l][k] = Tail(@)]
           IN  \/ task.op = "Start" /\ Start(l, ts)
               \/ task.op = "Stop" /\ Stop(l, ts)
               \/ task.op = "open" /\ Open(task.on, ts)
               \/ task.op = "close" /\ Close(task.on, ts)
               \/ task.op = "remove" /\ RemoveProtocolService(l, task.on, ts)
               \/ task.op = "reply" /\ Reply(task.on, ts)
               \/ task.op \in {"flush", "late"} /\ Flush(task.on, ts)
  BY Zenon DEF RunTask
<1> DEFINE task == Head(tasks[l][k])
           ts == [tasks EXCEPT ![l][k] = Tail(@)]
<1>2. Takes(l, k, task, ts) /\ UNCHANGED <<build, serving, index>>
  BY <1>1, Zenon DEF Takes, RunTask
<1>3. \/ task.op = "Start" /\ Start(l, ts)
      \/ task.op = "Stop" /\ Stop(l, ts)
      \/ task.op = "open" /\ Open(task.on, ts)
      \/ task.op = "close" /\ Close(task.on, ts)
      \/ task.op = "remove" /\ RemoveProtocolService(l, task.on, ts)
      \/ task.op = "reply" /\ Reply(task.on, ts)
      \/ task.op \in {"flush", "late"} /\ Flush(task.on, ts)
  BY <1>1, Zenon
<1> HIDE DEF task, ts
<1> QED BY <1>2, <1>3, StartKeeps, StopKeeps, OpenKeeps, CloseKeeps, RemoveKeeps, ReplyKeeps, FlushKeeps, Zenon

-----------------------------------------------------------------------------
(* The theorems.                                                           *)

\* The initial states satisfy ServerInv.
LEMMA InitServer ==
  ASSUME Init
  PROVE  ServerInv
<1>0. 0 \in 0..Loops /\ 1 \in 1..Loops /\ 0 \in 0..Loops - 1 /\ Services \subseteq 1..Loops
  BY ServerAssumption DEF Services
<1>1. /\ tasks = [l \in 1..Loops |-> [k \in 0..Loops |-> <<>>]] /\ busy = [l \in 1..Loops |-> Idle]
      /\ codecs_ = [s \in 1..Loops |-> {}] /\ status = [c \in Conns |-> "none"]
      /\ io = [c \in Conns |-> 1] /\ service = [c \in Conns |-> 1] /\ index = 0
      /\ serving = "no" /\ ioservices_ = {} /\ listening_ = {} /\ is_stopping_ = {} /\ client_count_ = 0 /\ callbacks = 0
      /\ handlers = [c \in Conns |-> 0]
  BY Zenon DEF Init
<1>2. ConnTypes
  BY <1>0, <1>1 DEF ConnTypes
<1>3. io \in Homes /\ service \in Homes
  BY <1>2, AtHome, Zenon
<1>4. \A l \in 1..Loops, k \in 0..Loops : tasks[l][k] = <<>> /\ Len(tasks[l][k]) = 0 /\ Range(tasks[l][k]) = {}
  <2>1. << >> \in Seq(Task) /\ Len(<< >>) = 0 /\ Range(<< >>) = {}
    BY DEF Range
  <2> QED BY <1>1, <2>1, Zenon
<1>5. tasks \in Queues
  <2>1. << >> \in Seq(Task)
    OBVIOUS
  <2> QED BY <1>1, <2>1 DEF Queues
<1>6. \A l \in 1..Loops, k \in 0..Loops : \A x, y : Before(tasks[l][k], x, y) /\ Once(tasks[l][k], x)
  BY <1>4 DEF Before, Once
<1>7. \A c \in Conns : io[c] \in 1..Loops /\ io[c] \in 0..Loops /\ service[c] \in 1..Loops /\ service[c] \in 0..Loops
  BY <1>2, AtHome, Zenon
<1>8. QueueInv(tasks, status, io, service)
  BY <1>0, <1>4, <1>5, <1>6, <1>7, Zenon DEF QueueInv
<1>9. \A c \in Conns : status[c] = "none" /\ io[c] = service[c] /\ busy[io[c]] # <<"use", c>> /\ handlers[c] = 0
  BY <1>0, <1>1, <1>7, BusyWith, Zenon
<1>10. OpenInv /\ UseInv /\ FlushInv(tasks, status, io, service)
  BY <1>9, Zenon DEF OpenInv, UseInv, FlushInv
<1>a. RequestInv
  BY <1>1, <1>9 DEF RequestInv
<1>11. StoredInv
  BY <1>1, Zenon DEF StoredInv
<1>12. BusyInv
  BY <1>1, <1>9, BusyWith, Zenon DEF BusyInv
<1>13. PhaseInv
  BY <1>0, <1>1, <1>4, Zenon DEF PhaseInv
<1>14. Stored = {}
  BY <1>1, Zenon DEF Stored
<1>15. CountInv
  BY <1>1, <1>14, FS_EmptySet, Zenon DEF CountInv
<1> QED BY <1>2, <1>8, <1>10, <1>a, <1>11, <1>12, <1>13, <1>15, Zenon DEF ServerInv

\* ServerInv is an inductive invariant.
LEMMA ServerInvariant == Spec => []ServerInv
<1>1. Init => ServerInv
  BY InitServer, Zenon
<1>2. ServerInv /\ [Next]_vars => ServerInv'
  <2> SUFFICES ASSUME ServerInv, [Next]_vars PROVE ServerInv'
    OBVIOUS
  <2>1. CASE UNCHANGED vars
    <3>1. UNCHANGED <<build, tasks, busy, serving, server, index, conns, requests>>
      BY <2>1, Zenon DEF vars
    <3>2. /\ tasks' = tasks /\ busy' = busy /\ serving' = serving /\ index' = index /\ status' = status /\ io' = io
          /\ service' = service /\ ioservices_' = ioservices_ /\ listening_' = listening_ /\ is_stopping_' = is_stopping_
          /\ codecs_' = codecs_ /\ client_count_' = client_count_ /\ callbacks' = callbacks
          /\ reuse_port' = reuse_port /\ Services' = Services /\ handlers' = handlers
      BY <3>1, Zenon DEF build, server, conns, requests, Services
    <3> USE DEF ServerInv
    <3>4. QueueInv(tasks, status, io, service)' /\ FlushInv(tasks, status, io, service)' /\ ConnTypes' /\ CountInv'
      BY <3>2, Zenon DEF ConnTypes, CountInv, Stored
    <3>5. OpenInv' /\ UseInv' /\ RequestInv'
      BY <3>2, Zenon DEF OpenInv, UseInv, RequestInv
    <3>6. StoredInv' /\ BusyInv'
      <4>1. StoredInv'
        BY <3>2, Zenon DEF StoredInv
      <4>2. BusyInv'
        BY <3>2, Zenon DEF BusyInv
      <4> QED BY <4>1, <4>2, Zenon
    <3>7. PhaseInv'
      BY <3>2, Zenon DEF PhaseInv
    <3> QED BY <3>4, <3>5, <3>6, <3>7
  <2>2. ASSUME NEW l \in 1..Loops, Progress(l) PROVE ServerInv'
    BY <2>2, RunTaskKeeps, StoreKeeps, EventEndsKeeps, Zenon DEF Progress
  <2>3. ASSUME NEW c \in Conns, (\E s \in Services : Accept(s, c)) \/ PeerEnds(c) \/ HandleEventCloses(c)
        PROVE  ServerInv'
    BY <2>3, AcceptConnKeeps, PeerKeeps, EventClosesKeeps, Zenon
  <2>4. ASSUME NEW c \in Conns, HandleRequest(c) \/ ReplyInLoop(c) \/ \E k \in 0..Loops : PostReply(c, k)
        PROVE  ServerInv'
    BY <2>4, RequestKeeps, ReplyInLoopKeeps, PostReplyKeeps, Zenon
  <2> QED BY <2>1, <2>2, <2>3, <2>4, ApplicationKeeps, Zenon DEF Next
<1> QED BY <1>1, <1>2, PTL DEF Spec

\* client_count_ is the number of connections that are stored, however often they are reported
\* as closed.
THEOREM CountTheorem == Spec => []CountIsStored
<1>1. ServerInv => CountIsStored
  BY Zenon DEF ServerInv, CountInv, CountIsStored
<1> QED BY <1>1, ServerInvariant, PTL

\* The tasks of IOService::Stop find every codec started: CloseService does not abort.
THEOREM StartedTheorem == Spec => []CloseFindsStarted
<1>1. ServerInv => CloseFindsStarted
  BY Zenon DEF ServerInv, ConnTypes, CloseFindsStarted
<1> QED BY <1>1, ServerInvariant, PTL

\* A codec that is served on the loop of its service is not destroyed while HandleEvent has yet
\* to use it, nor while flush_fn_ has that no reply to a closed codec posted: it is stored, or a
\* task that removes it follows.
THEOREM SameLoopTheorem == Spec => []SameLoopIsSafe
<1>1. ServerInv => SameLoopIsSafe
  <2> SUFFICES ASSUME ServerInv, NEW c \in Conns, io[c] = service[c],
                      busy[io[c]] = <<"use", c>> \/ T("flush", c) \in Range(tasks[io[c]][io[c]])
               PROVE  ~Destroyed(c)
    BY Zenon DEF SameLoopIsSafe, T
  <2> USE DEF ServerInv
  <2> DEFINE m == io[c]
             q == tasks[m][m]
  <2>1. m \in 1..Loops /\ m \in 0..Loops /\ tasks \in Queues
    BY AtHome, Zenon DEF QueueInv
  <2>2. CASE c \in codecs_[service[c]]
    BY <2>2, Zenon DEF Destroyed
  <2>3. CASE c \notin codecs_[service[c]]
    <3>1. T("flush", c) \in Range(q)
      BY <2>3, Zenon DEF UseInv
    <3>2. Fits(T("flush", c), m, m, status, io, service)
      BY <2>1, <3>1, Zenon DEF QueueInv
    <3>3. status[c] \in {"open", "closed"}
      BY ONLY <3>2, TaskFields, SMTT(30) DEF Fits
    <3>4. status[c] = "closed"
      BY <2>3, <3>3 DEF OpenInv
    <3>5. Followed(q, T("flush", c), T("remove", c))
      BY <3>4, Zenon DEF FlushInv, FlushesFirst
    <3>6. q \in Seq(Task)
      BY <2>1, Zenon DEF Queues
    <3> HIDE DEF m, q
    <3>7. T("remove", c) \in Range(q)
      BY ONLY <3>1, <3>5, <3>6, RangeIs DEF Followed
    <3> QED BY <2>1, <3>7, Zenon DEF Destroyed, T, m, q
  <2> QED BY <2>2, <2>3
<1> QED BY <1>1, ServerInvariant, PTL

\* When closed_callback_ is called nothing listens, no connection is left, and with a service
\* on each loop no loop is in a handler of a codec.
THEOREM StoppedTheorem == Spec => []StoppedIsEmpty
<1>1. ServerInv => StoppedIsEmpty
  <2> SUFFICES ASSUME ServerInv, callbacks > 0
               PROVE  /\ client_count_ = 0 /\ listening_ = {}
                      /\ \A c \in Conns : status[c] \notin {"checked", "new", "open"} /\ (reuse_port => busy[io[c]] # <<"use", c>>)
    BY Zenon DEF StoppedIsEmpty
  <2> USE DEF ServerInv
  <2>1. ioservices_ = {} /\ serving # "no"
    BY DEF PhaseInv
  <2>2. \A l \in Services : l \in is_stopping_ /\ codecs_[l] = {}
    BY <2>1 DEF PhaseInv
  <2>3. \A l \in 1..Loops : codecs_[l] = {}
    BY <2>2 DEF StoredInv
  <2>4. listening_ = {}
    BY <2>2, Zenon DEF PhaseInv
  <2>5. Stored = {}
    BY <2>3, Zenon DEF Stored
  <2>6. client_count_ = 0
    BY <2>5, FS_EmptySet DEF CountInv
  <2>7. \A c \in Conns : c \notin codecs_[service[c]]
    BY <2>3, AtHome, Zenon
  <2>8. \A c \in Conns : status[c] \notin {"checked", "new", "open"}
    BY <2>4, <2>7, Zenon DEF OpenInv, BusyInv
  <2>9. \A c \in Conns : reuse_port => busy[io[c]] # <<"use", c>>
    BY <2>7, Zenon DEF OpenInv, UseInv
  <2> QED BY <2>4, <2>6, <2>8, <2>9, Zenon
<1> QED BY <1>1, ServerInvariant, PTL
=============================================================================
