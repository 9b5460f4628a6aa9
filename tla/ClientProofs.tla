--------------------------- MODULE ClientProofs ---------------------------
(***************************************************************************)
(* For any number of connections, descriptors and reports: the dials of a  *)
(* client do not multiply, a connection that is missing is dialled, one    *)
(* that is closed is removed, and no CHECK fails before Finalize.          *)
(*                                                                         *)
(* WaitGroup, with which a coroutine waits for the clients it has started, *)
(* for any finite set of workers.                                          *)
(***************************************************************************)
EXTENDS Client, WaitGroup, FiniteSetTheorems, TLAPS

\* What is dialled is on its way to the list or back to a dial: the dials and the
\* removals that wait are bounded by the first dials and the reports, and with them
\* the connections.  A connection that asks for one dial more is not the last one.
DialInv ==
  /\ first_dials \in Nat /\ dials \in Nat /\ delayed \in Nat /\ reports \in Nat /\ count \in Nat
  /\ channels \subseteq Fds /\ closed_tasks \subseteq Fds
  /\ conn \in [Fds -> States]
  /\ inprogress = {c \in Fds : conn[c] \in Dialling}
  /\ Dials + Cardinality(closed_tasks) <= InitCount + reports
  /\ Cardinality(channels) + Dials + Cardinality(closed_tasks) <= InitCount + Required - 1 + reports

\* The descriptor of a channel that is listed or is to be closed is the channel's, and
\* not in the hands of the Connector.
HeldInv ==
  /\ close_tasks \subseteq Fds
  /\ \A c \in channels \cup close_tasks : conn[c] \in {"starting", "open", "closed"}

\* The cardinality of a set of descriptors when one comes or goes
LEMMA CardStep ==
  ASSUME NEW S, S \subseteq Fds, NEW c \in Fds
  PROVE  /\ Cardinality(S) \in Nat
         /\ Cardinality(S \cup {c}) \in Nat /\ Cardinality(S \cup {c}) <= Cardinality(S) + 1
         /\ Cardinality(S \ {c}) \in Nat /\ Cardinality(S \ {c}) <= Cardinality(S)
         /\ c \in S => Cardinality(S \ {c}) = Cardinality(S) - 1
<1>1. IsFiniteSet(Fds)
  BY FS_Interval, ClientAssumption, 1 \in Int, MaxFds \in Int DEF Fds
<1>2. IsFiniteSet(S) /\ Cardinality(S) \in Nat
  BY <1>1, FS_Subset, FS_CardinalityType
<1>3. Cardinality(S \cup {c}) \in Nat /\ Cardinality(S \cup {c}) <= Cardinality(S) + 1
  BY <1>2, FS_AddElement, FS_CardinalityType
<1>4. /\ Cardinality(S \ {c}) \in Nat /\ Cardinality(S \ {c}) <= Cardinality(S)
      /\ c \in S => Cardinality(S \ {c}) = Cardinality(S) - 1
  <2>1. Cardinality(S \ {c}) \in Nat
    BY <1>2, FS_Subset, FS_CardinalityType
  <2>2. Cardinality(S \ {c}) = IF c \in S THEN Cardinality(S) - 1 ELSE Cardinality(S)
    BY <1>2, FS_RemoveElement
  <2> QED BY <1>2, <2>1, <2>2
<1> QED BY <1>2, <1>3, <1>4

LEMMA InitCountType == InitCount \in Nat /\ Required \in Nat \ {0}
  BY ClientAssumption DEF InitCount

LEMMA CardTypes ==
  ASSUME DialInv
  PROVE  /\ inprogress \subseteq Fds
         /\ Cardinality(channels) \in Nat /\ Cardinality(closed_tasks) \in Nat
         /\ Cardinality(inprogress) \in Nat
<1>1. IsFiniteSet(Fds)
  BY FS_Interval, ClientAssumption, 1 \in Int, MaxFds \in Int DEF Fds
<1>2. inprogress \subseteq Fds
  BY DEF DialInv
<1> QED BY <1>1, <1>2, FS_Subset, FS_CardinalityType DEF DialInv

LEMMA IntMissing == ASSUME NEW a \in Nat, NEW b \in Nat, NEW r \in Nat, ~(r <= a + b) PROVE a <= r - 1
  OBVIOUS

\* launch_next_if_need asks for a dial only if a connection is missing.
LEMMA LaunchBound ==
  ASSUME DialInv, NEW n \in Nat, launch_next_if_need(n), channels_count' \in Nat
  PROVE  /\ dials' \in Nat /\ n <= dials' /\ dials' <= n + 1
         /\ dials' = n + 1 => channels_count' <= Required - 1
<1>1. count \in Nat /\ Required \in Nat
  BY ClientAssumption DEF DialInv
<1>2. CASE stopping \/ Required <= channels_count' + count
  <2>1. dials' = n
    BY <1>2, Zenon DEF launch_next_if_need
  <2> QED BY <2>1
<1>3. CASE ~(stopping \/ Required <= channels_count' + count)
  <2>1. dials' = n + 1 /\ ~(Required <= channels_count' + count)
    BY <1>3, Zenon DEF launch_next_if_need
  <2>2. channels_count' <= Required - 1
    BY <1>1, <2>1, IntMissing
  <2> QED BY <2>1, <2>2
<1> QED BY <1>2, <1>3

\* OnConnectFailed asks for one dial at most.
LEMMA FailBound ==
  ASSUME NEW n \in Nat, OnConnectFailed(n)
  PROVE  delayed' \in Nat /\ delayed' <= n + 1
  BY DEF OnConnectFailed

\* A step that is not about dials keeps the bound.
LEMMA FrameKeeps ==
  ASSUME DialInv,
         UNCHANGED <<first_dials, dials, delayed, reports, count, channels, closed_tasks, inprogress>>,
         conn' \in [Fds -> States], \A c \in Fds : conn'[c] \in Dialling <=> conn[c] \in Dialling
  PROVE  DialInv'
  BY DEF DialInv, Dials

\* A channel that is removed may make room for a dial, which a report pays for: a new
\* one, or the one whose removal waited.
LEMMA RemoveKeeps ==
  ASSUME DialInv, NEW c \in Fds, RemoveChannel(c),
         UNCHANGED <<first_dials, delayed, count, inprogress>>,
         conn' \in [Fds -> States], \A d \in Fds : conn'[d] \in Dialling <=> conn[d] \in Dialling,
         reports' \in Nat, closed_tasks' \subseteq Fds,
         Cardinality(closed_tasks)' \in Nat,
         Cardinality(closed_tasks)' - reports' = Cardinality(closed_tasks) - reports - 1
  PROVE  DialInv'
<1>1. channels' = channels \ {c} /\ channels_count' = Cardinality(channels')
  BY DEF RemoveChannel, Publish
<1>2. Cardinality(channels') \in Nat /\ Cardinality(channels') <= Cardinality(channels)
  BY <1>1, CardStep DEF DialInv
<1>3. dials' \in Nat /\ dials' <= dials + 1
  BY <1>1, <1>2, LaunchBound DEF RemoveChannel, DialInv
<1>4. channels' \subseteq Fds
  BY <1>1 DEF DialInv
<1>5. inprogress' = {d \in Fds : conn'[d] \in Dialling}
  BY DEF DialInv
<1>6. Dials \in Nat /\ Dials' \in Nat /\ Dials' <= Dials + 1
  BY <1>3, CardTypes DEF Dials, DialInv
<1>7. /\ Dials' + Cardinality(closed_tasks)' <= InitCount + reports'
      /\ Cardinality(channels)' + Dials' + Cardinality(closed_tasks)' <= InitCount + Required - 1 + reports'
  BY <1>2, <1>6, CardTypes, InitCountType DEF DialInv
<1> QED BY <1>3, <1>4, <1>5, <1>7 DEF DialInv

\* A step of the Connector that uses up a dial for a connection, or keeps it for one
\* that is not the last, or makes none.
LEMMA BoundStep ==
  ASSUME DialInv, UNCHANGED <<closed_tasks, reports>>, count' \in Nat,
         first_dials' \in Nat, dials' \in Nat, delayed' \in Nat, channels' \subseteq Fds,
         conn' \in [Fds -> States], inprogress' = {c \in Fds : conn'[c] \in Dialling},
         Cardinality(channels') \in Nat, Dials' \in Nat,
         \/ Dials' <= Dials - 1 /\ Cardinality(channels') <= Cardinality(channels) + 1
         \/ Dials' <= Dials /\ (Cardinality(channels') <= Cardinality(channels)
                                  \/ Cardinality(channels') <= Required - 1)
  PROVE  DialInv'
<1>1. Dials \in Nat
  BY CardTypes DEF Dials, DialInv
<1>2. closed_tasks' = closed_tasks /\ reports' = reports
  OBVIOUS
<1>3. /\ Dials' + Cardinality(closed_tasks) <= InitCount + reports
      /\ Cardinality(channels') + Dials' + Cardinality(closed_tasks) <= InitCount + Required - 1 + reports
  BY <1>1, CardTypes, InitCountType DEF DialInv
<1> QED BY <1>2, <1>3 DEF DialInv

\* OnConnected of descriptor c, where n dials were posted before
LEMMA ConnectedBound ==
  ASSUME DialInv, NEW c \in Fds, NEW n \in Nat, OnConnected(c, n)
  PROVE  /\ conn' = [conn EXCEPT ![c] = "starting"] /\ conn' \in [Fds -> States]
         /\ channels' \subseteq Fds /\ Cardinality(channels') \in Nat
         /\ Cardinality(channels') <= Cardinality(channels) + 1
         /\ dials' \in Nat
         /\ dials' = n \/ (dials' = n + 1 /\ Cardinality(channels') <= Required - 1)
<1>1. channels' = channels \cup {c} /\ channels_count' = Cardinality(channels')
  BY DEF OnConnected, Publish
<1>2. Cardinality(channels') \in Nat /\ Cardinality(channels') <= Cardinality(channels) + 1
  BY <1>1, CardStep DEF DialInv
<1>3. /\ dials' \in Nat /\ n <= dials' /\ dials' <= n + 1
      /\ dials' = n + 1 => channels_count' <= Required - 1
  BY <1>1, <1>2, LaunchBound DEF OnConnected
<1>4. conn' = [conn EXCEPT ![c] = "starting"] /\ conn' \in [Fds -> States]
  BY DEF OnConnected, DialInv, States
<1>5. channels' \subseteq Fds
  BY <1>1 DEF DialInv
<1> QED BY <1>1, <1>2, <1>3, <1>4, <1>5

\* One dial fewer is posted, and one more is delayed or in progress.
LEMMA SumBound ==
  ASSUME NEW x \in Nat, NEW s \in Nat, NEW m \in Nat, NEW m1 \in Nat, NEW p \in Nat, NEW p1 \in Nat,
         x + m + 1 = s, m1 + p1 <= m + p + 1
  PROVE  x + m1 + p1 \in Nat /\ x + m1 + p1 <= s + p
OBVIOUS

\* Dial, which takes one dial out of those that are posted
LEMMA DialKeeps ==
  ASSUME DialInv, NEW n \in Nat, NEW m \in Nat, Dial(n, m), UNCHANGED <<closed_tasks, reports>>,
         NEW f \in Nat, first_dials' = f, f + n + m + 1 = first_dials + dials + delayed
  PROVE  DialInv'
<1> DEFINE P == Cardinality(inprogress)
<1>1. P \in Nat /\ inprogress \subseteq Fds /\ Cardinality(channels) \in Nat /\ Dials \in Nat
  BY CardTypes DEF Dials, DialInv
<1>2. first_dials \in Nat /\ dials \in Nat /\ delayed \in Nat
  BY DEF DialInv
<1>3. Dials = (first_dials + dials + delayed) + P
  BY DEF Dials
<1>4. f + n \in Nat /\ first_dials + dials + delayed \in Nat
  BY <1>2
<1>5. CASE /\ OnConnectFailed(m) /\ dials' = n
           /\ UNCHANGED <<inprogress, count, channels, channels_count, conn, loop, attached>>
  <2>1. delayed' \in Nat /\ delayed' <= m + 1
    BY <1>5, FailBound
  <2>2. Dials' = f + n + delayed' + P
    BY <1>5 DEF Dials
  <2>3. delayed' + P <= m + P + 1
    BY <1>1, <2>1
  <2>4. Dials' \in Nat /\ Dials' <= Dials
    BY <1>1, <1>4, <1>3, <2>1, <2>2, <2>3, SumBound
  <2> QED BY <1>1, <1>5, <2>1, <2>4, BoundStep DEF DialInv
<1>6. ASSUME NEW c \in Fds, IsNext(c), OnConnected(c, n), delayed' = m, UNCHANGED <<inprogress, count, gave_up>>
      PROVE  DialInv'
  <2>1. /\ conn' = [conn EXCEPT ![c] = "starting"] /\ conn' \in [Fds -> States]
        /\ channels' \subseteq Fds /\ Cardinality(channels') \in Nat
        /\ Cardinality(channels') <= Cardinality(channels) + 1
        /\ dials' \in Nat
        /\ dials' = n \/ (dials' = n + 1 /\ Cardinality(channels') <= Required - 1)
    BY <1>6, ConnectedBound
  <2>2. inprogress' = {d \in Fds : conn'[d] \in Dialling}
    BY <1>6, <2>1 DEF IsNext, Dialling, DialInv
  <2>3. /\ Dials' \in Nat
        /\ Dials' <= Dials - 1 \/ (Dials' <= Dials /\ Cardinality(channels') <= Required - 1)
    BY <1>1, <1>6, <2>1 DEF Dials, DialInv
  <2>4. count' \in Nat
    BY <1>6 DEF DialInv
  <2> QED BY <1>6, <2>1, <2>2, <2>3, <2>4, BoundStep
<1>7. ASSUME NEW c \in Fds, IsNext(c), conn' = [conn EXCEPT ![c] = "connecting"],
             inprogress' = inprogress \cup {c}, dials' = n, delayed' = m,
             UNCHANGED <<count, gave_up, channels, channels_count, loop, attached>>
      PROVE  DialInv'
  <2>1. Cardinality(inprogress') \in Nat /\ Cardinality(inprogress') <= P + 1
    BY <1>1, <1>7, CardStep
  <2>2. Dials' = f + n + m + Cardinality(inprogress')
    BY <1>7 DEF Dials
  <2>3. m + Cardinality(inprogress') <= m + P + 1
    BY <1>1, <2>1
  <2>4. Dials' \in Nat /\ Dials' <= Dials
    BY <1>1, <1>4, <1>3, <2>1, <2>2, <2>3, SumBound
  <2>5. inprogress' = {d \in Fds : conn'[d] \in Dialling} /\ conn' \in [Fds -> States]
    BY <1>7 DEF Dialling, States, DialInv
  <2> QED BY <1>1, <1>7, <2>4, <2>5, BoundStep, SMTT(30) DEF DialInv
<1> QED BY <1>5, <1>6, <1>7, Zenon DEF Dial

\* HandleEvent ends one dial in progress, which goes back to a delayed one or becomes
\* a connection.
LEMMA HandleEventKeeps ==
  ASSUME DialInv, NEW c \in Fds, HandleEvent(c)
  PROVE  DialInv'
<1> DEFINE P == Cardinality(inprogress)
<1>1. P \in Nat /\ inprogress \subseteq Fds /\ Cardinality(channels) \in Nat /\ Dials \in Nat
  BY CardTypes DEF Dials, DialInv
<1>2. first_dials \in Nat /\ dials \in Nat /\ delayed \in Nat /\ count \in Nat
  BY DEF DialInv
<1>3. c \in inprogress
  BY DEF HandleEvent, Dialling, DialInv
<1>4. Cardinality(inprogress \ {c}) \in Nat /\ Cardinality(inprogress \ {c}) = P - 1
  BY <1>1, <1>3, CardStep
<1>5. first_dials' = first_dials /\ closed_tasks' = closed_tasks /\ reports' = reports
  BY DEF HandleEvent, Elsewhere
<1>6. Dials = first_dials + dials + delayed + P
  BY DEF Dials
<1>7. ASSUME OnConnectFailed(delayed), NEW s \in States \ Dialling, conn' = [conn EXCEPT ![c] = s],
             inprogress' = inprogress \ {c}, count' \in Nat, dials' = dials, channels' = channels
      PROVE  DialInv'
  <2>1. delayed' \in Nat /\ delayed' <= delayed + 1
    BY <1>2, <1>7, FailBound
  <2>2. Dials' = first_dials + dials + delayed' + (P - 1)
    BY <1>4, <1>5, <1>7 DEF Dials
  <2>3. Dials' \in Nat /\ Dials' <= Dials
    BY <1>1, <1>2, <1>4, <1>6, <2>1, <2>2
  <2>4. inprogress' = {d \in Fds : conn'[d] \in Dialling} /\ conn' \in [Fds -> States]
    BY <1>7 DEF DialInv
  <2> QED BY <1>1, <1>2, <1>5, <1>7, <2>1, <2>3, <2>4, BoundStep DEF DialInv
<1>8. ASSUME OnConnected(c, dials), inprogress' = inprogress \ {c}, delayed' = delayed, count' = count
      PROVE  DialInv'
  <2>1. /\ conn' = [conn EXCEPT ![c] = "starting"] /\ conn' \in [Fds -> States]
        /\ channels' \subseteq Fds /\ Cardinality(channels') \in Nat
        /\ Cardinality(channels') <= Cardinality(channels) + 1
        /\ dials' \in Nat
        /\ dials' = dials \/ (dials' = dials + 1 /\ Cardinality(channels') <= Required - 1)
    BY <1>2, <1>8, ConnectedBound
  <2>2. inprogress' = {d \in Fds : conn'[d] \in Dialling}
    BY <1>8, <2>1 DEF Dialling, DialInv
  <2>3. Dials' = first_dials + dials' + delayed + (P - 1)
    BY <1>4, <1>5, <1>8 DEF Dials
  <2>4. /\ Dials' \in Nat
        /\ Dials' <= Dials - 1 \/ (Dials' <= Dials /\ Cardinality(channels') <= Required - 1)
    BY <1>1, <1>2, <1>4, <1>6, <2>1, <2>3
  <2> QED BY <1>2, <1>5, <1>8, <2>1, <2>2, <2>4, BoundStep
<1>9. CASE conn[c] = "writable"
  <2>1. RemoveFromInprogress(c)
    BY <1>9 DEF HandleEvent
  <2> QED BY <1>4, <1>7, <2>1, "free" \in States \ Dialling DEF RemoveFromInprogress, States, Dialling
<1>10. CASE conn[c] # "writable"
  <2>1. HandleWrite(c)
    BY <1>10 DEF HandleEvent
  <2>2. CASE conn[c] = "refused"
    BY <1>2, <1>7, <2>1, <2>2, "leaked" \in States \ Dialling DEF HandleWrite, States, Dialling
  <2>3. CASE conn[c] # "refused"
    BY <1>8, <2>1, <2>3 DEF HandleWrite
  <2> QED BY <2>2, <2>3
<1> QED BY <1>9, <1>10

\* Connector::Stop drops the dials in progress.
LEMMA StopKeeps ==
  ASSUME DialInv, RunStop
  PROVE  DialInv'
<1>1. /\ inprogress' = {} /\ first_dials' = first_dials /\ dials' = dials /\ delayed' = delayed
      /\ count' = 0 /\ channels' = channels /\ closed_tasks' = closed_tasks /\ reports' = reports
      /\ conn' = [c \in Fds |-> IF c \in inprogress THEN "free" ELSE conn[c]]
  BY DEF RunStop, Stop, Elsewhere
<1>2. Cardinality(inprogress') = 0
  BY <1>1, FS_EmptySet
<1>3. /\ first_dials \in Nat /\ dials \in Nat /\ delayed \in Nat /\ Cardinality(inprogress) \in Nat
      /\ Cardinality(channels) \in Nat /\ channels \subseteq Fds
  BY CardTypes DEF DialInv
<1>4. Dials = first_dials + dials + delayed + Cardinality(inprogress)
  BY DEF Dials
<1>5. Dials' = first_dials + dials + delayed
  BY <1>1, <1>2, <1>3 DEF Dials
<1>6. Dials' \in Nat /\ Dials' <= Dials
  BY <1>3, <1>4, <1>5
<1>7. inprogress' = {c \in Fds : conn'[c] \in Dialling} /\ conn' \in [Fds -> States]
  BY <1>1 DEF DialInv, Dialling, States
<1>8. count' \in Nat
  BY <1>1
<1>9. /\ first_dials' \in Nat /\ dials' \in Nat /\ delayed' \in Nat /\ channels' \subseteq Fds
      /\ Cardinality(channels') \in Nat /\ Cardinality(channels') <= Cardinality(channels)
  BY <1>1, <1>3
<1> QED BY <1>1, <1>6, <1>7, <1>8, <1>9, BoundStep

\* A report is a removal at once, or one that waits, or the end of the process.
LEMMA ChannelClosesKeeps ==
  ASSUME DialInv, NEW c \in Fds, ChannelCloses(c)
  PROVE  DialInv'
<1>1. /\ first_dials' = first_dials /\ delayed' = delayed /\ inprogress' = inprogress /\ count' = count
      /\ reports \in Nat /\ reports' = reports + 1 /\ closed_tasks \subseteq Fds /\ OnClientChannelClosed(c)
  BY DEF ChannelCloses, DialInv
<1>2. conn' \in [Fds -> States] /\ \A d \in Fds : conn'[d] \in Dialling <=> conn[d] \in Dialling
  BY DEF ChannelCloses, DialInv, States, Dialling
<1>3. Cardinality(closed_tasks) \in Nat
  BY CardTypes
<1>4. CASE loop[c] = "work"
  <2>1. RemoveChannel(c) /\ closed_tasks' = closed_tasks
    BY <1>1, <1>4 DEF OnClientChannelClosed
  <2>2. Cardinality(closed_tasks)' - reports' = Cardinality(closed_tasks) - reports - 1
    BY <1>1, <1>3, <2>1
  <2>3. reports' \in Nat /\ closed_tasks' \subseteq Fds /\ Cardinality(closed_tasks)' \in Nat
    BY <1>1, <1>3, <2>1
  <2> QED BY <1>1, <1>2, <2>1, <2>2, <2>3, RemoveKeeps
<1>5. CASE loop[c] # "work"
  <2>1. /\ dials' = dials /\ channels' = channels
        /\ closed_tasks' = closed_tasks \/ closed_tasks' = closed_tasks \cup {c}
    BY <1>1, <1>5 DEF OnClientChannelClosed
  <2>2. /\ closed_tasks' \subseteq Fds /\ Cardinality(closed_tasks') \in Nat
        /\ Cardinality(closed_tasks') <= Cardinality(closed_tasks) + 1
    <3>1. CASE closed_tasks' = closed_tasks
      BY <1>1, <1>3, <3>1
    <3>2. CASE closed_tasks' = closed_tasks \cup {c}
      <4>1. closed_tasks' \subseteq Fds
        BY <1>1, <3>2
      <4> QED BY <1>1, <3>2, <4>1, CardStep
    <3> QED BY <2>1, <3>1, <3>2
  <2>3. Dials' = Dials
    BY <1>1, <2>1 DEF Dials
  <2>4. Dials \in Nat /\ Cardinality(channels) \in Nat
    BY CardTypes DEF Dials, DialInv
  <2>5. /\ Dials + Cardinality(closed_tasks) <= InitCount + reports
        /\ Cardinality(channels) + Dials + Cardinality(closed_tasks) <= InitCount + Required - 1 + reports
    BY DEF DialInv
  <2>6. /\ Dials + Cardinality(closed_tasks') <= InitCount + (reports + 1)
        /\ Cardinality(channels) + Dials + Cardinality(closed_tasks') <= InitCount + Required - 1 + (reports + 1)
    BY <1>1, <1>3, <2>2, <2>4, <2>5, InitCountType
  <2> QED BY <1>1, <1>2, <2>1, <2>2, <2>3, <2>6 DEF DialInv
<1> QED BY <1>4, <1>5

\* A removal that waited is done.
LEMMA ClosedTaskKeeps ==
  ASSUME DialInv, NEW c \in Fds, RunClosedTask(c)
  PROVE  DialInv'
<1>1. /\ RemoveChannel(c) /\ c \in closed_tasks /\ closed_tasks' = closed_tasks \ {c}
      /\ first_dials' = first_dials /\ delayed' = delayed /\ count' = count /\ inprogress' = inprogress
      /\ conn' = conn /\ reports' = reports /\ reports \in Nat /\ closed_tasks \subseteq Fds
  BY DEF RunClosedTask, DialInv
<1>2. /\ Cardinality(closed_tasks) \in Nat /\ Cardinality(closed_tasks') \in Nat
      /\ Cardinality(closed_tasks') = Cardinality(closed_tasks) - 1
  BY <1>1, CardStep
<1>3. Cardinality(closed_tasks)' - reports' = Cardinality(closed_tasks) - reports - 1
  BY <1>1, <1>2
<1>4. reports' \in Nat /\ closed_tasks' \subseteq Fds /\ Cardinality(closed_tasks)' \in Nat
  BY <1>1, <1>2
<1>5. conn' \in [Fds -> States] /\ \A d \in Fds : conn'[d] \in Dialling <=> conn[d] \in Dialling
  BY <1>1 DEF DialInv
<1> QED BY <1>1, <1>3, <1>4, <1>5, RemoveKeeps

\* A dial that is run is one of the first, one that was posted, or a delayed one.
LEMMA RunDialKeeps ==
  ASSUME DialInv, RunFirstDial \/ RunDial \/ RunDelayedDial
  PROVE  DialInv'
<1>1. first_dials \in Nat /\ dials \in Nat /\ delayed \in Nat
  BY DEF DialInv
<1>2. CASE RunFirstDial
  <2>1. /\ first_dials - 1 \in Nat /\ (first_dials - 1) + dials + delayed + 1 = first_dials + dials + delayed
    BY <1>1, <1>2 DEF RunFirstDial
  <2> QED BY <1>1, <1>2, <2>1, DialKeeps DEF RunFirstDial, Elsewhere
<1>3. CASE RunDial
  <2>1. /\ dials - 1 \in Nat /\ first_dials + (dials - 1) + delayed + 1 = first_dials + dials + delayed
    BY <1>1, <1>3 DEF RunDial
  <2> QED BY <1>1, <1>3, <2>1, DialKeeps DEF RunDial, Elsewhere
<1>4. CASE RunDelayedDial
  <2>1. /\ delayed - 1 \in Nat /\ first_dials + dials + (delayed - 1) + 1 = first_dials + dials + delayed
    BY <1>1, <1>4 DEF RunDelayedDial
  <2> QED BY <1>1, <1>4, <2>1, DialKeeps DEF RunDelayedDial, Elsewhere
<1> QED BY <1>2, <1>3, <1>4

\* The steps that are not about dials: the kernel, the channels, Finalize
LEMMA OtherKeeps ==
  ASSUME DialInv, HeldInv,
         \/ \E c \in Fds : ChannelStep(c) \/ ReleaseChannel(c)
         \/ \E c \in Fds, s \in Dialling : KernelConnects(c, s)
         \/ Finalize \/ OwnerStep
  PROVE  DialInv'
<1>1. ASSUME NEW c \in Fds, StartClientChannel(c) PROVE DialInv'
  BY <1>1, FrameKeeps DEF StartClientChannel, work, DialInv, States, Dialling
<1>2. ASSUME NEW c \in Fds, CloseClientChannel(c) PROVE DialInv'
  <2>1. conn[c] \notin Dialling
    BY <1>2 DEF CloseClientChannel, HeldInv, Dialling
  <2> QED BY <1>2, <2>1, FrameKeeps DEF CloseClientChannel, work, DialInv, States, Dialling
<1>3. ASSUME NEW c \in Fds, ReleaseChannel(c) PROVE DialInv'
  BY <1>3, FrameKeeps DEF ReleaseChannel, work, DialInv, States, Dialling
<1>4. ASSUME NEW c \in Fds, NEW s \in Dialling, KernelConnects(c, s) PROVE DialInv'
  BY <1>4, FrameKeeps DEF KernelConnects, work, DialInv, States, Dialling
<1>5. CASE Finalize
  BY <1>5, FrameKeeps DEF Finalize, DialInv
<1>6. CASE OwnerStep
  BY <1>6, FrameKeeps DEF OwnerStep, FinalizeStop, FinalizeCloses, work, DialInv
<1> QED BY <1>1, <1>2, <1>3, <1>4, <1>5, <1>6, Zenon DEF ChannelStep

\* The descriptor that Dial takes was nobody's.
LEMMA HeldDial ==
  ASSUME DialInv, HeldInv, NEW n, NEW m, Dial(n, m), UNCHANGED close_tasks
  PROVE  HeldInv'
<1>1. CASE UNCHANGED <<conn, channels>>
  BY <1>1 DEF HeldInv
<1>2. ASSUME NEW c \in Fds, IsNext(c), OnConnected(c, n) PROVE HeldInv'
  <2>1. channels' = channels \cup {c} /\ conn' = [conn EXCEPT ![c] = "starting"]
    BY <1>2 DEF OnConnected, Publish
  <2> QED BY <1>2, <2>1 DEF HeldInv, DialInv
<1>3. ASSUME NEW c \in Fds, IsNext(c), conn' = [conn EXCEPT ![c] = "connecting"], channels' = channels
      PROVE  HeldInv'
  <2>1. c \notin channels \cup close_tasks
    BY <1>3 DEF HeldInv, IsNext
  <2> QED BY <1>3, <2>1 DEF HeldInv, DialInv
<1> QED BY <1>1, <1>2, <1>3, Zenon DEF Dial

\* The descriptor whose connect ends was the Connector's.
LEMMA HeldEvent ==
  ASSUME DialInv, HeldInv, NEW c \in Fds, HandleEvent(c)
  PROVE  HeldInv'
<1>1. c \notin channels \cup close_tasks /\ close_tasks' = close_tasks
  BY DEF HandleEvent, Elsewhere, HeldInv
<1>2. CASE conn[c] = "writable"
  <2>1. channels' = channels /\ conn' = [conn EXCEPT ![c] = "free"]
    BY <1>2 DEF HandleEvent, RemoveFromInprogress
  <2> QED BY <1>1, <2>1 DEF HeldInv, DialInv
<1>3. CASE conn[c] = "refused"
  <2>1. channels' = channels /\ conn' = [conn EXCEPT ![c] = "leaked"]
    BY <1>3 DEF HandleEvent, HandleWrite
  <2> QED BY <1>1, <2>1 DEF HeldInv, DialInv
<1>4. CASE conn[c] = "readable"
  <2>1. channels' = channels \cup {c} /\ conn' = [conn EXCEPT ![c] = "starting"]
    BY <1>4 DEF HandleEvent, HandleWrite, OnConnected, Publish
  <2> QED BY <1>1, <2>1 DEF HeldInv, DialInv
<1> QED BY <1>2, <1>3, <1>4 DEF HandleEvent

\* No step takes the descriptor of a listed channel away.
LEMMA HeldKeeps ==
  ASSUME DialInv, HeldInv, Next
  PROVE  HeldInv'
<1>1. CASE RunFirstDial \/ RunDial \/ RunDelayedDial
  BY <1>1, HeldDial DEF RunFirstDial, RunDial, RunDelayedDial, Elsewhere
<1>2. CASE RunStop
  <2>1. \A c \in channels \cup close_tasks : c \notin inprogress
    BY DEF HeldInv, DialInv, Dialling
  <2> QED BY <1>2, <2>1 DEF RunStop, Stop, Elsewhere, HeldInv, DialInv
<1>3. ASSUME NEW c \in Fds, HandleEvent(c) PROVE HeldInv'
  BY <1>3, HeldEvent
<1>4. ASSUME NEW c \in Fds, RunClosedTask(c) PROVE HeldInv'
  BY <1>4 DEF RunClosedTask, RemoveChannel, Publish, HeldInv
<1>5. ASSUME NEW c \in Fds, ChannelStep(c) PROVE HeldInv'
  BY <1>5 DEF ChannelStep, StartClientChannel, CloseClientChannel, work, HeldInv, DialInv
<1>6. ASSUME NEW c \in Fds, ChannelCloses(c) PROVE HeldInv'
  <2>1. /\ channels' \subseteq channels /\ close_tasks' = close_tasks
        /\ conn' = [conn EXCEPT ![c] = "closed"]
    BY <1>6 DEF ChannelCloses, OnClientChannelClosed, RemoveChannel, Publish
  <2> QED BY <2>1 DEF HeldInv, DialInv
<1>7. ASSUME NEW c \in Fds, ReleaseChannel(c) PROVE HeldInv'
  BY <1>7 DEF ReleaseChannel, work, HeldInv, DialInv
<1>8. ASSUME NEW c \in Fds, NEW s \in Dialling, KernelConnects(c, s) PROVE HeldInv'
  BY <1>8 DEF KernelConnects, work, HeldInv, DialInv
<1>9. CASE Finalize
  BY <1>9 DEF Finalize, HeldInv
<1>10. CASE OwnerStep
  BY <1>10 DEF OwnerStep, FinalizeStop, FinalizeCloses, work, HeldInv, DialInv
<1> QED BY <1>1, <1>2, <1>3, <1>4, <1>5, <1>6, <1>7, <1>8, <1>9, <1>10, Zenon DEF Next, Live, WorkStep

\* The two invariants hold together.
LEMMA DialInvariant == Spec => [](DialInv /\ HeldInv)
<1> DEFINE Inv == DialInv /\ HeldInv
<1>1. Init => Inv
  <2> SUFFICES ASSUME Init PROVE Inv
    OBVIOUS
  <2>1. inprogress = {c \in Fds : conn[c] \in Dialling} /\ conn \in [Fds -> States]
    BY DEF Init, Dialling, States
  <2>2. Cardinality(inprogress) = 0 /\ Cardinality(channels) = 0 /\ Cardinality(closed_tasks) = 0
    BY FS_EmptySet DEF Init
  <2>3. Dials = InitCount
    BY <2>2, InitCountType DEF Init, Dials
  <2>4. HeldInv
    BY DEF Init, HeldInv
  <2> QED BY <2>1, <2>2, <2>3, <2>4, InitCountType DEF Init, DialInv
<1>2. Inv /\ [Next]_vars => Inv'
  <2> SUFFICES ASSUME Inv, [Next]_vars PROVE Inv'
    OBVIOUS
  <2>1. CASE UNCHANGED vars
    BY <2>1 DEF vars, work, DialInv, HeldInv, Dials
  <2>2. CASE Next
    <3>1. HeldInv'
      BY <2>2, HeldKeeps
    <3>2. DialInv'
      BY <2>2, RunDialKeeps, StopKeeps, HandleEventKeeps, ClosedTaskKeeps, ChannelClosesKeeps, OtherKeeps,
         Zenon DEF Next, Live, WorkStep
    <3> QED BY <3>1, <3>2
  <2> QED BY <2>1, <2>2
<1> QED BY <1>1, <1>2, PTL DEF Spec

\* The dials of a client never outgrow the first ones, the connections that are
\* missing and the reports of closed channels (launch_next_if_need and OnConnectFailed
\* of client.cc with the Connector), for every number of connections, any batch and
\* any order of refusals, closes and Finalize.
THEOREM DialsTheorem == Spec => []DialsAreBounded
<1>1. DialInv => DialsAreBounded
  <2> SUFFICES ASSUME DialInv PROVE DialsAreBounded
    OBVIOUS
  <2>1. Dials \in Nat /\ Cardinality(channels) \in Nat /\ Cardinality(closed_tasks) \in Nat
    BY CardTypes DEF Dials, DialInv
  <2> QED BY <2>1, InitCountType DEF DialInv, DialsAreBounded
<1> QED BY <1>1, DialInvariant, PTL

-----------------------------------------------------------------------------
(* The CHECKs, and the connections that are missing.                       *)

\* Until Finalize begins, channels_count_ is the size of the list, and nothing that
\* Finalize posts is waiting.
QuietInv ==
  /\ ~stopping => channels_count = Cardinality(channels)
  /\ stop_task \/ close_tasks # {} => stopping
  /\ aborted => stopping

\* Finalize does not begin again.
LEMMA StoppingStays == ASSUME Next, stopping PROVE stopping'
<1>1. ASSUME UNCHANGED finalizing PROVE stopping'
  BY <1>1 DEF stopping
<1>2. CASE \E c \in Fds : ChannelStep(c) \/ ChannelCloses(c) \/ ReleaseChannel(c)
  BY <1>1, <1>2 DEF ChannelStep, StartClientChannel, CloseClientChannel, ChannelCloses, ReleaseChannel
<1>3. CASE \E c \in Fds, s \in Dialling : KernelConnects(c, s)
  BY <1>1, <1>3 DEF KernelConnects
<1>4. CASE WorkStep
  BY <1>1, <1>4 DEF WorkStep, RunFirstDial, RunStop, RunDial, RunDelayedDial, HandleEvent, RunClosedTask, Elsewhere
<1>5. CASE Finalize \/ OwnerStep
  BY <1>5 DEF Finalize, OwnerStep, FinalizeStop, FinalizeCloses, stopping
<1> QED BY <1>2, <1>3, <1>4, <1>5, Zenon DEF Next, Live

\* The list and its size change together.
LEMMA QuietFrame ==
  ASSUME QuietInv, UNCHANGED finalizing, UNCHANGED aborted, close_tasks' = {} \/ close_tasks' = close_tasks,
         stop_task' = FALSE \/ stop_task' = stop_task,
         channels_count' = Cardinality(channels') \/ UNCHANGED <<channels, channels_count>>
  PROVE  QuietInv'
  BY DEF QuietInv, stopping

LEMMA QuietDial ==
  ASSUME QuietInv, NEW n, NEW m, Dial(n, m), Elsewhere, UNCHANGED stop_task
  PROVE  QuietInv'
<1>1. channels_count' = Cardinality(channels') \/ UNCHANGED <<channels, channels_count>>
  BY Zenon DEF Dial, OnConnected, Publish
<1> QED BY <1>1, QuietFrame DEF Elsewhere

LEMMA QuietKeeps == ASSUME QuietInv, Next PROVE QuietInv'
<1>1. CASE RunFirstDial \/ RunDial \/ RunDelayedDial
  BY <1>1, QuietDial DEF RunFirstDial, RunDial, RunDelayedDial
<1>2. CASE RunStop
  BY <1>2, QuietFrame DEF RunStop, Stop, Elsewhere
<1>3. ASSUME NEW c \in Fds, HandleEvent(c) PROVE QuietInv'
  <2>1. channels_count' = Cardinality(channels') \/ UNCHANGED <<channels, channels_count>>
    BY <1>3, Zenon DEF HandleEvent, RemoveFromInprogress, HandleWrite, OnConnected, Publish
  <2> QED BY <1>3, <2>1, QuietFrame DEF HandleEvent, Elsewhere
<1>4. ASSUME NEW c \in Fds, RunClosedTask(c) PROVE QuietInv'
  BY <1>4, QuietFrame DEF RunClosedTask, RemoveChannel, Publish
<1>5. ASSUME NEW c \in Fds, StartClientChannel(c) PROVE QuietInv'
  BY <1>5, QuietFrame DEF StartClientChannel, work
<1>6. ASSUME NEW c \in Fds, CloseClientChannel(c) PROVE QuietInv'
  <2>1. stopping
    BY <1>6 DEF CloseClientChannel, QuietInv
  <2> QED BY <1>6, <2>1 DEF CloseClientChannel, QuietInv, stopping
<1>7. ASSUME NEW c \in Fds, ChannelCloses(c) PROVE QuietInv'
  <2>1. CASE stopping
    BY <1>7, <2>1 DEF ChannelCloses, QuietInv, stopping
  <2>2. CASE ~stopping
    <3>1. /\ UNCHANGED aborted
          /\ channels_count' = Cardinality(channels') \/ UNCHANGED <<channels, channels_count>>
      BY <1>7, <2>2 DEF ChannelCloses, OnClientChannelClosed, RemoveChannel, Publish
    <3> QED BY <1>7, <3>1, QuietFrame DEF ChannelCloses
  <2> QED BY <2>1, <2>2
<1>8. ASSUME NEW c \in Fds, ReleaseChannel(c) PROVE QuietInv'
  BY <1>8, QuietFrame DEF ReleaseChannel, work
<1>9. ASSUME NEW c \in Fds, NEW s \in Dialling, KernelConnects(c, s) PROVE QuietInv'
  BY <1>9, QuietFrame DEF KernelConnects, work
<1>10. CASE Finalize \/ OwnerStep
  BY <1>10 DEF Finalize, OwnerStep, FinalizeStop, FinalizeCloses, QuietInv, stopping
<1> QED BY <1>1, <1>2, <1>3, <1>4, <1>5, <1>6, <1>7, <1>8, <1>9, <1>10, Zenon
    DEF Next, Live, WorkStep, ChannelStep

LEMMA QuietInvariant == Spec => []QuietInv
<1>1. Init => QuietInv
  BY FS_EmptySet DEF Init, QuietInv
<1>2. QuietInv /\ [Next]_vars => QuietInv'
  <2>1. ASSUME QuietInv, UNCHANGED vars PROVE QuietInv'
    BY <2>1, QuietFrame DEF vars, work
  <2> QED BY <2>1, QuietKeeps
<1> QED BY <1>1, <1>2, PTL DEF Spec

\* Until Finalize begins no CHECK of Client, Connector or CodecService fails
\* (launch_next_if_need of client.cc and CloseService of codec_service.cc), however the
\* loops interleave.
THEOREM ChecksTheorem == Spec => []ChecksHoldUntilFinalize
<1>1. QuietInv => ChecksHoldUntilFinalize
  BY DEF QuietInv, ChecksHoldUntilFinalize
<1> QED BY <1>1, QuietInvariant, PTL

\* What MissingIsDialled says while channels_count_ is the size of the list
MissingInv ==
  ~stopping /\ channels_count < Required => Dials > 0 \/ channels_count + count >= Required \/ gave_up

\* A dial that is posted, delayed or in progress is a dial.
LEMMA SomeDial ==
  ASSUME DialInv', first_dials' > 0 \/ dials' > 0 \/ delayed' > 0 \/ inprogress' # {}
  PROVE  Dials' > 0
<1>1. first_dials' \in Nat /\ dials' \in Nat /\ delayed' \in Nat /\ inprogress' \subseteq Fds
  BY DEF DialInv
<1>2. IsFiniteSet(inprogress')
  <2>1. IsFiniteSet(Fds)
    BY FS_Interval, ClientAssumption, 1 \in Int, MaxFds \in Int DEF Fds
  <2> QED BY <1>1, <2>1, FS_Subset
<1>3. Cardinality(inprogress') \in Nat /\ (inprogress' # {} => Cardinality(inprogress') > 0)
  BY <1>2, FS_CardinalityType, FS_EmptySet
<1>4. Dials' = first_dials' + dials' + delayed' + Cardinality(inprogress')
  BY DEF Dials
<1> QED BY <1>1, <1>3, <1>4

\* launch_next_if_need posts a dial, unless count_ tells it that enough are in progress.
LEMMA LaunchAsks ==
  ASSUME DialInv, DialInv', NEW n \in Nat, launch_next_if_need(n), channels_count' \in Nat,
         UNCHANGED <<count, finalizing>>
  PROVE  MissingInv'
<1>1. CASE stopping
  BY <1>1 DEF stopping, MissingInv
<1>2. CASE ~stopping /\ Required <= channels_count' + count
  <2>1. count' = count /\ count \in Nat /\ Required \in Nat
    BY ClientAssumption DEF DialInv
  <2> QED BY <1>2, <2>1 DEF MissingInv
<1>3. CASE ~stopping /\ ~(Required <= channels_count' + count)
  <2>1. dials' = n + 1
    BY <1>3, Zenon DEF launch_next_if_need
  <2>2. dials' > 0
    BY <2>1
  <2> QED BY <2>2, SomeDial DEF MissingInv
<1> QED BY <1>1, <1>2, <1>3

\* OnConnectFailed posts a dial or gives up, if a connection is missing.
LEMMA FailAsks ==
  ASSUME DialInv', NEW n \in Nat, OnConnectFailed(n), UNCHANGED <<channels_count, finalizing>>,
         channels_count \in Nat
  PROVE  MissingInv'
<1>1. CASE stopping \/ ~(Required > channels_count)
  BY <1>1, ClientAssumption DEF stopping, MissingInv
<1>2. CASE ~stopping /\ Required > channels_count /\ count > kConnetBatchCount
  BY <1>2 DEF OnConnectFailed, MissingInv
<1>3. CASE ~stopping /\ Required > channels_count /\ ~(count > kConnetBatchCount)
  <2>1. ~(Required <= channels_count)
    BY <1>3, ClientAssumption
  <2>2. delayed' = n + 1
    BY <1>3, <2>1, Zenon DEF OnConnectFailed
  <2>3. delayed' > 0
    BY <2>2
  <2> QED BY <2>3, SomeDial DEF MissingInv
<1> QED BY <1>1, <1>2, <1>3

\* A step that lets the dials and the list be
LEMMA MissingFrame ==
  ASSUME MissingInv,
         UNCHANGED <<first_dials, dials, delayed, inprogress, count, channels_count, gave_up>>,
         stopping => stopping'
  PROVE  MissingInv'
  BY DEF MissingInv, Dials

LEMMA MissingDial ==
  ASSUME DialInv, DialInv', channels_count \in Nat, NEW n \in Nat, NEW m \in Nat, Dial(n, m), UNCHANGED finalizing
  PROVE  MissingInv'
<1>1. CASE OnConnectFailed(m) /\ UNCHANGED channels_count
  BY <1>1, FailAsks
<1>2. ASSUME NEW c \in Fds, OnConnected(c, n), UNCHANGED count PROVE MissingInv'
  <2>1. launch_next_if_need(n) /\ channels_count' = Cardinality(channels \cup {c})
    BY <1>2 DEF OnConnected, Publish
  <2>2. channels_count' \in Nat
    BY <2>1, CardStep DEF DialInv
  <2> QED BY <1>2, <2>1, <2>2, LaunchAsks
<1>3. ASSUME NEW c \in Fds, inprogress' = inprogress \cup {c} PROVE MissingInv'
  BY <1>3, SomeDial DEF MissingInv
<1> QED BY <1>1, <1>2, <1>3, Zenon DEF Dial

LEMMA MissingKeeps ==
  ASSUME DialInv, DialInv', QuietInv, channels_count \in Nat, MissingInv, Next
  PROVE  MissingInv' /\ channels_count' \in Nat
<1>0. first_dials \in Nat /\ dials \in Nat /\ delayed \in Nat
  BY DEF DialInv
<1>1. CASE RunFirstDial \/ RunDial \/ RunDelayedDial
  <2>1. PICK n \in Nat, m \in Nat : Dial(n, m)
    BY <1>0, <1>1 DEF RunFirstDial, RunDial, RunDelayedDial
  <2>2. UNCHANGED finalizing
    BY <1>1 DEF RunFirstDial, RunDial, RunDelayedDial, Elsewhere
  <2>3. channels_count' = channels_count \/ \E c \in Fds : channels_count' = Cardinality(channels \cup {c})
    BY <2>1, Zenon DEF Dial, OnConnected, Publish
  <2> QED BY <2>1, <2>2, <2>3, MissingDial, CardStep DEF DialInv
<1>2. CASE RunStop
  <2>1. stopping /\ UNCHANGED <<finalizing, channels_count>>
    BY <1>2 DEF RunStop, Stop, Elsewhere, QuietInv
  <2> QED BY <2>1 DEF MissingInv, stopping
<1>3. ASSUME NEW c \in Fds, HandleEvent(c) PROVE MissingInv' /\ channels_count' \in Nat
  <2>1. UNCHANGED finalizing
    BY <1>3 DEF HandleEvent, Elsewhere
  <2>2. CASE OnConnectFailed(delayed) /\ UNCHANGED channels_count
    BY <1>0, <2>1, <2>2, FailAsks
  <2>3. CASE OnConnected(c, dials) /\ UNCHANGED count
    <3>1. launch_next_if_need(dials) /\ channels_count' = Cardinality(channels \cup {c})
      BY <2>3 DEF OnConnected, Publish
    <3>2. channels_count' \in Nat
      BY <3>1, CardStep DEF DialInv
    <3> QED BY <1>0, <2>1, <2>3, <3>1, <3>2, LaunchAsks
  <2> QED BY <1>3, <2>2, <2>3, Zenon DEF HandleEvent, RemoveFromInprogress, HandleWrite
<1>4. ASSUME NEW c \in Fds, RemoveChannel(c), UNCHANGED <<count, finalizing>>
      PROVE  MissingInv' /\ channels_count' \in Nat
  <2>1. launch_next_if_need(dials) /\ channels_count' = Cardinality(channels \ {c})
    BY <1>4 DEF RemoveChannel, Publish
  <2>2. channels_count' \in Nat
    BY <2>1, CardStep DEF DialInv
  <2> QED BY <1>0, <1>4, <2>1, <2>2, LaunchAsks
<1>5. ASSUME NEW c \in Fds, RunClosedTask(c) PROVE MissingInv' /\ channels_count' \in Nat
  BY <1>4, <1>5 DEF RunClosedTask
<1>6. ASSUME NEW c \in Fds, ChannelCloses(c) PROVE MissingInv' /\ channels_count' \in Nat
  <2>1. CASE loop[c] = "work"
    BY <1>4, <1>6, <2>1 DEF ChannelCloses, OnClientChannelClosed
  <2>2. CASE loop[c] # "work"
    BY <1>6, <2>2, MissingFrame DEF ChannelCloses, OnClientChannelClosed, stopping
  <2> QED BY <2>1, <2>2
<1>7. ASSUME NEW c \in Fds, ChannelStep(c) \/ ReleaseChannel(c) PROVE MissingInv' /\ channels_count' \in Nat
  BY <1>7, MissingFrame DEF ChannelStep, StartClientChannel, CloseClientChannel, ReleaseChannel, work, stopping
<1>8. ASSUME NEW c \in Fds, NEW s \in Dialling, KernelConnects(c, s) PROVE MissingInv' /\ channels_count' \in Nat
  BY <1>8, MissingFrame DEF KernelConnects, work, stopping
<1>9. CASE Finalize \/ OwnerStep
  BY <1>9, MissingFrame, SMTT(30) DEF Finalize, OwnerStep, FinalizeStop, FinalizeCloses, work, MissingInv, stopping
<1> QED BY <1>1, <1>2, <1>3, <1>5, <1>6, <1>7, <1>8, <1>9, Zenon DEF Next, Live, WorkStep

\* A client that lacks connections is dialling, or count_ tells it that enough dials
\* are in progress, or it gave the last one up for that reason (OnConnectFailed and
\* launch_next_if_need of client.cc): no order of refusals, closes and dials makes it
\* forget a connection.
THEOREM MissingTheorem == Spec => []MissingIsDialled
<1> DEFINE Inv == MissingInv /\ channels_count \in Nat
<1>1. Init => Inv
  <2> SUFFICES ASSUME Init PROVE Inv
    OBVIOUS
  <2>1. first_dials > 0 /\ first_dials \in Nat
    BY ClientAssumption DEF Init, InitCount
  <2>2. Dials = first_dials
    BY <2>1, FS_EmptySet DEF Init, Dials
  <2> QED BY <2>1, <2>2 DEF Init, MissingInv
<1>2. Inv /\ DialInv /\ DialInv' /\ QuietInv /\ [Next]_vars => Inv'
  <2>1. ASSUME Inv, UNCHANGED vars PROVE Inv'
    BY <2>1, MissingFrame DEF vars, work, stopping
  <2> QED BY <2>1, MissingKeeps
<1>3. Inv /\ DialInv /\ QuietInv => MissingIsDialled
  BY DEF MissingInv, QuietInv, MissingIsDialled
<1> QED BY <1>1, <1>2, <1>3, DialInvariant, QuietInvariant, PTL DEF Spec

-----------------------------------------------------------------------------
(* Closed connections.                                                     *)

\* No channel is closed by the step, and no removal is lost.
LEMMA RemovedFrame ==
  ASSUME ClosedIsRemoved, \A c \in channels' : conn'[c] = "closed" => c \in channels /\ conn[c] = "closed",
         closed_tasks \subseteq closed_tasks', stopping => stopping'
  PROVE  ClosedIsRemoved'
  BY DEF ClosedIsRemoved

LEMMA RemovedKeeps == ASSUME ClosedIsRemoved, DialInv, HeldInv, QuietInv, Next PROVE ClosedIsRemoved'
<1>0. stopping => stopping'
  BY StoppingStays
<1>a. conn \in [Fds -> States] /\ channels \subseteq Fds
  BY DEF DialInv
<1>b. ASSUME NEW c \in Fds, OnConnected(c, dials) \/ OnConnected(c, dials - 1), UNCHANGED closed_tasks
      PROVE  ClosedIsRemoved'
  <2>1. channels' = channels \cup {c} /\ conn' = [conn EXCEPT ![c] = "starting"]
    BY <1>b DEF OnConnected, Publish
  <2>2. \A d \in channels' : conn'[d] = "closed" => d \in channels /\ conn[d] = "closed"
    BY <1>a, <2>1
  <2> QED BY <1>0, <1>b, <2>2, RemovedFrame
<1>c. ASSUME NEW c \in Fds, NEW s \in States \ {"closed"}, conn' = [conn EXCEPT ![c] = s],
             UNCHANGED <<channels, closed_tasks>>
      PROVE  ClosedIsRemoved'
  <2>1. \A d \in channels' : conn'[d] = "closed" => d \in channels /\ conn[d] = "closed"
    BY <1>a, <1>c
  <2> QED BY <1>0, <1>c, <2>1, RemovedFrame
<1>d. ASSUME UNCHANGED <<conn, channels, closed_tasks>> PROVE ClosedIsRemoved'
  BY <1>0, <1>d, RemovedFrame
<1>1. CASE RunFirstDial \/ RunDial \/ RunDelayedDial
  <2>1. PICK n \in {dials, dials - 1} : \E m : Dial(n, m)
    BY <1>1 DEF RunFirstDial, RunDial, RunDelayedDial
  <2>2. UNCHANGED closed_tasks
    BY <1>1 DEF RunFirstDial, RunDial, RunDelayedDial, Elsewhere
  <2>3. "connecting" \in States \ {"closed"}
    BY DEF States, Dialling
  <2>4. \/ UNCHANGED <<conn, channels>>
        \/ \E c \in Fds : OnConnected(c, n)
        \/ \E c \in Fds : conn' = [conn EXCEPT ![c] = "connecting"] /\ UNCHANGED channels
    BY <2>1, Zenon DEF Dial
  <2> QED BY <1>b, <1>c, <1>d, <2>1, <2>2, <2>3, <2>4
<1>2. CASE RunStop
  <2>1. /\ conn' = [c \in Fds |-> IF c \in inprogress THEN "free" ELSE conn[c]]
        /\ channels' = channels /\ closed_tasks' = closed_tasks
    BY <1>2 DEF RunStop, Stop, Elsewhere
  <2>2. \A d \in channels' : conn'[d] = "closed" => d \in channels /\ conn[d] = "closed"
    BY <1>a, <2>1
  <2> QED BY <1>0, <2>1, <2>2, RemovedFrame
<1>3. ASSUME NEW c \in Fds, HandleEvent(c) PROVE ClosedIsRemoved'
  <2>1. UNCHANGED closed_tasks
    BY <1>3 DEF HandleEvent, Elsewhere
  <2>2. "free" \in States \ {"closed"} /\ "leaked" \in States \ {"closed"}
    BY DEF States, Dialling
  <2>3. \/ OnConnected(c, dials)
        \/ conn' = [conn EXCEPT ![c] = "free"] /\ UNCHANGED channels
        \/ conn' = [conn EXCEPT ![c] = "leaked"] /\ UNCHANGED channels
    BY <1>3 DEF HandleEvent, RemoveFromInprogress, HandleWrite
  <2> QED BY <1>b, <1>c, <2>1, <2>2, <2>3
<1>4. ASSUME NEW c \in Fds, RunClosedTask(c) PROVE ClosedIsRemoved'
  <2>1. conn' = conn /\ channels' = channels \ {c} /\ closed_tasks' = closed_tasks \ {c}
    BY <1>4 DEF RunClosedTask, RemoveChannel, Publish
  <2> QED BY <1>0, <2>1 DEF ClosedIsRemoved
<1>5. ASSUME NEW c \in Fds, StartClientChannel(c) \/ ReleaseChannel(c) PROVE ClosedIsRemoved'
  <2>1. "open" \in States \ {"closed"} /\ "free" \in States \ {"closed"}
    BY DEF States, Dialling
  <2> QED BY <1>c, <1>5, <2>1 DEF StartClientChannel, ReleaseChannel, work
<1>6. ASSUME NEW c \in Fds, CloseClientChannel(c) PROVE ClosedIsRemoved'
  <2>1. stopping
    BY <1>6 DEF CloseClientChannel, QuietInv
  <2> QED BY <1>0, <2>1 DEF ClosedIsRemoved
<1>7. ASSUME NEW c \in Fds, ChannelCloses(c) PROVE ClosedIsRemoved'
  <2>1. conn' = [conn EXCEPT ![c] = "closed"]
    BY <1>7 DEF ChannelCloses
  <2>2. CASE loop[c] = "work"
    <3>1. channels' = channels \ {c} /\ closed_tasks' = closed_tasks
      BY <1>7, <2>2 DEF ChannelCloses, OnClientChannelClosed, RemoveChannel, Publish
    <3>2. \A d \in channels' : conn'[d] = "closed" => d \in channels /\ conn[d] = "closed"
      BY <1>a, <2>1, <3>1
    <3> QED BY <1>0, <3>1, <3>2, RemovedFrame
  <2>3. CASE loop[c] # "work" /\ ~stopping
    <3>1. channels' = channels /\ closed_tasks' = closed_tasks \cup {c}
      BY <1>7, <2>3 DEF ChannelCloses, OnClientChannelClosed
    <3> QED BY <1>a, <2>1, <2>3, <3>1 DEF ClosedIsRemoved
  <2>4. CASE stopping
    BY <1>0, <2>4 DEF ClosedIsRemoved
  <2> QED BY <2>2, <2>3, <2>4
<1>8. ASSUME NEW c \in Fds, NEW s \in Dialling, KernelConnects(c, s) PROVE ClosedIsRemoved'
  <2>1. s \in States \ {"closed"}
    BY DEF States, Dialling
  <2> QED BY <1>c, <1>8, <2>1 DEF KernelConnects, work
<1>9. CASE Finalize \/ OwnerStep
  BY <1>9, <1>d DEF Finalize, OwnerStep, FinalizeStop, FinalizeCloses, work
<1> QED BY <1>1, <1>2, <1>3, <1>4, <1>5, <1>6, <1>7, <1>8, <1>9, Zenon DEF Next, Live, WorkStep, ChannelStep

\* A connection that is closed leaves in_use_channels_, from which callers choose, or
\* its removal is on the way to the work loop (OnClientChannelClosed of client.cc),
\* until Finalize begins.
THEOREM RemovedTheorem == Spec => []ClosedIsRemoved
<1>1. Init => ClosedIsRemoved
  BY DEF Init, ClosedIsRemoved
<1>2. ClosedIsRemoved /\ DialInv /\ HeldInv /\ QuietInv /\ [Next]_vars => ClosedIsRemoved'
  <2>1. ASSUME ClosedIsRemoved, UNCHANGED vars PROVE ClosedIsRemoved'
    BY <2>1 DEF vars, work, ClosedIsRemoved, stopping
  <2> QED BY <2>1, RemovedKeeps
<1> QED BY <1>1, <1>2, DialInvariant, QuietInvariant, PTL DEF Spec
-----------------------------------------------------------------------------
(* WaitGroup: a Wait whose tasks were all added before the first of them   *)
(* started returns kSuccess only when all are done, and the timer fires at *)
(* finished tasks only while their wake-up is on its way.                  *)

\* The workers whose Add has been counted and whose Done has not
Counted ==
  {w \in Workers : worker[w] \in {"here", "elsewhere"} \/ (add_first /\ worker[w] = "idle")}

\* A Done has brought the count to zero, and its wakeup_internal has not run.
WakeupComing ==
  \/ scheduled + nested > 0
  \/ \E w \in Workers : worker[w] \in {"post_here", "post_elsewhere"}

GroupTypes ==
  /\ IsFiniteSet(Workers)
  /\ has_timeout \in BOOLEAN /\ add_first \in BOOLEAN
  /\ worker \in [Workers -> WorkerPC]
  /\ scheduled \in Nat /\ nested \in Nat
  /\ waiter \in {"starting", "suspended", "ready", "returned"}
  /\ part \in {"timers", "tasks", "nested", "coros"}

\* Where the waiter, its timer and the loop are together
Places ==
  /\ todo = {w \in Workers : worker[w] = "idle"}
  /\ waiter # "starting" => todo = {}
  /\ waiter = "starting" => part = "coros" /\ returned = ""
  /\ waiter = "suspended" => resumer = waiter_id
  /\ timeout = "armed" => waiter = "suspended" \/ (waiter = "ready" /\ part # "timers")
  /\ \A w \in Workers : worker[w] = "post_here" => part = "coros"
  /\ returned # "" => waiter = "returned"

\* The count is that of the workers, and a waiter whose count is zero will be woken;
\* the converse takes an Add that comes before all of the workers.
CountInv ==
  /\ wait_count = Cardinality(Counted)
  /\ waiter = "suspended" /\ Counted = {} => WakeupComing
  /\ add_first /\ WakeupComing => Counted = {}
  /\ add_first /\ waiter = "ready" /\ result_status = "kSuccess" => Counted = {}
  /\ add_first /\ returned = "kSuccess" => Counted = {}

WGInv == GroupTypes /\ Places /\ CountInv

\* The count is zero when nothing is counted.
LEMMA CountedFinite ==
  ASSUME IsFiniteSet(Workers)
  PROVE  IsFiniteSet(Counted) /\ Cardinality(Counted) \in Nat /\ (Cardinality(Counted) = 0 <=> Counted = {})
<1>1. IsFiniteSet(Counted)
  BY FS_Subset, Counted \in SUBSET Workers DEF Counted
<1> QED BY <1>1, FS_CardinalityType, FS_EmptySet

\* Cardinality, as the instance reads it
LEMMA GroupInitHolds == ASSUME GroupInit PROVE WGInv
<1>1. GroupTypes /\ Places
  BY WorkersAssumption DEF GroupInit, GroupTypes, Places, WorkerPC
<1>2. Counted = IF add_first THEN Workers ELSE {}
  BY <1>1 DEF GroupInit, Counted, GroupTypes
<1>3. ~WakeupComing
  <2>1. scheduled = 0 /\ nested = 0 /\ \A w \in Workers : worker[w] = "idle"
    BY DEF GroupInit
  <2> QED BY <2>1 DEF WakeupComing
<1>4. wait_count = Cardinality(Counted)
  <2>1. wait_count = (IF add_first THEN Cardinality(Workers) ELSE 0) /\ add_first \in BOOLEAN
    BY <1>1 DEF GroupInit, GroupTypes
  <2>2. Cardinality({}) = 0
    BY FS_EmptySet
  <2> QED BY ONLY <1>2, <2>1, <2>2
<1> QED BY <1>1, <1>2, <1>3, <1>4 DEF GroupInit, WGInv, CountInv

LEMMA AddAndGoKeeps == ASSUME WGInv, NEW w \in Workers, AddAndGo(w) PROVE WGInv'
<1> USE DEF WGInv
<1>0. worker[w] = "idle" /\ waiter = "starting" /\ waiter' = waiter /\ UNCHANGED <<use, loopVars, waitVars>>
  BY DEF AddAndGo, Places, waitVars
<1>1. PICK where \in {"here", "elsewhere"} : worker' = [worker EXCEPT ![w] = where]
  BY DEF AddAndGo
<1>2. GroupTypes'
  BY <1>0, <1>1 DEF AddAndGo, GroupTypes, use, loopVars, waitVars, WorkerPC
<1>3. Places'
  BY <1>0, <1>1 DEF AddAndGo, GroupTypes, Places, use, loopVars, waitVars, WorkerPC
<1>4. Counted' = Counted \cup {w} /\ (w \in Counted <=> add_first)
  BY <1>0, <1>1 DEF GroupTypes, Counted, use
<1>5. wait_count' = Cardinality(Counted')
  <2>1. wait_count' = IF add_first THEN wait_count ELSE wait_count + 1
    BY DEF AddAndGo
  <2> QED BY <1>4, <2>1, CountedFinite, FS_AddElement DEF CountInv, GroupTypes
<1>6. WakeupComing' => WakeupComing
  BY <1>0, <1>1 DEF WakeupComing, loopVars, GroupTypes
<1>7. CountInv'
  BY <1>0, <1>2, <1>4, <1>5, <1>6 DEF CountInv, Places, use, waitVars
<1> QED BY <1>2, <1>3, <1>7

\* The last Done leaves nothing counted, and its wake-up to be posted.
LEMMA FetchSubKeeps == ASSUME WGInv, NEW w \in Workers, FetchSub(w) PROVE WGInv'
<1> USE DEF WGInv
<1>0. /\ worker[w] \in {"here", "elsewhere"} /\ w \in Counted
      /\ UNCHANGED <<use, waitVars, loopVars, todo>> /\ wait_count' = wait_count - 1
      /\ CanRun(w)
  BY DEF FetchSub, Counted
<1>1. PICK next \in {"done", "post_here", "post_elsewhere"} :
        /\ worker' = [worker EXCEPT ![w] = next]
        /\ wait_count # 1 <=> next = "done"
        /\ next = "post_here" => worker[w] = "here"
  BY DEF FetchSub
<1>2. GroupTypes'
  BY <1>0, <1>1 DEF GroupTypes, use, loopVars, waitVars, WorkerPC
<1>3. Places'
  BY <1>0, <1>1 DEF GroupTypes, Places, use, loopVars, waitVars, WorkerPC, CanRun
<1>4. Counted' = Counted \ {w}
  BY <1>0, <1>1 DEF GroupTypes, Counted, use
<1>5. wait_count' = Cardinality(Counted') /\ Cardinality(Counted') \in Nat /\ (wait_count' = 0 <=> Counted' = {})
  <2>1. IsFiniteSet(Counted') /\ Cardinality(Counted') = Cardinality(Counted) - 1
    BY <1>0, <1>4, CountedFinite, FS_RemoveElement DEF GroupTypes
  <2> QED BY <1>0, <2>1, CountedFinite, FS_CardinalityType, FS_EmptySet DEF CountInv, GroupTypes
<1>6. wait_count = 1 <=> Counted' = {}
  BY <1>0, <1>5, CountedFinite DEF CountInv, GroupTypes
<1>7. Counted' = {} => WakeupComing'
  BY <1>1, <1>6 DEF WakeupComing, GroupTypes
<1>8. add_first => ~WakeupComing /\ (WakeupComing' => Counted' = {})
  <2>1. add_first => ~WakeupComing
    BY <1>0 DEF CountInv
  <2> QED BY <1>0, <1>1, <1>6, <2>1 DEF WakeupComing, GroupTypes, loopVars
<1>9. CountInv'
  BY <1>0, <1>5, <1>7, <1>8 DEF CountInv, use, waitVars
<1> QED BY <1>2, <1>3, <1>9

\* The wake-up goes from the worker to the loop.
LEMMA PostWakeupKeeps == ASSUME WGInv, NEW w \in Workers, PostWakeup(w) PROVE WGInv'
<1> USE DEF WGInv
<1>0. /\ worker[w] \in {"post_here", "post_elsewhere"} /\ worker' = [worker EXCEPT ![w] = "done"]
      /\ UNCHANGED <<use, waitVars, todo, part, wait_count>>
      /\ scheduled' \in Nat /\ nested' \in Nat /\ scheduled' + nested' > 0
  BY DEF PostWakeup, GroupTypes
<1>2. GroupTypes'
  BY <1>0 DEF GroupTypes, use, waitVars, WorkerPC
<1>3. Places'
  BY <1>0 DEF GroupTypes, Places, use, waitVars, WorkerPC
<1>4. Counted' = Counted
  BY <1>0 DEF GroupTypes, Counted, use
<1>5. WakeupComing /\ WakeupComing'
  BY <1>0 DEF WakeupComing
<1>6. CountInv'
  BY <1>0, <1>4, <1>5 DEF CountInv, use, waitVars
<1> QED BY <1>2, <1>3, <1>6

LEMMA WaitKeeps == ASSUME WGInv, Wait PROVE WGInv'
<1> USE DEF WGInv
<1>0. UNCHANGED <<use, wait_count, todo, worker, loopVars, result_status, waiter_id>> /\ waiter = "starting" /\ todo = {}
  BY DEF Wait
<1>1. Counted' = Counted /\ WakeupComing' = WakeupComing
  BY <1>0 DEF Counted, WakeupComing, use, loopVars
<1>2. CASE Counted = {}
  <2>1. waiter' = "returned" /\ UNCHANGED timeout
    BY <1>2, CountedFinite DEF Wait, CountInv, GroupTypes
  <2> QED BY <1>0, <1>1, <1>2, <2>1, CountedFinite DEF GroupTypes, Places, CountInv, use, loopVars
<1>3. CASE Counted # {}
  <2>1. waiter' = "suspended" /\ resumer' = waiter_id /\ returned' = returned
    BY <1>3, CountedFinite DEF Wait, CountInv, GroupTypes
  <2> QED BY <1>0, <1>1, <1>3, <2>1, CountedFinite DEF GroupTypes, Places, CountInv, use, loopVars
<1> QED BY <1>2, <1>3

\* Wait returns what it was woken for.
LEMMA WaitReturnsKeeps == ASSUME WGInv, WaitReturns PROVE WGInv'
<1> USE DEF WGInv
<1>0. /\ UNCHANGED <<use, wait_count, todo, worker, loopVars, result_status>>
      /\ waiter = "ready" /\ waiter' = "returned" /\ returned' = result_status /\ timeout' # "armed"
  BY DEF WaitReturns
<1>1. Counted' = Counted /\ WakeupComing' = WakeupComing
  BY <1>0 DEF Counted, WakeupComing, use, loopVars
<1> QED BY <1>0, <1>1 DEF GroupTypes, Places, CountInv, use, loopVars

LEMMA OnTimeOutKeeps == ASSUME WGInv, OnTimeOut PROVE WGInv'
<1> USE DEF WGInv
<1>0. /\ UNCHANGED <<use, wait_count, todo, worker, loopVars, resumer, waiter_id, returned>>
      /\ waiter = "suspended" /\ waiter' = "ready" /\ result_status' = "kTimeout" /\ timeout' = "fired"
  BY DEF OnTimeOut, wakeup_internal, Places
<1>1. Counted' = Counted /\ WakeupComing' = WakeupComing
  BY <1>0 DEF Counted, WakeupComing, use, loopVars
<1> QED BY <1>0, <1>1 DEF GroupTypes, Places, CountInv, use, loopVars

\* A wake-up that runs finds the waiter in the yield that it is for.
LEMMA RunTaskKeeps == ASSUME WGInv, RunScheduledTask \/ RunNestedTask PROVE WGInv'
<1> USE DEF WGInv
<1>0. /\ UNCHANGED <<use, wait_count, todo, worker, part, result_status, resumer, waiter_id, timeout, returned>>
      /\ scheduled' \in Nat /\ nested' \in Nat /\ scheduled' + nested' <= scheduled + nested
      /\ WakeupComing /\ part \in {"tasks", "nested"}
  BY SMTT(30) DEF RunScheduledTask, RunNestedTask, GroupTypes, WakeupComing
<1>1. waiter' = IF waiter = "suspended" THEN "ready" ELSE waiter
  BY DEF RunScheduledTask, RunNestedTask, wakeup_internal, Places
<1>2. Counted' = Counted
  BY <1>0 DEF Counted, use
<1>3. GroupTypes'
  BY <1>0, <1>1 DEF GroupTypes, use
<1>4. Places'
  BY <1>0, <1>1 DEF GroupTypes, Places
<1>5. CountInv'
  BY <1>0, <1>1, <1>2 DEF CountInv, use, GroupTypes
<1> QED BY <1>3, <1>4, <1>5

LEMMA NextPhaseKeeps == ASSUME WGInv, NextPhase PROVE WGInv'
<1> USE DEF WGInv
<1>0. UNCHANGED <<use, wait_count, todo, worker, scheduled, nested, waitVars>> /\ waiter # "starting"
  BY DEF NextPhase
<1>1. /\ part' \in {"timers", "tasks", "nested", "coros"}
      /\ part = "coros" => waiter # "ready" /\ \A w \in Workers : worker[w] # "post_here"
      /\ part' = "timers" => part = "coros"
  BY DEF NextPhase, GroupTypes
<1>2. Counted' = Counted /\ WakeupComing' = WakeupComing
  BY <1>0 DEF Counted, WakeupComing, use
<1>3. Places'
  BY <1>0, <1>1 DEF GroupTypes, Places, waitVars
<1> QED BY <1>0, <1>1, <1>2, <1>3 DEF GroupTypes, CountInv, use, waitVars

LEMMA GroupNextKeeps == ASSUME WGInv, [GroupNext]_groupVars PROVE WGInv'
<1>1. CASE UNCHANGED groupVars
  BY <1>1 DEF WGInv, GroupTypes, Places, CountInv, Counted, WakeupComing, groupVars, use
<1>2. CASE GroupNext
  BY <1>2, AddAndGoKeeps, FetchSubKeeps, PostWakeupKeeps, WaitKeeps, WaitReturnsKeeps, OnTimeOutKeeps,
     RunTaskKeeps, NextPhaseKeeps DEF GroupNext
<1> QED BY <1>1, <1>2

\* A Wait that returns kSuccess has waited for every worker, when all were added first:
\* the count then reaches zero once, and no earlier Done wakes the waiter.
THEOREM AddedFirstTheorem == GroupSpec => []AddedFirstWaits
<1>1. WGInv => AddedFirstWaits
  <2> SUFFICES ASSUME WGInv, add_first, returned = "kSuccess" PROVE Finished = Workers
    BY DEF AddedFirstWaits, SuccessMeansDone
  <2>1. Counted = {}
    BY DEF WGInv, CountInv
  <2> QED BY <2>1 DEF WGInv, GroupTypes, WorkerPC, Counted, Finished
<1> QED BY <1>1, GroupInitHolds, GroupNextKeeps, PTL DEF GroupSpec

\* A timer that fires when every task is done fires before the wake-up of the last Done
\* has come through the loop, also when tasks are added one by one.
THEOREM LateTimeoutTheorem == GroupSpec => LateTimeoutIsRace
<1> DEFINE Race == scheduled + nested > 0 \/ \E w \in Workers : worker[w] = "post_elsewhere"
<1>1. ASSUME WGInv, [GroupNext]_groupVars PROVE [on_timeout' = 0 /\ on_timeout # 0 => Race]_groupVars
  <2> SUFFICES ASSUME GroupNext, on_timeout' = 0, on_timeout # 0 PROVE Race
    BY <1>1
  <2>1. OnTimeOut
    BY DEF GroupNext, AddAndGo, FetchSub, PostWakeup, Wait, WaitReturns, RunScheduledTask, RunNestedTask, NextPhase, waitVars
  <2>2. part = "timers" /\ waiter = "suspended" /\ wait_count = 0
    BY <1>1, <2>1 DEF OnTimeOut, WGInv, Places
  <2>3. WakeupComing
    BY <1>1, <2>2, CountedFinite DEF WGInv, CountInv, GroupTypes
  <2> QED BY <1>1, <2>2, <2>3 DEF WakeupComing, WGInv, Places
<1> QED BY <1>1, GroupInitHolds, GroupNextKeeps, PTL DEF GroupSpec, LateTimeoutIsRace
=============================================================================
