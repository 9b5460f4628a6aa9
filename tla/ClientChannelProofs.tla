------------------------ MODULE ClientChannelProofs ------------------------
(***************************************************************************)
(* For any sets of requests and heartbeats, and both classes of channel: a *)
(* request is answered once at most, and a response is its own.            *)
(***************************************************************************)
EXTENDS ClientChannel, Integers, TLAPS

-----------------------------------------------------------------------------
(* Sequences as the sets of their elements.                                *)

Elems(s) == {s[i] : i \in 1..Len(s)}
NoRepeat(s) == \A i, j \in 1..Len(s) : s[i] = s[j] => i = j

LEMMA AppendFacts ==
  ASSUME NEW S, NEW s \in Seq(S), NEW x \in S
  PROVE  /\ Append(s, x) \in Seq(S)
         /\ Elems(Append(s, x)) = Elems(s) \cup {x}
         /\ NoRepeat(s) /\ x \notin Elems(s) => NoRepeat(Append(s, x))
<1>1. Append(s, x) \in Seq(S) /\ Len(Append(s, x)) = Len(s) + 1 /\ Len(s) \in Nat
  OBVIOUS
<1>2. \A i \in 1..Len(s) : Append(s, x)[i] = s[i]
  OBVIOUS
<1>3. Append(s, x)[Len(s) + 1] = x
  OBVIOUS
<1>4. Elems(Append(s, x)) = Elems(s) \cup {x}
  <2>1. \A y \in Elems(Append(s, x)) : y \in Elems(s) \cup {x}
    BY <1>1, <1>2, <1>3 DEF Elems
  <2>2. \A y \in Elems(s) : y \in Elems(Append(s, x))
    BY <1>1, <1>2 DEF Elems
  <2>3. x \in Elems(Append(s, x))
    BY <1>1, <1>3 DEF Elems
  <2> QED BY <2>1, <2>2, <2>3
<1>5. NoRepeat(s) /\ x \notin Elems(s) => NoRepeat(Append(s, x))
  BY <1>1, <1>2, <1>3 DEF NoRepeat, Elems
<1> QED BY <1>1, <1>4, <1>5

LEMMA TailFacts ==
  ASSUME NEW S, NEW s \in Seq(S), s # <<>>
  PROVE  /\ Tail(s) \in Seq(S) /\ Head(s) \in S
         /\ Elems(s) = Elems(Tail(s)) \cup {Head(s)}
         /\ NoRepeat(s) => NoRepeat(Tail(s)) /\ Head(s) \notin Elems(Tail(s))
<1>1. /\ Tail(s) \in Seq(S) /\ Len(Tail(s)) = Len(s) - 1 /\ Len(s) \in Nat \ {0} /\ Head(s) \in S
      /\ \A i \in 1..Len(Tail(s)) : Tail(s)[i] = s[i + 1]
  OBVIOUS
<1>2. Head(s) = s[1]
  OBVIOUS
<1>3. Elems(s) = Elems(Tail(s)) \cup {Head(s)}
  <2>1. ASSUME NEW i \in 1..Len(s) PROVE s[i] \in Elems(Tail(s)) \cup {Head(s)}
    <3>1. CASE i = 1
      BY <1>2, <3>1
    <3>2. CASE i # 1
      <4>1. i - 1 \in 1..Len(Tail(s)) /\ Tail(s)[i - 1] = s[i]
        BY <1>1, <3>2
      <4> QED BY <4>1 DEF Elems
    <3> QED BY <3>1, <3>2
  <2>2. \A y \in Elems(Tail(s)) : y \in Elems(s)
    BY <1>1 DEF Elems
  <2>3. Head(s) \in Elems(s)
    BY <1>1, <1>2 DEF Elems
  <2> QED BY <2>1, <2>2, <2>3 DEF Elems
<1>4. NoRepeat(s) => NoRepeat(Tail(s))
  BY <1>1 DEF NoRepeat
<1>5. NoRepeat(s) => Head(s) \notin Elems(Tail(s))
  BY <1>1, <1>2 DEF NoRepeat, Elems
<1> QED BY <1>1, <1>3, <1>4, <1>5

LEMMA EmptyFacts == Elems(<<>>) = {} /\ NoRepeat(<<>>)
  BY DEF Elems, NoRepeat

LEMMA RangeFacts == ASSUME NEW S, NEW s \in Seq(S) PROVE Range(s) = Elems(s)
  BY DOMAIN s = 1..Len(s) DEF Range, Elems

\* The two parts of a sequence before and behind its element k + 1
LEMMA SplitFacts ==
  ASSUME NEW S, NEW s \in Seq(S), NEW k \in 0..Len(s)
  PROVE  /\ SubSeq(s, 1, k) \in Seq(S) /\ SubSeq(s, k + 2, Len(s)) \in Seq(S)
         /\ Elems(SubSeq(s, 1, k)) = {s[i] : i \in 1..k}
         /\ Elems(SubSeq(s, k + 2, Len(s))) = {s[i] : i \in (k + 2)..Len(s)}
         /\ NoRepeat(s) => NoRepeat(SubSeq(s, k + 2, Len(s)))
<1>1. Len(s) \in Nat /\ k \in Nat /\ k <= Len(s)
  OBVIOUS
<1>2. /\ SubSeq(s, 1, k) \in Seq(S) /\ Len(SubSeq(s, 1, k)) = k
      /\ \A i \in 1..k : SubSeq(s, 1, k)[i] = s[i]
  <2>1. \A i \in 1..k : s[i] \in S
    BY <1>1
  <2> QED BY <1>1, <2>1
<1>3. DEFINE t == SubSeq(s, k + 2, Len(s))
<1>4. /\ t \in Seq(S) /\ Len(t) = IF k + 2 <= Len(s) THEN Len(s) - k - 1 ELSE 0
      /\ \A i \in 1..Len(t) : t[i] = s[i + k + 1]
  <2>1. \A i \in (k + 2)..Len(s) : s[i] \in S
    BY <1>1
  <2> QED BY <1>1, <2>1
<1>5. Elems(SubSeq(s, 1, k)) = {s[i] : i \in 1..k}
  BY <1>2 DEF Elems
<1> HIDE DEF t
<1>6. Elems(t) = {s[i] : i \in (k + 2)..Len(s)}
  <2>1. ASSUME NEW i \in 1..Len(t) PROVE t[i] \in {s[j] : j \in (k + 2)..Len(s)}
    <3>1. i + k + 1 \in (k + 2)..Len(s)
      BY <1>1, <1>4
    <3> QED BY <1>4, <3>1
  <2>2. ASSUME NEW j \in (k + 2)..Len(s) PROVE s[j] \in {t[i] : i \in 1..Len(t)}
    <3>1. j - k - 1 \in 1..Len(t) /\ t[j - k - 1] = s[j]
      BY <1>1, <1>4
    <3> QED BY <3>1
  <2> QED BY <2>1, <2>2 DEF Elems
<1>7. NoRepeat(s) => NoRepeat(t)
  BY <1>1, <1>4 DEF NoRepeat
<1> QED BY <1>2, <1>4, <1>5, <1>6, <1>7 DEF t

-----------------------------------------------------------------------------
(* Results.                                                                *)

\* One answer at most, which is an error or the response to this request
Answer(r) == answers[r] = <<>> \/ \E x \in Codes \cup {r} : answers[r] = <<x>>
AnswerInv == \A r \in Requests : Answer(r)

Answered == {r \in Requests : answers[r] # <<>>}

\* What a handler may answer: requests that have no answer yet, with an error or with
\* their response
Sound(results) ==
  \A r \in DOMAIN results \cap Requests : answers[r] = <<>> /\ results[r] \in Codes \cup {r}

LEMMA HandleFacts ==
  ASSUME AnswerInv, NEW hb, NEW results, HandleResponses(hb, results), Sound(results)
  PROVE  AnswerInv' /\ Answered' \subseteq Answered \cup DOMAIN results
<1>1. \A r \in Requests : answers'[r] = IF r \in DOMAIN results /\ delegate
                                        THEN Append(answers[r], results[r]) ELSE answers[r]
  BY DEF HandleResponses
<1>2. ASSUME NEW r \in Requests PROVE Answer(r)' /\ (r \notin DOMAIN results => answers'[r] = answers[r])
  <2>1. CASE r \in DOMAIN results /\ delegate
    <3>1. answers'[r] = Append(<<>>, results[r])
      BY <1>1, <2>1 DEF Sound
    <3>2. Append(<<>>, results[r]) = <<results[r]>>
      OBVIOUS
    <3> QED BY <2>1, <3>1, <3>2 DEF Answer, Sound, Codes
  <2>2. CASE ~(r \in DOMAIN results /\ delegate)
    <3>1. answers'[r] = answers[r]
      BY <1>1, <2>2
    <3> QED BY <3>1 DEF Answer, AnswerInv, Codes
  <2> QED BY <2>1, <2>2
<1> QED BY <1>2 DEF AnswerInv, Answered

LEMMA BrokenFacts ==
  ASSUME NEW f, NEW M
  PROVE  /\ DOMAIN AndBroken(f, M) = DOMAIN f \cup M
         /\ \A x \in DOMAIN f \cup M : AndBroken(f, M)[x] = IF x \in DOMAIN f THEN f[x] ELSE "kConnBroken"
  BY DEF AndBroken

\* TrySendNext, with nothing in flight and a queue of messages without an answer: it
\* answers some of them, and keeps the others in line or in flight.
LEMMA QueueFacts ==
  ASSUME ChannelAssumption, AnswerInv, NEW queue \in Seq(Messages), NEW onwire, NEW hb, NEW results,
         TrySendNext(queue, onwire, hb, results), NoRepeat(queue), Sound(results),
         Elems(queue) \cap Answered = {}, Elems(queue) \cap DOMAIN results = {}
  PROVE  /\ waiting_list' \in Seq(Messages) /\ NoRepeat(waiting_list')
         /\ ing_request' \in Messages \cup {None} /\ ing_request' \notin Elems(waiting_list')
         /\ Elems(waiting_list') \subseteq Elems(queue)
         /\ ing_request' # None => ing_request' \in Elems(queue) /\ ing_request' \notin Answered'
         /\ AnswerInv' /\ Answered' \subseteq Answered \cup DOMAIN results \cup Elems(queue)
         /\ Answered' \cap Elems(waiting_list') = {}
         /\ \/ wire' = onwire
            \/ ing_request' # None /\ status = "CONNECTED" /\ wire' = Append(onwire, ing_request')
<1>0. None \notin Messages /\ Codes \cap Messages = {}
  BY DEF ChannelAssumption, Messages, Codes
<1>1. PICK k \in 0..Len(queue) :
        /\ ing_request' = IF k < Len(queue) THEN queue[k + 1] ELSE None
        /\ waiting_list' = SubSeq(queue, k + 2, Len(queue))
        /\ wire' = IF ing_request' = None \/ status # "CONNECTED" THEN onwire ELSE Append(onwire, ing_request')
        /\ HandleResponses(hb, AndBroken(results, Range(SubSeq(queue, 1, k))))
  BY DEF TrySendNext
<1> DEFINE failed == SubSeq(queue, 1, k)
<1>2. /\ failed \in Seq(Messages) /\ waiting_list' \in Seq(Messages)
      /\ Elems(failed) = {queue[i] : i \in 1..k}
      /\ Elems(waiting_list') = {queue[i] : i \in (k + 2)..Len(queue)}
      /\ NoRepeat(waiting_list')
  BY <1>1, SplitFacts
<1>3. Range(failed) = Elems(failed)
  BY <1>2, RangeFacts
<1> HIDE DEF failed
<1>4. Len(queue) \in Nat /\ k \in Nat /\ k <= Len(queue)
  OBVIOUS
<1>5. Elems(queue) = {queue[i] : i \in 1..Len(queue)} /\ \A i \in 1..Len(queue) : queue[i] \in Messages
  BY DEF Elems
<1>6. Elems(failed) \subseteq Elems(queue) /\ Elems(waiting_list') \subseteq Elems(queue)
  BY <1>2, <1>4, <1>5
<1>7. Elems(failed) \cap Elems(waiting_list') = {}
  <2>1. \A i \in 1..k, j \in (k + 2)..Len(queue) : queue[i] # queue[j]
    BY <1>4 DEF NoRepeat
  <2> QED BY <1>2, <2>1
<1>8. ing_request' # None =>
        ing_request' \in Elems(queue) /\ ing_request' \notin Elems(failed) /\ ing_request' \notin Elems(waiting_list')
  <2>1. ASSUME ing_request' # None PROVE k + 1 \in 1..Len(queue) /\ ing_request' = queue[k + 1]
    BY <1>1, <1>4, <2>1
  <2>2. ASSUME k + 1 \in 1..Len(queue)
        PROVE  (\A i \in 1..k : queue[i] # queue[k + 1]) /\ (\A j \in (k + 2)..Len(queue) : queue[j] # queue[k + 1])
    BY <1>4, <2>2 DEF NoRepeat
  <2> QED BY <1>2, <1>5, <2>1, <2>2
<1>9. /\ DOMAIN AndBroken(results, Range(failed)) = DOMAIN results \cup Elems(failed)
      /\ \A x \in DOMAIN results \cup Elems(failed) :
           AndBroken(results, Range(failed))[x] = IF x \in DOMAIN results THEN results[x] ELSE "kConnBroken"
  BY <1>3, BrokenFacts
<1>10. Sound(AndBroken(results, Range(failed)))
  BY <1>6, <1>9 DEF Sound, Answered, Codes
<1>11. AnswerInv' /\ Answered' \subseteq Answered \cup (DOMAIN results \cup Elems(failed))
  BY <1>1, <1>9, <1>10, HandleFacts DEF failed
<1>12. ing_request' \in Messages \cup {None} /\ ing_request' \notin Elems(waiting_list')
  BY <1>0, <1>1, <1>4, <1>5, <1>6, <1>8
<1> QED BY <1>1, <1>2, <1>6, <1>7, <1>8, <1>11, <1>12

-----------------------------------------------------------------------------
(* The invariant.                                                          *)

Tasks == {Start, Close} \cup {Send(r) : r \in Requests}

Types ==
  /\ posted \in Seq(Tasks)
  /\ ing_request \in Messages \cup {None} /\ waiting_list \in Seq(Messages)
  /\ in_progress \subseteq Messages /\ unposted \subseteq Messages

\* A QueuedChannel has its messages in line and one in flight, an AsyncChannel all of
\* them in progress.
ModeInv ==
  /\ keep_sequence => in_progress = {}
  /\ ~keep_sequence => waiting_list = <<>> /\ ing_request = None

Taken == Elems(waiting_list) \cup in_progress \cup ({ing_request} \ {None})
Sends == {x.request : x \in {y \in Elems(posted) : y.kind = "send"}}

\* No request is posted twice.
Unique == \A i, j \in 1..Len(posted) : posted[i].kind = "send" /\ posted[i] = posted[j] => i = j

\* A message is in one place: not used, posted, taken by the channel, or answered.
PlaceInv ==
  /\ NoRepeat(waiting_list) /\ ing_request \notin Elems(waiting_list)
  /\ Unique
  /\ Taken \cap Answered = {} /\ Taken \cap Sends = {} /\ Taken \cap unposted = {}
  /\ Sends \cap Answered = {} /\ Sends \cap unposted = {} /\ unposted \cap Answered = {}

\* On a QueuedChannel the only answer that can come is that of the message in flight.
WireInv ==
  keep_sequence =>
    wire = <<>> \/ (status = "CONNECTED" /\ ing_request # None /\ wire = <<ing_request>>)

CInv == Types /\ ModeInv /\ PlaceInv /\ WireInv /\ AnswerInv

LEMMA TaskFacts ==
  /\ Start \in Tasks /\ Start.kind = "start" /\ Close \in Tasks /\ Close.kind = "close"
  /\ \A r \in Requests : Send(r) \in Tasks /\ Send(r).kind = "send" /\ Send(r).request = r
  /\ \A x \in Tasks : x.kind = "send" => x.request \in Requests /\ x = Send(x.request)
<1>1. Start \in Tasks /\ Start.kind = "start" /\ Close \in Tasks /\ Close.kind = "close"
  BY DEF Tasks, Start, Close
<1>2. \A r \in Requests : Send(r) \in Tasks
  BY DEF Tasks
<1>3. \A r \in Requests : Send(r).kind = "send" /\ Send(r).request = r
  BY DEF Send
<1>4. \A x \in Tasks : x = Start \/ x = Close \/ \E r \in Requests : x = Send(r)
  BY DEF Tasks
<1>5. \A x \in Tasks : x.kind = "send" => \E r \in Requests : x = Send(r)
  BY <1>1, <1>4
<1> QED BY <1>1, <1>2, <1>3, <1>5

LEMMA PostFacts ==
  ASSUME posted \in Seq(Tasks), Unique, NEW x \in Tasks, posted' = Append(posted, x),
         x.kind = "send" => x.request \notin Sends
  PROVE  posted' \in Seq(Tasks) /\ Unique' /\ Sends' = Sends \cup {y.request : y \in {z \in {x} : z.kind = "send"}}
<1>1. posted' \in Seq(Tasks) /\ Elems(posted') = Elems(posted) \cup {x}
  BY AppendFacts
<1>2. Sends' = Sends \cup {y.request : y \in {z \in {x} : z.kind = "send"}}
  BY <1>1 DEF Sends
<1>3. /\ Len(posted') = Len(posted) + 1 /\ Len(posted) \in Nat
      /\ \A i \in 1..Len(posted) : posted'[i] = posted[i]
      /\ posted'[Len(posted) + 1] = x
  OBVIOUS
<1>4. x.kind = "send" => \A i \in 1..Len(posted) : posted[i] # x
  BY DEF Sends, Elems
<1>5. ASSUME NEW i \in 1..Len(posted'), NEW j \in 1..Len(posted'), posted'[i].kind = "send", posted'[i] = posted'[j]
      PROVE  i = j
  <2>1. i \in 1..Len(posted) \/ i = Len(posted) + 1
    BY <1>3
  <2>2. j \in 1..Len(posted) \/ j = Len(posted) + 1
    BY <1>3
  <2>3. CASE i \in 1..Len(posted) /\ j \in 1..Len(posted)
    BY <1>3, <1>5, <2>3 DEF Unique
  <2>4. CASE i = Len(posted) + 1 /\ j \in 1..Len(posted)
    BY <1>3, <1>4, <1>5, <2>4
  <2>5. CASE i \in 1..Len(posted) /\ j = Len(posted) + 1
    BY <1>3, <1>4, <1>5, <2>5
  <2> QED BY <2>1, <2>2, <2>3, <2>4, <2>5
<1> QED BY <1>1, <1>2, <1>5 DEF Unique

LEMMA TakeFacts ==
  ASSUME posted \in Seq(Tasks), Unique, posted # <<>>, posted' = Tail(posted)
  PROVE  /\ posted' \in Seq(Tasks) /\ Unique' /\ Sends' \subseteq Sends /\ Head(posted) \in Tasks
         /\ Head(posted).kind = "send" => Head(posted).request \in Sends /\ Head(posted).request \notin Sends'
<1>1. posted' \in Seq(Tasks) /\ Head(posted) \in Tasks /\ Elems(posted) = Elems(posted') \cup {Head(posted)}
  BY TailFacts
<1>2. /\ Len(posted') = Len(posted) - 1 /\ Len(posted) \in Nat \ {0}
      /\ \A i \in 1..Len(posted') : posted'[i] = posted[i + 1]
  OBVIOUS
<1>3. Head(posted) = posted[1]
  OBVIOUS
<1>4. ASSUME NEW i \in 1..Len(posted'), NEW j \in 1..Len(posted'), posted'[i].kind = "send", posted'[i] = posted'[j]
      PROVE  i = j
  <2>1. i + 1 \in 1..Len(posted) /\ j + 1 \in 1..Len(posted)
    BY <1>2
  <2>2. posted[i + 1].kind = "send" /\ posted[i + 1] = posted[j + 1]
    BY <1>2, <1>4
  <2>3. i + 1 = j + 1
    BY <2>1, <2>2 DEF Unique
  <2> QED BY <2>3
<1>5. Head(posted).kind = "send" => Head(posted) \notin Elems(posted')
  <2>1. ASSUME NEW i \in 1..Len(posted'), posted'[i] = Head(posted), Head(posted).kind = "send" PROVE FALSE
    <3>1. i + 1 \in 1..Len(posted) /\ 1 \in 1..Len(posted) /\ posted[i + 1] = posted[1]
      BY <1>2, <1>3, <2>1
    <3>2. i + 1 = 1
      BY <1>3, <2>1, <3>1 DEF Unique
    <3> QED BY <3>2
  <2> QED BY <2>1 DEF Elems
<1>6. \A y \in Elems(posted') : y \in Tasks
  BY <1>1 DEF Elems
<1>7. Head(posted).kind = "send" => Head(posted).request \notin Sends'
  BY <1>1, <1>5, <1>6, TaskFacts DEF Sends
<1>8. Sends' \subseteq Sends /\ (Head(posted).kind = "send" => Head(posted).request \in Sends)
  BY <1>1 DEF Sends
<1> QED BY <1>1, <1>4, <1>7, <1>8 DEF Unique

-----------------------------------------------------------------------------
(* The steps keep it.                                                      *)

LEMMA PendingFacts == ASSUME CInv PROVE Pending = Taken
  BY RangeFacts DEF CInv, Types, Pending, Taken

\* SendRequest of a message that has been in no other place
LEMMA SendFacts ==
  ASSUME ChannelAssumption, CInv, NEW m \in Messages, NEW hb, SendMessage(m, hb),
         m \notin Taken, m \notin Answered, UNCHANGED <<keep_sequence, status>>
  PROVE  /\ ing_request' \in Messages \cup {None} /\ waiting_list' \in Seq(Messages) /\ in_progress' \subseteq Messages
         /\ ModeInv' /\ WireInv' /\ AnswerInv'
         /\ NoRepeat(waiting_list') /\ ing_request' \notin Elems(waiting_list')
         /\ Taken' \subseteq Taken \cup {m} /\ Answered' \subseteq Answered \cup Taken \cup {m}
         /\ Taken' \cap Answered' = {}
<1>0. None \notin Messages
  BY DEF ChannelAssumption, Messages
<1>1. /\ ing_request \in Messages \cup {None} /\ waiting_list \in Seq(Messages) /\ in_progress \subseteq Messages
      /\ ModeInv /\ WireInv /\ AnswerInv /\ NoRepeat(waiting_list) /\ ing_request \notin Elems(waiting_list)
      /\ Taken \cap Answered = {} /\ m \notin Elems(waiting_list)
  BY DEF CInv, Types, PlaceInv, Taken
<1>2. CASE keep_sequence /\ ing_request # None
  <2>1. /\ waiting_list' = Append(waiting_list, m)
        /\ UNCHANGED <<ing_request, timers, sent, wire, answers, in_progress>>
    BY <1>2 DEF SendMessage, SendQueued
  <2>2. /\ waiting_list' \in Seq(Messages) /\ NoRepeat(waiting_list')
        /\ Elems(waiting_list') = Elems(waiting_list) \cup {m}
    BY <1>1, <2>1, AppendFacts
  <2>3. AnswerInv' /\ Answered' = Answered
    BY <1>1, <2>1 DEF AnswerInv, Answer, Answered
  <2>4. Taken' = Taken \cup {m}
    BY <2>1, <2>2 DEF Taken
  <2>5. ModeInv' /\ WireInv'
    BY <1>1, <1>2, <2>1 DEF ModeInv, WireInv
  <2>6. ing_request' \notin Elems(waiting_list')
    BY <1>1, <1>2, <2>1, <2>2 DEF Taken
  <2> QED BY <1>1, <2>1, <2>2, <2>3, <2>4, <2>5, <2>6
<1>3. CASE keep_sequence /\ ing_request = None
  <2> DEFINE queue == Append(waiting_list, m)
  <2>1. TrySendNext(queue, wire, hb, <<>>) /\ in_progress' = in_progress
    BY <1>3 DEF SendMessage, SendQueued
  <2>2. queue \in Seq(Messages) /\ NoRepeat(queue) /\ Elems(queue) = Elems(waiting_list) \cup {m}
    BY <1>1, AppendFacts
  <2> HIDE DEF queue
  <2>3. Sound(<<>>) /\ DOMAIN <<>> = {}
    BY DEF Sound
  <2>4. in_progress = {} /\ Elems(queue) \cap Answered = {} /\ wire = <<>>
    BY <1>1, <1>3, <2>2 DEF ModeInv, Taken, WireInv
  <2>5. /\ waiting_list' \in Seq(Messages) /\ NoRepeat(waiting_list')
        /\ ing_request' \in Messages \cup {None} /\ ing_request' \notin Elems(waiting_list')
        /\ Elems(waiting_list') \subseteq Elems(queue)
        /\ ing_request' # None => ing_request' \in Elems(queue) /\ ing_request' \notin Answered'
        /\ AnswerInv' /\ Answered' \subseteq Answered \cup {} \cup Elems(queue)
        /\ Answered' \cap Elems(waiting_list') = {}
        /\ \/ wire' = wire
           \/ ing_request' # None /\ status = "CONNECTED" /\ wire' = Append(wire, ing_request')
    BY <1>1, <2>1, <2>2, <2>3, <2>4, QueueFacts
  <2>6. WireInv'
    <3>1. Append(<<>>, ing_request') = <<ing_request'>>
      OBVIOUS
    <3> QED BY <2>4, <2>5, <3>1 DEF WireInv
  <2>7. ModeInv'
    BY <1>3, <2>1, <2>4 DEF ModeInv
  <2>8. Taken' \subseteq Elems(queue) /\ Taken' \cap Answered' = {}
    BY <2>1, <2>4, <2>5 DEF Taken
  <2> QED BY <1>1, <2>1, <2>2, <2>4, <2>5, <2>6, <2>7, <2>8 DEF Taken
<1>4. CASE ~keep_sequence
  <2>1. UNCHANGED <<ing_request, waiting_list>> /\ SendAsync(m, hb)
    BY <1>4 DEF SendMessage, SendAsync
  <2>2. ModeInv' /\ WireInv'
    BY <1>1, <1>4, <2>1 DEF ModeInv, WireInv
  <2>3. CASE HandleResponses(hb, Result(m, "kConnBroken")) /\ in_progress' = in_progress
    <3>1. DOMAIN Result(m, "kConnBroken") = {m} /\ Result(m, "kConnBroken")[m] = "kConnBroken"
      BY DEF Result
    <3>2. Sound(Result(m, "kConnBroken"))
      BY <3>1 DEF Sound, Answered, Codes
    <3>3. AnswerInv' /\ Answered' \subseteq Answered \cup {m}
      BY <1>1, <2>3, <3>1, <3>2, HandleFacts
    <3>4. Taken' = Taken
      BY <2>1, <2>3 DEF Taken
    <3> QED BY <1>1, <2>1, <2>2, <2>3, <3>3, <3>4
  <2>4. CASE HandleResponses(hb, <<>>) /\ in_progress' = in_progress \cup {m}
    <3>1. DOMAIN <<>> = {} /\ Sound(<<>>)
      BY DEF Sound
    <3>2. AnswerInv' /\ Answered' \subseteq Answered
      BY <1>1, <2>4, <3>1, HandleFacts
    <3>3. Taken' = Taken \cup {m}
      BY <2>1, <2>4 DEF Taken
    <3> QED BY <1>1, <2>1, <2>2, <2>4, <3>2, <3>3
  <2> QED BY <2>1, <2>3, <2>4 DEF SendAsync
<1> QED BY <1>2, <1>3, <1>4

\* All that is pending is answered, some of it with results.
LEMMA CloseFacts ==
  ASSUME ChannelAssumption, CInv, NEW hb, NEW results, HandleResponses(hb, AndBroken(results, Pending)),
         Sound(results), DOMAIN results \subseteq Taken,
         ing_request' = None, waiting_list' = <<>>, in_progress' = {}
  PROVE  /\ AnswerInv' /\ Answered' \subseteq Answered \cup Taken /\ Taken' = {} /\ ModeInv'
         /\ NoRepeat(waiting_list') /\ ing_request' \notin Elems(waiting_list')
         /\ waiting_list' \in Seq(Messages)
<1>1. /\ DOMAIN AndBroken(results, Pending) = Taken
      /\ \A x \in Taken : AndBroken(results, Pending)[x] = IF x \in DOMAIN results THEN results[x] ELSE "kConnBroken"
  <2>1. Pending = Taken
    BY PendingFacts
  <2>2. /\ DOMAIN AndBroken(results, Taken) = DOMAIN results \cup Taken
        /\ \A x \in DOMAIN results \cup Taken :
             AndBroken(results, Taken)[x] = IF x \in DOMAIN results THEN results[x] ELSE "kConnBroken"
    BY BrokenFacts
  <2>3. DOMAIN results \cup Taken = Taken
    OBVIOUS
  <2> QED BY <2>1, <2>2, <2>3
<1>2. Sound(AndBroken(results, Pending))
  BY <1>1 DEF Sound, CInv, PlaceInv, Answered, Codes
<1>3. AnswerInv' /\ Answered' \subseteq Answered \cup Taken
  BY <1>1, <1>2, HandleFacts DEF CInv
<1>4. Elems(waiting_list') = {} /\ NoRepeat(waiting_list')
  BY EmptyFacts
<1>5. Taken' = {}
  BY <1>4 DEF Taken
<1> QED BY <1>3, <1>4, <1>5 DEF ModeInv

LEMMA InitHolds == ASSUME Init PROVE CInv
<1>1. posted \in Seq(Tasks) /\ Elems(posted) = {Start} /\ Len(posted) = 1
  <2>1. posted = <<Start>>
    BY DEF Init
  <2>2. Start \in Tasks
    BY TaskFacts
  <2>3. Len(posted) = 1 /\ posted[1] = Start
    BY <2>1
  <2> QED BY <2>1, <2>2, <2>3 DEF Elems
<1>2. Sends = {}
  BY <1>1, TaskFacts DEF Sends
<1>3. Types
  BY <1>1 DEF Init, Types
<1>4. AnswerInv /\ Answered = {}
  BY DEF Init, AnswerInv, Answer, Answered
<1>5. Elems(waiting_list) = {} /\ NoRepeat(waiting_list)
  BY EmptyFacts DEF Init
<1>6. Unique
  BY <1>1 DEF Unique
<1>7. Taken = {}
  BY <1>5 DEF Init, Taken
<1>8. PlaceInv
  BY <1>2, <1>4, <1>5, <1>6, <1>7 DEF PlaceInv
<1>9. ModeInv /\ WireInv
  BY DEF Init, ModeInv, WireInv
<1> QED BY <1>3, <1>4, <1>8, <1>9 DEF CInv

\* Steps that neither take nor answer a message
LEMMA QuietFacts ==
  ASSUME CInv, UNCHANGED <<keep_sequence, ing_request, waiting_list, in_progress, answers>>
  PROVE  ModeInv' /\ AnswerInv' /\ Taken' = Taken /\ Answered' = Answered
  BY DEF CInv, ModeInv, AnswerInv, Answer, Taken, Answered

LEMMA PostRequestKeeps == ASSUME ChannelAssumption, CInv, NEW r \in Requests, PostRequest(r) PROVE CInv'
<1>1. ModeInv' /\ AnswerInv' /\ Taken' = Taken /\ Answered' = Answered
  BY QuietFacts DEF PostRequest
<1>2. /\ r \in unposted /\ unposted' = unposted \ {r} /\ posted' = Append(posted, Send(r))
      /\ UNCHANGED <<keep_sequence, status, wire, ing_request, waiting_list, in_progress>>
  BY DEF PostRequest
<1>3. r \notin Sends /\ Send(r) \in Tasks /\ Send(r).kind = "send" /\ Send(r).request = r
  BY <1>2, TaskFacts DEF CInv, PlaceInv
<1>4. posted' \in Seq(Tasks) /\ Unique' /\ Sends' = Sends \cup {r}
  <2>1. posted' \in Seq(Tasks) /\ Unique' /\ Sends' = Sends \cup {y.request : y \in {z \in {Send(r)} : z.kind = "send"}}
    BY <1>2, <1>3, PostFacts DEF CInv, Types, PlaceInv
  <2> QED BY <1>3, <2>1
<1>5. Types' /\ WireInv'
  BY <1>2, <1>4 DEF CInv, Types, WireInv
<1>6. PlaceInv'
  BY <1>1, <1>2, <1>4 DEF CInv, PlaceInv
<1> QED BY <1>1, <1>5, <1>6 DEF CInv

LEMMA FinalizeKeeps == ASSUME ChannelAssumption, CInv, Finalize PROVE CInv'
<1>1. ModeInv' /\ AnswerInv' /\ Taken' = Taken /\ Answered' = Answered
  BY QuietFacts DEF Finalize
<1>2. /\ posted' = Append(posted, Close)
      /\ UNCHANGED <<keep_sequence, status, wire, ing_request, waiting_list, in_progress, unposted>>
  BY DEF Finalize
<1>3. Close \in Tasks /\ Close.kind # "send"
  BY TaskFacts
<1>4. posted' \in Seq(Tasks) /\ Unique' /\ Sends' = Sends
  <2>1. posted' \in Seq(Tasks) /\ Unique' /\ Sends' = Sends \cup {y.request : y \in {z \in {Close} : z.kind = "send"}}
    BY <1>2, <1>3, PostFacts DEF CInv, Types, PlaceInv
  <2> QED BY <1>3, <2>1
<1>5. Types' /\ WireInv'
  BY <1>2, <1>4 DEF CInv, Types, WireInv
<1>6. PlaceInv'
  BY <1>1, <1>2, <1>4 DEF CInv, PlaceInv
<1> QED BY <1>1, <1>5, <1>6 DEF CInv

LEMMA StartKeeps == ASSUME ChannelAssumption, CInv, StartClientChannel PROVE CInv'
<1>1. ModeInv' /\ AnswerInv' /\ Taken' = Taken /\ Answered' = Answered
  BY QuietFacts DEF StartClientChannel
<1>2. /\ posted # <<>> /\ posted' = Tail(posted) /\ status' = "CONNECTED"
      /\ UNCHANGED <<keep_sequence, wire, ing_request, waiting_list, in_progress, unposted>>
  BY DEF StartClientChannel
<1>3. posted' \in Seq(Tasks) /\ Unique' /\ Sends' \subseteq Sends
  BY <1>2, TakeFacts DEF CInv, Types, PlaceInv
<1>4. Types' /\ WireInv'
  BY <1>2, <1>3 DEF CInv, Types, WireInv
<1>5. PlaceInv'
  BY <1>1, <1>2, <1>3 DEF CInv, PlaceInv
<1> QED BY <1>1, <1>4, <1>5 DEF CInv

LEMMA SendRequestKeeps == ASSUME ChannelAssumption, CInv, SendRequest PROVE CInv'
<1> DEFINE m == Head(posted).request
<1>1. /\ posted # <<>> /\ Head(posted).kind = "send" /\ posted' = Tail(posted) /\ SendMessage(m, heartbeat_message)
      /\ UNCHANGED <<keep_sequence, status, unposted>>
  BY DEF SendRequest
<1>2. posted' \in Seq(Tasks) /\ Unique' /\ Sends' \subseteq Sends /\ m \in Sends /\ m \notin Sends' /\ Head(posted) \in Tasks
  BY <1>1, TakeFacts DEF CInv, Types, PlaceInv
<1>3. m \in Messages
  BY <1>1, <1>2, TaskFacts DEF Messages
<1> HIDE DEF m
<1>4. m \notin Taken /\ m \notin Answered /\ m \notin unposted
  BY <1>2 DEF CInv, PlaceInv
<1>5. /\ ing_request' \in Messages \cup {None} /\ waiting_list' \in Seq(Messages) /\ in_progress' \subseteq Messages
      /\ ModeInv' /\ WireInv' /\ AnswerInv'
      /\ NoRepeat(waiting_list') /\ ing_request' \notin Elems(waiting_list')
      /\ Taken' \subseteq Taken \cup {m} /\ Answered' \subseteq Answered \cup Taken \cup {m}
      /\ Taken' \cap Answered' = {}
  BY <1>1, <1>3, <1>4, SendFacts
<1>6. Types'
  BY <1>1, <1>2, <1>5 DEF CInv, Types
<1>7. PlaceInv'
  BY <1>1, <1>2, <1>4, <1>5 DEF CInv, PlaceInv
<1> QED BY <1>5, <1>6, <1>7 DEF CInv

LEMMA HeartbeatKeeps ==
  ASSUME ChannelAssumption, CInv, NEW h \in Heartbeats, OnHearbeatTimerInvoke(h) PROVE CInv'
<1>1. /\ h \in unposted /\ unposted' = unposted \ {h} /\ SendMessage(h, h)
      /\ UNCHANGED <<keep_sequence, status, posted>>
  BY DEF OnHearbeatTimerInvoke
<1>2. h \in Messages /\ h \notin Taken /\ h \notin Answered /\ h \notin Sends
  BY <1>1 DEF CInv, PlaceInv, Messages
<1>3. /\ ing_request' \in Messages \cup {None} /\ waiting_list' \in Seq(Messages) /\ in_progress' \subseteq Messages
      /\ ModeInv' /\ WireInv' /\ AnswerInv'
      /\ NoRepeat(waiting_list') /\ ing_request' \notin Elems(waiting_list')
      /\ Taken' \subseteq Taken \cup {h} /\ Answered' \subseteq Answered \cup Taken \cup {h}
      /\ Taken' \cap Answered' = {}
  BY <1>1, <1>2, SendFacts
<1>4. Sends' = Sends /\ Unique'
  BY <1>1 DEF CInv, PlaceInv, Sends, Unique
<1>5. Types'
  BY <1>1, <1>3 DEF CInv, Types
<1>6. PlaceInv'
  BY <1>1, <1>2, <1>3, <1>4 DEF CInv, PlaceInv
<1> QED BY <1>3, <1>5, <1>6 DEF CInv

\* Steps that answer some of what is taken, and leave what is posted
LEMMA AnsweringFacts ==
  ASSUME CInv, UNCHANGED <<posted, unposted>>, AnswerInv', ModeInv', WireInv',
         ing_request' \in Messages \cup {None}, waiting_list' \in Seq(Messages), in_progress' \subseteq Messages,
         NoRepeat(waiting_list'), ing_request' \notin Elems(waiting_list'),
         Taken' \subseteq Taken, Answered' \subseteq Answered \cup Taken, Taken' \cap Answered' = {}
  PROVE  CInv'
<1>1. Sends' = Sends /\ Unique'
  BY DEF CInv, PlaceInv, Sends, Unique
<1>2. Types'
  BY DEF CInv, Types
<1>3. PlaceInv'
  BY <1>1 DEF CInv, PlaceInv
<1> QED BY <1>2, <1>3 DEF CInv

LEMMA QueuedMessageKeeps ==
  ASSUME ChannelAssumption, CInv, OnCodecMessage, keep_sequence PROVE CInv'
<1>1. QueuedMessage /\ wire # <<>> /\ in_progress' = in_progress /\ UNCHANGED <<keep_sequence, status, posted, unposted>>
  BY DEF OnCodecMessage, QueuedMessage
<1>2. ing_request # None /\ wire = <<ing_request>> /\ status = "CONNECTED" /\ in_progress = {}
  BY <1>1 DEF CInv, WireInv, ModeInv
<1>3. Tail(wire) = <<>> /\ Head(wire) = ing_request
  BY <1>2
<1> DEFINE results == Result(ing_request, ing_request)
<1>4. TrySendNext(waiting_list, <<>>, heartbeat_message, results)
  BY <1>1, <1>2, <1>3 DEF QueuedMessage
<1>5. DOMAIN results = {ing_request} /\ results[ing_request] = ing_request
  BY DEF Result
<1> HIDE DEF results
<1>6. /\ waiting_list \in Seq(Messages) /\ NoRepeat(waiting_list) /\ AnswerInv
      /\ ing_request \in Taken /\ Elems(waiting_list) \subseteq Taken /\ Taken \cap Answered = {}
      /\ ing_request \notin Elems(waiting_list)
  BY <1>2 DEF CInv, Types, PlaceInv, Taken
<1>7. Sound(results)
  BY <1>5, <1>6 DEF Sound, Answered
<1>8. Elems(waiting_list) \cap Answered = {} /\ Elems(waiting_list) \cap DOMAIN results = {}
  BY <1>5, <1>6
<1>9. /\ waiting_list' \in Seq(Messages) /\ NoRepeat(waiting_list')
      /\ ing_request' \in Messages \cup {None} /\ ing_request' \notin Elems(waiting_list')
      /\ Elems(waiting_list') \subseteq Elems(waiting_list)
      /\ ing_request' # None => ing_request' \in Elems(waiting_list) /\ ing_request' \notin Answered'
      /\ AnswerInv' /\ Answered' \subseteq Answered \cup DOMAIN results \cup Elems(waiting_list)
      /\ Answered' \cap Elems(waiting_list') = {}
      /\ \/ wire' = <<>>
         \/ ing_request' # None /\ status = "CONNECTED" /\ wire' = Append(<<>>, ing_request')
  BY <1>4, <1>6, <1>7, <1>8, QueueFacts
<1>10. WireInv'
  <2>1. Append(<<>>, ing_request') = <<ing_request'>>
    OBVIOUS
  <2> QED BY <1>1, <1>9, <2>1 DEF WireInv
<1>11. ModeInv'
  BY <1>1, <1>2 DEF ModeInv
<1>12. Taken' \subseteq Taken /\ Taken' \cap Answered' = {}
  BY <1>1, <1>2, <1>9 DEF Taken
<1>13. Answered' \subseteq Answered \cup Taken
  BY <1>5, <1>6, <1>9
<1> QED BY <1>1, <1>2, <1>9, <1>10, <1>11, <1>12, <1>13, AnsweringFacts

\* An AsyncChannel answers a message x that is in progress, and takes it out.
LEMMA AsyncFacts ==
  ASSUME CInv, ~keep_sequence, NEW x, NEW y, NEW hb, y = x \/ y \in Codes,
         HandleResponses(hb, [m \in {x} \cap in_progress |-> y]), in_progress' = in_progress \ {x},
         UNCHANGED <<keep_sequence, posted, unposted, ing_request, waiting_list>>
  PROVE  CInv'
<1> DEFINE results == [m \in {x} \cap in_progress |-> y]
<1>1. DOMAIN results = {x} \cap in_progress /\ \A m \in {x} \cap in_progress : results[m] = y
  OBVIOUS
<1>2. HandleResponses(hb, results)
  OBVIOUS
<1> HIDE DEF results
<1>3. in_progress \subseteq Taken /\ Taken \cap Answered = {} /\ AnswerInv
  BY DEF CInv, PlaceInv, Taken
<1>4. Sound(results)
  BY <1>1, <1>3 DEF Sound, Answered
<1>5. AnswerInv' /\ Answered' \subseteq Answered \cup DOMAIN results
  BY <1>2, <1>3, <1>4, HandleFacts
<1>6. Taken = in_progress /\ Taken' = in_progress \ {x}
  BY EmptyFacts DEF CInv, ModeInv, Taken
<1>7. ModeInv' /\ WireInv'
  BY DEF CInv, ModeInv, WireInv
<1>8. /\ ing_request' \in Messages \cup {None} /\ waiting_list' \in Seq(Messages) /\ in_progress' \subseteq Messages
      /\ NoRepeat(waiting_list') /\ ing_request' \notin Elems(waiting_list')
  BY DEF CInv, Types, PlaceInv
<1>9. Taken' \subseteq Taken /\ Answered' \subseteq Answered \cup Taken /\ Taken' \cap Answered' = {}
  BY <1>1, <1>3, <1>5, <1>6
<1> QED BY <1>5, <1>7, <1>8, <1>9, AnsweringFacts

LEMMA MessageKeeps == ASSUME ChannelAssumption, CInv, OnCodecMessage PROVE CInv'
<1>1. CASE keep_sequence
  BY <1>1, QueuedMessageKeeps
<1>2. CASE ~keep_sequence
  <2>1. UNCHANGED <<keep_sequence, posted, unposted>> /\ AsyncMessage
    BY <1>2 DEF OnCodecMessage
  <2>2. PICK x \in Range(wire) :
          /\ in_progress' = in_progress \ {x}
          /\ HandleResponses(heartbeat_message, [m \in {x} \cap in_progress |-> m])
          /\ UNCHANGED <<ing_request, waiting_list>>
    BY <2>1 DEF AsyncMessage
  <2>3. [m \in {x} \cap in_progress |-> m] = [m \in {x} \cap in_progress |-> x]
    OBVIOUS
  <2>4. HandleResponses(heartbeat_message, [m \in {x} \cap in_progress |-> x])
    BY <2>2, <2>3
  <2> QED BY <1>2, <2>1, <2>2, <2>4, AsyncFacts
<1> QED BY <1>1, <1>2

\* All that is taken is answered, and no answer can come.
LEMMA ClosingKeeps ==
  ASSUME ChannelAssumption, CInv, NEW hb, NEW results, HandleResponses(hb, AndBroken(results, Pending)),
         Sound(results), DOMAIN results \subseteq Taken, wire' = <<>>,
         ing_request' = None, waiting_list' = <<>>, in_progress' = {}, UNCHANGED <<posted, unposted>>
  PROVE  CInv'
<1>1. /\ AnswerInv' /\ Answered' \subseteq Answered \cup Taken /\ Taken' = {} /\ ModeInv'
      /\ NoRepeat(waiting_list') /\ ing_request' \notin Elems(waiting_list') /\ waiting_list' \in Seq(Messages)
  BY CloseFacts
<1>2. WireInv'
  BY DEF WireInv
<1> QED BY <1>1, <1>2, AnsweringFacts

LEMMA NoResults == DOMAIN <<>> = {} /\ Sound(<<>>)
  BY DEF Sound

LEMMA TimeoutKeeps ==
  ASSUME ChannelAssumption, CInv, NEW m \in Messages, OnRequestTimeout(m) PROVE CInv'
<1>0. UNCHANGED <<keep_sequence, posted, unposted>> /\ None \notin Messages
  BY DEF OnRequestTimeout, ChannelAssumption, Messages
<1>1. CASE keep_sequence /\ m # ing_request
  <2>1. UNCHANGED <<in_progress, status, wire, ing_request, waiting_list, answers>>
    BY <1>1 DEF OnRequestTimeout, QueuedTimeout
  <2>2. ModeInv' /\ AnswerInv' /\ Taken' = Taken /\ Answered' = Answered
    BY <1>0, <2>1, QuietFacts
  <2>3. WireInv'
    BY <1>0, <2>1 DEF CInv, WireInv
  <2>4. /\ ing_request' \in Messages \cup {None} /\ waiting_list' \in Seq(Messages) /\ in_progress' \subseteq Messages
        /\ NoRepeat(waiting_list') /\ ing_request' \notin Elems(waiting_list') /\ Taken' \cap Answered' = {}
    BY <2>1, <2>2 DEF CInv, Types, PlaceInv
  <2> QED BY <1>0, <2>2, <2>3, <2>4, AnsweringFacts
<1>2. CASE keep_sequence /\ m = ing_request
  <2>1. /\ IF status = "CONNECTED" THEN wire' = <<>> ELSE UNCHANGED <<status, wire>>
        /\ OnCodecClosed(Result(m, "kTimeOut"))
    BY <1>2 DEF OnRequestTimeout, QueuedTimeout, CloseService
  <2>2. wire' = <<>>
    BY <1>2, <2>1 DEF CInv, WireInv
  <2>3. DOMAIN Result(m, "kTimeOut") = {m} /\ Result(m, "kTimeOut")[m] = "kTimeOut"
    BY DEF Result
  <2>4. m \in Taken /\ m \notin Answered
    BY <1>0, <1>2 DEF CInv, PlaceInv, Taken
  <2>5. Sound(Result(m, "kTimeOut"))
    BY <2>3, <2>4 DEF Sound, Answered, Codes
  <2>6. /\ HandleResponses(heartbeat_message, AndBroken(Result(m, "kTimeOut"), Pending))
        /\ ing_request' = None /\ waiting_list' = <<>> /\ in_progress' = {}
    BY <2>1 DEF OnCodecClosed
  <2> QED BY <1>0, <2>2, <2>3, <2>4, <2>5, <2>6, ClosingKeeps
<1>3. CASE ~keep_sequence
  <2>1. /\ in_progress' = in_progress \ {m} /\ UNCHANGED <<ing_request, waiting_list>>
        /\ HandleResponses(heartbeat_message, [r \in {m} \cap in_progress |-> "kTimeOut"])
    BY <1>3 DEF OnRequestTimeout, AsyncTimeout
  <2>2. "kTimeOut" \in Codes
    BY DEF Codes
  <2> QED BY <1>0, <1>3, <2>1, <2>2, AsyncFacts
<1> QED BY <1>1, <1>2, <1>3

LEMMA PeerClosesKeeps == ASSUME ChannelAssumption, CInv, PeerCloses PROVE CInv'
<1>1. /\ HandleResponses(heartbeat_message, AndBroken(<<>>, Pending)) /\ wire' = <<>>
      /\ ing_request' = None /\ waiting_list' = <<>> /\ in_progress' = {} /\ UNCHANGED <<posted, unposted>>
  BY DEF PeerCloses, OnCodecClosed, CloseService
<1> QED BY <1>1, NoResults, ClosingKeeps

LEMMA CloseKeeps == ASSUME ChannelAssumption, CInv, CloseClientChannel PROVE CInv'
<1>1. /\ HandleResponses(heartbeat_message, AndBroken(<<>>, Pending)) /\ wire' = <<>> /\ unposted' = unposted
      /\ ing_request' = None /\ waiting_list' = <<>> /\ in_progress' = {}
      /\ posted # <<>> /\ posted' = Tail(posted)
  BY DEF CloseClientChannel, CloseService
<1>2. /\ AnswerInv' /\ Answered' \subseteq Answered \cup Taken /\ Taken' = {} /\ ModeInv'
      /\ NoRepeat(waiting_list') /\ ing_request' \notin Elems(waiting_list') /\ waiting_list' \in Seq(Messages)
  BY <1>1, NoResults, CloseFacts
<1>3. posted' \in Seq(Tasks) /\ Unique' /\ Sends' \subseteq Sends
  BY <1>1, TakeFacts DEF CInv, Types, PlaceInv
<1>4. Types' /\ WireInv'
  BY <1>1, <1>2, <1>3 DEF CInv, Types, WireInv
<1>5. PlaceInv'
  BY <1>1, <1>2, <1>3 DEF CInv, PlaceInv
<1> QED BY <1>2, <1>4, <1>5 DEF CInv

LEMMA StepKeeps == ASSUME ChannelAssumption, CInv, [Next]_vars PROVE CInv'
<1>1. CASE UNCHANGED vars
  BY <1>1 DEF vars, CInv, Types, ModeInv, PlaceInv, Taken, Sends, Unique, WireInv, AnswerInv, Answer, Answered
<1>2. CASE Next
  BY <1>2, PostRequestKeeps, FinalizeKeeps, StartKeeps, SendRequestKeeps, CloseKeeps, HeartbeatKeeps,
     MessageKeeps, TimeoutKeeps, PeerClosesKeeps DEF Next, RunTask
<1> QED BY <1>1, <1>2

\* In every state of the channel a message is in one place, and an answer that can come is
\* that of a message in flight.
THEOREM ChannelInvariant == Spec => []CInv
<1>1. Init => CInv
  BY InitHolds
<1>2. CInv /\ [Next]_vars => CInv'
  BY StepKeeps, ChannelAssumption
<1> QED BY <1>1, <1>2, PTL DEF Spec

-----------------------------------------------------------------------------
(* The properties.                                                         *)

\* Response, timeout, failed send, end of the connection and CloseClientChannel give a
\* caller one answer at most, on either class of channel.
THEOREM AnsweredOnceTheorem == Spec => []AnsweredOnce
<1>1. ASSUME CInv, NEW r \in Requests PROVE Len(answers[r]) <= 1
  <2>1. CASE answers[r] = <<>>
    BY <2>1
  <2>2. CASE \E x \in Codes \cup {r} : answers[r] = <<x>>
    BY <2>2
  <2> QED BY <1>1, <2>1, <2>2 DEF CInv, AnswerInv, Answer
<1>2. CInv => AnsweredOnce
  BY <1>1 DEF AnsweredOnce
<1> QED BY <1>2, ChannelInvariant, PTL

\* The answer that OnCodecMessage hands on is that of the request it is handed to: on a
\* QueuedChannel because a timeout closes the connection before the next is sent.
THEOREM OwnResponseTheorem == Spec => []OwnResponse
<1>1. ASSUME CInv, NEW r \in Requests, NEW i \in DOMAIN answers[r], answers[r][i] \in Messages
      PROVE  answers[r][i] = r
  <2>1. Codes \cap Messages = {}
    BY ChannelAssumption DEF ChannelAssumption, Codes, Messages
  <2>2. answers[r] # <<>>
    BY <1>1
  <2>3. PICK x \in Codes \cup {r} : answers[r] = <<x>>
    BY <1>1, <2>2 DEF CInv, AnswerInv, Answer
  <2>4. answers[r][i] = x
    BY <1>1, <2>3
  <2> QED BY <1>1, <2>1, <2>3, <2>4
<1>2. CInv => OwnResponse
  BY <1>1 DEF OwnResponse
<1> QED BY <1>2, ChannelInvariant, PTL

-----------------------------------------------------------------------------
(* What the channel has taken stays in it until it is answered.            *)

\* HandleResponses to the messages of D: they get an answer while there is a delegate.
Handles(hb, D) ==
  /\ heartbeat_message' = IF hb \in D THEN None ELSE hb
  /\ delegate => Answered \cup (D \cap Requests) \subseteq Answered'

\* A handler takes the messages of New, and lets only those of D go, which it answers.
Lets(New, D) ==
  /\ taken' \in Seq(Messages) /\ Elems(taken') = Elems(taken) \cup New
  /\ Taken \cup New \subseteq Taken' \cup D
  /\ \E hb \in {heartbeat_message} \cup New : Handles(hb, D)

LEMMA HandleAll ==
  ASSUME AnswerInv, NEW hb, NEW results, HandleResponses(hb, results)
  PROVE  Handles(hb, DOMAIN results)
<1>1. /\ heartbeat_message' = IF hb \in DOMAIN results THEN None ELSE hb
      /\ \A r \in Requests : answers'[r] = IF r \in DOMAIN results /\ delegate
                                           THEN Append(answers[r], results[r]) ELSE answers[r]
  BY DEF HandleResponses
<1>2. ASSUME delegate, NEW r \in Requests, answers[r] # <<>> \/ r \in DOMAIN results PROVE answers'[r] # <<>>
  <2>1. CASE r \in DOMAIN results
    <3>1. answers'[r] = Append(answers[r], results[r])
      BY <1>1, <1>2, <2>1, Zenon
    <3>2. CASE answers[r] = <<>>
      BY <3>1, <3>2
    <3>3. CASE \E x \in Codes \cup {r} : answers[r] = <<x>>
      <4>1. PICK x \in Codes \cup {r} : answers[r] = <<x>>
        BY <3>3
      <4>2. Append(<<x>>, results[r]) # <<>>
        OBVIOUS
      <4> QED BY <3>1, <4>1, <4>2
    <3> QED BY <3>2, <3>3 DEF AnswerInv, Answer
  <2>2. CASE r \notin DOMAIN results
    BY <1>1, <1>2, <2>2
  <2> QED BY <2>1, <2>2
<1>3. delegate => Answered \cup (DOMAIN results \cap Requests) \subseteq Answered'
  BY <1>2 DEF Answered
<1> QED BY <1>1, <1>3 DEF Handles

\* TrySendNext lets go of the messages that it cannot send.
LEMMA QueueLets ==
  ASSUME None \notin Messages, AnswerInv, NEW queue \in Seq(Messages), NEW onwire, NEW hb, NEW results,
         TrySendNext(queue, onwire, hb, results)
  PROVE  \E F \in SUBSET Messages :
           /\ Elems(queue) \subseteq Elems(waiting_list') \cup ({ing_request'} \ {None}) \cup F
           /\ Handles(hb, DOMAIN results \cup F)
<1>1. PICK k \in 0..Len(queue) :
        /\ ing_request' = IF k < Len(queue) THEN queue[k + 1] ELSE None
        /\ waiting_list' = SubSeq(queue, k + 2, Len(queue))
        /\ HandleResponses(hb, AndBroken(results, Range(SubSeq(queue, 1, k))))
  BY DEF TrySendNext
<1> DEFINE failed == SubSeq(queue, 1, k)
<1>2. /\ failed \in Seq(Messages)
      /\ Elems(failed) = {queue[i] : i \in 1..k}
      /\ Elems(waiting_list') = {queue[i] : i \in (k + 2)..Len(queue)}
  BY <1>1, SplitFacts
<1>3. DOMAIN AndBroken(results, Range(failed)) = DOMAIN results \cup Elems(failed)
  BY <1>2, RangeFacts, BrokenFacts, Zenon
<1>4. Handles(hb, DOMAIN AndBroken(results, Range(failed)))
  BY <1>1, HandleAll
<1> HIDE DEF failed
<1>5. Len(queue) \in Nat /\ \A i \in 1..Len(queue) : queue[i] \in Messages
  OBVIOUS
<1>6. ASSUME NEW i \in 1..Len(queue)
      PROVE  queue[i] \in Elems(waiting_list') \cup ({ing_request'} \ {None}) \cup Elems(failed)
  <2>1. CASE i \in 1..k
    BY <1>2, <2>1
  <2>2. CASE i = k + 1
    <3>1. ing_request' = queue[i] /\ queue[i] \in Messages
      BY <1>1, <1>5, <2>2
    <3> QED BY <3>1
  <2>3. CASE i \in (k + 2)..Len(queue)
    BY <1>2, <2>3
  <2> QED BY <1>5, <2>1, <2>2, <2>3
<1>7. Elems(failed) \in SUBSET Messages
  BY <1>2, <1>5
<1>8. Elems(queue) \subseteq Elems(waiting_list') \cup ({ing_request'} \ {None}) \cup Elems(failed)
  BY <1>6 DEF Elems
<1> QED BY <1>3, <1>4, <1>7, <1>8, Zenon

LEMMA SendLets ==
  ASSUME ChannelAssumption, CInv, taken \in Seq(Messages), NEW m \in Messages, NEW hb \in {heartbeat_message, m},
         SendMessage(m, hb)
  PROVE  \E D \in SUBSET Messages : Lets({m}, D)
<1>0. None \notin Messages /\ waiting_list \in Seq(Messages) /\ ModeInv /\ AnswerInv
  BY DEF ChannelAssumption, Messages, CInv, Types
<1>1. taken' \in Seq(Messages) /\ Elems(taken') = Elems(taken) \cup {m}
  BY AppendFacts DEF SendMessage
<1>2. ASSUME NEW D \in SUBSET Messages, Taken \cup {m} \subseteq Taken' \cup D, Handles(hb, D)
      PROVE  \E E \in SUBSET Messages : Lets({m}, E)
  BY <1>1, <1>2 DEF Lets
<1>3. CASE keep_sequence /\ ing_request # None
  <2>1. waiting_list' = Append(waiting_list, m) /\ heartbeat_message' = hb /\ UNCHANGED <<ing_request, answers, in_progress>>
    BY <1>3 DEF SendMessage, SendQueued
  <2>2. Elems(waiting_list') = Elems(waiting_list) \cup {m}
    BY <1>0, <2>1, AppendFacts
  <2>3. Taken' = Taken \cup {m}
    BY <2>1, <2>2 DEF Taken
  <2>4. Handles(hb, {})
    BY <2>1 DEF Handles, Answered
  <2> QED BY <1>2, <2>3, <2>4, Zenon
<1>4. CASE keep_sequence /\ ing_request = None
  <2> DEFINE queue == Append(waiting_list, m)
  <2>1. TrySendNext(queue, wire, hb, <<>>) /\ in_progress' = in_progress
    BY <1>4 DEF SendMessage, SendQueued
  <2>2. queue \in Seq(Messages) /\ Elems(queue) = Elems(waiting_list) \cup {m}
    BY <1>0, AppendFacts
  <2> HIDE DEF queue
  <2>3. PICK F \in SUBSET Messages :
          /\ Elems(queue) \subseteq Elems(waiting_list') \cup ({ing_request'} \ {None}) \cup F
          /\ Handles(hb, DOMAIN <<>> \cup F)
    BY <1>0, <2>1, <2>2, QueueLets, Zenon
  <2>4. Taken \cup {m} \subseteq Taken' \cup F
    BY <1>0, <1>4, <2>2, <2>3 DEF Taken, ModeInv
  <2>5. DOMAIN <<>> \cup F = F
    BY NoResults
  <2> QED BY <1>2, <2>3, <2>4, <2>5, Zenon
<1>5. CASE ~keep_sequence
  <2>1. UNCHANGED <<ing_request, waiting_list>> /\ SendAsync(m, hb)
    BY <1>5 DEF SendMessage, SendAsync
  <2>2. CASE HandleResponses(hb, Result(m, "kConnBroken")) /\ in_progress' = in_progress
    <3>1. DOMAIN Result(m, "kConnBroken") = {m}
      BY DEF Result
    <3>2. Handles(hb, {m})
      BY <1>0, <2>2, <3>1, HandleAll
    <3>3. Taken' = Taken
      BY <2>1, <2>2 DEF Taken
    <3> QED BY <1>2, <3>2, <3>3, Zenon
  <2>3. CASE HandleResponses(hb, <<>>) /\ in_progress' = in_progress \cup {m}
    <3>1. Handles(hb, {})
      BY <1>0, <2>3, HandleAll, NoResults
    <3>2. Taken' = Taken \cup {m}
      BY <2>1, <2>3 DEF Taken
    <3> QED BY <1>2, <3>1, <3>2, Zenon
  <2> QED BY <2>1, <2>2, <2>3, Zenon DEF SendAsync
<1> QED BY <1>3, <1>4, <1>5, Zenon

\* The handlers that take no message
LEMMA AnswerLets ==
  ASSUME CInv, taken \in Seq(Messages), taken' = taken, NEW results, HandleResponses(heartbeat_message, results),
         DOMAIN results \subseteq Messages, Taken \subseteq Taken' \cup DOMAIN results
  PROVE  Lets({}, DOMAIN results)
  BY HandleAll DEF Lets, CInv

LEMMA CloseLets ==
  ASSUME CInv, taken \in Seq(Messages), taken' = taken, NEW results, DOMAIN results \subseteq Messages,
         HandleResponses(heartbeat_message, AndBroken(results, Pending))
  PROVE  Lets({}, DOMAIN results \cup Taken)
<1>1. DOMAIN AndBroken(results, Pending) = DOMAIN results \cup Taken
  BY PendingFacts, BrokenFacts, Zenon
<1>2. Taken \subseteq Messages
  BY DEF CInv, Types, Taken, Elems
<1> QED BY <1>1, <1>2, AnswerLets

LEMMA MessageLets ==
  ASSUME ChannelAssumption, CInv, taken \in Seq(Messages), OnCodecMessage
  PROVE  \E D \in SUBSET Messages : Lets({}, D)
<1>0. None \notin Messages /\ taken' = taken /\ AnswerInv /\ waiting_list \in Seq(Messages) /\ ing_request \in Messages \cup {None}
  BY DEF ChannelAssumption, Messages, OnCodecMessage, CInv, Types
<1>1. CASE keep_sequence
  <2>1. QueuedMessage /\ in_progress' = in_progress /\ wire # <<>>
    BY <1>1 DEF OnCodecMessage, QueuedMessage
  <2>2. ing_request # None
    BY <1>1, <2>1 DEF CInv, WireInv
  <2>3. TrySendNext(waiting_list, Tail(wire), heartbeat_message, Result(ing_request, Head(wire)))
    BY <2>1, <2>2 DEF QueuedMessage
  <2>4. DOMAIN Result(ing_request, Head(wire)) = {ing_request}
    BY DEF Result
  <2>5. PICK F \in SUBSET Messages :
          /\ Elems(waiting_list) \subseteq Elems(waiting_list') \cup ({ing_request'} \ {None}) \cup F
          /\ Handles(heartbeat_message, {ing_request} \cup F)
    BY <1>0, <2>3, <2>4, QueueLets, Zenon
  <2>6. Taken \subseteq Taken' \cup ({ing_request} \cup F)
    BY <2>1, <2>5 DEF Taken
  <2>7. {ing_request} \cup F \in SUBSET Messages
    BY <1>0, <2>2
  <2> QED BY <1>0, <2>5, <2>6, <2>7 DEF Lets
<1>2. CASE ~keep_sequence
  <2>1. PICK x \in Range(wire) :
          /\ in_progress' = in_progress \ {x} /\ UNCHANGED <<ing_request, waiting_list>>
          /\ HandleResponses(heartbeat_message, [m \in {x} \cap in_progress |-> m])
    BY <1>2, Zenon DEF OnCodecMessage, AsyncMessage
  <2>2. DOMAIN [m \in {x} \cap in_progress |-> m] = {x} \cap in_progress /\ {x} \cap in_progress \in SUBSET Messages
    BY DEF CInv, Types
  <2>3. Taken \subseteq Taken' \cup ({x} \cap in_progress)
    BY <2>1 DEF Taken
  <2> QED BY <1>0, <2>1, <2>2, <2>3, AnswerLets
<1> QED BY <1>1, <1>2

LEMMA TimeoutLets ==
  ASSUME ChannelAssumption, CInv, taken \in Seq(Messages), NEW m \in Messages, OnRequestTimeout(m)
  PROVE  \E D \in SUBSET Messages : Lets({}, D)
<1>0. taken' = taken /\ Taken \subseteq Messages
  BY DEF OnRequestTimeout, CInv, Types, Taken, Elems
<1>1. CASE keep_sequence /\ m # ing_request
  <2>1. UNCHANGED <<in_progress, ing_request, waiting_list, answers, heartbeat_message>>
    BY <1>1 DEF OnRequestTimeout, QueuedTimeout
  <2>2. Handles(heartbeat_message, {}) /\ Taken' = Taken
    BY <2>1 DEF Handles, Answered, Taken
  <2> QED BY <1>0, <2>2 DEF Lets
<1>2. CASE keep_sequence /\ m = ing_request
  <2>1. HandleResponses(heartbeat_message, AndBroken(Result(m, "kTimeOut"), Pending))
    BY <1>2 DEF OnRequestTimeout, QueuedTimeout, OnCodecClosed
  <2>2. DOMAIN Result(m, "kTimeOut") = {m}
    BY DEF Result
  <2>3. Lets({}, {m} \cup Taken)
    BY <1>0, <2>1, <2>2, CloseLets
  <2>4. {m} \cup Taken \in SUBSET Messages
    BY <1>0
  <2> QED BY <2>3, <2>4
<1>3. CASE ~keep_sequence
  <2>1. /\ in_progress' = in_progress \ {m} /\ UNCHANGED <<ing_request, waiting_list>>
        /\ HandleResponses(heartbeat_message, [r \in {m} \cap in_progress |-> "kTimeOut"])
    BY <1>3 DEF OnRequestTimeout, AsyncTimeout
  <2>2. DOMAIN [r \in {m} \cap in_progress |-> "kTimeOut"] = {m} \cap in_progress /\ {m} \cap in_progress \in SUBSET Messages
    OBVIOUS
  <2>3. Taken \subseteq Taken' \cup ({m} \cap in_progress)
    BY <2>1 DEF Taken
  <2> QED BY <1>0, <2>1, <2>2, <2>3, AnswerLets
<1> QED BY <1>1, <1>2, <1>3

\* Every step lets go only of what it answers.
LEMMA StepLets ==
  ASSUME ChannelAssumption, CInv, taken \in Seq(Messages), [Next]_vars
  PROVE  \E New, D \in SUBSET Messages : Lets(New, D)
<1>0. {} \in SUBSET Messages /\ Taken \in SUBSET Messages
  BY DEF CInv, Types, Taken, Elems
<1>1. ASSUME UNCHANGED <<ing_request, waiting_list, in_progress, taken, answers, heartbeat_message>>
      PROVE  Lets({}, {})
  BY <1>1 DEF Lets, Handles, Taken, Answered
<1>2. CASE UNCHANGED vars \/ (\E r \in Requests : PostRequest(r)) \/ Finalize \/ StartClientChannel
  BY <1>0, <1>1, <1>2 DEF vars, PostRequest, Finalize, StartClientChannel
<1>3. CASE SendRequest
  <2>1. posted # <<>> /\ posted' = Tail(posted) /\ Head(posted).kind = "send"
        /\ SendMessage(Head(posted).request, heartbeat_message)
    BY <1>3 DEF SendRequest
  <2>2. Head(posted) \in Tasks
    BY <2>1, TakeFacts DEF CInv, Types, PlaceInv
  <2>3. Head(posted).request \in Messages
    BY <2>1, <2>2, TaskFacts DEF Messages
  <2>4. \E D \in SUBSET Messages : Lets({Head(posted).request}, D)
    BY <2>1, <2>3, SendLets, Zenon
  <2> QED BY <2>3, <2>4
<1>4. CASE \E h \in Heartbeats : OnHearbeatTimerInvoke(h)
  <2>1. PICK h \in Heartbeats : SendMessage(h, h)
    BY <1>4 DEF OnHearbeatTimerInvoke
  <2>2. h \in Messages
    BY DEF Messages
  <2>3. \E D \in SUBSET Messages : Lets({h}, D)
    BY <2>1, <2>2, SendLets, Zenon
  <2> QED BY <2>2, <2>3
<1>5. CASE CloseClientChannel \/ PeerCloses
  <2>1. HandleResponses(heartbeat_message, AndBroken(<<>>, Pending)) /\ taken' = taken
    BY <1>5 DEF CloseClientChannel, PeerCloses, OnCodecClosed
  <2>2. Lets({}, DOMAIN <<>> \cup Taken)
    BY <2>1, NoResults, CloseLets
  <2> QED BY <1>0, <2>2, NoResults
<1>6. CASE OnCodecMessage
  BY <1>0, <1>6, MessageLets
<1>7. CASE \E m \in Messages : OnRequestTimeout(m)
  BY <1>0, <1>7, TimeoutLets
<1> QED BY <1>2, <1>3, <1>4, <1>5, <1>6, <1>7 DEF Next, RunTask

\* While there is a delegate, a request that was taken is in the channel or answered; and
\* the heartbeat that is waited for is in the channel.
KeptInv ==
  /\ taken \in Seq(Messages)
  /\ delegate => Elems(taken) \cap Requests \subseteq Taken \cup Answered
  /\ heartbeat_message # None => heartbeat_message \in Taken

LEMMA StepKept ==
  ASSUME ChannelAssumption, CInv, KeptInv, [Next]_vars
  PROVE  /\ taken' \in Seq(Messages) /\ (heartbeat_message' # None => heartbeat_message' \in Taken')
         /\ delegate => Elems(taken') \cap Requests \subseteq Taken' \cup Answered'
<1>1. PICK New \in SUBSET Messages, D \in SUBSET Messages : Lets(New, D)
  BY StepLets DEF KeptInv
<1>2. PICK hb \in {heartbeat_message} \cup New : Handles(hb, D)
  BY <1>1 DEF Lets
<1>3. taken' \in Seq(Messages) /\ Elems(taken') = Elems(taken) \cup New /\ Taken \cup New \subseteq Taken' \cup D
  BY <1>1 DEF Lets
<1>4. heartbeat_message' # None => heartbeat_message' \in Taken'
  BY <1>2, <1>3 DEF Handles, KeptInv
<1>5. ASSUME delegate PROVE Elems(taken') \cap Requests \subseteq Taken' \cup Answered'
  <2>1. Answered \cup (D \cap Requests) \subseteq Answered' /\ Elems(taken) \cap Requests \subseteq Taken \cup Answered
    BY <1>2, <1>5 DEF Handles, KeptInv
  <2> QED BY <1>3, <2>1
<1> QED BY <1>3, <1>4, <1>5

LEMMA DelegateSteps == ASSUME [Next]_vars PROVE delegate' = delegate \/ (CloseClientChannel /\ ~delegate')
  BY DEF Next, vars, RunTask, PostRequest, Finalize, StartClientChannel, SendRequest, CloseClientChannel,
         OnHearbeatTimerInvoke, OnCodecMessage, OnRequestTimeout, PeerCloses

LEMMA KeptInvariant == Spec => []KeptInv
<1>1. Init => KeptInv
  BY EmptyFacts DEF Init, KeptInv
<1>2. CInv /\ KeptInv /\ [Next]_vars => KeptInv'
  <2> SUFFICES ASSUME CInv, KeptInv, [Next]_vars PROVE KeptInv'
    OBVIOUS
  <2>1. /\ taken' \in Seq(Messages) /\ (heartbeat_message' # None => heartbeat_message' \in Taken')
        /\ delegate => Elems(taken') \cap Requests \subseteq Taken' \cup Answered'
    BY ChannelAssumption, StepKept
  <2>2. delegate' => delegate
    BY DelegateSteps, Zenon
  <2> QED BY <2>1, <2>2 DEF KeptInv
<1> QED BY <1>1, <1>2, ChannelInvariant, PTL DEF Spec

\* The heartbeat that the channel waits for is in line or in flight, whatever has failed,
\* timed out or been closed: the next tick of the timer is not held back for ever.
THEOREM HeartbeatPendingTheorem == Spec => []HeartbeatPending
<1>1. CInv /\ KeptInv => HeartbeatPending
  BY PendingFacts DEF KeptInv, HeartbeatPending
<1> QED BY <1>1, ChannelInvariant, KeptInvariant, PTL

\* When CloseClientChannel detaches the client, every request that the channel has ever
\* taken has its answer: BeforeCloseChannel misses none.
THEOREM CloseAnswersTheorem == Spec => CloseAnswersAll
<1>1. ASSUME CInv, KeptInv, [Next]_vars, delegate, ~delegate', NEW r \in Range(taken) \cap Requests
      PROVE  answers'[r] # <<>>
  <2>1. CloseClientChannel
    BY <1>1, DelegateSteps, Zenon
  <2>2. taken' = taken /\ ing_request' = None /\ waiting_list' = <<>> /\ in_progress' = {}
    BY <2>1 DEF CloseClientChannel
  <2>3. Taken' = {}
    BY <2>2, EmptyFacts DEF Taken
  <2>4. Elems(taken') \cap Requests \subseteq Taken' \cup Answered'
    BY <1>1, ChannelAssumption, StepKept
  <2>5. r \in Elems(taken')
    BY <1>1, <2>2, RangeFacts DEF KeptInv
  <2> QED BY <1>1, <2>3, <2>4, <2>5 DEF Answered
<1>2. CInv /\ KeptInv /\ [Next]_vars =>
        [delegate /\ ~delegate' => \A r \in Range(taken) \cap Requests : answers'[r] # <<>>]_vars
  BY <1>1
<1> QED BY <1>2, ChannelInvariant, KeptInvariant, PTL DEF Spec, CloseAnswersAll
=============================================================================
