--------------------------- MODULE ClientChannel ---------------------------
(***************************************************************************)
(* lt::net::ClientChannel, a connection of a client, with its two classes: *)
(* QueuedChannel for a protocol that answers in order, one request in      *)
(* flight, and AsyncChannel for one whose messages carry an id, any number *)
(* in flight.  Everything here runs on the I/O loop of the channel, one    *)
(* handler at a time; the caller's threads only post tasks to it.  A       *)
(* handler is one action.                                                  *)
(***************************************************************************)
EXTENDS Naturals, Sequences, Functions

CONSTANTS Requests,   \* requests of the callers
          Heartbeats, \* messages that NewHeartbeat returns
          None        \* no message

ASSUME ChannelAssumption ==
  /\ None \notin Requests \cup Heartbeats
  /\ Requests \cap Heartbeats = {}
  /\ {"kTimeOut", "kConnBroken"} \cap (Requests \cup Heartbeats) = {}

VARIABLES
  keep_sequence,      \* KeepSequence() of the codec: a QueuedChannel
  posted,             \* tasks posted to the I/O loop
  state,              \* state_
  status,             \* status_ of codec_
  delegate,           \* delegate_ is set
  ing_request,        \* ing_request_
  waiting_list,       \* waiting_list_
  in_progress,        \* in_progress_ of an AsyncChannel
  timers,             \* messages with a delayed OnRequestTimeout
  heartbeat_timer,    \* heartbeat_timer_ is set
  heartbeat_message,  \* heartbeat_message_
  unposted,           \* requests and heartbeats not used yet
  finalized,          \* Finalize has posted CloseClientChannel
  wire,               \* messages sent that the peer has not answered
  peer_closed,        \* the connection was closed by the peer
  taken,              \* history: the order of SendRequest
  sent,               \* history: the order on the connection
  answers,            \* history: what OnRequestGetResponse got for each request
  closed_calls        \* history: calls of OnClientChannelClosed, 2 for more

vars == <<keep_sequence, in_progress, posted, state, status, delegate, ing_request, waiting_list, timers,
          heartbeat_timer, heartbeat_message, unposted, finalized, wire, peer_closed, taken, sent, answers, closed_calls>>

Messages == Requests \cup Heartbeats
Codes == {"kTimeOut", "kConnBroken"}

Start == [kind |-> "start", request |-> None]
Send(r) == [kind |-> "send", request |-> r]
Close == [kind |-> "close", request |-> None]

TypeOK ==
  /\ keep_sequence \in BOOLEAN
  /\ posted \in Seq([kind : {"start", "send", "close"}, request : Requests \cup {None}])
  /\ state \in {"kInitialing", "kReady", "kClosing", "kDisconnected"}
  /\ status \in {"CONNECTING", "CONNECTED", "CLOSED"}
  /\ delegate \in BOOLEAN
  /\ ing_request \in Messages \cup {None}
  /\ waiting_list \in Seq(Messages) /\ in_progress \subseteq Messages
  /\ timers \subseteq Messages
  /\ heartbeat_timer \in BOOLEAN
  /\ heartbeat_message \in Heartbeats \cup {None}
  /\ unposted \subseteq Messages
  /\ finalized \in BOOLEAN /\ peer_closed \in BOOLEAN
  /\ wire \in Seq(Messages) /\ taken \in Seq(Messages) /\ sent \in Seq(Messages)
  /\ answers \in [Requests -> Seq(Codes \cup Messages)]
  /\ closed_calls \in 0..2

\* Client::OnConnected has created the channel, of the class that the codec asks
\* for, and posted StartClientChannel.
Init ==
  /\ keep_sequence \in BOOLEAN
  /\ posted = <<Start>>
  /\ state = "kInitialing" /\ status = "CONNECTING" /\ delegate = TRUE
  /\ ing_request = None /\ waiting_list = <<>> /\ in_progress = {} /\ timers = {}
  /\ heartbeat_timer = FALSE /\ heartbeat_message = None
  /\ unposted = Messages /\ finalized = FALSE
  /\ wire = <<>> /\ peer_closed = FALSE
  /\ taken = <<>> /\ sent = <<>> /\ answers = [r \in Requests |-> <<>>] /\ closed_calls = 0

-----------------------------------------------------------------------------
(* Parts that the handlers share.                                          *)

\* HandleResponse for each message of results, with hb as the heartbeat_message_:
\* that one is kept to itself, a request goes to the delegate, or nowhere without.
HandleResponses(hb, results) ==
  /\ heartbeat_message' = IF hb \in DOMAIN results THEN None ELSE hb
  /\ answers' = [r \in Requests |-> IF r \in DOMAIN results /\ delegate
                                    THEN Append(answers[r], results[r]) ELSE answers[r]]

Result(m, x) == [r \in {m} |-> x]

\* The results f, and kConnBroken for the other ones of some messages
AndBroken(f, messages) ==
  [m \in DOMAIN f \cup messages |-> IF m \in DOMAIN f THEN f[m] ELSE "kConnBroken"]

\* Mutant: a message that could not be sent is dropped.
TrySendNextDrops(queue, onwire, hb, results) ==
  \E k \in 0..Len(queue) :
    LET next == IF k < Len(queue) THEN queue[k + 1] ELSE None IN
    /\ ing_request' = next
    /\ waiting_list' = SubSeq(queue, k + 2, Len(queue))
    /\ timers' = timers \cup ({next} \ {None})
    /\ sent' = IF next = None THEN sent ELSE Append(sent, next)
    /\ wire' = IF next = None \/ status # "CONNECTED" THEN onwire ELSE Append(onwire, next)
    /\ HandleResponses(hb, results)

\* TrySendNext without a request in flight: codec_->SendRequest fails for the
\* first k messages of the queue, which are answered, and succeeds for the next.
\* The peer will answer what is sent while the connection is up.
TrySendNext(queue, onwire, hb, results) ==
  \E k \in 0..Len(queue) :
    LET next == IF k < Len(queue) THEN queue[k + 1] ELSE None IN
    /\ ing_request' = next
    /\ waiting_list' = SubSeq(queue, k + 2, Len(queue))
    /\ timers' = timers \cup ({next} \ {None})
    /\ sent' = IF next = None THEN sent ELSE Append(sent, next)
    /\ wire' = IF next = None \/ status # "CONNECTED" THEN onwire ELSE Append(onwire, next)
    /\ HandleResponses(hb, AndBroken(results, Range(SubSeq(queue, 1, k))))

\* QueuedChannel::SendRequest of message m, with hb as the heartbeat_message_
SendQueued(m, hb) ==
  /\ IF ing_request # None
     THEN /\ waiting_list' = Append(waiting_list, m)
          /\ heartbeat_message' = hb
          /\ UNCHANGED <<ing_request, timers, sent, wire, answers>>
     ELSE TrySendNext(Append(waiting_list, m), wire, hb, <<>>)
  /\ UNCHANGED in_progress

\* AsyncChannel::SendRequest: codec_->SendRequest fails, or gives the message its id.  The
\* ids, which are the keys of in_progress_, are taken to differ, as those of the raw codec do.
SendAsync(m, hb) ==
  /\ \/ /\ HandleResponses(hb, Result(m, "kConnBroken"))
        /\ UNCHANGED <<in_progress, timers, sent, wire>>
     \/ /\ in_progress' = in_progress \cup {m}
        /\ timers' = timers \cup {m}
        /\ sent' = Append(sent, m)
        /\ wire' = IF status # "CONNECTED" THEN wire ELSE Append(wire, m)
        /\ HandleResponses(hb, <<>>)
  /\ UNCHANGED <<ing_request, waiting_list>>

SendMessage(m, hb) ==
  /\ taken' = Append(taken, m)
  /\ IF keep_sequence THEN SendQueued(m, hb) ELSE SendAsync(m, hb)

\* What the channel has taken and not answered
Pending == Range(waiting_list) \cup in_progress \cup ({ing_request} \ {None})

\* OnCodecClosed after the results: all that is pending is answered, the delegate
\* told, and the heartbeat timer removed
OnCodecClosed(results) ==
  /\ HandleResponses(heartbeat_message, AndBroken(results, Pending))
  /\ ing_request' = None /\ waiting_list' = <<>> /\ in_progress' = {}
  /\ closed_calls' = IF delegate /\ closed_calls < 2 THEN closed_calls + 1 ELSE closed_calls
  /\ heartbeat_timer' = FALSE

-----------------------------------------------------------------------------
(* The callers' threads.                                                   *)

\* DoRequest or AsyncDoRequest: get_ready_channel, then PostTask
PostRequest(r) ==
  /\ state = "kReady"
  /\ r \in unposted
  /\ unposted' = unposted \ {r}
  /\ posted' = Append(posted, Send(r))
  /\ UNCHANGED <<keep_sequence, in_progress, state, status, delegate, ing_request, waiting_list, timers,
                 heartbeat_timer, heartbeat_message, finalized, wire, peer_closed, taken, sent, answers, closed_calls>>

\* Client::Finalize
Finalize ==
  /\ ~finalized
  /\ finalized' = TRUE
  /\ posted' = Append(posted, Close)
  /\ UNCHANGED <<keep_sequence, in_progress, state, status, delegate, ing_request, waiting_list, timers,
                 heartbeat_timer, heartbeat_message, unposted, wire, peer_closed, taken, sent, answers, closed_calls>>

-----------------------------------------------------------------------------
(* The I/O loop.                                                           *)

\* StartClientChannel: StartProtocolService, NotifyCodecReady, OnCodecReady
StartClientChannel ==
  /\ posted # <<>> /\ Head(posted) = Start
  /\ posted' = Tail(posted)
  /\ status' = "CONNECTED"
  /\ state' = "kReady"
  /\ heartbeat_timer' = (Heartbeats # {})
  /\ UNCHANGED <<keep_sequence, in_progress, delegate, ing_request, waiting_list, timers, heartbeat_message,
                 unposted, finalized, wire, peer_closed, taken, sent, answers, closed_calls>>

SendRequest ==
  /\ posted # <<>> /\ Head(posted).kind = "send"
  /\ posted' = Tail(posted)
  /\ SendMessage(Head(posted).request, heartbeat_message)
  /\ UNCHANGED <<keep_sequence, state, status, delegate, heartbeat_timer, unposted, finalized, peer_closed, closed_calls>>

\* OnHearbeatTimerInvoke: one heartbeat at a time
OnHearbeatTimerInvoke(h) ==
  /\ heartbeat_timer
  /\ heartbeat_message = None
  /\ h \in unposted
  /\ unposted' = unposted \ {h}
  /\ SendMessage(h, h)
  /\ UNCHANGED <<keep_sequence, posted, state, status, delegate, heartbeat_timer, finalized, peer_closed, closed_calls>>

\* QueuedChannel::OnCodecMessage: the answer is taken for that of the request in
\* flight, if any
QueuedMessage ==
  /\ IF ing_request = None
     THEN /\ wire' = Tail(wire)
          /\ UNCHANGED <<ing_request, waiting_list, timers, heartbeat_message, sent, answers>>
     ELSE TrySendNext(waiting_list, Tail(wire), heartbeat_message, Result(ing_request, Head(wire)))
  /\ UNCHANGED in_progress

\* AsyncChannel::OnCodecMessage: answers come in any order and find their request
\* by its id, unless it has timed out
AsyncMessage ==
  \E x \in Range(wire) :
    /\ wire' = SelectSeq(wire, LAMBDA m : m # x)
    /\ in_progress' = in_progress \ {x}
    /\ HandleResponses(heartbeat_message, [m \in {x} \cap in_progress |-> m])
    /\ UNCHANGED <<ing_request, waiting_list, timers, sent>>

OnCodecMessage ==
  /\ status = "CONNECTED" /\ wire # <<>>
  /\ IF keep_sequence THEN QueuedMessage ELSE AsyncMessage
  /\ UNCHANGED <<keep_sequence, posted, state, status, delegate, heartbeat_timer, unposted, finalized,
                 peer_closed, taken, closed_calls>>

\* The answers come no more: CloseService has taken the socket out of the pump.
CloseService == status' = "CLOSED" /\ wire' = <<>>

\* Mutant: the connection stays open after a timeout.
QueuedTimeoutStaysOpen(m) ==
  /\ m = ing_request
  /\ TrySendNext(waiting_list, wire, heartbeat_message, Result(m, "kTimeOut"))
  /\ UNCHANGED <<in_progress, status, heartbeat_timer, closed_calls>>

\* QueuedChannel::OnRequestTimeout: of no effect unless the message still is in
\* flight; the answer of a request that timed out would be taken for that of the
\* next one, so the connection is closed
QueuedTimeout(m) ==
  /\ timers' = timers \ {m}
  /\ IF m # ing_request
     THEN UNCHANGED <<in_progress, status, wire, ing_request, waiting_list, heartbeat_message,
                      heartbeat_timer, answers, closed_calls>>
     ELSE /\ IF status = "CONNECTED" THEN CloseService ELSE UNCHANGED <<status, wire>>
          /\ OnCodecClosed(Result(m, "kTimeOut"))
  /\ UNCHANGED sent

\* Mutant: the request is answered and not erased.
AsyncTimeoutKeeps(m) ==
  /\ timers' = timers \ {m}
  /\ HandleResponses(heartbeat_message, [r \in {m} \cap in_progress |-> "kTimeOut"])
  /\ UNCHANGED <<in_progress, status, wire, ing_request, waiting_list, sent, heartbeat_timer, closed_calls>>

\* AsyncChannel::OnRequestTimeout: the connection stays open
AsyncTimeout(m) ==
  /\ timers' = timers \ {m}
  /\ in_progress' = in_progress \ {m}
  /\ HandleResponses(heartbeat_message, [r \in {m} \cap in_progress |-> "kTimeOut"])
  /\ UNCHANGED <<status, wire, ing_request, waiting_list, sent, heartbeat_timer, closed_calls>>

OnRequestTimeout(m) ==
  /\ m \in timers
  /\ IF keep_sequence THEN QueuedTimeout(m) ELSE AsyncTimeout(m)
  /\ UNCHANGED <<keep_sequence, posted, state, delegate, unposted, finalized, peer_closed, taken>>

\* HandleEvent of an error or of the end of the stream: CloseService(false)
PeerCloses ==
  /\ status = "CONNECTED"
  /\ peer_closed' = TRUE
  /\ CloseService
  /\ OnCodecClosed(<<>>)
  /\ UNCHANGED <<keep_sequence, posted, state, delegate, timers, unposted, finalized, taken, sent>>

\* Mutant: the client is detached before the pending requests are answered.
CloseDetachesFirst ==
  /\ posted # <<>> /\ Head(posted) = Close
  /\ posted' = Tail(posted)
  /\ delegate' = FALSE
  /\ CloseService
  /\ ing_request' = None /\ waiting_list' = <<>> /\ in_progress' = {}
  /\ heartbeat_message' = None
  /\ heartbeat_timer' = FALSE
  /\ state' = "kDisconnected"
  /\ UNCHANGED <<keep_sequence, timers, unposted, finalized, peer_closed, taken, sent, answers, closed_calls>>

\* CloseClientChannel: BeforeCloseChannel answers what is pending, then the
\* client is detached, the codec closed and OnCodecClosed finds nothing left
CloseClientChannel ==
  /\ posted # <<>> /\ Head(posted) = Close
  /\ posted' = Tail(posted)
  /\ HandleResponses(heartbeat_message, AndBroken(<<>>, Pending))
  /\ ing_request' = None /\ waiting_list' = <<>> /\ in_progress' = {}
  /\ delegate' = FALSE
  /\ CloseService
  /\ heartbeat_timer' = FALSE
  /\ state' = "kDisconnected"
  /\ UNCHANGED <<keep_sequence, timers, unposted, finalized, peer_closed, taken, sent, closed_calls>>

-----------------------------------------------------------------------------
RunTask == StartClientChannel \/ SendRequest \/ CloseClientChannel

Next ==
  \/ \E r \in Requests : PostRequest(r)
  \/ Finalize
  \/ RunTask
  \/ \E h \in Heartbeats : OnHearbeatTimerInvoke(h)
  \/ OnCodecMessage
  \/ \E m \in Messages : OnRequestTimeout(m)
  \/ PeerCloses

Spec == Init /\ [][Next]_vars

\* The loop runs what is posted to it and fires its timers; the peer may be silent.
Fairness == WF_vars(RunTask) /\ \A m \in Messages : WF_vars(OnRequestTimeout(m))

FairSpec == Spec /\ Fairness

-----------------------------------------------------------------------------
(* Properties.                                                             *)

\* A caller is resumed at most once for a request, however response, timeout,
\* failed send and close fall together.
AnsweredOnce == \A r \in Requests : Len(answers[r]) <= 1

\* A request that gets a response gets its own: no late answer of a request that
\* timed out is taken for that of the next.
OwnResponse == \A r \in Requests : \A i \in DOMAIN answers[r] : answers[r][i] \in Messages => answers[r][i] = r

\* The connection sees the requests in the order of SendRequest, also when some wait
\* and some cannot be sent.
SentInOrder ==
  \A i, j \in DOMAIN sent : \A k, l \in DOMAIN taken :
    i < j /\ sent[i] = taken[k] /\ sent[j] = taken[l] => k < l

\* A heartbeat that is not answered is in line or in flight: were it lost, the
\* test for a snowball would stop all heartbeats to come.
HeartbeatPending == heartbeat_message # None => heartbeat_message \in Pending

\* "make sure close all inprogress request": what reached the channel before the
\* client was detached has been answered.
CloseAnswersAll == [][delegate /\ ~delegate' => \A r \in Range(taken) \cap Requests : answers'[r] # <<>>]_vars

\* Every request that is posted to the channel is answered, by a response, a failed
\* send, a timeout or the end of the connection, unless CloseClientChannel runs: it
\* answers what it finds in the channel and nobody answers what is posted behind it.
RequestEnds == \A r \in Requests : r \notin unposted ~> answers[r] # <<>> \/ ~delegate

\* "only called when passive close by peer": OnClientChannelClosed
ClosedByPeerOnly == closed_calls > 0 => peer_closed

\* It is so for an AsyncChannel, which calls it once; a QueuedChannel also calls it
\* when a request has timed out, but not before.
ClosedByPeerOrTimeout ==
  closed_calls > 0 =>
    \/ peer_closed /\ closed_calls = 1
    \/ keep_sequence /\ Range(sent) \ timers # {}
=============================================================================
