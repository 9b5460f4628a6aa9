---------------------------- MODULE Connection ----------------------------
(***************************************************************************)
(* One connection of a server on its I/O loop: CodecService over a         *)
(* TcpChannel, its two IOBuffers, the FdEvent and the part of EventPump    *)
(* and IOMuxEpoll that reports it.  The codec is driven by the pump, or by *)
(* a coroutine that waits on a co::IOEvent (coso::IOService).  The loop    *)
(* runs one handler at a time, so a handler is one action; it is written   *)
(* as an operator from the connection to the connection, in the order of   *)
(* the code.  The peer and the kernel act between the handlers.            *)
(*                                                                         *)
(* Request r is the bytes 2r - 1 and 2r, and so is its response.           *)
(***************************************************************************)
EXTENDS Naturals, Sequences, Functions, IOBuffer

CONSTANTS N,                    \* requests 1..N
          SndBuf,               \* the send buffer of the socket, in bytes
          kBlockSize,           \* of tcp_channel.cc
          kDefaultInitialSize   \* of io_buffer.cc

ASSUME ConnectionAssumption ==
  /\ N \in Nat \ {0} /\ SndBuf \in Nat \ {0}
  /\ kBlockSize \in Nat \ {0} /\ kDefaultInitialSize \in Nat

VARIABLES
  codec,     \* the class of the codec: "raw", "line" or "http"
  co,        \* driven by a coroutine: as_fdev_handler_ is false
  sync,      \* the handler answers in OnCodecMessage, or later in a task
  c,         \* the connection, its socket included
  fired,     \* events of the fired list that were not invoked yet
  routine,   \* handle_connection: "start", "wait" in IOEvent::Wait, resumed with Ok ("ready") or Error ("error")
  delivered, \* bytes that the peer has read
  gone,      \* the codec is destroyed and its socket closed
  stopped    \* IOService::Stop has closed the codec

vars == <<codec, co, sync, c, fired, routine, delivered, gone, stopped>>

Requests == 1..N
Events == {"READ", "WRITE"}
Frame(r) == <<2 * r - 1, 2 * r>>
Decode(bytes) == bytes[2] \div 2
kBadRequest == <<0>>

\* What the peer, a handler and their circumstances choose: a last byte that is not
\* HTTP, a response that has an empty body or is not keep-alive, and the errno that an
\* earlier call has left behind
ResponseChoices ==
  {[empty |-> FALSE, close |-> close, bad |-> bad, errno |-> "other"] : close, bad \in BOOLEAN}
  \cup {[empty |-> TRUE, close |-> FALSE, bad |-> FALSE, errno |-> errno] : errno \in {"EAGAIN", "EINTR", "other"}}

AtMost(m, n) == IF m <= n THEN m ELSE n

\* The first n bytes of s, or all
UpTo(s, n) == SubSeq(s, 1, AtMost(Len(s), n))

Without(s, n) == SubSeq(s, n + 1, Len(s))

IsBytes(s) == s \in Seq(0..2 * N)

TypeOK ==
  /\ codec \in {"raw", "line", "http"} /\ co \in BOOLEAN /\ sync \in BOOLEAN
  /\ IsIOBuffer(c.in, 0..2 * N) /\ IsIOBuffer(c.out, 0..2 * N) /\ IsBytes(c.rcv) /\ IsBytes(c.snd)
  /\ Len(c.snd) <= SndBuf
  /\ c.event \subseteq Events /\ fired \subseteq Events
  /\ \A f \in {"watched", "armed", "nospace", "fin", "reset", "schedule_close", "flush_scheduled", "garbage", "bad", "ended", "late"} :
       c[f] \in BOOLEAN
  /\ c.status \in {"CONNECTING", "CONNECTED", "CLOSED"}
  /\ c.flush_task \in {"none", "now", "next"}
  /\ c.notified \in 0..3 /\ c.handed \in Seq(Requests) /\ c.answered \subseteq Requests
  /\ routine \in {"start", "wait", "ready", "error"}
  /\ IsBytes(delivered) /\ gone \in BOOLEAN /\ stopped \in BOOLEAN

\* The constructor of HttpCodecService leaves flush_scheduled_ uninitialized: it has
\* either value.  BindSocket has been called; StartProtocolService is posted, or called next by
\* the coroutine.
Init ==
  /\ codec \in {"raw", "line", "http"} /\ co \in BOOLEAN /\ sync \in BOOLEAN
  /\ \E flush \in IF codec = "http" THEN BOOLEAN ELSE {FALSE} :
       c = [in |-> NewBuffer(kDefaultInitialSize), out |-> NewBuffer(kDefaultInitialSize),
            event |-> {"READ"}, watched |-> FALSE,
            status |-> "CONNECTING", schedule_close |-> FALSE, flush_scheduled |-> flush,
            flush_task |-> "none",  \* flush_fn_ is posted, to run before the loop waits ("now") or after ("next")
            rcv |-> <<>>, snd |-> <<>>, fin |-> FALSE, reset |-> FALSE,
            nospace |-> FALSE,  \* SOCK_NOSPACE: a wake-up is due when there is room again
            armed |-> FALSE,    \* on the ready list of epoll
            parsed |-> <<>>,    \* bytes that the parser of HTTP has taken
            garbage |-> flush,  \* history: flush_scheduled_ was true from the start
            sent |-> 0,         \* bytes that the peer has sent
            bad |-> FALSE,      \* history: the parser has failed
            ended |-> FALSE,    \* history: the handler has closed the codec in its reply
            notified |-> 0,     \* history: calls of OnCodecClosed
            handed |-> <<>>,    \* history: requests given to the handler
            late |-> FALSE,     \* history: a request was handed after OnCodecClosed
            answered |-> {},    \* history: requests for which SendResponse was called
            written |-> <<>>]   \* history: bytes that Send or the writer's buffer took
  /\ fired = {} /\ routine = "start" /\ delivered = <<>> /\ gone = FALSE /\ stopped = FALSE

-----------------------------------------------------------------------------
(* Epoll, edge triggered, as the code uses it.                             *)

\* poll of the socket, through ToEpollEvent and ToLtEvent
Ready(k) ==
  (IF k.reset THEN Events ELSE {})
  \cup (IF k.fin \/ (k.rcv # <<>> /\ "READ" \in k.event) THEN {"READ"} ELSE {})
  \cup (IF Len(k.snd) < SndBuf /\ "WRITE" \in k.event THEN {"WRITE"} ELSE {})

\* EPOLL_CTL_ADD and EPOLL_CTL_MOD look at the socket
EpollCtl(k) == [k EXCEPT !.armed = @ \/ Ready(k) # {}, !.nospace = @ \/ Len(k.snd) = SndBuf]

\* notify_watcher
SetEvent(k, event) ==
  IF event # k.event /\ k.watched THEN EpollCtl([k EXCEPT !.event = event])
  ELSE [k EXCEPT !.event = event]
EnableWriting(k) == SetEvent(k, k.event \cup {"WRITE"})
DisableWriting(k) == SetEvent(k, k.event \ {"WRITE"})

InstallFdEvent(k) == EpollCtl([k EXCEPT !.watched = TRUE])
RemoveFdEvent(k) == [k EXCEPT !.watched = FALSE, !.armed = FALSE]

-----------------------------------------------------------------------------
(* TcpChannel.                                                             *)

\* One read() of what the buffer has room for
ReadSome(k) ==
  LET room == EnsureWritableSize(k.in, kBlockSize)
      some == UpTo(k.rcv, CanWriteSize(room))
  IN  IF k.rcv = <<>> THEN k
      ELSE [k EXCEPT !.in = Put(room, some), !.rcv = Without(@, Len(some))]

\* What n of them leave
Reads(k, n) == LET after[i \in 0..n] == IF i = 0 THEN k ELSE ReadSome(after[i - 1]) IN after

\* read() until EAGAIN, the end of the stream or an error: each takes a byte at least
HandleRead(k) ==
  LET n == Len(k.rcv)
  IN  [c |-> [Reads(k, n)[n] EXCEPT !.in = EnsureWritableSize(@, kBlockSize)],
       ok |-> ~k.fin /\ ~k.reset]

\* As much of s as write() takes before EAGAIN
Write(k, s) == LET n == SndBuf - Len(k.snd) IN
  [k EXCEPT !.snd = @ \o UpTo(s, n), !.nospace = @ \/ Len(s) > n]

\* Mutant: the rest waits for an event that is not monitored.
WritingNeverEnabled(k) == IF CanReadSize(k.out) > 0 THEN k ELSE DisableWriting(k)

\* After write(): WRITE is monitored while there is more to send.
WritingAsNeeded(k) == IF CanReadSize(k.out) > 0 THEN EnableWriting(k) ELSE DisableWriting(k)

\* The result n is what HandleWrite returns: -1 becomes ok = FALSE
HandleWrite(k) ==
  LET bytes == Content(k.out)
      n == AtMost(Len(bytes), SndBuf - Len(k.snd))
  IN  IF bytes = <<>> THEN [c |-> k, ok |-> TRUE, n |-> 0]
      ELSE IF k.reset THEN [c |-> k, ok |-> FALSE, n |-> 0]
      ELSE [c |-> WritingAsNeeded([Write(k, bytes) EXCEPT !.out = Consume(@, n)]), ok |-> TRUE, n |-> n]

\* Mutant: new data overtakes what is waiting in the buffer.
SendDirect(k, s, errno) ==
  LET n == SndBuf - Len(k.snd)
      k1 == [Write(k, s) EXCEPT !.written = @ \o s]
  IN  IF Len(s) <= n THEN [c |-> k1, ok |-> TRUE]
      ELSE [c |-> [EnableWriting(k1) EXCEPT !.out = WriteRawData(@, Without(s, n))], ok |-> TRUE]

\* Send: write() of no bytes returns 0, and the branch is taken on the errno that an
\* earlier call has left.
Send(k, s, errno) ==
  LET n == SndBuf - Len(k.snd)
      k1 == [Write(k, s) EXCEPT !.written = @ \o s]
  IN  IF CanReadSize(k.out) > 0 THEN HandleWrite([k EXCEPT !.out = WriteRawData(@, s), !.written = @ \o s])
      ELSE IF k.reset THEN [c |-> k, ok |-> FALSE]
      ELSE IF s = <<>> THEN [c |-> IF errno = "EAGAIN" THEN EnableWriting(k) ELSE k, ok |-> errno # "other"]
      ELSE IF Len(s) <= n THEN [c |-> k1, ok |-> TRUE]
      ELSE [c |-> [EnableWriting(k1) EXCEPT !.out = WriteRawData(@, Without(s, n))], ok |-> TRUE]

-----------------------------------------------------------------------------
(* CodecService and its classes.                                           *)

NotifyCodecClosed(k) == [k EXCEPT !.notified = IF @ < 3 THEN @ + 1 ELSE 3]

\* Mutant: the event stays installed.
CloseServiceWatched(k, block_callback) ==
  LET k1 == [k EXCEPT !.status = "CLOSED"]
  IN  IF block_callback THEN k1 ELSE NotifyCodecClosed(k1)

CloseService(k, block_callback) ==
  LET k1 == [(IF co THEN k ELSE RemoveFdEvent(k)) EXCEPT !.status = "CLOSED"]
  IN  IF block_callback THEN k1 ELSE NotifyCodecClosed(k1)

OnDataFinishSend(k) == IF k.schedule_close THEN CloseService(k, FALSE) ELSE k

\* Mutant: does not wait for the outgoing data.
ShouldCloseNow(k) == k.schedule_close

ShouldClose(k) == k.schedule_close /\ CanReadSize(k.out) = 0

\* w is the result of HandleWrite
AfterWrite(w) == IF w.n > 0 /\ CanReadSize(w.c.out) = 0 THEN OnDataFinishSend(w.c) ELSE w.c

TryFlushChannel(k) == AfterWrite(HandleWrite(k))

\* SendRaw for the second part of a message, when the first was sent
SendNext(s, bytes, errno) == IF s.ok THEN Send(s.c, bytes, errno) ELSE s

\* RawMessage::EncodeTo sends header and content, LineCodecService body and "\r\n";
\* HttpCodecService writes into the buffer and posts flush_fn_.  A reply of the first two is
\* longer than the send buffer of the runs.
SendResponse(k, r, ch) ==
  LET k0 == [k EXCEPT !.answered = @ \cup {r}]
      first == IF codec = "line" /\ ch.empty THEN <<>> ELSE <<2 * r - 1>>
      second == IF codec = "raw" /\ ch.empty THEN <<>> ELSE <<2 * r, 2 * r>>
  IN  IF codec # "http" THEN SendNext(Send(k0, first, ch.errno), second, ch.errno)
      ELSE [c |-> [k0 EXCEPT !.out = WriteRawData(@, Frame(r)), !.written = @ \o Frame(r),
                             !.schedule_close = @ \/ ch.close,
                             !.flush_scheduled = TRUE,
                             !.flush_task = IF k.flush_scheduled THEN @ ELSE "now"],
            ok |-> TRUE]

\* HttpRequestCtx::Response and RawRequestContext::do_response close the codec at once
\* after a failure, and after a response that is not keep-alive.  Under the coroutine a
\* handler calls SendResponse itself.
AfterResponse(s, ch) ==
  IF ~co /\ (~s.ok \/ (codec = "http" /\ ch.close))
  THEN CloseService([s.c EXCEPT !.ended = TRUE], FALSE)
  ELSE s.c

Response(k, r, ch) == AfterResponse(SendResponse(k, r, ch), ch)

\* handler_->OnCodecMessage
OnCodecMessage(k, r, ch) ==
  LET k1 == [k EXCEPT !.handed = Append(@, r), !.late = @ \/ k.notified > 0]
  IN  IF sync THEN Response(k1, r, ch) ELSE k1

\* A whole frame, or line, at the front of the buffer.  The peer sends no heartbeats, which
\* RawCodecService would answer itself, as a handler does that answers at once.
DecodeMessage(k, ch) ==
  IF CanReadSize(k.in) < 2 THEN k
  ELSE OnCodecMessage([k EXCEPT !.in = Consume(@, 2)], Decode(Content(k.in)), ch)

\* LineCodecService::OnDataReceived decodes one line and leaves the others.
LineReceived(k, ch) == DecodeMessage(k, ch)

\* What n passes of the loop of RawCodecService leave
Decodes(k, ch, n) ==
  LET after[i \in 0..n] == IF i = 0 THEN k ELSE DecodeMessage(after[i - 1], ch) IN after

\* Mutant: one message for each event.
RawReceivedOne(k, ch) == DecodeMessage(k, ch)

\* RawCodecService::OnDataReceived decodes while there is a whole frame.
RawReceived(k, ch) == LET n == CanReadSize(k.in) \div 2 IN Decodes(k, ch, n)[n]

\* A request that the parser of HTTP has complete, and what n of them leave
HttpCommit(k, ch) ==
  IF Len(k.parsed) < 2 THEN k
  ELSE OnCodecMessage([k EXCEPT !.parsed = Without(@, 2)], Decode(k.parsed), ch)
HttpCommits(k, ch, n) ==
  LET after[i \in 0..n] == IF i = 0 THEN k ELSE HttpCommit(after[i - 1], ch) IN after

Commit(k, ch) == LET n == Len(k.parsed) \div 2 IN HttpCommits(k, ch, n)[n]

\* HttpCodecService::OnDataReceived: the parser takes all, and commits what is complete
\* before an error.
HttpReceived(k, ch) ==
  LET bytes == Content(k.in)
      failed == Commit([k EXCEPT !.parsed = @ \o UpTo(bytes, Len(bytes) - 1), !.bad = TRUE], ch)
  IN  IF ch.bad
      THEN NotifyCodecClosed(CloseService(Send(failed, kBadRequest, ch.errno).c, TRUE))
      ELSE Commit([k EXCEPT !.parsed = @ \o bytes, !.in = Consume(@, Len(bytes))], ch)

OnDataReceived(k, ch) ==
  IF CanReadSize(k.in) = 0 THEN k
  ELSE IF codec = "raw" THEN RawReceived(k, ch)
  ELSE IF codec = "line" THEN LineReceived(k, ch)
  ELSE HttpReceived(k, ch)

\* Mutant: the end of the stream is no failure.
ReadAfterWriteGoesOn(w, ev) ==
  IF ~w.ok THEN [c |-> w.c, ok |-> FALSE]
  ELSE [c |-> IF "READ" \in ev THEN HandleRead(AfterWrite(w)).c ELSE AfterWrite(w), ok |-> TRUE]

ReadAfterWrite(w, ev) ==
  IF ~w.ok THEN [c |-> w.c, ok |-> FALSE]
  ELSE IF "READ" \in ev THEN HandleRead(AfterWrite(w))
  ELSE [c |-> AfterWrite(w), ok |-> TRUE]

SocketReadWrite(k, ev) ==
  ReadAfterWrite(IF "WRITE" \in ev THEN HandleWrite(k) ELSE [c |-> k, ok |-> TRUE, n |-> 0], ev)

\* No event ever carries LtEv::ERROR.
AfterReceived(k, ok) == IF ok /\ ~ShouldClose(k) THEN k ELSE CloseService(k, FALSE)

HandleEvent(k, ev, ch) ==
  LET s == SocketReadWrite(k, ev) IN AfterReceived(OnDataReceived(s.c, ch), s.ok)

-----------------------------------------------------------------------------
(* The I/O loop.                                                           *)

Unchanged == UNCHANGED <<codec, co, sync, delivered>>

\* StartProtocolService with StartChannel, or handle_connection up to its first Wait
Start ==
  /\ c.status = "CONNECTING"
  /\ c' = InstallFdEvent([c EXCEPT !.event = Events, !.status = "CONNECTED"])
  /\ routine' = IF co THEN "wait" ELSE routine
  /\ UNCHANGED <<fired, gone, stopped>> /\ Unchanged

Resumed == routine \in {"ready", "error"}

\* In-loop tasks become due after Pump: RunNestedTask
AfterPump(k) == [k EXCEPT !.flush_task = IF @ = "next" THEN "now" ELSE @]
InNextTurn(k) == [k EXCEPT !.flush_task = IF @ = "now" THEN "next" ELSE @]

\* WaitingIO: before it waits again the loop runs the tasks that were posted in Pump
\* and resumes its coroutines.
WaitingIO ==
  /\ c.armed /\ fired = {} /\ ~Resumed /\ c.flush_task # "now"
  /\ fired' = Ready(c)
  /\ c' = [AfterPump(c) EXCEPT !.armed = FALSE, !.nospace = @ \/ Len(c.snd) = SndBuf]
  /\ UNCHANGED <<routine, gone, stopped>> /\ Unchanged

\* InvokeFiredEvent of an event that an earlier handler or a timer has removed
InvokeRemoved ==
  /\ fired # {} /\ ~c.watched
  /\ fired' = {}
  /\ UNCHANGED <<c, routine, gone, stopped>> /\ Unchanged

\* InvokeFiredEvent with the codec as the handler
InvokeCodec(ch) ==
  /\ fired # {} /\ c.watched /\ ~co
  /\ c' = HandleEvent(c, fired, ch)
  /\ fired' = {}
  /\ UNCHANGED <<routine, gone, stopped>> /\ Unchanged

\* Mutant: every monitored event must have fired.
InvokeIOEventAll ==
  /\ fired # {} /\ c.watched /\ co /\ routine = "wait"
  /\ routine' = IF c.event \subseteq fired THEN "ready" ELSE "error"
  /\ UNCHANGED <<c, fired, gone, stopped>> /\ Unchanged

\* InvokeFiredEvent with IOEvent::HandleEvent, which resumes the coroutine: fired
\* keeps fdev->FiredEvent() for it
InvokeIOEvent ==
  /\ fired # {} /\ c.watched /\ co /\ routine = "wait"
  /\ routine' = IF c.event \cap fired # {} THEN "ready" ELSE "error"
  /\ UNCHANGED <<c, fired, gone, stopped>> /\ Unchanged

\* After an error the codec is closed, else it handles the event; the loop of
\* handle_connection ends when it is closed.  RunNestedTask has run the tasks before.
ResumeRoutine(ch) ==
  /\ Resumed /\ c.flush_task # "now"
  /\ \E k \in {IF routine = "error" THEN CloseService(c, TRUE) ELSE HandleEvent(c, fired, ch)} :
       /\ gone' = (k.status = "CLOSED")
       /\ c' = IF gone' THEN RemoveFdEvent(InNextTurn(k)) ELSE InNextTurn(k)
  /\ fired' = {} /\ routine' = "wait"
  /\ UNCHANGED stopped /\ Unchanged

\* A task that a handler has posted to the loop, from any thread; what it posts itself
\* waits for the next turn when it was posted on the loop
Respond(r, ch) ==
  /\ ~sync /\ ~gone /\ r \in Range(c.handed) \ c.answered
  /\ \E k \in {Response(c, r, ch)} :
       \/ c' = k
       \/ c.flush_task = "none" /\ (fired = {} \/ Resumed) /\ c' = InNextTurn(k)
  /\ UNCHANGED <<fired, routine, gone, stopped>> /\ Unchanged

\* flush_fn_, posted on the loop: RunNestedTask calls it after Pump
Flush ==
  /\ ~gone
  /\ \/ c.flush_task = "now" /\ (fired = {} \/ Resumed)
     \/ c.flush_task = "next" /\ fired = {} \* Pump has waited for other events
  /\ c' = [TryFlushChannel([c EXCEPT !.flush_task = "none"]) EXCEPT !.flush_scheduled = FALSE]
  /\ UNCHANGED <<fired, routine, gone, stopped>> /\ Unchanged

\* IOService::Stop: CloseService(true) between any handlers
Stop ==
  /\ ~co /\ ~stopped /\ ~gone /\ c.status # "CONNECTING"
  /\ stopped' = TRUE
  /\ c' = CloseService(c, TRUE)
  /\ UNCHANGED <<fired, routine, gone>> /\ Unchanged

\* IOService drops the codec, on the loop of the acceptor
Release ==
  /\ ~co /\ ~gone /\ (c.notified > 0 \/ stopped)
  /\ gone' = TRUE
  /\ UNCHANGED <<c, fired, routine, stopped>> /\ Unchanged

-----------------------------------------------------------------------------
(* The peer and the network.  Once the codec is gone the peer only reads.  *)

\* A wake-up of epoll for some events; ends and errors are always reported
Wake(k, events) == [k EXCEPT !.armed = @ \/ (k.watched /\ (events \cap k.event # {} \/ k.fin \/ k.reset))]

PeerSends ==
  /\ ~gone /\ ~c.fin /\ ~c.reset /\ c.sent < 2 * N
  /\ c' = Wake([c EXCEPT !.rcv = Append(@, c.sent + 1), !.sent = @ + 1], {"READ"})
  /\ UNCHANGED <<fired, routine, gone, stopped>> /\ Unchanged

PeerReads ==
  /\ ~c.reset /\ c.snd # <<>>
  /\ delivered' = Append(delivered, Head(c.snd))
  /\ LET k == [c EXCEPT !.snd = Tail(@), !.nospace = FALSE]
     IN  c' = IF c.nospace THEN Wake(k, {"WRITE"}) ELSE k
  /\ UNCHANGED <<codec, co, sync, fired, routine, gone, stopped>>

PeerCloses ==
  /\ ~gone /\ ~c.fin /\ ~c.reset
  /\ c' = Wake([c EXCEPT !.fin = TRUE], {})
  /\ UNCHANGED <<fired, routine, gone, stopped>> /\ Unchanged

\* A reset: what is in the buffers of the socket is lost.
PeerResets ==
  /\ ~gone /\ ~c.reset
  /\ c' = Wake([c EXCEPT !.reset = TRUE, !.rcv = <<>>, !.snd = <<>>], {})
  /\ UNCHANGED <<fired, routine, gone, stopped>> /\ Unchanged

-----------------------------------------------------------------------------
Loop ==
  \/ Start \/ WaitingIO \/ InvokeRemoved \/ InvokeIOEvent \/ Flush
  \/ \E ch \in ResponseChoices : InvokeCodec(ch) \/ ResumeRoutine(ch) \/ \E r \in Requests : Respond(r, ch)

Next == Loop \/ Stop \/ Release \/ PeerSends \/ PeerReads \/ PeerCloses \/ PeerResets

Spec == Init /\ [][Next]_vars

\* The guards of Loop, whose steps all change the state
LoopCanStep ==
  \/ c.status = "CONNECTING" \/ fired # {}
  \/ c.armed /\ ~Resumed
  \/ ~gone /\ (c.flush_task # "none" \/ (~sync /\ Range(c.handed) \ c.answered # {}))

\* The loop goes on, and the peer reads what it is sent.  The first conjunct is
\* WF_vars(Loop) with ENABLED <<Loop>>_vars written out.
FairSpec == Spec /\ ([]<>~LoopCanStep \/ []<><<Loop>>_vars) /\ WF_vars(PeerReads)

-----------------------------------------------------------------------------
(* Properties.                                                             *)

\* Between the handler and the peer no byte is lost, doubled or overtaken, whatever
\* write() takes and whichever of Send, HandleWrite and flush_fn_ writes.
StreamInOrder == ~c.reset => delivered \o c.snd \o Content(c.out) = c.written

\* Requests reach the handler in order and once, however the stream was cut.
RequestsInOrder == \A i \in DOMAIN c.handed : c.handed[i] = i

\* The codec leaves CONNECTED with bytes in the outgoing buffer, and neither the peer
\* nor IOService::Stop has ended the connection.
Truncates ==
  /\ c.status = "CONNECTED" /\ c'.status = "CLOSED" /\ ~c.fin /\ ~c.reset /\ ~stopped'
  /\ CanReadSize(c'.out) > 0

\* "this connection will be closed after completion of the response": a response that
\* is not keep-alive is written before the codec closes the connection.
ClosesAfterResponse == [][Truncates => ~c'.schedule_close \/ c'.late \/ c'.bad]_vars

\* No other response is cut: a bad request and a spurious error of Wait apart, the codec
\* closes with bytes left only where Response closes behind SendResponse.  A close that
\* SendResponse has scheduled waits for the last byte.
OnlyReplyTruncates == [][Truncates => c'.ended \/ c'.late \/ c'.bad \/ routine = "error"]_vars

\* Wait reports an error only when a task has sent, since epoll_wait, the data that the
\* event was for: HandleWrite has then taken WRITE out of MonitorEvents.
ErrorIsStaleWrite == routine = "error" => fired = {"WRITE"} /\ ~sync

\* The delegate hears of the end once, unless a reply, a scheduled close or a bad
\* request closes the codec inside of HandleEvent.
NotifiedOnce == c.notified <= 1 \/ c.ended \/ c.schedule_close \/ c.bad

\* No request is handed over after OnCodecClosed, with the same exceptions.
NoneAfterClosed == c.late => c.ended \/ c.schedule_close

\* flush_fn_ holds a raw pointer to the codec: a task outlives the codec only when the
\* connection has ended under the response, or was closed with it.
FlushOutlivesEnded ==
  c.flush_task # "none" /\ gone => c.fin \/ c.reset \/ c.bad \/ c.ended \/ c.schedule_close \/ stopped

\* What is in the outgoing buffer goes out, with edge-triggered events and a peer that
\* reads: no wake-up for writing is lost.  A flush_scheduled_ that starts as true is
\* excepted: no flush is ever posted.
OutDrains ==
  CanReadSize(c.out) > 0 ~> CanReadSize(c.out) = 0 \/ c.status = "CLOSED" \/ c.reset \/ c.garbage

\* A request that has arrived is handed over: no wake-up for reading is lost.
\* LineCodecService takes one line for each event and is excepted.
RequestIsHandled ==
  \A r \in Requests :
    c.sent >= 2 * r /\ c.status = "CONNECTED" ~> r \in Range(c.handed) \/ c.status = "CLOSED" \/ codec = "line"

\* A connection that its peer has left is closed, and a coroutine that served it ends.
EndCloses == c.fin \/ c.reset ~> c.status = "CLOSED" /\ (co => gone)

\* A close that was scheduled takes place, with the same exception.
ScheduledCloses == c.schedule_close ~> c.status = "CLOSED" \/ c.garbage
=============================================================================
