---------------------------- MODULE SocketStream ----------------------------
(***************************************************************************)
(* A connected stream: the socket (net/TCPSocket.cpp, with TLS             *)
(* net/SecureSocket.cpp), whose buffers the multiplexer's thread fills and *)
(* empties, and the packets the event loop reads from it and writes to it  *)
(* (deskflow/PacketStreamFilter.cpp).  Bytes are counted in units: a       *)
(* packet is two, its length and its payload.  An action of either thread  *)
(* is what it does under the socket's mutex.  The handler above reads the  *)
(* packets there are, and closes on the first event that ends the stream.  *)
(***************************************************************************)
EXTENDS Integers, Sequences

CONSTANTS
  MaxIn,     \* bound on the units the peer sends
  MaxOut,    \* bound on the units written
  MaxInput,  \* s_maxInputBufferSize
  Record     \* units in a TLS record

ASSUME StreamAssumption ==
  /\ MaxIn \in Nat /\ MaxOut \in Nat /\ MaxInput \in Nat /\ Record \in Nat \ {0}

VARIABLES
  secure,    \* a SecureSocket
  side,      \* "client" or "server", whose handlers differ
  sent,      \* units the peer has sent
  peer,      \* "open", "closed" in order, or "reset"
  stalled,   \* the peer does not read: there is no room to send
  taken,     \* units out of the kernel's buffer
  decoded,   \* of them, those OpenSSL still holds
  inBuf,     \* units in m_inputBuffer
  open,      \* [connected, readable, writable]: m_connected, ...
  fatal,     \* m_fatal
  outBuf,    \* m_outputBuffer: the numbers of the units
  written,   \* units written so far
  flushed,   \* m_flushed
  retry,     \* what m_writeStaticBuffer must send again
  accepted,  \* the units the kernel has taken to send
  job,       \* [read, write], or NoJob
  made,      \* the job newJob() has made for addSocket()
  queue,     \* events of the socket and of the filter
  main,      \* the event loop: "idle", "reading", "setJob", "addSocket", "flush"
  flushing,  \* the write under way is ClientProxy::close()
  filter,    \* [ready, size, buffer, shut]: the packet filter
  handled,   \* packets handled
  over,      \* the event that ended the stream, or "no"
  overfull   \* history: OpenSSL has kept data back

io == <<taken, decoded, inBuf, overfull>>
output == <<outBuf, written, flushed, retry, accepted>>
reader == <<filter, handled>>
around == <<secure, side, stalled, made>>
streamVars == <<around, sent, peer, io, open, fatal, output, job, queue, main, flushing, reader, over>>

NoJob == [read |-> FALSE, write |-> FALSE]

InitStream ==
  /\ secure \in BOOLEAN /\ side \in {"client", "server"}
  /\ sent = 0 /\ peer = "open" /\ stalled = FALSE /\ made = NoJob
  /\ taken = 0 /\ decoded = 0 /\ inBuf = 0 /\ overfull = FALSE
  /\ open = [connected |-> TRUE, readable |-> TRUE, writable |-> TRUE] /\ fatal = FALSE
  /\ outBuf = <<>> /\ written = 0 /\ flushed = TRUE /\ retry = <<>> /\ accepted = <<>>
  /\ job = [read |-> TRUE, write |-> FALSE]
  /\ queue = <<>> /\ main = "idle" /\ flushing = FALSE
  /\ filter = [was |-> FALSE, size |-> FALSE, buffer |-> 0, shut |-> FALSE]
  /\ handled = 0 /\ over = "no"

-----------------------------------------------------------------------------
(* The peer and the network.                                                 *)
PeerSends ==
  /\ peer = "open" /\ sent < MaxIn /\ sent' = sent + 1
  /\ UNCHANGED <<around, peer, io, open, fatal, output, job, queue, main, flushing, reader, over>>

\* With data of ours unread, a peer that closes resets the connection.
PeerEnds ==
  /\ peer = "open" /\ peer' \in {"closed", "reset"} /\ (stalled => peer' = "reset")
  /\ stalled' = FALSE
  /\ UNCHANGED <<secure, side, made, sent, io, open, fatal, output, job, queue, main, flushing, reader, over>>

\* The peer stops reading, and reads again.
PeerStalls ==
  /\ peer = "open" /\ stalled' = ~stalled
  /\ UNCHANGED <<secure, side, made, sent, peer, io, open, fatal, output, job, queue, main, flushing,
                 reader, over>>

\* What a closed peer is sent, it answers with a reset.
PeerResets ==
  /\ peer = "closed" /\ accepted # <<>> /\ peer' = "reset"
  /\ UNCHANGED <<around, sent, io, open, fatal, output, job, queue, main, flushing, reader, over>>

-----------------------------------------------------------------------------
(* The socket, under its mutex.  A step of the service thread goes through   *)
(* states [inBuf, open, outBuf, ...] with the events it sends and its result.*)

\* TCPSocket::newJob(), and SecureSocket::newJob() after the handshake.
NewJob(o, out) ==
  IF ~o.connected THEN NoJob
  ELSE [read |-> o.readable, write |-> o.writable /\ out # <<>>]

AsItIs == [open |-> open, in |-> inBuf, taken |-> taken, decoded |-> decoded, fatal |-> fatal,
           out |-> outBuf, flushed |-> flushed, retry |-> retry, accepted |-> accepted,
           sends |-> <<>>, result |-> "retry", full |-> FALSE]
Sends(s, events) == [s EXCEPT !.sends = @ \o events]

\* Mutant: who waits for the buffer to be sent is not told.
OutputShutSilent(s) == [s EXCEPT !.out = <<>>, !.open.writable = FALSE]

\* onInputShutdown() and onOutputShutdown().
InputShut(s) == [s EXCEPT !.in = 0, !.open.readable = FALSE]
OutputShut(s) == [s EXCEPT !.out = <<>>, !.open.writable = FALSE, !.flushed = TRUE]

\* onDisconnected().
Disconnected(s) == [OutputShut(InputShut(s)) EXCEPT !.open.connected = FALSE]

\* SecureSocket::checkResult() with an error, disconnect().
Fatal(s) ==
  Sends([s EXCEPT !.fatal = TRUE, !.result = "break"], <<"disconnected", "inputShutdown">>)

\* discardWrittenData().
Discard(s, n) ==
  LET rest == SubSeq(s.out, n + 1, Len(s.out)) IN
  IF rest = <<>> THEN Sends([s EXCEPT !.out = rest, !.flushed = TRUE], <<"flushed">>)
                 ELSE [s EXCEPT !.out = rest]

\* The kernel takes the units us.
KernelTakes(s, us) == [s EXCEPT !.accepted = @ \o us, !.result = "new"]

\* SecureSocket::doWrite(): what it hands to SSL_write(), the same after a retry.
ToWrite(s) == IF s.retry # <<>> THEN s.retry ELSE s.out

\* Mutant: the write is still to be repeated.
NotTaken(s) == s

\* m_writeRetry = false.
Taken(s) == [s EXCEPT !.retry = <<>>]

\* m_writeRetry = true.
Repeated(s, us) == [s EXCEPT !.retry = us, !.result = "new"]

\* Bound: with room to send, a write is repeated once.
SecureDoWrite(s) ==
  LET us == ToWrite(s) IN
  IF us = <<>> THEN {s}
  ELSE IF peer = "reset" \/ s.fatal THEN {Fatal(s)}
  ELSE IF stalled THEN {Repeated(s, us)}
  ELSE {Discard(KernelTakes(Taken(s), us), Len(us))}
         \cup {t \in {Repeated(s, us)} : s.retry = <<>>}

\* TCPSocket::doWrite() and what serviceConnected() does of its exceptions.
PlainDoWrite(s) ==
  IF s.out = <<>> THEN {s}
  ELSE IF peer = "reset"
  THEN {[Sends(OutputShut(s), <<"outputShutdown">>
           \o IF ~s.open.readable /\ s.in = 0 THEN <<"disconnected">> ELSE <<>>)
           EXCEPT !.result = "new", !.open.connected = s.open.readable \/ s.in # 0],
         [Sends(Disconnected(s), <<"disconnected">>) EXCEPT !.result = "new"],
         [Sends(Disconnected(s), <<"outputError", "disconnected">>) EXCEPT !.result = "new"]}
  ELSE IF stalled THEN {s}
  ELSE {Discard(KernelTakes(s, SubSeq(s.out, 1, n)), n) : n \in 1..Len(s.out)}

Arrived(s) == sent - s.taken

\* The loop that slurps: one read, and more until the buffer is over its limit
\* or nothing is left.  Bound: a read takes a unit.
\* OpenSSL takes whole records, and keeps what is left of the last one.
Slurped(s) ==
  LET there == s.decoded + Arrived(s)
      least == IF s.in > MaxInput THEN 1 ELSE MaxInput + 1 - s.in
      n == IF there > least THEN least ELSE there
      fetched == IF n <= s.decoded THEN 0
                 ELSE LET m == ((n - s.decoded + Record - 1) \div Record) * Record IN
                      IF m > Arrived(s) THEN Arrived(s) ELSE m IN
  IF secure
  THEN [s EXCEPT !.in = @ + n, !.taken = @ + fetched, !.decoded = @ + fetched - n,
                 !.full = n < there /\ n < s.decoded + fetched]
  ELSE [s EXCEPT !.in = @ + n, !.taken = @ + n]
Drained(s) == s.decoded + Arrived(s) = 0

\* Mutant: the event comes when the buffer held something.
NotifiedLate(s, t) == IF s.in > 0 THEN Sends(t, <<"inputReady">>) ELSE t

\* "send input ready if input buffer was empty".
Notified(s, t) == IF s.in = 0 THEN Sends(t, <<"inputReady">>) ELSE t

\* Mutant: the end discards what has been read.
HungUpFlushing(s) ==
  [Sends(InputShut(s), <<"inputShutdown">>) EXCEPT !.result = "new"]

\* The remote write end hung up.
HungUp(s) ==
  LET dead == ~s.open.writable /\ s.in = 0 IN
  [Sends(s, <<"inputShutdown">> \o IF dead THEN <<"disconnected">> ELSE <<>>)
     EXCEPT !.open.readable = FALSE, !.open.connected = @ /\ ~dead, !.result = "new"]

\* TCPSocket::doRead() and serviceConnected()'s exceptions: a reset discards
\* what has arrived.
PlainDoRead(s) ==
  CASE peer = "reset" -> [Sends(Disconnected(s), <<"disconnected">>) EXCEPT !.result = "new"]
    [] peer # "reset" /\ Arrived(s) > 0 -> Notified(s, Slurped(s))
    [] peer = "closed" /\ Arrived(s) = 0 -> HungUp(s)
    [] peer = "open" /\ Arrived(s) = 0 -> s

\* SecureSocket::doRead(): the end of the stream is an error to checkResult().
SecureDoRead(s) ==
  LET t == Slurped(s) IN
  IF peer = "reset" \/ s.fatal THEN Fatal(s)
  ELSE IF s.decoded + Arrived(s) = 0
  THEN IF peer = "closed" THEN Fatal(s) ELSE [s EXCEPT !.result = "new"]
  ELSE IF peer = "closed" /\ Drained(t) /\ t.in <= MaxInput THEN Fatal(t)
  ELSE Notified(s, t)

\* serviceConnected(): the events poll reported, writing first.
Polled ==
  [read : {job.read /\ (Arrived(AsItIs) > 0 \/ peer # "open")},
   write : {job.write, job.write /\ ~stalled}]
ServiceConnected(p) ==
  LET wrote == IF ~p.write THEN {AsItIs}
               ELSE IF secure THEN SecureDoWrite(AsItIs) ELSE PlainDoWrite(AsItIs)
      read(s) == IF ~(p.read /\ s.open.readable) THEN s
                 ELSE LET t == IF secure THEN SecureDoRead([s EXCEPT !.result = "retry"])
                               ELSE PlainDoRead([s EXCEPT !.result = "retry"]) IN
                      CASE "break" \in {s.result, t.result} -> [t EXCEPT !.result = "break"]
                        [] "break" \notin {s.result, t.result} /\ "new" \in {s.result, t.result}
                             -> [t EXCEPT !.result = "new"]
                        [] {s.result, t.result} = {"retry"} -> t
  IN {read(s) : s \in wrote}

\* Poll reports an error of the connection.
ServiceError == [Sends(Disconnected(AsItIs), <<"disconnected">>) EXCEPT !.result = "new"]

Become(s) ==
  /\ open' = s.open /\ fatal' = s.fatal
  /\ inBuf' = s.in /\ taken' = s.taken /\ decoded' = s.decoded /\ overfull' = (overfull \/ s.full)
  /\ outBuf' = s.out /\ flushed' = s.flushed /\ retry' = s.retry /\ accepted' = s.accepted
  /\ queue' = queue \o s.sends
  /\ job' = CASE s.result = "break" -> NoJob
              [] s.result = "new" -> NewJob(s.open, s.out)
              [] s.result = "retry" -> job

ServiceSocket ==
  /\ job # NoJob /\ over = "no"
  /\ \E p \in Polled :
       /\ p.read \/ p.write
       /\ \E s \in ServiceConnected(p) \cup {t \in {ServiceError} : peer = "reset"} : Become(s)
  /\ UNCHANGED <<around, sent, peer, written, main, flushing, reader, over>>

-----------------------------------------------------------------------------
(* The event loop.                                                           *)

\* Bound: MaxOut units, and one failed write at a time.
MayWrite ==
  IF open.writable THEN written < MaxOut
                   ELSE \A k \in 1..Len(queue) : queue[k] # "outputError"

\* Whether it is the last message of ClientProxy::close(), which is flushed.
Closes == {FALSE, side = "server"}

\* TCPSocket::write(), the first part.
Write ==
  /\ main = "idle" /\ over = "no" /\ MayWrite
  /\ flushing' \in Closes
  /\ IF open.writable
     THEN /\ outBuf' = Append(outBuf, written + 1) /\ written' = written + 1
          /\ flushed' = FALSE
          /\ main' = IF outBuf = <<>> THEN "setJob" ELSE IF flushing' THEN "flush" ELSE "idle"
          /\ UNCHANGED queue
     ELSE /\ queue' = Append(queue, "outputError")
          /\ main' = IF flushing' THEN "flush" ELSE "idle"
          /\ UNCHANGED <<outBuf, written, flushed>>
  /\ UNCHANGED <<around, sent, peer, io, open, fatal, retry, accepted, job, reader, over>>

\* Mutant: who writes relies on the job there is.
JobAfterWrite == job

\* newJob(), called without the lock.
JobAfter == NewJob(open, outBuf)
MakeJob ==
  /\ main = "setJob" /\ made' = JobAfter /\ main' = "addSocket"
  /\ UNCHANGED <<secure, side, stalled, sent, peer, io, open, fatal, output, job, queue, flushing,
                 reader, over>>

\* setJob(): addSocket() waits for the service thread, or removeSocket().
SetJobAfter ==
  /\ main = "addSocket" /\ job' = made
  /\ main' = IF flushing THEN "flush" ELSE "idle"
  /\ UNCHANGED <<around, sent, peer, io, open, fatal, output, queue, flushing, reader, over>>

\* TCPSocket::flush() returns.
Flush ==
  /\ main = "flush" /\ flushed /\ main' = "idle"
  /\ UNCHANGED <<around, sent, peer, io, open, fatal, output, job, queue, flushing, reader, over>>

Ready(f) == f.size /\ f.buffer > 0

\* PacketStreamFilter::readPacketSize().
ReadPacketSize(f) ==
  IF ~f.size /\ f.buffer > 0 THEN [f EXCEPT !.size = TRUE, !.buffer = @ - 1] ELSE f

\* The handler reads every packet there is, PacketStreamFilter::read().
Drain(f) ==
  LET units == f.buffer + IF f.size THEN 1 ELSE 0
      rest == [f EXCEPT !.size = units % 2 = 1, !.buffer = 0]
  IN [filter |-> rest, packets |-> units \div 2,
      shuts |-> IF f.shut /\ ~rest.size THEN <<"filterShutdown">> ELSE <<>>]

\* filterEvent(StreamInputReady), readMore() begins.
ReadMore ==
  /\ main = "idle" /\ over = "no" /\ queue # <<>> /\ Head(queue) = "inputReady"
  /\ main' = "reading" /\ queue' = Tail(queue)
  /\ filter' = [filter EXCEPT !.was = Ready(filter)]
  /\ UNCHANGED <<around, sent, peer, io, open, fatal, output, job, flushing, handled, over>>

\* One TCPSocket::read() of it, until nothing is left.
ReadSocket ==
  /\ main = "reading" /\ inBuf > 0
  /\ inBuf' = 0
  /\ filter' = ReadPacketSize([filter EXCEPT !.buffer = @ + inBuf])
  /\ IF ~open.readable /\ ~open.writable
     THEN queue' = Append(queue, "disconnected") /\ open' = [open EXCEPT !.connected = FALSE]
     ELSE UNCHANGED <<queue, open>>
  /\ UNCHANGED <<around, sent, peer, taken, decoded, overfull, fatal, output, job, main,
                 flushing, handled, over>>

\* readMore() ends; the handler is told when a packet has become complete.
ReadDone ==
  /\ main = "reading" /\ inBuf = 0 /\ main' = "idle"
  /\ IF Ready(filter) # filter.was
     THEN LET d == Drain(filter) IN
          filter' = d.filter /\ handled' = handled + d.packets /\ queue' = queue \o d.shuts
     ELSE UNCHANGED <<reader, queue>>
  /\ UNCHANGED <<around, sent, peer, io, open, fatal, output, job, flushing, over>>

\* Mutant: a failed write is not handled.
HeardByBothLess == {"outputShutdown", "filterShutdown"}

\* The events that ClientProxyUnknown, ClientProxy1_0 and Client handle.
HeardByBoth == {"outputError", "outputShutdown", "filterShutdown"}

\* Client also handles the one of the socket.
Heard == HeardByBoth \cup IF side = "client" THEN {"disconnected"} ELSE {}

\* The handler closes the stream.
Ends(why) ==
  /\ over' = why /\ job' = NoJob
  /\ UNCHANGED <<around, sent, peer, io, open, fatal, output, main, flushing, handled>>

\* filterEvent(StreamInputShutdown).
FilterShutdown ==
  /\ main = "idle" /\ over = "no" /\ queue # <<>> /\ Head(queue) = "inputShutdown"
  /\ queue' = Tail(queue)
  /\ IF Ready(filter)
     THEN /\ filter' = [filter EXCEPT !.shut = TRUE]
          /\ UNCHANGED <<around, sent, peer, io, open, fatal, output, job, main, flushing, handled, over>>
     ELSE /\ filter' = [filter EXCEPT !.shut = TRUE, !.size = FALSE]
          /\ Ends("inputShutdown")

\* Every other event passes the filter.
PassEvent ==
  /\ main = "idle" /\ over = "no" /\ queue # <<>>
  /\ Head(queue) \notin {"inputReady", "inputShutdown"}
  /\ queue' = Tail(queue)
  /\ IF Head(queue) \notin Heard
     THEN UNCHANGED <<around, sent, peer, io, open, fatal, output, job, main, flushing, reader, over>>
     ELSE Ends(Head(queue)) /\ UNCHANGED filter

-----------------------------------------------------------------------------
NextStream ==
  \/ PeerSends \/ PeerEnds \/ PeerStalls \/ PeerResets \/ ServiceSocket
  \/ Write \/ MakeJob \/ SetJobAfter \/ Flush \/ ReadMore \/ ReadSocket \/ ReadDone \/ FilterShutdown \/ PassEvent

(* Threads run and messages arrive; keep-alives are written while the stream *)
(* lives, which a socket that cannot be written answers with an error.       *)
Fairness ==
  /\ WF_streamVars(ServiceSocket) /\ WF_streamVars(Flush)
  /\ WF_streamVars(MakeJob) /\ WF_streamVars(SetJobAfter)
  /\ WF_streamVars(ReadMore) /\ WF_streamVars(ReadSocket) /\ WF_streamVars(ReadDone)
  /\ WF_streamVars(FilterShutdown) /\ WF_streamVars(PassEvent)
  /\ WF_streamVars(~open.writable /\ Write)
StreamSpec == InitStream /\ [][NextStream]_streamVars
FairStreamSpec == StreamSpec /\ Fairness

-----------------------------------------------------------------------------
StreamTypeOK ==
  /\ sent \in 0..MaxIn /\ taken \in 0..sent /\ decoded \in 0..Record
  /\ inBuf \in 0..taken - decoded
  /\ open \in [connected : BOOLEAN, readable : BOOLEAN, writable : BOOLEAN]
  /\ Len(outBuf) + Len(accepted) <= written
  /\ (flushed => outBuf = <<>>) /\ (retry # <<>> /\ open.writable => outBuf # <<>>)
  /\ main \in {"idle", "reading", "setJob", "addSocket", "flush"}

(* What has arrived is never left waiting: a packet that is complete has been *)
(* handled when the event loop goes on, and bytes in the socket's buffer have *)
(* their event, unless the TLS session has failed (doRead(), readMore()).     *)
Announced ==
  main = "idle" /\ over = "no" =>
    /\ ~Ready(filter)
    /\ inBuf > 0 => fatal \/ \E k \in 1..Len(queue) : queue[k] = "inputReady"

(* A peer that closes in order without TLS has every packet it sent handled   *)
(* before the stream is closed: "our input side has therefore shutdown but    *)
(* don't flush our buffer since there's still data to be read."               *)
(* (TCPSocket.cpp:329).                                                       *)
AllHandled ==
  over = "inputShutdown" /\ peer = "closed" /\ ~secure => handled = sent \div 2

(* Both: no byte waits for an event that does not come, or is lost at the end. *)
InputHandled == Announced /\ AllHandled

(* The same with TLS.                                                         *)
AllHandledSecure ==
  over = "inputShutdown" /\ peer = "closed" => handled = sent \div 2

(* What is written is sent in order, nothing twice, also when a write is      *)
(* repeated while more is buffered (SecureSocket::doWrite()).                 *)
SentInOrder == accepted = [k \in 1..Len(accepted) |-> k]

\* The event loop waits for a buffer that nothing empties any more.
Hung == main = "flush" /\ fatal

\* The peer may stop reading and begin again, but in the end it reads.
PeerReads == <>[]~stalled

(* Every packet sent is handled or the stream is closed, unless OpenSSL keeps *)
(* back what poll does not see, or the peer reads no more and the event loop  *)
(* may wait for it in flush().                                                *)
Delivered ==
  PeerReads =>
    \A n \in 1..(MaxIn \div 2) : sent >= 2 * n ~> handled >= n \/ over # "no" \/ overfull \/ Hung

(* The same when OpenSSL does.                                                *)
DeliveredAlways ==
  PeerReads =>
    \A n \in 1..(MaxIn \div 2) : sent >= 2 * n ~> handled >= n \/ over # "no" \/ Hung

(* Writing a last message does not hold the event loop for ever, if the peer  *)
(* reads and the TLS session does not fail (ClientProxy::close()).            *)
FlushEnds == PeerReads => (main = "flush" ~> main # "flush" \/ fatal)

(* The end of a connection is noticed.                                        *)
NoticesEnd == peer # "open" ~> over # "no" \/ Hung

(* While the peer reads and the TLS session lives, flush() returns; and the   *)
(* end of a connection is noticed, also one that comes while the peer does    *)
(* not read and flush() waits.                                                *)
NothingHangs == FlushEnds /\ NoticesEnd

(* "force the close to be sent before we return" (ClientProxy.cpp:33): flush()*)
(* returns, whatever the peer does.                                           *)
FlushReturns == main = "flush" ~> main # "flush"
=============================================================================
