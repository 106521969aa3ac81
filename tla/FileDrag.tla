------------------------------ MODULE FileDrag ------------------------------
(***************************************************************************)
(* Files dragged from one screen to another: the threads that read them    *)
(* (engine/src/src/lib/deskflow/StreamChunker.cpp), the event queue that   *)
(* carries their chunks to the stream, and the receiver that writes them   *)
(* (deskflow/FileReceiver.cpp), a client (client/Client.cpp) that one      *)
(* server drags to or the server (server/Server.cpp) that its clients drag *)
(* to.  A job <<d, i>> is the i-th file of the d-th drag and stands for    *)
(* its name; a chunk <<job, k>> is the start of its transfer (k = 0), its  *)
(* k-th piece, or its end.  A connection delivers in order and at once     *)
(* until it is cut; what it still held is lost as if it had been cut       *)
(* before that was sent.                                                   *)
(***************************************************************************)
EXTENDS Integers, Sequences, FiniteSets

CONSTANTS
  Dragger,     \* the screens that drag to the receiver
  MaxDrags,    \* bound on the drags
  MaxFiles,    \* bound on the files of one
  MaxThreads,  \* bound on the files that are being read
  MaxSize,     \* bound on the pieces of a file
  Window,      \* g_fileFlowWindow
  MaxFailures, \* bound on failures and lost connections
  Nameless     \* "deskbridge-drop.bin"

ASSUME DragAssumption ==
  /\ {MaxDrags, MaxFiles, MaxThreads, MaxSize, MaxFailures} \subseteq Nat
  /\ Window \in Nat \ {0}

Job == (1..MaxDrags) \X (1..MaxFiles)

ASSUME NamelessAssumption == Nameless \notin Job

VARIABLES
  side,      \* "client" or "server": the receiver
  drags,     \* the drags begun: [by, target, sizes]
  sent,      \* chunks each thread has queued
  over,      \* the threads that have returned
  flow,      \* the permits left in the token of each
  queue,     \* the FileChunkSending events of each peer
  proxy,     \* address of the object chunks of each peer are for, 0: none
  cut,       \* the peers whose connection is lost
  failures,  \* failures so far
  box,       \* the FileReceiver: [files, index, active, expected, name, temp]
  disk,      \* the files written: [name, pieces]
  expected,  \* m_dragExpected
  landed,    \* m_dragReceived, as places in disk
  shown,     \* the synthetic drags: sequences of places in disk
  crowded    \* history: drags that met another one, or a lost connection

transfer == <<sent, over, flow>>
receiving == <<box, disk, expected, landed, shown>>
connection == <<proxy, cut>>
dragVars == <<side, drags, transfer, queue, connection, failures, receiving, crowded>>

Sizes(d) == drags[d].sizes
Jobs == {j \in Job : j[1] <= Len(drags) /\ j[2] <= Len(Sizes(j[1]))}
Size(j) == Sizes(j[1])[j[2]]
Running == Jobs \ over

\* The pieces of a file, as its receiver should write them.
Pieces(j) == [k \in 1..Size(j) |-> <<j, k>>]

NoTemp == <<>>
Fresh == [files |-> <<>>, index |-> 1, active |-> FALSE, expected |-> 0,
          name |-> Nameless, temp |-> NoTemp]

InitDrag ==
  /\ side \in {"client", "server"}
  /\ drags = <<>>
  /\ sent = [j \in Job |-> 0] /\ over = {} /\ flow = [j \in Job |-> Window]
  /\ queue = [p \in Dragger |-> <<>>]
  /\ proxy = [p \in Dragger |-> 1] /\ cut = {}
  /\ failures = 0
  /\ box = Fresh /\ disk = <<>>
  /\ expected = 0 /\ landed = <<>> /\ shown = <<>>
  /\ crowded = {}

-----------------------------------------------------------------------------
\* The drags of which something is still to be sent.
UnderWay ==
  {j[1] : j \in Running} \cup UNION {{queue[p][k][1][1] : k \in 1..Len(queue[p])} : p \in Dragger}

\* The drags that have left something in the receiver.
Left ==
  {box.files[i][1] : i \in box.index..Len(box.files)}
    \cup {j[1] : j \in {i \in Jobs : box.active /\ box.name = i}}

-----------------------------------------------------------------------------
(* Receiving.                                                                *)
Received == Len(box.temp)

\* Mutant: what was written of the last file stays.
ResetLess(b) == [b EXCEPT !.active = FALSE, !.expected = 0, !.name = Nameless]

\* FileReceiver::reset().
Reset(b) == [b EXCEPT !.active = FALSE, !.expected = 0, !.name = Nameless, !.temp = NoTemp]

\* FileReceiver::nextFinalName().
NextFinalName == IF box.index <= Len(box.files) THEN box.files[box.index] ELSE Nameless

\* Mutant: the place in the list is kept.
SetDragFilesOn(files) == box' = [box EXCEPT !.files = files]

\* FileReceiver::setDragFiles().
SetDragFiles(files) == box' = [box EXCEPT !.files = files, !.index = 1]

\* Mutant: the files of an earlier drag still count.
DragInfoReceivedOn(d, count) ==
  /\ SetDragFiles([i \in 1..count |-> <<d, i>>])
  /\ IF side = "client" THEN expected' = expected + count ELSE UNCHANGED expected
  /\ UNCHANGED <<disk, shown, landed>>

\* Client::dragInfoReceived() and Server::dragInfoReceived().
DragInfoReceived(d, count) ==
  /\ SetDragFiles([i \in 1..count |-> <<d, i>>])
  /\ IF side = "client" THEN expected' = count /\ landed' = <<>>
                            ELSE UNCHANGED <<expected, landed>>
  /\ UNCHANGED <<disk, shown>>

Failure == failures < MaxFailures /\ failures' = failures + 1
Ignored == UNCHANGED <<disk, expected, landed, shown>>

\* onChunk(DataStart); the temporary file may not open.
OnStart(j) ==
  /\ Ignored
  /\ \/ /\ box' = [Reset(box) EXCEPT !.active = TRUE, !.expected = Size(j), !.name = NextFinalName]
        /\ UNCHANGED failures
     \/ Failure /\ box' = Reset(box)

\* onChunk(DataChunk); the write may fail.
OnData(c) ==
  /\ Ignored
  /\ \/ box' = [box EXCEPT !.temp = Append(@, c)] /\ UNCHANGED failures
     \/ Failure /\ box' = Reset(box)

\* Client::fileChunkReceived() with a file written.
Collect(place) ==
  LET files == Append(landed, place) IN
  IF side = "client"
  THEN IF expected > 0 /\ Len(files) >= expected
       THEN shown' = Append(shown, files) /\ expected' = 0 /\ landed' = <<>>
       ELSE landed' = files /\ UNCHANGED <<shown, expected>>
  ELSE UNCHANGED <<shown, expected, landed>>

\* The temporary file is moved; that neither rename() nor copy_file() succeeds is
\* ignored, and the path of what is not there is returned.
Move ==
  \/ disk' = Append(disk, [name |-> box.name, pieces |-> box.temp]) /\ UNCHANGED failures
  \/ disk' = Append(disk, [name |-> box.name, pieces |-> NoTemp]) /\ Failure

\* onChunk(DataEnd); what was buffered may not reach the disk.
OnEnd ==
  \/ /\ box.expected = 0 \/ Received = box.expected
     /\ Move
     /\ box' = [box EXCEPT !.active = FALSE, !.temp = NoTemp, !.index = @ + 1]
     /\ Collect(Len(disk) + 1)
  \/ /\ box.expected # 0 /\ Received # box.expected
     /\ box' = [box EXCEPT !.active = FALSE, !.temp = NoTemp]
     /\ Ignored /\ UNCHANGED failures
  \/ /\ Failure
     /\ box' = [box EXCEPT !.active = FALSE, !.temp = NoTemp]
     /\ Ignored

\* FileReceiver::onChunk().
OnChunk(c) ==
  \/ c[2] = 0 /\ OnStart(c[1])
  \/ c[2] > 0 /\ ~box.active /\ UNCHANGED <<receiving, failures>>
  \/ c[2] \in 1..Size(c[1]) /\ box.active /\ OnData(c)
  \/ c[2] > Size(c[1]) /\ box.active /\ OnEnd

-----------------------------------------------------------------------------
(* The drags, the threads and the connections.                               *)
Selection ==
  {z \in UNION {[1..n -> 0..MaxSize] : n \in 1..MaxFiles} : Len(z) + Cardinality(Running) <= MaxThreads}

\* What both senders do: the message with the names, and one thread per file.
Announce(p, sizes) ==
  LET d == Len(drags) + 1 IN
  /\ proxy[p] # 0 /\ d <= MaxDrags
  /\ drags' = Append(drags, [by |-> p, target |-> proxy[p], sizes |-> sizes])
  /\ IF p \in cut THEN UNCHANGED receiving ELSE DragInfoReceived(d, Len(sizes))
  /\ crowded' = crowded
       \cup (IF UnderWay = {} THEN {} ELSE UnderWay \cup {d})
       \cup (IF Len(sizes) = 1 /\ p \notin cut THEN {} ELSE {d})
       \cup (IF p \notin cut THEN {} ELSE Left)
  /\ UNCHANGED <<side, transfer, queue, connection, failures>>

\* Server::sendDragInfoToClient().
SendDragInfoToClient(p) ==
  /\ side = "client" /\ p = CHOOSE q \in Dragger : TRUE
  /\ \E sizes \in Selection : Announce(p, sizes)

\* Client::sendDragToServer().
SendDragToServer(p) ==
  /\ side = "server"
  /\ \E sizes \in Selection : Announce(p, sizes)

\* sendFile(): the file cannot be opened or sized, or a read falls short.
ReadFails(j) ==
  /\ j \in Running /\ sent[j] <= Size(j) /\ failures < MaxFailures
  /\ over' = over \cup {j} /\ failures' = failures + 1
  /\ UNCHANGED <<side, drags, sent, flow, queue, connection, receiving, crowded>>

\* sendFile(): the next chunk, if the token has a permit.
QueueChunk(j) ==
  LET p == drags[j[1]].by IN
  /\ j \in Running /\ flow[j] > 0
  /\ flow' = [flow EXCEPT ![j] = @ - 1]
  /\ queue' = [queue EXCEPT ![p] = Append(@, <<j, sent[j]>>)]
  /\ sent' = [sent EXCEPT ![j] = @ + 1]
  /\ over' = IF sent[j] = Size(j) + 1 THEN over \cup {j} ELSE over
  /\ UNCHANGED <<side, drags, connection, failures, receiving, crowded>>

\* Mutant: only a chunk that was sent gives its permit back.
ReleaseSent(j) ==
  flow' = [flow EXCEPT ![j] = IF drags[j[1]].target = proxy[drags[j[1]].by] THEN @ + 1 ELSE @]

\* ~FileChunk(), when the queue deletes an event, had it a handler or not.
Release(j) == flow' = [flow EXCEPT ![j] = @ + 1]

\* The event loop takes a chunk; its handler, of ClientProxy1_5 or ServerProxy,
\* sends it, and the receiver of the connection writes it.
SendChunk(p) ==
  /\ queue[p] # <<>>
  /\ LET c == Head(queue[p])  j == c[1] IN
       /\ Release(j)
       /\ IF drags[j[1]].target = proxy[p] /\ p \notin cut
          THEN OnChunk(c) ELSE UNCHANGED <<receiving, failures>>
  /\ queue' = [queue EXCEPT ![p] = Tail(@)]
  /\ UNCHANGED <<side, drags, sent, over, connection, crowded>>

\* The connection is lost,
Cut(p) ==
  /\ p \notin cut /\ proxy[p] # 0 /\ failures < MaxFailures
  /\ cut' = cut \cup {p} /\ failures' = failures + 1
  /\ crowded' = crowded \cup Left \cup {d \in UnderWay : drags[d].by = p}
  /\ UNCHANGED <<side, drags, transfer, queue, proxy, receiving>>

\* and this is noticed: the proxy is deleted, the receiver stays as it is.
Disconnect(p) ==
  /\ p \in cut /\ proxy[p] # 0
  /\ proxy' = [proxy EXCEPT ![p] = 0]
  /\ UNCHANGED <<side, drags, transfer, queue, cut, failures, receiving, crowded>>

\* A new proxy may get the address of the old one.
Connect(p) ==
  /\ proxy[p] = 0
  /\ \E a \in 1..MaxFailures + 1 : proxy' = [proxy EXCEPT ![p] = a]
  /\ cut' = cut \ {p}
  /\ UNCHANGED <<side, drags, transfer, queue, failures, receiving, crowded>>

-----------------------------------------------------------------------------
NextDrag ==
  \/ \E p \in Dragger : SendDragInfoToClient(p) \/ SendDragToServer(p) \/ SendChunk(p)
                       \/ Cut(p) \/ Disconnect(p) \/ Connect(p)
  \/ \E j \in Job : QueueChunk(j) \/ ReadFails(j)

(* A thread that can go on does, and the event loops run.                    *)
DragSpec == InitDrag /\ [][NextDrag]_dragVars
Fairness ==
  /\ \A p \in Dragger : WF_dragVars(SendChunk(p))
  /\ \A j \in Job : WF_dragVars(QueueChunk(j))
FairDragSpec == DragSpec /\ Fairness

-----------------------------------------------------------------------------
(* Every place is a job's or none, the receiver holds what it counts, and a  *)
(* thread has as many permits as chunks of it are not in the queue.          *)
InFlight(j) == Len(SelectSeq(queue[drags[j[1]].by], LAMBDA c : c[1] = j))
DragTypeOK ==
  /\ side \in {"client", "server"}
  /\ over \subseteq Jobs /\ flow \in [Job -> 0..Window]
  /\ \A j \in Jobs : flow[j] + InFlight(j) = Window /\ sent[j] <= Size(j) + 2
  /\ box.active \in BOOLEAN /\ box.index \in Nat \ {0} /\ box.expected \in 0..MaxSize
  /\ expected \in 0..MaxFiles

Alone(d) == d \notin crowded

(* A file of a drag that was alone is reported, if at all, once and under its *)
(* own name, and what is there is whole unless it could not be moved there,   *)
(* whatever was left behind by earlier drags that mixed, failed or were cut   *)
(* off (FileReceiver::onChunk() and setDragFiles()).                          *)
WrittenWhole ==
  /\ \A k \in 1..Len(disk) : LET f == disk[k] IN
       \A j \in Jobs : Alone(j[1]) /\ (f.name = j \/ \E i \in 1..Len(f.pieces) : f.pieces[i][1] = j)
         => f.name = j /\ f.pieces \in {Pieces(j), NoTemp}
  /\ \A k, l \in 1..Len(disk) :
       disk[k].name = disk[l].name /\ disk[k].name \in {j \in Jobs : Alone(j[1])} => k = l

(* A synthetic drag never holds the file of a drag that was alone together  *)
(* with files of another one (Client::dragInfoReceived(), fileChunkReceived). *)
ShownAlone ==
  \A s \in 1..Len(shown) : \A k \in 1..Len(shown[s]) :
    LET j == disk[shown[s][k]].name IN
    j \in {i \in Jobs : Alone(i[1])} => Len(shown[s]) = 1

(* What earlier drags left behind does not mix with a drag that is alone.    *)
DragsApart == WrittenWhole /\ ShownAlone

(* Every thread ends: the token of a file never starves it, also when the    *)
(* proxy its chunks are for is gone (~FileChunk(), sendFile()).              *)
ThreadsEnd == \A j \in Job : j \in Jobs ~> j \in over

(* With no failure a drag that is alone is written to the end, and a client  *)
(* starts its synthetic drag.                                                *)
Lands ==
  \A d \in 1..MaxDrags :
    d <= Len(drags) ~>
      \/ failures > 0 \/ ~Alone(d)
      \/ /\ \E k \in 1..Len(disk) : disk[k].name = <<d, 1>> /\ disk[k].pieces = Pieces(<<d, 1>>)
         /\ side = "client" => \E s \in 1..Len(shown) : disk[shown[s][1]].name = <<d, 1>>

(* What a synthetic drag holds is there (Client::fileChunkReceived()).       *)
ShownIsThere ==
  \A s \in 1..Len(shown) : \A k \in 1..Len(shown[s]) :
    LET f == disk[shown[s][k]] IN Alone(f.name[1]) => f.pieces = Pieces(f.name)

(* Files written are those announced, in order: "Names + expected sizes      *)
(* announced by the drag-info message, in order" (FileReceiver.h:32).        *)
FilesInOrder ==
  \A k \in 1..Len(disk) : LET f == disk[k] IN f.name \in Jobs /\ f.pieces = Pieces(f.name)

(* "Abort any partially-written file (e.g. on disconnect)."                  *)
(* (FileReceiver.h:39): with every peer gone nothing partial is left.        *)
AbortedWhenGone == (\A p \in Dragger : proxy[p] = 0) => box.temp = NoTemp
=============================================================================
