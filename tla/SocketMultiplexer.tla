------------------------- MODULE SocketMultiplexer -------------------------
(***************************************************************************)
(* The socket multiplexer (net/SocketMultiplexer.cpp): one service thread  *)
(* polls the sockets and runs their jobs while other threads add, replace  *)
(* and remove jobs.  The job list is guarded by a lock, and that lock by a *)
(* second one, so that a thread that wants the list keeps the service      *)
(* thread from taking it again.  The sockets are modelled by what they do  *)
(* to the multiplexer and by the one mutex of theirs that they hold while  *)
(* they call it: ssl_mutex_ of a SecureSocket, m_mutex of a                *)
(* TCPListenSocket.                                                        *)
(*                                                                         *)
(* m_mutex is held only inside the actions, so each of them is atomic; a   *)
(* wait on a condition variable is the guard of the action it precedes:    *)
(* CondVar::wait wakes up at least every 0.1 s to look at it again.        *)
(***************************************************************************)
EXTENDS Integers, Sequences, FiniteSets

CONSTANTS
    Caller,        \* threads that open, use and close sockets
    Service,       \* the service thread
    NoOne,         \* no thread
    Socket,
    Kind,          \* Kind[s]: "plain", "tls" or "listen"
    AcceptFails,   \* ARCH->acceptSocket may throw
    ListenErrors   \* poll may report an error on a listening socket

ASSUME ThreadsAssumption ==
    /\ Service \notin Caller
    /\ NoOne \notin Caller \cup {Service}
    /\ Kind \in [Socket -> {"plain", "tls", "listen"}]
    /\ AcceptFails \in BOOLEAN /\ ListenErrors \in BOOLEAN

Thread == Caller \cup {Service}
Holder == Thread \cup {NoOne}
Op     == {"add", "drop", "free", "close"}

(* What a job does when it runs: wait for the connection to be made, make  *)
(* the TLS handshake, or serve what poll reports.                          *)
Stage == {"connecting", "shaking", "serving"}

VARIABLES
    pc,          \* where each thread is
    call,        \* call[c]: the multiplexer call caller c is making
    lockLock,    \* holder of m_jobListLockLocked (m_jobListLockLocker)
    list,        \* holder of m_jobListLock (m_jobListLocker)
    jobs,        \* m_socketJobs: a node per socket of m_socketJobMap, in order
    live,        \* the sockets whose node holds a job (not nullptr)
    stage,       \* stage[s]: what that job, or the last one s had, does
    update,      \* m_update
    jobsReady,   \* m_jobsReady
    unblocked,   \* the service thread's unblock pipe holds a byte
    pfds,        \* the sockets of the poll entries last collected
    ready,       \* the sockets the last poll reported
    cursor,      \* [node, entry]: progress of the loop over the jobs
    mutex,       \* mutex[s]: holder of the socket's own mutex
    life,        \* life[s]: "new", "open" or "closed"
    connecting   \* listening sockets whose ListenSocketConnecting is queued

vars == <<pc, call, lockLock, list, jobs, live, stage, update, jobsReady, unblocked,
          pfds, ready, cursor, mutex, life, connecting>>
nodes   == <<jobs, live, stage>>
sockets == <<mutex, life, connecting>>
polling == <<pfds, ready, cursor>>

Known(s) == \E i \in DOMAIN jobs : jobs[i] = s

(* LiveFrom(js, held)[n]: the sockets of js from the n-th on that are in   *)
(* held, in order.                                                         *)
LiveFrom(js, held) ==
    LET rest[n \in 1..(Len(js) + 1)] ==
          IF n > Len(js) THEN <<>>
          ELSE IF js[n] \in held THEN <<js[n]>> \o rest[n + 1] ELSE rest[n + 1]
    IN  rest

Live(js) == LiveFrom(js, live)[1]

TypeOK ==
    /\ pc \in [Thread -> {"idle", "lockLock", "unblock", "lockList", "edit",
                          "collect", "poll", "run", "sweep", "close"}]
    /\ call \in [Caller -> [op : Op, socket : Socket, stage : Stage]]
    /\ lockLock \in Holder /\ list \in Holder
    /\ jobs \in Seq(Socket) /\ live \subseteq {jobs[i] : i \in DOMAIN jobs}
    /\ \A i, j \in DOMAIN jobs : jobs[i] = jobs[j] => i = j
    /\ stage \in [Socket -> Stage]
    /\ update \in BOOLEAN /\ jobsReady \in BOOLEAN /\ unblocked \in BOOLEAN
    /\ pfds \in Seq(Socket) /\ ready \subseteq Socket
    /\ cursor \in [node : Nat, entry : Nat]
    /\ mutex \in [Socket -> Holder]
    /\ life \in [Socket -> {"new", "open", "closed"}]
    /\ connecting \subseteq Socket

Init ==
    /\ pc = [t \in Thread |-> "idle"]
    /\ call \in [Caller -> [op : {"add"}, socket : Socket, stage : {"serving"}]]
    /\ lockLock = NoOne /\ list = NoOne
    /\ jobs = <<>> /\ live = {} /\ stage = [s \in Socket |-> "serving"]
    /\ update = FALSE /\ jobsReady = FALSE /\ unblocked = FALSE
    /\ pfds = <<>> /\ ready = {} /\ cursor = [node |-> 1, entry |-> 1]
    /\ mutex = [s \in Socket |-> NoOne]
    /\ life = [s \in Socket |-> "new"]
    /\ connecting = {}

-----------------------------------------------------------------------------
(* What the sockets ask of the multiplexer.                                *)

Idle(c, s) ==
    /\ pc[c] = "idle"
    /\ \A d \in Caller : pc[d] # "idle" => call[d].socket # s

(* A call enters addSocket with a job, or removeSocket.                    *)
Begin(c, op, s, j) ==
    /\ pc' = [pc EXCEPT ![c] = "lockLock"]
    /\ call' = [call EXCEPT ![c] = [op |-> op, socket |-> s, stage |-> j]]
    /\ UNCHANGED <<lockLock, list, nodes, update, jobsReady, unblocked, polling>>

Take(t, s) == mutex[s] = NoOne /\ mutex' = [mutex EXCEPT ![s] = t]

(* A socket starts to connect, is accepted or bound and gets its first     *)
(* job; bind holds the listening socket's mutex meanwhile.                 *)
Open(c, s) ==
    /\ Idle(c, s) /\ life[s] # "open"
    /\ life' = [life EXCEPT ![s] = "open"]
    /\ IF Kind[s] = "listen" THEN Take(c, s) /\ Begin(c, "add", s, "serving")
       ELSE UNCHANGED mutex /\ \E j \in {"connecting", "serving"} : Begin(c, "add", s, j)
    /\ UNCHANGED connecting

\* Mutant: setJob is called for a socket another thread has just closed.
SetJobLate(c, s) ==
    /\ Idle(c, s) /\ life[s] # "new" /\ Kind[s] # "listen"
    /\ \E op \in {"add", "drop"} : Begin(c, op, s, stage[s])
    /\ UNCHANGED sockets

(* setJob(newJob()): a data socket replaces its job after a write or a     *)
(* shutdown, or drops it when none is needed; the two sides of a TLS       *)
(* handshake start by setting theirs.                                      *)
SetJob(c, s) ==
    /\ Idle(c, s) /\ life[s] = "open" /\ Kind[s] # "listen"
    /\ \/ Begin(c, "add", s, IF stage[s] = "connecting" THEN "connecting" ELSE "serving")
       \/ Kind[s] = "tls" /\ stage[s] = "serving" /\ Begin(c, "add", s, "shaking")
       \/ Begin(c, "drop", s, stage[s])
    /\ UNCHANGED sockets

\* Mutant: accept() does not set the listening job again.
AcceptOnce(c, s) ==
    /\ Idle(c, s) /\ life[s] = "open" /\ s \in connecting
    /\ connecting' = connecting \ {s}
    /\ UNCHANGED <<pc, call, lockLock, list, nodes, update, jobsReady, unblocked,
                   polling, mutex, life>>

(* The event loop handles ListenSocketConnecting: accept() sets the        *)
(* listening job again, unless acceptSocket threw.                         *)
Accept(c, s) ==
    /\ Idle(c, s) /\ life[s] = "open" /\ s \in connecting
    /\ connecting' = connecting \ {s}
    /\ \/ Begin(c, "add", s, "serving")
       \/ /\ AcceptFails
          /\ UNCHANGED <<pc, call, lockLock, list, nodes, update, jobsReady,
                         unblocked, polling>>
    /\ UNCHANGED <<mutex, life>>

(* close() or the destructor.  SecureSocket::close first calls freeSSL,    *)
(* which removes the job while it holds ssl_mutex_.                        *)
Close(c, s) ==
    /\ Idle(c, s) /\ life[s] = "open"
    /\ IF Kind[s] = "tls" THEN Take(c, s) /\ Begin(c, "free", s, stage[s])
                          ELSE UNCHANGED mutex /\ Begin(c, "close", s, stage[s])
    /\ UNCHANGED <<life, connecting>>

-----------------------------------------------------------------------------
(* The two locks.                                                          *)

\* Mutant: lockJobListLock does not wait.
LockJobListLockBarges(t) ==
    /\ pc[t] = "lockLock"
    /\ lockLock' = t
    /\ pc' = [pc EXCEPT ![t] = IF t = Service THEN "lockList" ELSE "unblock"]
    /\ UNCHANGED <<call, list, nodes, update, jobsReady, unblocked, polling, sockets>>

LockJobListLock(t) ==
    /\ pc[t] = "lockLock" /\ lockLock = NoOne
    /\ lockLock' = t
    /\ pc' = [pc EXCEPT ![t] = IF t = Service THEN "lockList" ELSE "unblock"]
    /\ UNCHANGED <<call, list, nodes, update, jobsReady, unblocked, polling, sockets>>

\* Mutant: addSocket and removeSocket do not break the service thread out of poll.
UnblockPollNot(c) ==
    /\ pc[c] = "unblock"
    /\ pc' = [pc EXCEPT ![c] = "lockList"]
    /\ UNCHANGED <<call, lockLock, list, nodes, update, jobsReady, unblocked,
                   polling, sockets>>

(* A caller breaks the service thread out of poll before it waits.         *)
UnblockPoll(c) ==
    /\ pc[c] = "unblock"
    /\ unblocked' = TRUE
    /\ pc' = [pc EXCEPT ![c] = "lockList"]
    /\ UNCHANGED <<call, lockLock, list, nodes, update, jobsReady, polling, sockets>>

LockJobList(t) ==
    /\ pc[t] = "lockList" /\ list = NoOne
    /\ list' = t
    /\ lockLock' = NoOne
    /\ pc' = [pc EXCEPT ![t] = IF t = Service THEN "collect" ELSE "edit"]
    /\ UNCHANGED <<call, nodes, update, jobsReady, unblocked, polling, sockets>>

UnlockJobList ==
    /\ list' = NoOne
    /\ jobsReady' = (jobs' # <<>>)

\* Mutant: addSocket does not look the socket up.
AddJobAgain(s, j) ==
    /\ jobs' = Append(jobs, s)
    /\ live' = live \cup {s}
    /\ stage' = [stage EXCEPT ![s] = j]
    /\ update' = TRUE

(* addSocket: a new socket's node goes to the end, so that the order of    *)
(* the list keeps matching the order of the poll entries.                  *)
AddJob(s, j) ==
    /\ jobs' = IF Known(s) THEN jobs ELSE Append(jobs, s)
    /\ live' = live \cup {s}
    /\ stage' = [stage EXCEPT ![s] = j]
    /\ update' = TRUE

\* Mutant: removeSocket forgets m_update.
RemoveJobNoUpdate(s) ==
    /\ live' = live \ {s}
    /\ UNCHANGED <<jobs, stage, update>>

(* removeSocket: the node stays for the same reason.                       *)
RemoveJob(s) ==
    /\ live' = live \ {s}
    /\ update' = (update \/ s \in live)
    /\ UNCHANGED <<jobs, stage>>

(* What the socket does when the call returns: bind and freeSSL release    *)
(* their mutex, freeSSL is followed by TCPSocket::close, and after that    *)
(* the socket may be destroyed.                                            *)
Return(c) ==
    LET s == call[c].socket IN
    /\ mutex' = [mutex EXCEPT ![s] = IF @ = c THEN NoOne ELSE @]
    /\ IF call[c].op = "free"
       THEN /\ pc' = [pc EXCEPT ![c] = "lockLock"]
            /\ call' = [call EXCEPT ![c].op = "close"]
       ELSE /\ pc' = [pc EXCEPT ![c] = "idle"]
            /\ UNCHANGED call
    /\ IF call[c].op = "close"
       THEN /\ life' = [life EXCEPT ![s] = "closed"]
            /\ connecting' = connecting \ {s}
       ELSE UNCHANGED <<life, connecting>>

Edit(c) ==
    /\ pc[c] = "edit"
    /\ IF call[c].op = "add" THEN AddJob(call[c].socket, call[c].stage)
                             ELSE RemoveJob(call[c].socket)
    /\ UnlockJobList
    /\ Return(c)
    /\ UNCHANGED <<lockLock, unblocked, polling>>

-----------------------------------------------------------------------------
(* The service thread.                                                     *)

At(step)   == pc[Service] = step
Goto(step) == pc' = [pc EXCEPT ![Service] = step]

WaitForJobs ==
    /\ At("idle") /\ jobsReady
    /\ Goto("lockLock")
    /\ UNCHANGED <<call, lockLock, list, nodes, update, jobsReady, unblocked,
                   polling, sockets>>

Collect ==
    /\ At("collect")
    /\ update' = FALSE
    /\ pfds' = IF update THEN Live(jobs) ELSE pfds
    /\ Goto("poll")
    /\ UNCHANGED <<call, lockLock, list, nodes, jobsReady, unblocked, ready,
                   cursor, sockets>>

(* poll returns: at once without entries, for the unblock pipe, whose      *)
(* bytes it discards, or for sockets that are ready.                       *)
Poll ==
    /\ At("poll")
    /\ \E r \in SUBSET {pfds[i] : i \in DOMAIN pfds} :
         /\ pfds = <<>> \/ unblocked \/ r # {}
         /\ ready' = r
         /\ Goto(IF r = {} THEN "sweep" ELSE "run")
    /\ unblocked' = (unblocked /\ pfds = <<>>)
    /\ cursor' = [node |-> 1, entry |-> 1]
    /\ UNCHANGED <<call, lockLock, list, nodes, update, jobsReady, pfds, sockets>>

MoreJobs == cursor.entry <= Len(pfds) /\ cursor.node <= Len(jobs)
Current  == jobs[cursor.node]

\* Mutant: nextCursor does not move past a removed job.
SkipDeadStays ==
    /\ At("run") /\ MoreJobs /\ Current \notin live
    /\ UNCHANGED vars

SkipDead ==
    /\ At("run") /\ MoreJobs /\ Current \notin live
    /\ cursor' = [cursor EXCEPT !.node = @ + 1]
    /\ UNCHANGED <<pc, call, lockLock, list, nodes, update, jobsReady, unblocked,
                   pfds, ready, sockets>>

Reported == pfds[cursor.entry] \in ready

(* The job of the current socket takes ssl_mutex_: the handshake always,   *)
(* the stream to read and write what poll reported.                        *)
NeedsMutex ==
    /\ Kind[Current] = "tls"
    /\ stage[Current] = "shaking" \/ (stage[Current] = "serving" /\ Reported)

(* A job keeps itself, is replaced or ends.  Every job runs once poll has  *)
(* reported any socket: a handshake goes on and a connecting socket looks  *)
(* for an error without a report of their own.  The job of a listening     *)
(* socket posts ListenSocketConnecting and ends.                           *)
KeepJob ==
    /\ stage[Current] # "shaking"
    /\ Reported => Kind[Current] # "listen"
    /\ UNCHANGED <<live, stage, update, connecting>>

ReplaceJob ==
    /\ Kind[Current] # "listen"
    /\ stage[Current] = "shaking" \/ Reported
    /\ \E j \in {"shaking", "serving"} :
         /\ j = "shaking" => stage[Current] = "shaking"
         /\ stage' = [stage EXCEPT ![Current] = j]
    /\ update' = TRUE
    /\ UNCHANGED <<live, connecting>>

EndJob ==
    /\ Reported \/ stage[Current] # "serving"
    /\ live' = live \ {Current}
    /\ update' = TRUE
    /\ connecting' = connecting \cup {s \in {Current} : Kind[s] = "listen"}
    /\ UNCHANGED stage

RunJob ==
    /\ At("run") /\ MoreJobs /\ Current \in live
    /\ NeedsMutex => mutex[Current] = NoOne
    /\ KeepJob \/ ReplaceJob \/ EndJob
    /\ cursor' = [node |-> cursor.node + 1, entry |-> cursor.entry + 1]
    /\ UNCHANGED <<pc, call, lockLock, list, jobs, jobsReady, unblocked, pfds,
                   ready, mutex, life>>

(* serviceListening closes the socket when poll reports an error: close()  *)
(* takes the mutex and removes the socket, from the service thread.        *)
ListenError ==
    /\ ListenErrors
    /\ At("run") /\ MoreJobs /\ Current \in live
    /\ Kind[Current] = "listen" /\ Reported
    /\ Take(Service, Current)
    /\ Goto("lockLock")
    /\ UNCHANGED <<call, lockLock, list, nodes, update, jobsReady, unblocked,
                   polling, life, connecting>>

RunDone ==
    /\ At("run") /\ ~MoreJobs
    /\ Goto("sweep")
    /\ UNCHANGED <<call, lockLock, list, nodes, update, jobsReady, unblocked,
                   polling, sockets>>

(* The nodes of removed sockets go, and the list is unlocked.              *)
Sweep ==
    /\ At("sweep")
    /\ jobs' = Live(jobs)
    /\ update' = (update \/ \E i \in DOMAIN jobs : jobs[i] \notin live)
    /\ UnlockJobList
    /\ Goto("idle")
    /\ UNCHANGED <<call, lockLock, live, stage, unblocked, polling, sockets>>

ServiceStep ==
    \/ WaitForJobs \/ LockJobListLock(Service) \/ LockJobList(Service)
    \/ Collect \/ Poll \/ SkipDead \/ RunJob \/ ListenError \/ RunDone \/ Sweep

CallStep(c) == LockJobListLock(c) \/ UnblockPoll(c) \/ LockJobList(c) \/ Edit(c)

Next ==
    \/ ServiceStep
    \/ \E c \in Caller :
         \/ CallStep(c)
         \/ \E s \in Socket : Open(c, s) \/ SetJob(c, s) \/ Accept(c, s) \/ Close(c, s)

Spec == Init /\ [][Next]_vars

(* The threads run; poll returns when its pipe is written, but no socket   *)
(* need ever be ready; a thread that finds the lock on the lock free again *)
(* and again, each release waking it, gets it in the end.                  *)
ThreadsSpec ==
    /\ Spec
    /\ WF_vars(ServiceStep /\ ~(At("poll") /\ pfds # <<>> /\ ~unblocked))
    /\ \A c \in Caller : WF_vars(CallStep(c))
    /\ \A t \in Thread : SF_vars(LockJobListLock(t))

(* The event loop also gets round to a ListenSocketConnecting.             *)
FairSpec ==
    /\ ThreadsSpec
    /\ \A s \in Socket : SF_vars(\E c \in Caller : Accept(c, s))

-----------------------------------------------------------------------------
(* Properties.                                                             *)

InList(t) == pc[t] \in {"edit", "collect", "poll", "run", "sweep"}

(* The assertions of lockJobList and unlockJobList: whoever waits for the  *)
(* list holds the lock on the lock, and whoever edits, polls or runs jobs  *)
(* holds the list, so nobody edits the list while the service thread is    *)
(* walking it.                                                             *)
LockersAgree ==
    /\ \A t \in Thread : pc[t] \in {"unblock", "lockList"} => lockLock = t
    /\ \A t \in Thread : InList(t) => list = t

(* While the service thread polls and then walks the job list, the entries *)
(* it still has to look at are those of the jobs still ahead of it: no job *)
(* is ever run with another socket's poll result, although the entries are *)
(* collected again only when m_update says so.                             *)
EntriesMatchJobs ==
    /\ At("poll") => pfds = Live(jobs)
    /\ At("run") => SubSeq(pfds, cursor.entry, Len(pfds))
                      = LiveFrom(jobs, live)[cursor.node]

(* Once close() has returned and until the socket is opened again no call  *)
(* is made for it and it has no job, neither a late one nor one the        *)
(* service thread put back: a destroyed socket is never entered.           *)
ClosedNotServed ==
    \A s \in Socket : life[s] = "closed" =>
        /\ \A c \in Caller : pc[c] # "idle" => call[c].socket # s
        /\ s \notin live

(* addSocket and removeSocket return, although the service thread may be   *)
(* blocked in poll for ever.                                               *)
CallReturns == \A c \in Caller : pc[c] # "idle" ~> pc[c] = "idle"

(* "This thread services every connected socket": it always gets back to   *)
(* where it waits for jobs or for poll.                                    *)
ServiceLoops == []<>(At("idle") \/ At("poll"))

(* A listening socket that stopped polling is polled again, or closed.     *)
KeepsListening ==
    \A s \in Socket : s \in connecting ~> (s \in live \/ life[s] = "closed")

(* The two ways the threads can wait for each other for ever: the job of a *)
(* TLS socket, to go on with its handshake or to serve what was reported,  *)
(* needs the mutex that freeSSL() holds while it waits for the job list;   *)
(* serviceListening() closes its socket while it holds the list.           *)
Stuck ==
    \/ /\ At("run") /\ MoreJobs /\ Current \in live
       /\ NeedsMutex /\ mutex[Current] # NoOne
    \/ pc[Service] \in {"lockLock", "lockList"} /\ list = Service

(* There is no other: a call returns and the service thread goes on, with  *)
(* any mixture of sockets, threads, errors and failures.                   *)
CallReturnsOrStuck == \A c \in Caller : pc[c] # "idle" ~> pc[c] = "idle" \/ Stuck
ServiceLoopsOrStuck == []<>(At("idle") \/ At("poll") \/ Stuck)

(* Both, for every thread.                                                 *)
ThreadsGoOn == CallReturnsOrStuck /\ ServiceLoopsOrStuck
=============================================================================
