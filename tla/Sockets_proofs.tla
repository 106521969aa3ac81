--------------------------- MODULE Sockets_proofs ---------------------------
(***************************************************************************)
(* For any threads and sockets: the two locks of the job list exclude each *)
(* other's holders as lockJobList and unlockJobList assert, and a job is   *)
(* run with the poll result of its own socket.  Of a connected stream, for any bounds: what is      *)
(* written is sent once and in order, and what arrives is handled.         *)
(***************************************************************************)
EXTENDS SocketMultiplexer, SocketStream, SequenceTheorems, WellFoundedInduction, TLAPS

-----------------------------------------------------------------------------
(* What LiveFrom computes, by induction from the end of the list.          *)

(* The order of the numbers, under a name of its own.                      *)
LEMMA LessIsWellFounded ==
    \E Less : /\ IsWellFoundedOn(Less, Nat)
              /\ \A x, y \in Nat : y < x => <<y, x>> \in Less
<1>1. \A x, y \in Nat : y < x => <<y, x>> \in OpToRel(<, Nat)
  BY DEF OpToRel
<1> QED
  BY <1>1, NatLessThanWellFounded, Zenon

(* A set of numbers has a least one: induction, for a set.                 *)
LEMMA LeastNat ==
    ASSUME NEW T, T \subseteq Nat, T # {}
    PROVE  \E x \in T : \A y \in T : x <= y
<1>1. PICK Less : /\ IsWellFoundedOn(Less, Nat)
                   /\ \A x, y \in Nat : y < x => <<y, x>> \in Less
  BY LessIsWellFounded
<1>2. PICK x \in T : \A y \in T : ~ (<<y, x>> \in Less)
  BY <1>1, WFMin
<1>3. \A y \in T : ~ (y < x)
  BY <1>1, <1>2, Zenon
<1>4. \A y \in T : x <= y
  BY <1>3
<1> QED
  BY <1>4

(* The value LiveFrom gives the n-th place, from those it gives the later. *)
Step(js, held, rest, n) ==
    IF n > Len(js) THEN <<>>
    ELSE IF js[n] \in held THEN <<js[n]>> \o rest[n + 1] ELSE rest[n + 1]

(* A set of places in a sequence that holds the place after the last and,  *)
(* with every place, the one before it holds them all.                     *)
LEMMA Downwards ==
    ASSUME NEW L \in Nat, NEW Good, L + 1 \in Good,
           \A n \in 1..L : n + 1 \in Good => n \in Good
    PROVE  \A n \in 1..(L + 1) : n \in Good
<1> SUFFICES ASSUME NEW n \in 1..(L + 1), n \notin Good
             PROVE  FALSE
  OBVIOUS
<1> DEFINE Bad == {k \in 0..L : L + 1 - k \notin Good}
<1>1. Bad \subseteq Nat /\ L + 1 - n \in Bad
  OBVIOUS
<1>2. PICK k \in Bad : \A j \in Bad : k <= j
  <2> HIDE DEF Bad
  <2> QED
    BY <1>1, LeastNat
<1>3. k # 0
  OBVIOUS
<1>4. k - 1 \notin Bad
  BY <1>2
<1>5. L + 2 - k \in Good
  BY <1>3, <1>4
<1> QED
  BY <1>5

(* The recursive definition of LiveFrom defines a function.                *)
LEMMA LiveFromDef ==
    ASSUME NEW js \in Seq(Socket), NEW held
    PROVE  LiveFrom(js, held) =
             [n \in 1..(Len(js) + 1) |-> Step(js, held, LiveFrom(js, held), n)]
<1> DEFINE L == Len(js)
           Good == {k \in 1..(L + 1) :
                      \E g : g = [n \in k..(L + 1) |-> Step(js, held, g, n)]}
<1>1. L \in Nat
  OBVIOUS
<1>2. L + 1 \in Good
  <2> DEFINE g == [n \in (L + 1)..(L + 1) |-> <<>>]
  <2>1. g = [n \in (L + 1)..(L + 1) |-> Step(js, held, g, n)]
    BY <1>1 DEF Step
  <2> HIDE DEF g
  <2>2. \E f : f = [n \in (L + 1)..(L + 1) |-> Step(js, held, f, n)]
    BY <2>1
  <2> QED
    BY <1>1, <2>2
<1>3. ASSUME NEW k \in 1..L, k + 1 \in Good
      PROVE  k \in Good
  <2>1. PICK g : g = [n \in (k + 1)..(L + 1) |-> Step(js, held, g, n)]
    BY <1>3
  <2> DEFINE h == [n \in k..(L + 1) |->
                     IF n = k THEN Step(js, held, g, k) ELSE g[n]]
  <2>2. \A n \in k..(L + 1) : h[n] = Step(js, held, h, n)
    <3> SUFFICES ASSUME NEW n \in k..(L + 1) PROVE h[n] = Step(js, held, h, n)
      OBVIOUS
    <3>1. n <= L => h[n + 1] = g[n + 1]
      BY <1>1
    <3>2. Step(js, held, h, n) = Step(js, held, g, n)
      BY <1>1, <3>1 DEF Step
    <3>3. n # k => g[n] = Step(js, held, g, n)
      BY <2>1, <1>1
    <3> QED
      BY <3>2, <3>3
  <2>3. h = [n \in k..(L + 1) |-> Step(js, held, h, n)]
    BY <2>2
  <2> HIDE DEF h
  <2>4. \E f : f = [n \in k..(L + 1) |-> Step(js, held, f, n)]
    BY <2>3
  <2> QED
    BY <1>1, <2>4
<1>4. 1 \in Good
  <2> HIDE DEF Good
  <2> QED
    BY <1>1, <1>2, <1>3, Downwards
<1>5. \E g : g = [n \in 1..(L + 1) |-> Step(js, held, g, n)]
  BY <1>4
<1> QED
  BY <1>5 DEF LiveFrom, Step

(* What it gives each place.                                               *)
LEMMA LiveFromAt ==
    ASSUME NEW js \in Seq(Socket), NEW held
    PROVE  /\ LiveFrom(js, held)[Len(js) + 1] = <<>>
           /\ \A n \in 1..Len(js) :
                LiveFrom(js, held)[n] = IF js[n] \in held
                                        THEN <<js[n]>> \o LiveFrom(js, held)[n + 1]
                                        ELSE LiveFrom(js, held)[n + 1]
<1>1. \A n \in 1..(Len(js) + 1) :
        LiveFrom(js, held)[n] = Step(js, held, LiveFrom(js, held), n)
  BY LiveFromDef
<1>2. Len(js) \in Nat
  OBVIOUS
<1> HIDE DEF LiveFrom
<1>3. LiveFrom(js, held)[Len(js) + 1] = <<>>
  <2>1. Len(js) + 1 \in 1..(Len(js) + 1) /\ Len(js) + 1 > Len(js)
    BY <1>2
  <2> QED
    BY <1>1, <2>1, Zenon DEF Step
<1>4. ASSUME NEW n \in 1..Len(js)
      PROVE  LiveFrom(js, held)[n] = IF js[n] \in held
                                     THEN <<js[n]>> \o LiveFrom(js, held)[n + 1]
                                     ELSE LiveFrom(js, held)[n + 1]
  <2>1. n \in 1..(Len(js) + 1) /\ ~ (n > Len(js))
    BY <1>2
  <2> QED
    BY <1>1, <2>1, Zenon DEF Step
<1> QED
  BY <1>3, <1>4

(* A node without a job adds nothing.                                      *)
LEMMA LiveFromSkips ==
    ASSUME NEW js \in Seq(Socket), NEW held, NEW n \in 1..Len(js)
    PROVE  js[n] \notin held => LiveFrom(js, held)[n] = LiveFrom(js, held)[n + 1]
<1>1. LiveFrom(js, held)[n] = IF js[n] \in held
                              THEN <<js[n]>> \o LiveFrom(js, held)[n + 1]
                              ELSE LiveFrom(js, held)[n + 1]
  BY LiveFromAt
<1> QED
  BY <1>1, Zenon

(* The members of LiveFrom(js, held)[n] are those of js from the n-th on   *)
(* that are in held, each once if js has each once.                        *)
IsPart(js, held, n, es) ==
    /\ es \in Seq(Socket)
    /\ \A i \in 1..Len(es) : \E k \in n..Len(js) : es[i] = js[k] /\ js[k] \in held
    /\ \A k \in n..Len(js) : js[k] \in held => \E i \in 1..Len(es) : es[i] = js[k]
    /\ \A i, j \in 1..Len(es) : es[i] = es[j] => i = j

Distinct(js) == \A i, j \in 1..Len(js) : js[i] = js[j] => i = j

(* A node with a job in front of the part that follows it.                 *)
LEMMA PrependIsPart ==
    ASSUME NEW js \in Seq(Socket), NEW held, Distinct(js),
           NEW n \in 1..Len(js), js[n] \in held,
           NEW es, IsPart(js, held, n + 1, es)
    PROVE  IsPart(js, held, n, <<js[n]>> \o es)
<1> DEFINE fs == <<js[n]>> \o es
<1>1. es \in Seq(Socket) /\ Len(es) \in Nat /\ js[n] \in Socket /\ Len(js) \in Nat
  BY DEF IsPart
<1>2. fs \in Seq(Socket) /\ Len(fs) = Len(es) + 1 /\ fs[1] = js[n]
  BY <1>1
<1>3. \A i \in 1..Len(es) : fs[i + 1] = es[i]
  BY <1>1
<1> HIDE DEF fs
<1>4. ASSUME NEW i \in 1..Len(fs), i # 1
      PROVE  i - 1 \in 1..Len(es) /\ fs[i] = es[i - 1]
  <2>1. i - 1 \in 1..Len(es) /\ (i - 1) + 1 = i
    BY <1>1, <1>2, <1>4
  <2> QED
    BY <1>3, <2>1
<1>5. \A i \in 1..Len(fs) : \E k \in n..Len(js) : fs[i] = js[k] /\ js[k] \in held
  <2> SUFFICES ASSUME NEW i \in 1..Len(fs)
               PROVE  \E k \in n..Len(js) : fs[i] = js[k] /\ js[k] \in held
    OBVIOUS
  <2>1. CASE i = 1
    BY <1>1, <1>2, <2>1
  <2>2. CASE i # 1
    <3>1. PICK k \in (n + 1)..Len(js) : es[i - 1] = js[k] /\ js[k] \in held
      BY <1>4, <2>2 DEF IsPart
    <3> QED
      BY <1>1, <1>4, <2>2, <3>1
  <2> QED
    BY <2>1, <2>2
<1>6. \A k \in n..Len(js) : js[k] \in held => \E i \in 1..Len(fs) : fs[i] = js[k]
  <2> SUFFICES ASSUME NEW k \in n..Len(js), js[k] \in held
               PROVE  \E i \in 1..Len(fs) : fs[i] = js[k]
    OBVIOUS
  <2>1. CASE k = n
    BY <1>1, <1>2, <2>1
  <2>2. CASE k # n
    <3>1. PICK i \in 1..Len(es) : es[i] = js[k]
      BY <1>1, <2>2 DEF IsPart
    <3>2. i + 1 \in 1..Len(fs) /\ fs[i + 1] = js[k]
      BY <1>1, <1>2, <1>3, <3>1
    <3> QED
      BY <3>2
  <2> QED
    BY <2>1, <2>2
<1>7. ASSUME NEW i \in 1..Len(es) PROVE es[i] # js[n]
  <2>1. PICK k \in (n + 1)..Len(js) : es[i] = js[k]
    BY DEF IsPart
  <2> QED
    BY <1>1, <2>1 DEF Distinct
<1>8. \A i, j \in 1..Len(fs) : fs[i] = fs[j] => i = j
  <2> SUFFICES ASSUME NEW i \in 1..Len(fs), NEW j \in 1..Len(fs), fs[i] = fs[j]
               PROVE  i = j
    OBVIOUS
  <2>1. CASE i = 1 \/ j = 1
    BY <1>2, <1>4, <1>7, <2>1
  <2>2. CASE i # 1 /\ j # 1
    <3>1. i - 1 = j - 1
      BY <1>4, <2>2 DEF IsPart
    <3> QED
      BY <1>1, <1>2, <3>1
  <2> QED
    BY <2>1, <2>2
<1> QED
  BY <1>2, <1>5, <1>6, <1>8 DEF IsPart, fs

LEMMA LiveFromIsPart ==
    ASSUME NEW js \in Seq(Socket), NEW held, Distinct(js)
    PROVE  \A n \in 1..(Len(js) + 1) : IsPart(js, held, n, LiveFrom(js, held)[n])
<1> DEFINE L == Len(js)
           Good == {n \in 1..(L + 1) : IsPart(js, held, n, LiveFrom(js, held)[n])}
<1>1. L \in Nat
  OBVIOUS
<1>2. L + 1 \in Good
  <2>1. LiveFrom(js, held)[L + 1] = <<>>
    BY LiveFromAt
  <2>2. IsPart(js, held, L + 1, <<>>)
    BY <1>1 DEF IsPart
  <2> QED
    BY <1>1, <2>1, <2>2
<1>3. ASSUME NEW n \in 1..L, n + 1 \in Good
      PROVE  n \in Good
  <2> DEFINE es == LiveFrom(js, held)[n + 1]
  <2>1. IsPart(js, held, n + 1, es)
    BY <1>3
  <2>2. LiveFrom(js, held)[n] = IF js[n] \in held THEN <<js[n]>> \o es ELSE es
    BY LiveFromAt
  <2> HIDE DEF es
  <2>3. CASE js[n] \notin held
    <3>1. IsPart(js, held, n, es)
      BY <1>1, <2>1, <2>3 DEF IsPart
    <3>2. IsPart(js, held, n, LiveFrom(js, held)[n])
      BY <2>2, <2>3, <3>1, Zenon
    <3> QED
      BY <1>1, <3>2
  <2>4. CASE js[n] \in held
    <3>1. IsPart(js, held, n, <<js[n]>> \o es)
      BY <1>1, <2>1, <2>4, PrependIsPart
    <3>2. IsPart(js, held, n, LiveFrom(js, held)[n])
      BY <2>2, <2>4, <3>1, Zenon
    <3> QED
      BY <1>1, <3>2
  <2> QED
    BY <2>3, <2>4
<1>4. \A n \in 1..(L + 1) : n \in Good
  <2> HIDE DEF Good, L
  <2> QED
    BY <1>1, <1>2, <1>3, Downwards
<1> QED
  BY <1>4

(* It depends on no other member of js than those it looks at.             *)
LEMMA LiveFromSame ==
    ASSUME NEW js \in Seq(Socket), NEW held, NEW kept, NEW m \in 1..(Len(js) + 1),
           \A k \in m..Len(js) : js[k] \in held <=> js[k] \in kept
    PROVE  LiveFrom(js, held)[m] = LiveFrom(js, kept)[m]
<1> DEFINE L == Len(js)
           Good == {n \in 1..(L + 1) :
                      n >= m => LiveFrom(js, held)[n] = LiveFrom(js, kept)[n]}
<1>1. L \in Nat
  OBVIOUS
<1>2. L + 1 \in Good
  <2>1. LiveFrom(js, held)[L + 1] = <<>> /\ LiveFrom(js, kept)[L + 1] = <<>>
    BY LiveFromAt
  <2> QED
    BY <1>1, <2>1
<1>3. ASSUME NEW n \in 1..L, n + 1 \in Good
      PROVE  n \in Good
  <2> SUFFICES ASSUME n >= m PROVE LiveFrom(js, held)[n] = LiveFrom(js, kept)[n]
    BY <1>1
  <2>1. LiveFrom(js, held)[n + 1] = LiveFrom(js, kept)[n + 1]
    BY <1>1, <1>3
  <2>2. js[n] \in held <=> js[n] \in kept
    BY <1>1
  <2> QED
    <3>1. LiveFrom(js, held)[n] = IF js[n] \in held
                                  THEN <<js[n]>> \o LiveFrom(js, held)[n + 1]
                                  ELSE LiveFrom(js, held)[n + 1]
      BY LiveFromAt
    <3>2. LiveFrom(js, kept)[n] = IF js[n] \in kept
                                  THEN <<js[n]>> \o LiveFrom(js, kept)[n + 1]
                                  ELSE LiveFrom(js, kept)[n + 1]
      BY LiveFromAt
    <3> QED
      BY <2>1, <2>2, <3>1, <3>2
<1>4. \A n \in 1..(L + 1) : n \in Good
  <2> HIDE DEF Good, L
  <2> QED
    BY <1>1, <1>2, <1>3, Downwards
<1> QED
  BY <1>4

(* It leaves out nothing when every node holds a job.                      *)
LEMMA LiveFromAll ==
    ASSUME NEW js \in Seq(Socket), NEW held, \A k \in 1..Len(js) : js[k] \in held
    PROVE  LiveFrom(js, held)[1] = js
<1> DEFINE L == Len(js)
           Good == {n \in 1..(L + 1) : LiveFrom(js, held)[n] = SubSeq(js, n, L)}
<1>1. L \in Nat
  OBVIOUS
<1>2. L + 1 \in Good
  <2>1. LiveFrom(js, held)[L + 1] = <<>>
    BY LiveFromAt
  <2>2. SubSeq(js, L + 1, L) = <<>>
    BY <1>1, SubSeqEmpty
  <2>3. LiveFrom(js, held)[L + 1] = SubSeq(js, L + 1, L)
    BY <2>1, <2>2, Zenon
  <2>4. L + 1 \in 1..(L + 1)
    BY <1>1
  <2> QED
    BY <2>3, <2>4, Zenon
<1>3. ASSUME NEW n \in 1..L, n + 1 \in Good
      PROVE  n \in Good
  <2>1. LiveFrom(js, held)[n] = <<js[n]>> \o LiveFrom(js, held)[n + 1]
    BY LiveFromAt
  <2>2. SubSeq(js, n, L) = <<js[n]>> \o SubSeq(js, n + 1, L)
    BY <1>1, SubSeqRecursiveFirst
  <2> QED
    BY <1>1, <1>3, <2>1, <2>2
<1>4. 1 \in Good
  <2> HIDE DEF Good, L
  <2> QED
    BY <1>1, <1>2, <1>3, Downwards
<1> QED
  BY <1>4, SubSeqFull

-----------------------------------------------------------------------------
(* What the locks need to be typed: every step looks up and sets the       *)
(* place of a thread that exists.                                          *)
LocksTyped ==
    /\ pc \in [Thread -> {"idle", "lockLock", "unblock", "lockList", "edit",
                          "collect", "poll", "run", "sweep", "close"}]
    /\ call \in [Caller -> [op : Op, socket : Socket, stage : Stage]]
    /\ stage \in [Socket -> Stage]
    /\ life \in [Socket -> {"new", "open", "closed"}]

LocksInv == LocksTyped /\ LockersAgree

USE ThreadsAssumption

LEMMA LocksTypedInit == Init => LocksTyped
  BY DEF Init, LocksTyped, Op, Stage

(* A call that begins.                                                     *)
LEMMA BeginTyped ==
    ASSUME LocksTyped, NEW c \in Caller, NEW s \in Socket, NEW op \in Op,
           NEW j \in Stage, Begin(c, op, s, j), life' \in [Socket -> {"new", "open", "closed"}]
    PROVE  LocksTyped'
<1>1. /\ pc' = [pc EXCEPT ![c] = "lockLock"] /\ stage' = stage
      /\ call' = [call EXCEPT ![c] = [op |-> op, socket |-> s, stage |-> j]]
  BY DEF Begin, nodes
<1>2. [op |-> op, socket |-> s, stage |-> j] \in [op : Op, socket : Socket, stage : Stage]
  OBVIOUS
<1> QED
  BY <1>1, <1>2 DEF LocksTyped, Thread

LEMMA LocksTypedNext == LocksTyped /\ [Next]_vars => LocksTyped'
<1> SUFFICES ASSUME LocksTyped, [Next]_vars PROVE LocksTyped'
  OBVIOUS
<1> USE DEF LocksTyped
<1>1. CASE UNCHANGED vars
  BY <1>1 DEF vars
<1>2. ASSUME NEW c \in Caller, NEW s \in Socket,
             Open(c, s) \/ SetJob(c, s) \/ Accept(c, s) \/ Close(c, s)
      PROVE  LocksTyped'
  <2>0. /\ "connecting" \in Stage /\ "serving" \in Stage /\ "shaking" \in Stage
        /\ stage[s] \in Stage
        /\ {"add", "drop", "free", "close"} \subseteq Op
    BY DEF Stage, Op
  <2>1. life' \in [Socket -> {"new", "open", "closed"}]
    BY <1>2 DEF Open, SetJob, Accept, Close, sockets
  <2>2. CASE \E op \in Op, j \in Stage : Begin(c, op, s, j)
    BY <2>1, <2>2, BeginTyped
  <2>3. CASE Open(c, s)
    BY <2>0, <2>2, <2>3 DEF Open
  <2>4. CASE SetJob(c, s)
    BY <2>0, <2>2, <2>4 DEF SetJob
  <2>5. CASE Accept(c, s)
    BY <2>0, <2>2, <2>5 DEF Accept, nodes
  <2>6. CASE Close(c, s)
    BY <2>0, <2>2, <2>6 DEF Close
  <2> QED
    BY <1>2, <2>3, <2>4, <2>5, <2>6
<1>3. ASSUME NEW t \in Thread, LockJobListLock(t) \/ LockJobList(t)
      PROVE  LocksTyped'
  BY <1>3 DEF LockJobListLock, LockJobList, sockets, nodes
<1>4. ASSUME NEW c \in Caller, UnblockPoll(c)
      PROVE  LocksTyped'
  BY <1>4 DEF UnblockPoll, sockets, nodes, Thread
<1>5. ASSUME NEW c \in Caller, Edit(c)
      PROVE  LocksTyped'
  <2>1. stage' \in [Socket -> Stage]
    BY <1>5 DEF Edit, AddJob, RemoveJob
  <2>2. pc' \in [Thread -> {"idle", "lockLock", "unblock", "lockList", "edit",
                            "collect", "poll", "run", "sweep", "close"}]
        /\ life' \in [Socket -> {"new", "open", "closed"}]
    BY <1>5 DEF Edit, Return, Thread
  <2>3. call' \in [Caller -> [op : Op, socket : Socket, stage : Stage]]
    BY <1>5 DEF Edit, Return, Op
  <2> QED
    BY <2>1, <2>2, <2>3
<1>6. CASE WaitForJobs \/ Collect \/ Poll \/ ListenError \/ RunDone \/ Sweep
  BY <1>6 DEF WaitForJobs, Collect, Poll, ListenError, RunDone, Sweep, Goto,
              sockets, nodes, Thread
<1>7. CASE SkipDead
  BY <1>7 DEF SkipDead, sockets, nodes
<1>8. CASE RunJob
  BY <1>8 DEF RunJob, KeepJob, ReplaceJob, EndJob, Stage
<1> QED
  BY <1>1, <1>2, <1>3, <1>4, <1>5, <1>6, <1>7, <1>8
     DEF Next, ServiceStep, CallStep, Thread

-----------------------------------------------------------------------------
LEMMA LocksInit == Init => LocksInv
  BY LocksTypedInit DEF Init, LocksInv, LockersAgree, InList

LEMMA LocksNext == LocksInv /\ [Next]_vars => LocksInv'
<1> SUFFICES ASSUME LocksInv, [Next]_vars PROVE LockersAgree'
  BY LocksTypedNext DEF LocksInv
<1> USE DEF LocksInv, LocksTyped, LockersAgree, InList
<1>1. CASE UNCHANGED vars
  BY <1>1 DEF vars
<1>2. ASSUME NEW c \in Caller, NEW s \in Socket,
             Open(c, s) \/ SetJob(c, s) \/ Accept(c, s) \/ Close(c, s)
      PROVE  LockersAgree'
  BY <1>2 DEF Open, SetJob, Accept, Close, Begin, Thread
<1>3. ASSUME NEW t \in Thread, LockJobListLock(t)
      PROVE  LockersAgree'
  BY <1>3 DEF LockJobListLock, Thread
<1>4. ASSUME NEW t \in Thread, LockJobList(t)
      PROVE  LockersAgree'
  BY <1>4 DEF LockJobList, Thread
<1>5. ASSUME NEW c \in Caller, UnblockPoll(c)
      PROVE  LockersAgree'
  BY <1>5 DEF UnblockPoll, Thread
<1>6. ASSUME NEW c \in Caller, Edit(c)
      PROVE  LockersAgree'
  BY <1>6 DEF Edit, Return, UnlockJobList, Thread
<1>7. CASE WaitForJobs \/ Collect \/ Poll \/ ListenError \/ RunDone
  BY <1>7 DEF WaitForJobs, Collect, Poll, ListenError, RunDone, Goto, At, Thread
<1>8. CASE SkipDead \/ RunJob
  BY <1>8 DEF SkipDead, RunJob
<1>9. CASE Sweep
  BY <1>9 DEF Sweep, UnlockJobList, Goto, At, Thread
<1> QED
  BY <1>1, <1>2, <1>3, <1>4, <1>5, <1>6, <1>7, <1>8, <1>9
     DEF Next, ServiceStep, CallStep, Thread

(* The asserts at SocketMultiplexer.cpp:280 and 302 hold, hence at most    *)
(* one thread at a time edits, polls or walks the job list.                *)
THEOREM ListExclusive == Spec => []LockersAgree
<1>1. LocksInv => LockersAgree
  BY DEF LocksInv
<1> QED
  BY LocksInit, LocksNext, <1>1, PTL DEF Spec

-----------------------------------------------------------------------------
(* The nodes, the entries and the places of the loop that walks them.      *)
NodesTyped ==
    /\ jobs \in Seq(Socket) /\ Distinct(jobs)
    /\ live \subseteq {jobs[i] : i \in DOMAIN jobs}
    /\ pfds \in Seq(Socket)
    /\ cursor \in [node : Nat, entry : Nat]
    /\ At("run") => /\ cursor.node \in 1..(Len(jobs) + 1)
                    /\ cursor.entry \in 1..(Len(pfds) + 1)

(* What m_update stands for: the entries collected last are those of the   *)
(* jobs as they are, unless it says that they have changed since.          *)
UpdateTells == ~update => pfds = Live(jobs)

EntriesOk  == NodesTyped /\ UpdateTells /\ EntriesMatchJobs
EntriesInv == LocksInv /\ EntriesOk

LEMMA EntriesInit == Init => EntriesInv
<1> SUFFICES ASSUME Init PROVE EntriesOk
  BY LocksInit DEF EntriesInv
<1>1. jobs = <<>> /\ pfds = <<>> /\ live = {} /\ pc[Service] = "idle"
  BY DEF Init, Thread
<1>2. Live(jobs) = <<>>
  <2>1. <<>> \in Seq(Socket) /\ Len(<<>>) = 0
    OBVIOUS
  <2>2. LiveFrom(<<>>, live)[Len(<<>>) + 1] = <<>>
    BY <2>1, LiveFromAt
  <2> QED
    BY <1>1, <2>1, <2>2 DEF Live
<1>3. NodesTyped
  BY <1>1 DEF Init, NodesTyped, Distinct, At
<1> QED
  BY <1>1, <1>2, <1>3 DEF EntriesOk, UpdateTells, EntriesMatchJobs, At

(* A step that touches neither the nodes nor the entries.                  *)
LEMMA NodesUntouched ==
    ASSUME EntriesOk, UNCHANGED <<nodes, update, polling>>,
           pc'[Service] \in {"poll", "run"} => pc'[Service] = pc[Service]
    PROVE  EntriesOk'
<1>1. /\ jobs' = jobs /\ live' = live /\ update' = update
      /\ pfds' = pfds /\ cursor' = cursor
  BY DEF nodes, polling
<1> QED
  BY <1>1 DEF EntriesOk, NodesTyped, UpdateTells, EntriesMatchJobs, Live, At

LEMMA EditKeepsEntries ==
    ASSUME EntriesInv, NEW c \in Caller, Edit(c)
    PROVE  EntriesOk'
<1> DEFINE s == call[c].socket
<1>0. /\ c # Service /\ pc[c] = "edit" /\ s \in Socket
      /\ list = c
      /\ UNCHANGED polling
  BY DEF Edit, EntriesInv, LocksInv, LocksTyped, LockersAgree, InList, Thread
<1>1. pc'[Service] = pc[Service] /\ pc[Service] \notin {"poll", "run"}
  BY <1>0 DEF Edit, Return, EntriesInv, LocksInv, LocksTyped, LockersAgree, InList,
              Thread
<1>2. jobs \in Seq(Socket) /\ Distinct(jobs) /\ Len(jobs) \in Nat
      /\ live \subseteq {jobs[i] : i \in DOMAIN jobs}
  BY DEF EntriesInv, EntriesOk, NodesTyped
<1>3. ~At("poll")' /\ ~At("run")'
  BY <1>1 DEF At
<1>4. CASE call[c].op = "add" /\ ~Known(s)
  <2>1. jobs' = Append(jobs, s) /\ live' = live \cup {s} /\ update' = TRUE
    BY <1>4 DEF Edit, AddJob
  <2>2. /\ jobs' \in Seq(Socket) /\ Len(jobs') = Len(jobs) + 1
        /\ \A i \in 1..Len(jobs) : jobs'[i] = jobs[i]
        /\ jobs'[Len(jobs) + 1] = s
        /\ DOMAIN jobs' = 1..(Len(jobs) + 1) /\ DOMAIN jobs = 1..Len(jobs)
    BY <1>0, <1>2, <2>1
  <2>3. \A i \in 1..Len(jobs) : jobs[i] # s
    BY <1>4, <2>2 DEF Known
  <2>4. Distinct(jobs')
    BY <1>2, <2>2, <2>3 DEF Distinct
  <2>5. live' \subseteq {jobs'[i] : i \in DOMAIN jobs'}
    <3>1. \A x \in live : \E i \in 1..Len(jobs) : x = jobs[i]
      BY <1>2, <2>2
    <3>2. \A x \in live' : \E i \in 1..(Len(jobs) + 1) : x = jobs'[i]
      BY <1>2, <2>1, <2>2, <3>1
    <3> QED
      BY <2>2, <3>2
  <2> QED
    BY <1>0, <1>3, <2>1, <2>2, <2>4, <2>5
       DEF polling, EntriesInv, EntriesOk, NodesTyped, UpdateTells, EntriesMatchJobs
<1>5. CASE call[c].op = "add" /\ Known(s)
  <2>1. jobs' = jobs /\ live' = live \cup {s} /\ update' = TRUE
    BY <1>5 DEF Edit, AddJob
  <2>2. live' \subseteq {jobs[i] : i \in DOMAIN jobs}
    BY <1>2, <1>5, <2>1 DEF Known
  <2> QED
    BY <1>0, <1>3, <2>1, <2>2
       DEF polling, EntriesInv, EntriesOk, NodesTyped, UpdateTells, EntriesMatchJobs
<1>6. CASE call[c].op # "add"
  <2>1. jobs' = jobs /\ live' = live \ {s} /\ update' = (update \/ s \in live)
    BY <1>6 DEF Edit, RemoveJob
  <2>2. ~update' => ~update /\ live' = live
    BY <2>1
  <2> QED
    BY <1>0, <1>2, <1>3, <2>1, <2>2
       DEF polling, EntriesInv, EntriesOk, NodesTyped, UpdateTells,
           EntriesMatchJobs, Live
<1> QED
  BY <1>4, <1>5, <1>6

(* Collecting: the entries are those of the jobs that are there.           *)
LEMMA CollectKeepsEntries ==
    ASSUME EntriesInv, Collect
    PROVE  EntriesOk'
<1>1. /\ jobs \in Seq(Socket) /\ Distinct(jobs) /\ Len(jobs) \in Nat
      /\ UpdateTells
  BY DEF EntriesInv, EntriesOk, NodesTyped
<1>2. Live(jobs) \in Seq(Socket)
  BY <1>1, LiveFromIsPart DEF IsPart, Live
<1>3. UNCHANGED <<jobs, live, cursor>> /\ pfds' = Live(jobs)
  BY <1>1 DEF Collect, UpdateTells, nodes
<1>4. pc'[Service] = "poll"
  BY DEF Collect, Goto, EntriesInv, LocksInv, LocksTyped, Thread
<1> QED
  BY <1>2, <1>3, <1>4
     DEF EntriesInv, EntriesOk, NodesTyped, UpdateTells, EntriesMatchJobs, Live, At

LEMMA PollKeepsEntries ==
    ASSUME EntriesInv, Poll
    PROVE  EntriesOk'
<1>1. /\ jobs \in Seq(Socket) /\ Len(jobs) \in Nat
      /\ pfds \in Seq(Socket) /\ Len(pfds) \in Nat
      /\ pfds = Live(jobs)
  BY DEF EntriesInv, EntriesOk, NodesTyped, EntriesMatchJobs, Poll
<1>2. /\ UNCHANGED <<jobs, live, update, pfds>>
      /\ cursor' = [node |-> 1, entry |-> 1]
  BY DEF Poll, nodes
<1>3. pc'[Service] # "poll"
  BY DEF Poll, Goto, EntriesInv, LocksInv, LocksTyped, Thread
<1>4. SubSeq(pfds, 1, Len(pfds)) = pfds
  BY <1>1, SubSeqFull
<1> QED
  BY <1>1, <1>2, <1>3, <1>4
     DEF EntriesInv, EntriesOk, NodesTyped, UpdateTells, EntriesMatchJobs, Live, At

LEMMA SkipDeadKeepsEntries ==
    ASSUME EntriesInv, SkipDead
    PROVE  EntriesOk'
<1> DEFINE n == cursor.node
<1>1. /\ jobs \in Seq(Socket) /\ Len(jobs) \in Nat /\ Len(pfds) \in Nat
      /\ n \in 1..Len(jobs) /\ cursor.entry \in 1..Len(pfds)
      /\ jobs[n] \notin live
  BY DEF EntriesInv, EntriesOk, NodesTyped, SkipDead, MoreJobs, Current
<1>2. /\ UNCHANGED <<jobs, live, update, pfds>>
      /\ cursor' \in [node : Nat, entry : Nat]
      /\ cursor'.node = n + 1 /\ cursor'.entry = cursor.entry
  BY DEF SkipDead, nodes, EntriesInv, EntriesOk, NodesTyped
<1>3. LiveFrom(jobs, live)[n] = LiveFrom(jobs, live)[n + 1]
  <2>1. jobs \in Seq(Socket) /\ n \in 1..Len(jobs) /\ jobs[n] \notin live
    BY <1>1
  <2> HIDE DEF n
  <2> QED
    BY <2>1, LiveFromSkips
<1>4. pc' = pc /\ pc[Service] = "run"
  BY DEF SkipDead, At
<1>5. SubSeq(pfds, cursor.entry, Len(pfds)) = LiveFrom(jobs, live)[n + 1]
  BY <1>3, <1>4 DEF EntriesInv, EntriesOk, EntriesMatchJobs, At
<1> QED
  BY <1>1, <1>2, <1>4, <1>5
     DEF EntriesInv, EntriesOk, NodesTyped, UpdateTells, EntriesMatchJobs, Live, At

(* A job that runs is that of the entry the loop is at, and whatever       *)
(* becomes of it, those ahead of it stay as they are.                      *)
LEMMA RunJobKeepsEntries ==
    ASSUME EntriesInv, RunJob
    PROVE  EntriesOk'
<1> DEFINE n == cursor.node
           e == cursor.entry
           L == Len(jobs)
<1>1. /\ jobs \in Seq(Socket) /\ L \in Nat /\ Distinct(jobs)
      /\ pfds \in Seq(Socket) /\ Len(pfds) \in Nat
      /\ n \in 1..L /\ e \in 1..Len(pfds)
      /\ jobs[n] \in live
  BY DEF EntriesInv, EntriesOk, NodesTyped, RunJob, MoreJobs, Current
<1>2. /\ UNCHANGED <<jobs, pfds>>
      /\ cursor' = [node |-> n + 1, entry |-> e + 1]
      /\ (live' = live /\ update' = update) \/ update' = TRUE
      /\ live' \in {live, live \ {jobs[n]}}
      /\ pc' = pc /\ pc[Service] = "run"
  BY DEF RunJob, KeepJob, ReplaceJob, EndJob, Current, At
<1>3. SubSeq(pfds, e, Len(pfds)) = <<pfds[e]>> \o SubSeq(pfds, e + 1, Len(pfds))
  <2>1. e \in 1..Len(pfds) /\ Len(pfds) \in e..Len(pfds)
    BY <1>1
  <2> HIDE DEF e
  <2> QED
    BY <1>1, <2>1, SubSeqRecursiveFirst
<1>4. LiveFrom(jobs, live)[n] = <<jobs[n]>> \o LiveFrom(jobs, live)[n + 1]
  BY <1>1, LiveFromAt
<1>5. SubSeq(pfds, e + 1, Len(pfds)) \in Seq(Socket)
  BY <1>1
<1>6. LiveFrom(jobs, live)[n + 1] \in Seq(Socket)
  <2>1. n + 1 \in 1..(L + 1)
    BY <1>1
  <2>2. IsPart(jobs, live, n + 1, LiveFrom(jobs, live)[n + 1])
    BY <1>1, <2>1, LiveFromIsPart
  <2> QED
    BY <2>2 DEF IsPart
<1>7. SubSeq(pfds, e + 1, Len(pfds)) = LiveFrom(jobs, live)[n + 1]
  <2> DEFINE x == SubSeq(pfds, e + 1, Len(pfds))
             y == LiveFrom(jobs, live)[n + 1]
  <2>1. <<pfds[e]>> \o x = <<jobs[n]>> \o y
    BY <1>2, <1>3, <1>4 DEF EntriesInv, EntriesOk, EntriesMatchJobs, At
  <2>2. /\ x \in Seq(Socket) /\ y \in Seq(Socket)
        /\ pfds[e] \in Socket /\ jobs[n] \in Socket
    BY <1>1, <1>5, <1>6
  <2> HIDE DEF x, y
  <2>3. /\ Len(<<pfds[e]>> \o x) = 1 + Len(x)
        /\ \A i \in 1..Len(x) : (<<pfds[e]>> \o x)[i + 1] = x[i]
    BY <2>2
  <2>4. /\ Len(<<jobs[n]>> \o y) = 1 + Len(y)
        /\ \A i \in 1..Len(y) : (<<jobs[n]>> \o y)[i + 1] = y[i]
    BY <2>2
  <2>5. Len(x) = Len(y) /\ Len(x) \in Nat
    BY <2>1, <2>2, <2>3, <2>4
  <2>6. \A i \in 1..Len(x) : x[i] = y[i]
    BY <2>1, <2>3, <2>4, <2>5
  <2>7. x = y
    BY <2>2, <2>5, <2>6, SeqEqual
  <2> QED
    BY <2>7 DEF x, y
<1>8. LiveFrom(jobs, live')[n + 1] = LiveFrom(jobs, live)[n + 1]
  <2>1. n + 1 \in 1..(L + 1)
    BY <1>1
  <2>2. \A k \in (n + 1)..L : jobs[k] \in live' <=> jobs[k] \in live
    BY <1>1, <1>2 DEF Distinct
  <2> DEFINE m == n + 1
             kept == live'
  <2>3. \A k \in m..L : jobs[k] \in kept <=> jobs[k] \in live
    BY <2>2
  <2>4. m \in 1..(L + 1)
    BY <2>1
  <2> HIDE DEF m, kept
  <2>5. LiveFrom(jobs, kept)[m] = LiveFrom(jobs, live)[m]
    BY <1>1, <2>3, <2>4, LiveFromSame
  <2> QED
    BY <2>5 DEF m, kept
<1>9. live' \subseteq {jobs[i] : i \in DOMAIN jobs}
  BY <1>2 DEF EntriesInv, EntriesOk, NodesTyped
<1>10. NodesTyped'
  BY <1>1, <1>2, <1>9 DEF NodesTyped
<1>11. UpdateTells'
  BY <1>2 DEF EntriesInv, EntriesOk, UpdateTells, Live
<1>12. EntriesMatchJobs'
  BY <1>2, <1>7, <1>8 DEF EntriesMatchJobs, At
<1> QED
  BY <1>10, <1>11, <1>12 DEF EntriesOk

(* Sweeping: nodes without a job go, which takes a new collection.         *)
LEMMA SweepKeepsEntries ==
    ASSUME EntriesInv, Sweep
    PROVE  EntriesOk'
<1>1. /\ jobs \in Seq(Socket) /\ Len(jobs) \in Nat /\ Distinct(jobs)
      /\ DOMAIN jobs = 1..Len(jobs)
      /\ live \subseteq {jobs[i] : i \in DOMAIN jobs}
  BY DEF EntriesInv, EntriesOk, NodesTyped
<1>2. /\ jobs' = Live(jobs)
      /\ update' = (update \/ \E i \in DOMAIN jobs : jobs[i] \notin live)
      /\ UNCHANGED <<live, pfds, cursor>>
  BY DEF Sweep, polling
<1>3. pc'[Service] = "idle"
  BY DEF Sweep, Goto, EntriesInv, LocksInv, LocksTyped, Thread
<1>4. IsPart(jobs, live, 1, jobs')
  <2>1. 1 \in 1..(Len(jobs) + 1)
    BY <1>1
  <2>2. IsPart(jobs, live, 1, LiveFrom(jobs, live)[1])
    BY <1>1, <2>1, LiveFromIsPart
  <2> QED
    BY <1>2, <2>2 DEF Live
<1>5. jobs' \in Seq(Socket) /\ Distinct(jobs')
  BY <1>4 DEF IsPart, Distinct
<1>6. live' \subseteq {jobs'[i] : i \in DOMAIN jobs'}
  <2>1. DOMAIN jobs' = 1..Len(jobs')
    BY <1>5
  <2>2. \A x \in live : \E k \in 1..Len(jobs) : x = jobs[k]
    BY <1>1
  <2>3. \A x \in live : \E i \in 1..Len(jobs') : x = jobs'[i]
    BY <1>4, <2>2 DEF IsPart
  <2> QED
    BY <1>2, <2>1, <2>3
<1>7. UpdateTells'
  <2> SUFFICES ASSUME ~update' PROVE pfds' = Live(jobs)'
    BY DEF UpdateTells
  <2>1. pfds = Live(jobs)
    BY <1>2 DEF EntriesInv, EntriesOk, UpdateTells
  <2>2. Live(jobs) = jobs
    BY <1>1, <1>2, LiveFromAll DEF Live
  <2> QED
    BY <1>2, <2>1, <2>2 DEF Live
<1> QED
  BY <1>2, <1>3, <1>5, <1>6, <1>7
     DEF EntriesInv, EntriesOk, NodesTyped, EntriesMatchJobs, At

LEMMA EntriesNext == EntriesInv /\ [Next]_vars => EntriesInv'
<1> SUFFICES ASSUME EntriesInv, [Next]_vars PROVE EntriesOk'
  BY LocksNext DEF EntriesInv
<1>0. LocksTyped /\ EntriesOk
  BY DEF EntriesInv, LocksInv
<1>1. CASE UNCHANGED vars
  BY <1>0, <1>1, NodesUntouched DEF vars, nodes, polling
<1>2. ASSUME NEW c \in Caller, NEW s \in Socket,
             Open(c, s) \/ SetJob(c, s) \/ Accept(c, s) \/ Close(c, s)
      PROVE  EntriesOk'
  <2>1. UNCHANGED <<nodes, update, polling>> /\ pc'[Service] = pc[Service]
    BY <1>0, <1>2 DEF Open, SetJob, Accept, Close, Begin, LocksTyped, Thread
  <2> QED
    BY <1>0, <2>1, NodesUntouched
<1>3. ASSUME NEW c \in Caller,
             LockJobListLock(c) \/ UnblockPoll(c) \/ LockJobList(c)
      PROVE  EntriesOk'
  <2>1. UNCHANGED <<nodes, update, polling>> /\ pc'[Service] = pc[Service]
    BY <1>0, <1>3 DEF LockJobListLock, UnblockPoll, LockJobList, LocksTyped, Thread
  <2> QED
    BY <1>0, <2>1, NodesUntouched
<1>4. CASE LockJobListLock(Service) \/ LockJobList(Service)
  <2>1. UNCHANGED <<nodes, update, polling>> /\ pc'[Service] \notin {"poll", "run"}
    BY <1>0, <1>4 DEF LockJobListLock, LockJobList, LocksTyped, Thread
  <2> QED
    BY <1>0, <2>1, NodesUntouched
<1>5. CASE WaitForJobs \/ ListenError \/ RunDone
  <2>1. UNCHANGED <<nodes, update, polling>> /\ pc'[Service] \notin {"poll", "run"}
    BY <1>0, <1>5 DEF WaitForJobs, ListenError, RunDone, Goto, LocksTyped, Thread
  <2> QED
    BY <1>0, <2>1, NodesUntouched
<1> QED
  BY <1>1, <1>2, <1>3, <1>4, <1>5, EditKeepsEntries, CollectKeepsEntries,
     PollKeepsEntries, SkipDeadKeepsEntries, RunJobKeepsEntries, SweepKeepsEntries
     DEF Next, ServiceStep, CallStep

(* Whatever the threads add, replace and remove, and in whatever order,    *)
(* the service thread runs each job with the poll result of its own        *)
(* socket: the entries it has not looked at are those of the jobs ahead.   *)
THEOREM EntriesAreTheJobs == Spec => []EntriesMatchJobs
<1>1. EntriesInv => EntriesMatchJobs
  BY DEF EntriesInv, EntriesOk
<1> QED
  BY EntriesInit, EntriesNext, <1>1, PTL DEF Spec

-----------------------------------------------------------------------------
(* The other variables.                                                    *)
OthersTyped ==
    /\ lockLock \in Holder /\ list \in Holder
    /\ update \in BOOLEAN /\ jobsReady \in BOOLEAN /\ unblocked \in BOOLEAN
    /\ ready \subseteq Socket
    /\ mutex \in [Socket -> Holder]
    /\ connecting \subseteq Socket

LEMMA OthersInit == Init => OthersTyped
<1> SUFFICES ASSUME Init PROVE OthersTyped
  OBVIOUS
<1>1. /\ lockLock = NoOne /\ list = NoOne /\ ready = {} /\ connecting = {}
      /\ update = FALSE /\ jobsReady = FALSE /\ unblocked = FALSE
      /\ mutex = [s \in Socket |-> NoOne]
  BY DEF Init
<1> QED
  BY <1>1 DEF OthersTyped, Holder

LEMMA OthersNext == EntriesInv /\ OthersTyped /\ [Next]_vars => OthersTyped'
<1> SUFFICES ASSUME EntriesInv, OthersTyped, [Next]_vars PROVE OthersTyped'
  OBVIOUS
<1> USE DEF OthersTyped
<1>0. /\ LocksTyped /\ NodesTyped /\ pfds \in Seq(Socket)
      /\ {pfds[i] : i \in DOMAIN pfds} \subseteq Socket
  BY DEF EntriesInv, LocksInv, EntriesOk, NodesTyped
<1>1. CASE UNCHANGED vars
  BY <1>1 DEF vars
<1>2. ASSUME NEW c \in Caller, NEW s \in Socket,
             Open(c, s) \/ SetJob(c, s) \/ Accept(c, s) \/ Close(c, s)
      PROVE  OthersTyped'
  BY <1>2 DEF Open, SetJob, Accept, Close, Begin, Take, sockets, polling,
              Holder, Thread
<1>3. ASSUME NEW t \in Thread, LockJobListLock(t) \/ LockJobList(t)
      PROVE  OthersTyped'
  BY <1>3 DEF LockJobListLock, LockJobList, sockets, polling, Holder
<1>4. ASSUME NEW c \in Caller, UnblockPoll(c)
      PROVE  OthersTyped'
  BY <1>4 DEF UnblockPoll, sockets, polling
<1>5. ASSUME NEW c \in Caller, Edit(c)
      PROVE  OthersTyped'
  <2>1. call[c].socket \in Socket
    BY <1>0 DEF LocksTyped
  <2>2. update' \in BOOLEAN
    BY <1>5 DEF Edit, AddJob, RemoveJob
  <2>3. mutex' \in [Socket -> Holder] /\ connecting' \subseteq Socket
    BY <1>5, <2>1 DEF Edit, Return, Holder
  <2>4. list' \in Holder /\ jobsReady' \in BOOLEAN
    BY <1>5 DEF Edit, UnlockJobList, Holder
  <2> QED
    BY <1>5, <2>2, <2>3, <2>4 DEF Edit, polling
<1>6. CASE WaitForJobs \/ Collect \/ RunDone \/ SkipDead
  BY <1>6 DEF WaitForJobs, Collect, RunDone, SkipDead, sockets, polling
<1>7. CASE Poll
  BY <1>0, <1>7 DEF Poll, sockets
<1>8. CASE RunJob
  <2>1. Current \in Socket
    BY <1>0, <1>8 DEF RunJob, MoreJobs, Current, NodesTyped
  <2> QED
    BY <1>8, <2>1 DEF RunJob, KeepJob, ReplaceJob, EndJob
<1>9. CASE ListenError
  BY <1>9 DEF ListenError, Take, polling, Holder, Thread
<1>10. CASE Sweep
  BY <1>10 DEF Sweep, UnlockJobList, sockets, polling, Holder
<1> QED
  BY <1>1, <1>2, <1>3, <1>4, <1>5, <1>6, <1>7, <1>8, <1>9, <1>10
     DEF Next, ServiceStep, CallStep, Thread

(* Every variable keeps its type, and the list never holds a socket twice: *)
(* a node that addSocket finds is the only one of its socket.              *)
THEOREM TypeCorrect == Spec => []TypeOK
<1>1. EntriesInv /\ OthersTyped => TypeOK
  <2> SUFFICES ASSUME EntriesInv, OthersTyped PROVE TypeOK
    OBVIOUS
  <2>1. LocksTyped /\ NodesTyped
    BY DEF EntriesInv, LocksInv, EntriesOk
  <2>2. \A i, j \in DOMAIN jobs : jobs[i] = jobs[j] => i = j
    BY <2>1 DEF NodesTyped, Distinct
  <2> QED
    BY <2>1, <2>2 DEF LocksTyped, NodesTyped, OthersTyped, TypeOK
<1> QED
  BY EntriesInit, EntriesNext, OthersInit, OthersNext, <1>1, PTL DEF Spec

-----------------------------------------------------------------------------
(* The stream of a connected socket.                                       *)
HIDE ThreadsAssumption
USE StreamAssumption

(* Consecutive numbers: n of them, after a.                                *)
Run(a, n) == [k \in 1..n |-> a + k]

LEMMA RunIs ==
    ASSUME NEW a \in Nat, NEW n \in Nat
    PROVE  /\ Run(a, n) \in Seq(Nat) /\ Len(Run(a, n)) = n
           /\ \A k \in 1..n : Run(a, n)[k] = a + k
           /\ Run(a, n) = <<>> <=> n = 0
<1>1. Run(a, n) \in Seq(Nat) /\ Len(Run(a, n)) = n
  BY DEF Run
<1>2. \A k \in 1..n : Run(a, n)[k] = a + k
  BY DEF Run
<1> QED
  BY <1>1, <1>2, EmptySeq

LEMMA ConcatParts ==
    ASSUME NEW S, NEW p \in Seq(S), NEW e \in Seq(S)
    PROVE  /\ p \o e \in Seq(S) /\ Len(p \o e) = Len(p) + Len(e)
           /\ Len(p) \in Nat /\ Len(e) \in Nat
           /\ \A k \in 1..Len(p) : (p \o e)[k] = p[k]
           /\ \A k \in 1..Len(e) : (p \o e)[Len(p) + k] = e[k]
  OBVIOUS

LEMMA RunJoin ==
    ASSUME NEW a \in Nat, NEW S, NEW p \in Seq(S), NEW q \in Seq(S), NEW t \in Seq(S),
           Len(t) = Len(p) + Len(q)
    PROVE  /\ \A k \in 1..Len(p) : p[k] = a + k
           /\ \A k \in 1..Len(q) : q[k] = a + Len(p) + k
           /\ \A k \in 1..Len(t) : t[k] = a + k
           => p \o q = t
<1>1. /\ p \o q \in Seq(S) /\ Len(p \o q) = Len(p) + Len(q)
      /\ Len(p) \in Nat /\ Len(q) \in Nat
      /\ \A k \in 1..Len(p) : (p \o q)[k] = p[k]
      /\ \A k \in 1..Len(q) : (p \o q)[Len(p) + k] = q[k]
  BY ConcatParts
<1> DEFINE s == p \o q
           m == Len(p)
           n == Len(q)
<1> HIDE DEF s, m, n
<1>2. /\ s \in Seq(S) /\ Len(s) = m + n /\ m \in Nat /\ n \in Nat /\ Len(t) = m + n
      /\ \A k \in 1..m : s[k] = p[k]
      /\ \A k \in 1..n : s[m + k] = q[k]
  BY <1>1 DEF s, m, n
<1>3. ASSUME \A k \in 1..m : p[k] = a + k,
             \A k \in 1..n : q[k] = a + m + k,
             \A k \in 1..Len(t) : t[k] = a + k,
             NEW k \in 1..(m + n)
      PROVE  s[k] = t[k]
  <2>1. CASE k <= m
    BY <2>1, <1>2, <1>3
  <2>2. CASE k > m
    <3>1. k - m \in 1..n /\ m + (k - m) = k
      BY <2>2, <1>2
    <3>2. s[k] = q[k - m]
      BY <3>1, <1>2
    <3>3. q[k - m] = a + m + (k - m)
      BY <3>1, <1>3
    <3> QED
      BY <3>2, <3>3, <1>2, <1>3
  <2> QED
    BY <2>1, <2>2, <1>2
<1>4. ASSUME \A k \in 1..m : p[k] = a + k,
             \A k \in 1..n : q[k] = a + m + k,
             \A k \in 1..Len(t) : t[k] = a + k
      PROVE  s = t
  <2>1. \A k \in 1..Len(s) : s[k] = t[k]
    BY <1>2, <1>3, <1>4
  <2> QED
    BY <2>1, <1>2, SeqEqual
<1> QED
  BY <1>4 DEF s, m, n

LEMMA RunConcat ==
    ASSUME NEW a \in Nat, NEW m \in Nat, NEW n \in Nat
    PROVE  Run(a, m) \o Run(a + m, n) = Run(a, m + n)
<1>1. a + m \in Nat /\ m + n \in Nat
  OBVIOUS
<1> DEFINE p == Run(a, m)
           q == Run(a + m, n)
           t == Run(a, m + n)
<1>2. p \in Seq(Nat) /\ Len(p) = m /\ \A k \in 1..m : p[k] = a + k
  BY RunIs
<1>3. q \in Seq(Nat) /\ Len(q) = n /\ \A k \in 1..n : q[k] = a + m + k
  BY <1>1, RunIs
<1>4. t \in Seq(Nat) /\ Len(t) = m + n /\ \A k \in 1..(m + n) : t[k] = a + k
  BY <1>1, RunIs
<1> HIDE DEF p, q, t
<1>5. p \o q = t
  <2>1. Len(t) = Len(p) + Len(q)
    BY <1>2, <1>3, <1>4
  <2>2. /\ \A k \in 1..Len(p) : p[k] = a + k
        /\ \A k \in 1..Len(q) : q[k] = a + Len(p) + k
        /\ \A k \in 1..Len(t) : t[k] = a + k
    BY <1>2, <1>3, <1>4
  <2> QED
    BY <2>1, <2>2, <1>2, <1>3, <1>4, RunJoin, Zenon
<1> QED
  BY <1>5 DEF p, q, t

LEMMA RunRest ==
    ASSUME NEW a \in Nat, NEW m \in Nat, NEW n \in Nat, n <= m
    PROVE  /\ SubSeq(Run(a, m), n + 1, m) = Run(a + n, m - n)
           /\ SubSeq(Run(a, m), 1, n) = Run(a, n)
<1> DEFINE r == Run(a, m)
           s == SubSeq(r, n + 1, m)
           t == Run(a + n, m - n)
           u == SubSeq(r, 1, n)
           v == Run(a, n)
<1>1. r \in Seq(Nat) /\ Len(r) = m /\ \A k \in 1..m : r[k] = a + k
  BY RunIs
<1>2. m - n \in Nat /\ a + n \in Nat
  OBVIOUS
<1>3. t \in Seq(Nat) /\ Len(t) = m - n /\ \A k \in 1..(m - n) : t[k] = a + n + k
  BY <1>2, RunIs
<1>4. v \in Seq(Nat) /\ Len(v) = n /\ \A k \in 1..n : v[k] = a + k
  BY RunIs
<1> HIDE DEF r, t, v
<1>5. s \in Seq(Nat) /\ Len(s) = m - n /\ \A k \in 1..(m - n) : s[k] = r[n + k]
  BY <1>1, <1>2
<1>6. u \in Seq(Nat) /\ Len(u) = n /\ \A k \in 1..n : u[k] = r[k]
  BY <1>1
<1> HIDE DEF s, u
<1>7. s = t
  BY <1>1, <1>3, <1>5, SeqEqual
<1>8. u = v
  BY <1>1, <1>4, <1>6, SeqEqual
<1> QED
  BY <1>7, <1>8 DEF r, s, t, u, v

-----------------------------------------------------------------------------
Event == {"inputReady", "inputShutdown", "outputShutdown", "outputError", "flushed",
          "disconnected", "filterShutdown"}

Flags == [connected : BOOLEAN, readable : BOOLEAN, writable : BOOLEAN]

SocketState ==
    [open : Flags, in : Int, taken : Int, decoded : Int,
     fatal : BOOLEAN, out : Seq(Nat), flushed : BOOLEAN, retry : Seq(Nat),
     accepted : Seq(Nat), sends : Seq(Event), result : {"retry", "new", "break"},
     full : BOOLEAN]

(* The members of a list of events; those a step of the thread sends.      *)
EventsIn(q) == {q[k] : k \in 1..Len(q)}
Told(s) == EventsIn(s.sends)

(* What a step leaves alone of the input, and of the output.               *)
SameInput(s, t) ==
    /\ t.in = s.in /\ t.taken = s.taken /\ t.decoded = s.decoded
    /\ t.open.readable = s.open.readable
SameOutput(s, t) ==
    /\ t.out = s.out /\ t.flushed = s.flushed /\ t.retry = s.retry
    /\ t.accepted = s.accepted /\ t.open.writable = s.open.writable

LEMMA InFields ==
    ASSUME NEW s \in SocketState, NEW o \in Flags, NEW v \in Int
    PROVE  [s EXCEPT !.in = v, !.open = o] \in SocketState
  BY DEF SocketState

LEMMA InputShutFields ==
    ASSUME NEW s \in SocketState
    PROVE  LET t == InputShut(s) IN
           /\ t \in SocketState /\ SameOutput(s, t)
           /\ t.in = 0 /\ t.open.readable = FALSE
           /\ t.taken = s.taken /\ t.decoded = s.decoded /\ t.fatal = s.fatal
           /\ t.sends = s.sends
<1> DEFINE o == [s.open EXCEPT !.readable = FALSE]
           t == [s EXCEPT !.in = 0, !.open = o]
<1>1. o \in Flags /\ o.readable = FALSE /\ o.writable = s.open.writable
  BY DEF SocketState, Flags
<1>2. InputShut(s) = t
  BY DEF InputShut, SocketState, Flags
<1> HIDE DEF o
<1>3. t \in SocketState
  BY <1>1, 0 \in Int, InFields, Zenon
<1> QED
  BY <1>1, <1>2, <1>3 DEF SocketState, SameOutput

LEMMA OutputShutFields ==
    ASSUME NEW s \in SocketState
    PROVE  LET t == OutputShut(s) IN
           /\ t \in SocketState /\ SameInput(s, t)
           /\ t.open.writable = FALSE /\ t.fatal = s.fatal
           /\ t.out = <<>> /\ t.flushed = TRUE
           /\ t.retry = s.retry /\ t.accepted = s.accepted
           /\ t.sends = s.sends
<1> DEFINE o == [s.open EXCEPT !.writable = FALSE]
           t == [s EXCEPT !.out = <<>>, !.open = o, !.flushed = TRUE]
<1>1. o \in Flags /\ o.writable = FALSE /\ o.readable = s.open.readable
  BY DEF SocketState, Flags
<1>2. OutputShut(s) = t
  BY DEF OutputShut, SocketState, Flags
<1> HIDE DEF o
<1>3. t \in SocketState
  BY <1>1, EmptySeq DEF SocketState
<1> QED
  BY <1>1, <1>2, <1>3 DEF SocketState, SameInput

LEMMA ConnectedFields ==
    ASSUME NEW s \in SocketState, NEW c \in BOOLEAN
    PROVE  LET t == [s EXCEPT !.open.connected = c] IN
           /\ t \in SocketState /\ SameInput(s, t) /\ SameOutput(s, t)
           /\ t.fatal = s.fatal /\ t.sends = s.sends
<1> DEFINE t == [s EXCEPT !.open.connected = c]
<1>1. t \in SocketState
  BY DEF SocketState, Flags
<1> QED
  BY <1>1 DEF SocketState, Flags, SameInput, SameOutput

LEMMA ResultFields ==
    ASSUME NEW s \in SocketState, NEW r \in {"retry", "new", "break"}
    PROVE  LET t == [s EXCEPT !.result = r] IN
           /\ t \in SocketState /\ SameInput(s, t) /\ SameOutput(s, t)
           /\ t.fatal = s.fatal /\ t.sends = s.sends
<1> DEFINE t == [s EXCEPT !.result = r]
<1>1. t \in SocketState
  BY DEF SocketState
<1> QED
  BY <1>1 DEF SocketState, SameInput, SameOutput

LEMMA DisconnectedFields ==
    ASSUME NEW s \in SocketState
    PROVE  LET t == Disconnected(s) IN
           /\ t \in SocketState
           /\ t.in = 0 /\ t.open.readable = FALSE /\ t.open.writable = FALSE
           /\ t.taken = s.taken /\ t.decoded = s.decoded /\ t.fatal = s.fatal
           /\ t.out = <<>> /\ t.flushed = TRUE
           /\ t.retry = s.retry /\ t.accepted = s.accepted
           /\ t.sends = s.sends
<1> DEFINE u == InputShut(s)
           v == OutputShut(u)
           t == [v EXCEPT !.open.connected = FALSE]
<1>1. /\ u \in SocketState /\ SameOutput(s, u)
      /\ u.in = 0 /\ u.open.readable = FALSE
      /\ u.taken = s.taken /\ u.decoded = s.decoded /\ u.fatal = s.fatal
      /\ u.sends = s.sends
  BY InputShutFields
<1> HIDE DEF u
<1>2. /\ v \in SocketState /\ SameInput(u, v)
      /\ v.open.writable = FALSE /\ v.fatal = u.fatal
      /\ v.out = <<>> /\ v.flushed = TRUE
      /\ v.retry = u.retry /\ v.accepted = u.accepted
      /\ v.sends = u.sends
  BY <1>1, OutputShutFields
<1> HIDE DEF v
<1>3. /\ t \in SocketState /\ SameInput(v, t) /\ SameOutput(v, t)
      /\ t.fatal = v.fatal /\ t.sends = v.sends
  BY <1>2, ConnectedFields
<1>4. Disconnected(s) = t
  BY DEF Disconnected, u, v
<1> HIDE DEF t
<1> QED
  BY <1>1, <1>2, <1>3, <1>4 DEF SameInput, SameOutput

LEMMA EventsConcat ==
    ASSUME NEW p \in Seq(Event), NEW e \in Seq(Event)
    PROVE  p \o e \in Seq(Event) /\ EventsIn(p \o e) = EventsIn(p) \cup EventsIn(e)
<1> DEFINE q == p \o e
<1>1. /\ q \in Seq(Event) /\ Len(q) = Len(p) + Len(e)
      /\ \A k \in 1..Len(p) : q[k] = p[k]
      /\ \A k \in 1..Len(e) : q[Len(p) + k] = e[k]
      /\ Len(p) \in Nat /\ Len(e) \in Nat
  BY ConcatParts
<1> HIDE DEF q
<1>2. ASSUME NEW k \in 1..Len(q) PROVE q[k] \in EventsIn(p) \cup EventsIn(e)
  <2>1. CASE k <= Len(p)
    BY <2>1, <1>1 DEF EventsIn
  <2>2. CASE k > Len(p)
    <3>1. k - Len(p) \in 1..Len(e) /\ Len(p) + (k - Len(p)) = k
      BY <2>2, <1>1
    <3> QED
      BY <1>1, <3>1 DEF EventsIn
  <2> QED
    BY <2>1, <2>2, <1>1
<1>3. ASSUME NEW i \in 1..Len(p) PROVE p[i] \in EventsIn(q)
  BY <1>1 DEF EventsIn
<1>4. ASSUME NEW i \in 1..Len(e) PROVE e[i] \in EventsIn(q)
  <2>1. Len(p) + i \in 1..Len(q) /\ q[Len(p) + i] = e[i]
    BY <1>1
  <2> QED
    BY <2>1 DEF EventsIn
<1>5. EventsIn(q) = EventsIn(p) \cup EventsIn(e)
  BY <1>2, <1>3, <1>4 DEF EventsIn
<1> QED
  BY <1>1, <1>5 DEF q

LEMMA SendsFields ==
    ASSUME NEW s \in SocketState, NEW events \in Seq(Event)
    PROVE  LET t == Sends(s, events) IN
           /\ t \in SocketState /\ SameInput(s, t) /\ SameOutput(s, t)
           /\ t.fatal = s.fatal
           /\ Told(t) = Told(s) \cup EventsIn(events)
<1>1. s.sends \in Seq(Event)
  BY DEF SocketState
<1>2. s.sends \o events \in Seq(Event) /\ EventsIn(s.sends \o events) = EventsIn(s.sends) \cup EventsIn(events)
  BY <1>1, EventsConcat
<1>3. /\ Sends(s, events) \in SocketState
      /\ Sends(s, events).sends = s.sends \o events
  BY <1>2 DEF Sends, SocketState
<1> QED
  BY <1>2, <1>3 DEF Sends, SocketState, SameInput, SameOutput, Told

-----------------------------------------------------------------------------
(* What is sent, and what must be sent again.                              *)

(* The operators on sequences, under names of their own.                   *)
First(s, n) == SubSeq(s, 1, n)
After(s, n) == SubSeq(s, n + 1, Len(s))
Joined(s, t) == s \o t
Longer(s, e) == Append(s, e)
Length(s) == Len(s)

LEMMA AppendsTo ==
    ASSUME NEW p \in Seq(Nat), NEW q \in Seq(Nat), NEW y \in Nat, NEW e \in Nat,
           Len(p) = y, Len(q) = y + 1,
           \A k \in 1..y : p[k] = q[k], e = q[y + 1]
    PROVE  Append(p, e) = q
<1> DEFINE s == Append(p, e)
<1>1. /\ s \in Seq(Nat) /\ Len(s) = y + 1 /\ s[y + 1] = e
      /\ \A k \in 1..y : s[k] = p[k]
  OBVIOUS
<1> HIDE DEF s
<1>2. \A k \in 1..(y + 1) : s[k] = q[k]
  BY <1>1
<1>3. s = q
  BY <1>1, <1>2, SeqEqual
<1> QED
  BY <1>3 DEF s

LEMMA RunParts ==
    ASSUME NEW x \in Nat, NEW y \in Nat
    PROVE  /\ Length(Run(x, y)) = y /\ (Run(x, y) = <<>> <=> y = 0)
           /\ Joined(Run(0, x), Run(x, y)) = Run(0, x + y)
           /\ Longer(Run(x, y), x + y + 1) = Run(x, y + 1)
<1>1. 0 \in Nat /\ 0 + x = x /\ 0 + y = y
  OBVIOUS
<1>2. Joined(Run(0, x), Run(x, y)) = Run(0, x + y)
  <2>1. Run(0, x) \o Run(0 + x, y) = Run(0, x + y)
    BY <1>1, RunConcat
  <2> QED
    BY <2>1, <1>1 DEF Joined
<1>3. Longer(Run(x, y), x + y + 1) = Run(x, y + 1)
  <2>1. /\ Run(x, y) \in Seq(Nat) /\ Len(Run(x, y)) = y
        /\ \A k \in 1..y : Run(x, y)[k] = x + k
    BY RunIs
  <2>2. /\ y + 1 \in Nat /\ Run(x, y + 1) \in Seq(Nat) /\ Len(Run(x, y + 1)) = y + 1
        /\ \A k \in 1..(y + 1) : Run(x, y + 1)[k] = x + k
    BY RunIs
  <2>3. /\ \A k \in 1..y : Run(x, y)[k] = Run(x, y + 1)[k]
        /\ x + y + 1 = Run(x, y + 1)[y + 1] /\ x + y + 1 \in Nat
    BY <2>1, <2>2
  <2> QED
    BY <2>1, <2>2, <2>3, AppendsTo DEF Longer
<1> QED
  BY <1>2, <1>3, RunIs DEF Length

LEMMA RunCut ==
    ASSUME NEW x \in Nat, NEW y \in Nat, NEW n \in Nat
    PROVE  /\ n <= y => First(Run(x, y), n) = Run(x, n) /\ After(Run(x, y), n) = Run(x + n, y - n)
           /\ After(Run(x, 0), n) = <<>>
<1>1. n <= y => First(Run(x, y), n) = Run(x, n) /\ After(Run(x, y), n) = Run(x + n, y - n)
  <2>1. Len(Run(x, y)) = y
    BY RunIs
  <2>2. n <= y => /\ SubSeq(Run(x, y), n + 1, y) = Run(x + n, y - n)
                  /\ SubSeq(Run(x, y), 1, n) = Run(x, n)
    BY RunRest
  <2> QED
    BY <2>1, <2>2 DEF First, After
<1>2. After(<<>>, n) = <<>>
  BY DEF After
<1>3. Run(x, 0) = <<>>
  BY RunIs
<1> QED
  BY <1>1, <1>2, <1>3

LEMMA PartsAreSeqs ==
    ASSUME NEW s \in Seq(Nat), NEW n \in Nat
    PROVE  /\ After(s, n) \in Seq(Nat) /\ Length(s) \in Nat
           /\ n <= Length(s) => First(s, n) \in Seq(Nat)
           /\ First(s, Length(s)) = s
           /\ \A t \in Seq(Nat) : Joined(s, t) \in Seq(Nat)
           /\ Longer(s, n) \in Seq(Nat)
<1>1. After(s, n) \in Seq(Nat) /\ Length(s) \in Nat
  BY DEF After, Length
<1>2. n <= Length(s) => First(s, n) \in Seq(Nat)
  BY DEF First, Length
<1>3. First(s, Length(s)) = s
  <2> DEFINE t == SubSeq(s, 1, Len(s))
  <2>1. t \in Seq(Nat) /\ Len(t) = Len(s) /\ \A k \in 1..Len(s) : t[k] = s[k]
    OBVIOUS
  <2> HIDE DEF t
  <2>2. t = s
    BY <2>1, SeqEqual
  <2> QED
    BY <2>2 DEF t, First, Length
<1>4. \A t \in Seq(Nat) : Joined(s, t) \in Seq(Nat)
  BY DEF Joined
<1>5. Longer(s, n) \in Seq(Nat)
  BY DEF Longer
<1> QED
  BY <1>1, <1>2, <1>3, <1>4, <1>5

LEMMA OneOf ==
    ASSUME NEW S, NEW e \in S
    PROVE  <<e>> \in Seq(S) /\ EventsIn(<<e>>) = {e}
<1>1. <<e>> \in Seq(S) /\ Len(<<e>>) = 1 /\ <<e>>[1] = e
  OBVIOUS
<1>2. 1..1 = {1}
  OBVIOUS
<1> QED
  BY <1>1, <1>2 DEF EventsIn

LEMMA TwoOf ==
    ASSUME NEW S, NEW e \in S, NEW f \in S
    PROVE  <<e, f>> \in Seq(S) /\ EventsIn(<<e, f>>) = {e, f}
<1>1. <<e, f>> \in Seq(S) /\ Len(<<e, f>>) = 2 /\ <<e, f>>[1] = e /\ <<e, f>>[2] = f
  OBVIOUS
<1>2. 1..2 = {1, 2}
  OBVIOUS
<1> QED
  BY <1>1, <1>2 DEF EventsIn

LEMMA NoneOf == <<>> \in Seq(Event) /\ EventsIn(<<>>) = {}
<1>1. Len(<<>>) = 0 /\ 1..0 = {}
  OBVIOUS
<1> QED
  BY <1>1, EmptySeq DEF EventsIn

(* The lists of events a step sends.                                       *)
LEMMA ListsOfEvents ==
    /\ \A e \in {"flushed", "disconnected", "outputShutdown", "inputShutdown", "inputReady"} :
         <<e>> \in Seq(Event) /\ EventsIn(<<e>>) = {e}
    /\ \A e, f \in {"inputShutdown", "disconnected", "outputError", "outputShutdown"} :
         <<e, f>> \in Seq(Event) /\ EventsIn(<<e, f>>) = {e, f}
<1>1. \A e \in Event : <<e>> \in Seq(Event) /\ EventsIn(<<e>>) = {e}
  BY OneOf
<1>2. \A e, f \in Event : <<e, f>> \in Seq(Event) /\ EventsIn(<<e, f>>) = {e, f}
  BY TwoOf
<1>3. /\ {"flushed", "disconnected", "outputShutdown", "inputShutdown", "inputReady"} \subseteq Event
      /\ {"inputShutdown", "disconnected", "outputError", "outputShutdown"} \subseteq Event
  BY DEF Event
<1> QED
  BY <1>1, <1>2, <1>3, Zenon

(* The events that say nothing of the input.                               *)
OtherEvents == {"flushed", "outputShutdown", "outputError", "disconnected"}

(* A step adds to what it sends only such events.                          *)
Tells(s, t) == Told(s) \subseteq Told(t) /\ Told(t) \subseteq Told(s) \cup OtherEvents

LEMMA KernelTakesFields ==
    ASSUME NEW s \in SocketState, NEW us \in Seq(Nat)
    PROVE  LET t == KernelTakes(s, us) IN
           /\ t \in SocketState /\ SameInput(s, t)
           /\ t.out = s.out /\ t.flushed = s.flushed /\ t.retry = s.retry
           /\ t.open.writable = s.open.writable
           /\ t.accepted = Joined(s.accepted, us)
           /\ t.fatal = s.fatal /\ t.sends = s.sends
<1> DEFINE a == s.accepted \o us
           t == [s EXCEPT !.accepted = a, !.result = "new"]
<1>1. a \in Seq(Nat) /\ a = Joined(s.accepted, us)
  BY PartsAreSeqs DEF SocketState, Joined
<1>2. KernelTakes(s, us) = t
  BY DEF KernelTakes
<1> HIDE DEF a
<1>3. t \in SocketState
  BY <1>1 DEF SocketState
<1> QED
  BY <1>1, <1>2, <1>3 DEF SocketState, SameInput

LEMMA RetryFields ==
    ASSUME NEW s \in SocketState, NEW us \in Seq(Nat), NEW r \in {"retry", "new", "break"}
    PROVE  LET t == [s EXCEPT !.retry = us, !.result = r] IN
           /\ t \in SocketState /\ SameInput(s, t)
           /\ t.out = s.out /\ t.flushed = s.flushed /\ t.retry = us
           /\ t.open.writable = s.open.writable /\ t.accepted = s.accepted
           /\ t.fatal = s.fatal /\ t.sends = s.sends
<1> DEFINE t == [s EXCEPT !.retry = us, !.result = r]
<1>1. t \in SocketState
  BY DEF SocketState
<1> QED
  BY <1>1 DEF SocketState, SameInput

LEMMA TakenFields ==
    ASSUME NEW s \in SocketState
    PROVE  LET t == Taken(s) IN
           /\ t \in SocketState /\ SameInput(s, t)
           /\ t.out = s.out /\ t.flushed = s.flushed /\ t.retry = <<>>
           /\ t.open.writable = s.open.writable /\ t.accepted = s.accepted
           /\ t.fatal = s.fatal /\ t.sends = s.sends
<1>1. Taken(s) \in SocketState
  BY EmptySeq DEF Taken, SocketState
<1> QED
  BY <1>1 DEF Taken, SocketState, SameInput

LEMMA DiscardFields ==
    ASSUME NEW s \in SocketState, NEW n \in Nat
    PROVE  LET t == Discard(s, n) IN
           /\ t \in SocketState /\ SameInput(s, t)
           /\ t.out = After(s.out, n) /\ t.retry = s.retry /\ t.accepted = s.accepted
           /\ t.flushed => s.flushed \/ t.out = <<>>
           /\ t.open.writable = s.open.writable /\ t.fatal = s.fatal
           /\ Tells(s, t)
<1> DEFINE rest == SubSeq(s.out, n + 1, Len(s.out))
           u == [s EXCEPT !.out = rest, !.flushed = TRUE]
           v == [s EXCEPT !.out = rest]
<1>1. rest = After(s.out, n) /\ rest \in Seq(Nat)
  BY PartsAreSeqs DEF SocketState, After
<1>2. Discard(s, n) = IF rest = <<>> THEN Sends(u, <<"flushed">>) ELSE v
  BY DEF Discard
<1> HIDE DEF rest
<1>3. CASE rest = <<>>
  <2>1. u \in SocketState
    BY <1>1 DEF SocketState
  <2>2. /\ SameInput(s, u) /\ u.out = rest /\ u.flushed = TRUE
        /\ u.retry = s.retry /\ u.accepted = s.accepted
        /\ u.open.writable = s.open.writable /\ u.fatal = s.fatal /\ u.sends = s.sends
    BY <2>1 DEF SocketState, SameInput
  <2> HIDE DEF u
  <2>3. <<"flushed">> \in Seq(Event) /\ EventsIn(<<"flushed">>) = {"flushed"}
    BY ListsOfEvents
  <2> DEFINE t == Sends(u, <<"flushed">>)
  <2>4. /\ t \in SocketState /\ SameInput(u, t) /\ SameOutput(u, t) /\ t.fatal = u.fatal
        /\ Told(t) = Told(u) \cup {"flushed"}
    BY <2>1, <2>3, SendsFields
  <2> HIDE DEF t
  <2>5. Discard(s, n) = t
    BY <1>2, <1>3 DEF t
  <2>6. Told(u) = Told(s)
    BY <2>2 DEF Told
  <2>7. Tells(s, t)
    BY <2>4, <2>6 DEF Tells, OtherEvents
  <2> QED
    BY <1>1, <1>3, <2>2, <2>4, <2>5, <2>7 DEF SameInput, SameOutput
<1>4. CASE rest # <<>>
  <2>1. v \in SocketState
    BY <1>1 DEF SocketState
  <2>2. /\ SameInput(s, v) /\ v.out = rest /\ v.flushed = s.flushed
        /\ v.retry = s.retry /\ v.accepted = s.accepted
        /\ v.open.writable = s.open.writable /\ v.fatal = s.fatal /\ v.sends = s.sends
    BY <2>1 DEF SocketState, SameInput
  <2>3. Discard(s, n) = v
    BY <1>2, <1>4
  <2> HIDE DEF v
  <2>4. Tells(s, v)
    BY <2>2 DEF Told, Tells
  <2> QED
    BY <1>1, <2>1, <2>2, <2>3, <2>4
<1> QED
  BY <1>3, <1>4

-----------------------------------------------------------------------------
(* What every state a step of the service thread goes through satisfies.   *)

(* What the lemmas below need of the state a step begins in.               *)
Kinds == secure \in BOOLEAN /\ peer \in {"open", "closed", "reset"} /\ sent \in Nat
         /\ written \in Nat /\ inBuf \in Int /\ taken \in Int

(* The units are written, sent and repeated in order: those the kernel has *)
(* taken, then those in the buffer, of which the repeated ones come first. *)
OutGood(s) ==
    \E x, y, z \in Nat :
      /\ s.accepted = Run(0, x) /\ s.out = Run(x, y) /\ s.retry = Run(x, z)
      /\ x + y <= written /\ x + z <= written
      /\ s.open.writable => x + y = written /\ z <= y
      /\ ~s.open.writable => y = 0
      /\ s.flushed => y = 0
      /\ ~secure => z = 0

(* The kernel takes what must be repeated, or the beginning of the buffer. *)
LEMMA OutSent ==
    ASSUME Kinds, NEW s \in SocketState, NEW t \in SocketState, OutGood(s),
           NEW us, NEW n \in Nat,
           \/ s.retry # <<>> /\ us = s.retry /\ n = Length(us)
           \/ s.retry = <<>> /\ us = First(s.out, n) /\ n <= Length(s.out),
           t.accepted = Joined(s.accepted, us), t.out = After(s.out, n), t.retry = <<>>,
           t.open.writable = s.open.writable, t.flushed => s.flushed \/ t.out = <<>>
    PROVE  OutGood(t)
<1>0. s.open.writable \in BOOLEAN /\ s.flushed \in BOOLEAN /\ t.flushed \in BOOLEAN
      /\ written \in Nat
  BY DEF SocketState, Flags, Kinds
<1>1. PICK x, y, z \in Nat :
        /\ s.accepted = Run(0, x) /\ s.out = Run(x, y) /\ s.retry = Run(x, z)
        /\ x + y <= written /\ x + z <= written
        /\ s.open.writable => x + y = written /\ z <= y
        /\ ~s.open.writable => y = 0
        /\ s.flushed => y = 0
        /\ ~secure => z = 0
  BY Zenon DEF OutGood
<1>2. Length(s.out) = y /\ Length(s.retry) = z /\ (s.retry = <<>> <=> z = 0)
  <2>1. Length(Run(x, y)) = y /\ Length(Run(x, z)) = z /\ (Run(x, z) = <<>> <=> z = 0)
    BY RunParts
  <2> QED
    BY <2>1, <1>1, Zenon
<1>3. us = Run(x, n) /\ (n <= y \/ (y = 0 /\ ~s.open.writable)) /\ x + n <= written
  <2>1. CASE s.retry # <<>> /\ us = s.retry /\ n = Length(us)
    BY <2>1, <1>0, <1>1, <1>2
  <2>2. CASE s.retry = <<>> /\ us = First(s.out, n) /\ n <= Length(s.out)
    <3>1. n <= y /\ x + n <= written
      BY <2>2, <1>0, <1>1, <1>2
    <3>2. First(Run(x, y), n) = Run(x, n)
      BY <3>1, RunCut
    <3> QED
      BY <3>1, <3>2, <2>2, <1>1
  <2> QED
    BY <2>1, <2>2
<1>4. 0 \in Nat /\ x + n \in Nat
  OBVIOUS
<1>5. Joined(s.accepted, us) = Run(0, x + n)
  BY <1>1, <1>3, RunParts
<1>6. Run(x + n, 0) = <<>>
  BY <1>4, RunParts
<1> DEFINE m == IF n <= y THEN y - n ELSE 0
<1>7. m \in Nat /\ (s.open.writable => (x + n) + m = written) /\ (~s.open.writable => m = 0)
      /\ (x + n) + m <= written /\ (y = 0 => m = 0)
  BY <1>0, <1>1, <1>3
<1>8. After(s.out, n) = Run(x + n, m)
  <2>1. CASE n <= y
    <3>1. After(Run(x, y), n) = Run(x + n, y - n)
      BY <2>1, RunCut
    <3> QED
      BY <3>1, <2>1, <1>1
  <2>2. CASE ~ (n <= y)
    <3>1. y = 0 /\ s.out = Run(x, 0)
      BY <2>2, <1>1, <1>3
    <3>2. After(s.out, n) = <<>>
      BY <3>1, RunCut
    <3> QED
      BY <3>2, <2>2, <1>6
  <2> QED
    BY <2>1, <2>2
<1> HIDE DEF m
<1>9. t.flushed => m = 0
  BY <1>0, <1>1, <1>7, <1>8, <1>4, RunParts
<1>10. /\ t.accepted = Run(0, x + n) /\ t.out = Run(x + n, m) /\ t.retry = Run(x + n, 0)
       /\ (x + n) + m <= written /\ (x + n) + 0 <= written
       /\ t.open.writable => (x + n) + m = written /\ 0 <= m
       /\ ~t.open.writable => m = 0
       /\ t.flushed => m = 0
       /\ ~secure => 0 = 0
  BY <1>0, <1>3, <1>5, <1>6, <1>7, <1>8, <1>9
<1> QED
  BY <1>10, <1>7, <1>4, Zenon DEF OutGood

(* A write OpenSSL could not do yet is repeated with the same units.       *)
LEMMA OutRetry ==
    ASSUME Kinds, secure, NEW s \in SocketState, NEW t \in SocketState, OutGood(s),
           t.accepted = s.accepted, t.out = s.out, t.retry = s.out,
           t.open.writable = s.open.writable, t.flushed = s.flushed
    PROVE  OutGood(t)
<1>1. PICK x, y, z \in Nat :
        /\ s.accepted = Run(0, x) /\ s.out = Run(x, y) /\ s.retry = Run(x, z)
        /\ x + y <= written /\ x + z <= written
        /\ s.open.writable => x + y = written /\ z <= y
        /\ ~s.open.writable => y = 0
        /\ s.flushed => y = 0
        /\ ~secure => z = 0
  BY Zenon DEF OutGood
<1>2. y <= y
  OBVIOUS
<1> QED
  BY <1>1, <1>2, Zenon DEF OutGood

(* The buffer is given up.                                                 *)
LEMMA OutCut ==
    ASSUME Kinds, NEW s \in SocketState, NEW t \in SocketState, OutGood(s),
           t.accepted = s.accepted, t.out = <<>>, t.retry = s.retry, t.open.writable = FALSE
    PROVE  OutGood(t)
<1>1. PICK x, y, z \in Nat :
        /\ s.accepted = Run(0, x) /\ s.out = Run(x, y) /\ s.retry = Run(x, z)
        /\ x + y <= written /\ x + z <= written
        /\ ~secure => z = 0
  BY Zenon DEF OutGood
<1>2. 0 \in Nat
  OBVIOUS
<1>3. Run(x, 0) = <<>>
  BY <1>2, RunParts
<1>4. x + 0 <= written
  BY <1>1 DEF Kinds
<1> QED
  BY <1>1, <1>2, <1>3, <1>4, Zenon DEF OutGood

LEMMA OutPlain ==
    ASSUME ~secure, NEW s, OutGood(s)
    PROVE  s.retry = <<>>
<1>1. PICK x, y, z \in Nat : s.retry = Run(x, z) /\ (~secure => z = 0)
  BY Zenon DEF OutGood
<1> QED
  BY <1>1, RunParts

LEMMA OutSame ==
    ASSUME NEW s, NEW t, SameOutput(s, t), OutGood(s)
    PROVE  OutGood(t)
  BY DEF OutGood, SameOutput

(* What is in the buffer has been announced; without TLS nothing that has  *)
(* arrived is lost before the connection is reset, and the end is told of  *)
(* after all of it.                                                        *)
Waiting == "inputReady" \in EventsIn(queue) \/ main = "reading"
Bounded(s) ==
    s.in \in 0..(s.taken - s.decoded) /\ s.taken \in 0..sent /\ s.decoded \in 0..Record
InGood(s) ==
    /\ Bounded(s)
    /\ s.in > 0 => s.fatal \/ "inputReady" \in Told(s) \/ Waiting
    /\ ~secure =>
         /\ ~s.fatal /\ s.decoded = 0 /\ s.taken >= taken
         /\ peer # "reset" => s.in - s.taken = inBuf - taken
         /\ s.open.readable => open.readable
         /\ "inputReady" \in Told(s) => open.readable /\ "inputShutdown" \notin Told(s)
         /\ "inputShutdown" \in Told(s) =>
              ~s.open.readable /\ peer = "closed" /\ s.taken = sent

WellKept(s) == s \in SocketState /\ OutGood(s) /\ InGood(s)

LEMMA InSame ==
    ASSUME NEW s, NEW t, SameInput(s, t), t.fatal = s.fatal, Tells(s, t), InGood(s)
    PROVE  InGood(t)
<1>1. "inputReady" \in Told(s) <=> "inputReady" \in Told(t)
  BY DEF Tells, OtherEvents
<1>2. "inputShutdown" \in Told(s) <=> "inputShutdown" \in Told(t)
  BY DEF Tells, OtherEvents
<1> QED
  BY <1>1, <1>2 DEF InGood, Bounded, SameInput

LEMMA InCut ==
    ASSUME Kinds, NEW s \in SocketState, NEW t \in SocketState, InGood(s), secure \/ peer = "reset",
           t.in = 0, ~t.open.readable, t.taken = s.taken, t.decoded = s.decoded,
           t.fatal = s.fatal, Tells(s, t)
    PROVE  InGood(t)
<1>1. "inputReady" \in Told(s) <=> "inputReady" \in Told(t)
  BY DEF Tells, OtherEvents
<1>2. "inputShutdown" \in Told(s) <=> "inputShutdown" \in Told(t)
  BY DEF Tells, OtherEvents
<1> QED
  BY <1>1, <1>2 DEF InGood, Bounded, Kinds

LEMMA DisconnectedGood ==
    ASSUME Kinds, NEW s, WellKept(s), secure \/ peer = "reset",
           NEW events \in Seq(Event), EventsIn(events) \subseteq OtherEvents,
           NEW r \in {"retry", "new", "break"}
    PROVE  /\ WellKept([Sends(Disconnected(s), events) EXCEPT !.result = r])
           /\ Tells(s, [Sends(Disconnected(s), events) EXCEPT !.result = r])
<1> DEFINE a == Disconnected(s)
           b == Sends(a, events)
           t == [b EXCEPT !.result = r]
<1>0. s \in SocketState
  BY DEF WellKept
<1>1. /\ a \in SocketState
      /\ a.in = 0 /\ a.open.readable = FALSE /\ a.open.writable = FALSE
      /\ a.taken = s.taken /\ a.decoded = s.decoded /\ a.fatal = s.fatal
      /\ a.out = <<>> /\ a.flushed = TRUE
      /\ a.retry = s.retry /\ a.accepted = s.accepted
      /\ a.sends = s.sends
  BY <1>0, DisconnectedFields
<1> HIDE DEF a
<1>2. /\ b \in SocketState /\ SameInput(a, b) /\ SameOutput(a, b) /\ b.fatal = a.fatal
      /\ Told(b) = Told(a) \cup EventsIn(events)
  BY <1>1, SendsFields
<1> HIDE DEF b
<1>3. /\ t \in SocketState /\ SameInput(b, t) /\ SameOutput(b, t)
      /\ t.fatal = b.fatal /\ t.sends = b.sends
  BY <1>2, ResultFields
<1> HIDE DEF t
<1>4. Told(a) = Told(s) /\ Told(t) = Told(b)
  BY <1>1, <1>3 DEF Told
<1>5. Tells(s, t)
  BY <1>2, <1>4 DEF Tells
<1>6. /\ t.in = 0 /\ ~t.open.readable /\ t.taken = s.taken /\ t.decoded = s.decoded
      /\ t.fatal = s.fatal
  BY <1>1, <1>2, <1>3 DEF SameInput
<1>7. InGood(t)
  BY <1>0, <1>3, <1>5, <1>6, InCut DEF WellKept
<1>8. /\ t.out = <<>> /\ t.flushed = TRUE /\ t.open.writable = FALSE
      /\ t.retry = s.retry /\ t.accepted = s.accepted
  BY <1>1, <1>2, <1>3 DEF SameOutput
<1>9. OutGood(t)
  BY <1>0, <1>3, <1>8, OutCut DEF WellKept
<1> QED
  BY <1>3, <1>5, <1>7, <1>9 DEF WellKept, t, b, a

LEMMA FatalEnds ==
    ASSUME Kinds, secure, NEW s \in SocketState, OutGood(s), Bounded(s)
    PROVE  WellKept(Fatal(s))
<1> DEFINE a == [s EXCEPT !.fatal = TRUE, !.result = "break"]
           events == <<"disconnected", "inputShutdown">>
           t == Sends(a, events)
<1>1. a \in SocketState
  BY DEF SocketState
<1>2. SameOutput(s, a) /\ SameInput(s, a) /\ a.fatal = TRUE
  BY DEF SocketState, SameOutput, SameInput
<1> HIDE DEF a
<1>3. events \in Seq(Event)
  BY ListsOfEvents
<1> HIDE DEF events
<1>4. t \in SocketState /\ SameOutput(a, t) /\ SameInput(a, t) /\ t.fatal = TRUE
  BY <1>1, <1>2, <1>3, SendsFields
<1>5. Fatal(s) = t
  BY DEF Fatal, t, a, events
<1> HIDE DEF t
<1>6. OutGood(t)
  BY <1>2, <1>4, OutSame
<1>7. InGood(t)
  BY <1>2, <1>4 DEF InGood, Bounded, SameInput
<1> QED
  BY <1>4, <1>5, <1>6, <1>7 DEF WellKept

LEMMA FatalGood ==
    ASSUME Kinds, secure, NEW s, WellKept(s)
    PROVE  WellKept(Fatal(s))
  BY FatalEnds DEF WellKept, InGood

(* The kernel takes units, and they leave the buffer.                      *)
LEMMA SentGood ==
    ASSUME Kinds, NEW s, WellKept(s), NEW v \in SocketState, NEW us \in Seq(Nat), NEW n \in Nat,
           SameInput(s, v), v.out = s.out, v.flushed = s.flushed, v.retry = <<>>,
           v.accepted = Joined(s.accepted, us), v.open.writable = s.open.writable,
           v.fatal = s.fatal, v.sends = s.sends,
           \/ s.retry # <<>> /\ us = s.retry /\ n = Length(us)
           \/ s.retry = <<>> /\ us = First(s.out, n) /\ n <= Length(s.out)
    PROVE  WellKept(Discard(v, n)) /\ Tells(s, Discard(v, n))
<1> DEFINE t == Discard(v, n)
<1>0. s \in SocketState
  BY DEF WellKept
<1>1. /\ t \in SocketState /\ SameInput(v, t)
      /\ t.out = After(v.out, n) /\ t.retry = v.retry /\ t.accepted = v.accepted
      /\ t.flushed => v.flushed \/ t.out = <<>>
      /\ t.open.writable = v.open.writable /\ t.fatal = v.fatal
      /\ Tells(v, t)
  BY DiscardFields
<1> HIDE DEF t
<1>2. SameInput(s, t) /\ t.fatal = s.fatal /\ Tells(s, t)
  BY <1>1 DEF SameInput, Tells, Told
<1>3. InGood(t)
  BY <1>2, InSame DEF WellKept
<1>4. OutGood(t)
  BY <1>0, <1>1, OutSent DEF WellKept
<1> QED
  BY <1>1, <1>2, <1>3, <1>4 DEF WellKept, t

LEMMA SecureDoWriteGood ==
    ASSUME Kinds, secure, NEW s, WellKept(s), NEW t \in SecureDoWrite(s)
    PROVE  WellKept(t)
<1> DEFINE us == ToWrite(s)
<1>0. s \in SocketState
  BY DEF WellKept
<1>1. us \in Seq(Nat) /\ s.out \in Seq(Nat) /\ s.accepted \in Seq(Nat)
  BY <1>0 DEF SocketState, ToWrite
<1>2. \/ s.retry # <<>> /\ us = s.retry
      \/ s.retry = <<>> /\ us = s.out
  BY DEF ToWrite
<1> HIDE DEF us
<1>3. \/ t = s
      \/ t = Fatal(s)
      \/ t = Discard(KernelTakes(Taken(s), us), Len(us))
      \/ t = [s EXCEPT !.retry = us, !.result = "new"]
  BY DEF SecureDoWrite, Repeated, us
<1>4. CASE t = Discard(KernelTakes(Taken(s), us), Len(us))
  <2> DEFINE a == Taken(s)
             v == KernelTakes(a, us)
  <2>1. /\ a \in SocketState /\ SameInput(s, a)
        /\ a.out = s.out /\ a.flushed = s.flushed /\ a.retry = <<>>
        /\ a.open.writable = s.open.writable /\ a.accepted = s.accepted
        /\ a.fatal = s.fatal /\ a.sends = s.sends
    BY <1>0, TakenFields
  <2> HIDE DEF a
  <2>2. /\ v \in SocketState /\ SameInput(a, v)
        /\ v.out = a.out /\ v.flushed = a.flushed /\ v.retry = a.retry
        /\ v.open.writable = a.open.writable
        /\ v.accepted = Joined(a.accepted, us)
        /\ v.fatal = a.fatal /\ v.sends = a.sends
    BY <1>1, <2>1, KernelTakesFields
  <2> HIDE DEF v
  <2>3. /\ SameInput(s, v) /\ v.out = s.out /\ v.flushed = s.flushed /\ v.retry = <<>>
        /\ v.accepted = Joined(s.accepted, us) /\ v.open.writable = s.open.writable
        /\ v.fatal = s.fatal /\ v.sends = s.sends
    BY <2>1, <2>2 DEF SameInput
  <2> DEFINE n == Len(us)
  <2>4. n \in Nat /\ n = Length(us)
    BY <1>1 DEF Length
  <2>5. First(s.out, Length(s.out)) = s.out /\ Length(s.out) \in Nat
    BY <1>1, PartsAreSeqs
  <2>6. t = Discard(v, n)
    BY <1>4 DEF v, a
  <2> HIDE DEF n
  <2>7. \/ s.retry # <<>> /\ us = s.retry /\ n = Length(us)
        \/ s.retry = <<>> /\ us = First(s.out, n) /\ n <= Length(s.out)
    BY <1>2, <2>4, <2>5
  <2>8. WellKept(Discard(v, n))
    BY <1>1, <2>2, <2>3, <2>4, <2>7, SentGood, Zenon
  <2> QED
    BY <2>6, <2>8
<1>5. CASE t = [s EXCEPT !.retry = us, !.result = "new"]
  <2>1. /\ t \in SocketState /\ SameInput(s, t)
        /\ t.out = s.out /\ t.flushed = s.flushed /\ t.retry = us
        /\ t.open.writable = s.open.writable /\ t.accepted = s.accepted
        /\ t.fatal = s.fatal /\ t.sends = s.sends
    BY <1>0, <1>1, <1>5, RetryFields
  <2>2. Tells(s, t)
    BY <2>1 DEF Tells, Told
  <2>3. InGood(t)
    BY <2>1, <2>2, InSame DEF WellKept
  <2>4. us = s.out => OutGood(t)
    BY <1>0, <2>1, OutRetry DEF WellKept
  <2>5. us = s.retry => OutGood(t)
    BY <2>1, OutSame DEF WellKept, SameOutput
  <2>6. OutGood(t)
    BY <1>2, <2>4, <2>5
  <2> QED
    BY <2>1, <2>3, <2>6 DEF WellKept
<1> QED
  BY <1>3, <1>4, <1>5, FatalGood

LEMMA PlainDoWriteGood ==
    ASSUME Kinds, ~secure, NEW s, WellKept(s), NEW t \in PlainDoWrite(s)
    PROVE  WellKept(t) /\ Tells(s, t)
<1>0. s \in SocketState
  BY DEF WellKept
<1>1. s.out \in Seq(Nat) /\ s.accepted \in Seq(Nat)
  BY <1>0 DEF SocketState
<1> DEFINE tail == IF ~s.open.readable /\ s.in = 0 THEN <<"disconnected">> ELSE <<>>
           events == <<"outputShutdown">> \o tail
           one == <<"disconnected">>
           two == <<"outputError", "disconnected">>
           c == (s.open.readable \/ s.in # 0)
           a == OutputShut(s)
           b == Sends(a, events)
           shut == [b EXCEPT !.result = "new", !.open.connected = c]
<1>2. /\ one \in Seq(Event) /\ EventsIn(one) \subseteq OtherEvents
      /\ two \in Seq(Event) /\ EventsIn(two) \subseteq OtherEvents
      /\ tail \in Seq(Event) /\ EventsIn(tail) \subseteq OtherEvents
      /\ <<"outputShutdown">> \in Seq(Event) /\ EventsIn(<<"outputShutdown">>) \subseteq OtherEvents
  BY ListsOfEvents, NoneOf DEF OtherEvents
<1> HIDE DEF tail, one, two
<1>3. events \in Seq(Event) /\ EventsIn(events) \subseteq OtherEvents
  BY <1>2, EventsConcat
<1> HIDE DEF events
<1>4. \/ t = s
      \/ /\ peer = "reset"
         /\ \/ t = shut
            \/ t = [Sends(Disconnected(s), one) EXCEPT !.result = "new"]
            \/ t = [Sends(Disconnected(s), two) EXCEPT !.result = "new"]
      \/ \E n \in 1..Len(s.out) : t = Discard(KernelTakes(s, SubSeq(s.out, 1, n)), n)
  BY DEF PlainDoWrite, shut, b, a, c, events, tail, one, two
<1>5. CASE t = shut /\ peer = "reset"
  <2>1. /\ a \in SocketState /\ SameInput(s, a)
        /\ a.open.writable = FALSE /\ a.fatal = s.fatal
        /\ a.out = <<>> /\ a.flushed = TRUE
        /\ a.retry = s.retry /\ a.accepted = s.accepted
        /\ a.sends = s.sends
    BY <1>0, OutputShutFields
  <2> HIDE DEF a
  <2>2. /\ b \in SocketState /\ SameInput(a, b) /\ SameOutput(a, b) /\ b.fatal = a.fatal
        /\ Told(b) = Told(a) \cup EventsIn(events)
    BY <1>3, <2>1, SendsFields
  <2> HIDE DEF b
  <2>3. c \in BOOLEAN
    OBVIOUS
  <2> HIDE DEF c
  <2> DEFINE d == [b EXCEPT !.result = "new"]
             e == [d EXCEPT !.open.connected = c]
  <2>4. /\ d \in SocketState /\ SameInput(b, d) /\ SameOutput(b, d)
        /\ d.fatal = b.fatal /\ d.sends = b.sends
    BY <2>2, ResultFields
  <2>5. shut = e
    BY <2>2 DEF SocketState
  <2> HIDE DEF d, shut
  <2>6. /\ e \in SocketState /\ SameInput(d, e) /\ SameOutput(d, e)
        /\ e.fatal = d.fatal /\ e.sends = d.sends
    BY <2>3, <2>4, ConnectedFields
  <2> HIDE DEF e
  <2>7. t = e
    BY <1>5, <2>5
  <2>8. Told(a) = Told(s) /\ Told(t) = Told(b)
    BY <2>1, <2>4, <2>6, <2>7 DEF Told
  <2>9. SameInput(s, t) /\ t.fatal = s.fatal /\ Tells(s, t)
    BY <1>3, <2>1, <2>2, <2>4, <2>6, <2>7, <2>8 DEF SameInput, Tells
  <2>10. InGood(t)
    BY <2>9, InSame DEF WellKept
  <2>11. /\ t.out = <<>> /\ t.flushed = TRUE /\ t.open.writable = FALSE
         /\ t.retry = s.retry /\ t.accepted = s.accepted
    BY <2>1, <2>2, <2>4, <2>6, <2>7 DEF SameOutput
  <2>12. OutGood(t)
    BY <1>0, <2>6, <2>7, <2>11, OutCut DEF WellKept
  <2> QED
    BY <2>6, <2>7, <2>9, <2>10, <2>12 DEF WellKept
<1>6. CASE \E n \in 1..Len(s.out) : t = Discard(KernelTakes(s, SubSeq(s.out, 1, n)), n)
  <2>1. PICK n \in 1..Len(s.out) : t = Discard(KernelTakes(s, SubSeq(s.out, 1, n)), n)
    BY <1>6
  <2> DEFINE us == First(s.out, n)
             v == KernelTakes(s, us)
  <2>2. n \in Nat /\ n <= Length(s.out)
    BY <1>1 DEF Length
  <2>3. us \in Seq(Nat)
    BY <1>1, <2>2, PartsAreSeqs
  <2>4. t = Discard(v, n)
    BY <2>1 DEF First
  <2>5. s.retry = <<>>
    BY OutPlain DEF WellKept
  <2>6. us = First(s.out, n)
    OBVIOUS
  <2> HIDE DEF us
  <2>7. /\ v \in SocketState /\ SameInput(s, v)
        /\ v.out = s.out /\ v.flushed = s.flushed /\ v.retry = s.retry
        /\ v.open.writable = s.open.writable
        /\ v.accepted = Joined(s.accepted, us)
        /\ v.fatal = s.fatal /\ v.sends = s.sends
    BY <1>0, <2>3, KernelTakesFields
  <2> HIDE DEF v
  <2>8. WellKept(Discard(v, n)) /\ Tells(s, Discard(v, n))
    BY <2>2, <2>3, <2>5, <2>6, <2>7, SentGood, Zenon
  <2> QED
    BY <2>4, <2>8
<1> HIDE DEF shut
<1>7. CASE /\ peer = "reset"
           /\ \/ t = [Sends(Disconnected(s), one) EXCEPT !.result = "new"]
              \/ t = [Sends(Disconnected(s), two) EXCEPT !.result = "new"]
  <2>1. "new" \in {"retry", "new", "break"}
    OBVIOUS
  <2>2. /\ WellKept([Sends(Disconnected(s), one) EXCEPT !.result = "new"])
        /\ Tells(s, [Sends(Disconnected(s), one) EXCEPT !.result = "new"])
    BY <1>2, <1>7, <2>1, DisconnectedGood
  <2>3. /\ WellKept([Sends(Disconnected(s), two) EXCEPT !.result = "new"])
        /\ Tells(s, [Sends(Disconnected(s), two) EXCEPT !.result = "new"])
    BY <1>2, <1>7, <2>1, DisconnectedGood
  <2> QED
    BY <1>7, <2>2, <2>3
<1>8. CASE t = s
  BY <1>8 DEF Tells
<1> QED
  BY <1>4, <1>5, <1>6, <1>7, <1>8

(* Whole records of R units that hold a of them.                          *)
LEMMA WholeRecords ==
    ASSUME NEW R \in Nat, R > 0, NEW a \in Int
    PROVE  LET q == (a + R - 1) \div R IN
           q \in Int /\ q * R \in Int /\ a <= q * R /\ q * R < a + R
<1> DEFINE b == a + R - 1
           q == b \div R
           r == b % R
<1>1. b \in Int
  OBVIOUS
<1>2. q \in Int /\ r \in Int /\ b = R * q + r /\ 0 <= r /\ r < R
  <2> HIDE DEF b
  <2> QED
    BY <1>1
<1> HIDE DEF q, r
<1>3. R * q = q * R /\ q * R \in Int
  BY <1>2
<1> DEFINE p == q * R
<1>4. p \in Int /\ b = p + r
  BY <1>2, <1>3
<1> HIDE DEF p
<1>5. a <= p /\ p < a + R
  BY <1>2, <1>4
<1> QED
  BY <1>2, <1>4, <1>5 DEF p, q, b
LEMMA ResultGood ==
    ASSUME NEW s, WellKept(s), NEW r \in {"retry", "new", "break"}
    PROVE  LET t == [s EXCEPT !.result = r] IN
           WellKept(t) /\ Told(t) = Told(s) /\ t.open = s.open /\ t.result = r
<1> DEFINE t == [s EXCEPT !.result = r]
<1>0. s \in SocketState
  BY DEF WellKept
<1>1. /\ t \in SocketState /\ SameInput(s, t) /\ SameOutput(s, t)
      /\ t.fatal = s.fatal /\ t.sends = s.sends
  BY <1>0, ResultFields
<1>2. t.open = s.open /\ t.result = r
  BY <1>0 DEF SocketState
<1> HIDE DEF t
<1>3. Told(t) = Told(s) /\ Tells(s, t)
  BY <1>1 DEF Told, Tells
<1>4. InGood(t) /\ OutGood(t)
  BY <1>1, <1>3, InSame, OutSame DEF WellKept
<1> QED
  BY <1>1, <1>2, <1>3, <1>4 DEF WellKept, t

LEMMA SlurpedFields ==
    ASSUME Kinds, NEW s \in SocketState, Bounded(s), secure \/ s.decoded = 0
    PROVE  LET t == Slurped(s) IN
           /\ t \in SocketState /\ SameOutput(s, t) /\ Bounded(t)
           /\ t.open = s.open /\ t.fatal = s.fatal /\ t.sends = s.sends
           /\ ~secure => t.decoded = s.decoded /\ t.in - t.taken = s.in - s.taken /\ t.taken >= s.taken
<1> DEFINE there == s.decoded + Arrived(s)
           least == IF s.in > MaxInput THEN 1 ELSE MaxInput + 1 - s.in
           n == IF there > least THEN least ELSE there
           m == ((n - s.decoded + Record - 1) \div Record) * Record
           fetched == IF n <= s.decoded THEN 0
                      ELSE IF m > Arrived(s) THEN Arrived(s) ELSE m
           i == s.in + n
           k == s.taken + fetched
           d == s.decoded + fetched - n
           f == n < there /\ n < s.decoded + fetched
           j == s.taken + n
           tls == [s EXCEPT !.in = i, !.taken = k, !.decoded = d, !.full = f]
           plain == [s EXCEPT !.in = i, !.taken = j]
<1>1. s.in \in 0..(s.taken - s.decoded) /\ s.taken \in 0..sent /\ s.decoded \in 0..Record
      /\ sent \in Nat /\ MaxInput \in Nat /\ Record \in Nat /\ Record > 0
  BY DEF Bounded, Kinds
<1>2. Arrived(s) \in Nat /\ Arrived(s) = sent - s.taken
  BY <1>1 DEF Arrived
<1>3. there \in Nat /\ n \in Nat /\ n <= there
  <2>1. least \in Nat /\ there \in Nat
    BY <1>1, <1>2
  <2> HIDE DEF least, there
  <2> QED
    BY <2>1
<1>4. Slurped(s) = IF secure THEN tls ELSE plain
  BY DEF Slurped
<1>5. /\ fetched \in 0..Arrived(s)
      /\ s.decoded + fetched - n \in 0..Record
  <2> DEFINE a == n - s.decoded
             p == a + Record - 1
  <2> HIDE DEF n
  <2>1. a \in Int
    BY <1>1, <1>3
  <2>2. m = (p \div Record) * Record
    OBVIOUS
  <2>3. m \in Int /\ a <= m /\ m < a + Record
    BY <1>1, <2>1, WholeRecords
  <2> HIDE DEF m
  <2> QED
    BY <1>1, <1>2, <1>3, <2>3
<1>7. i \in Nat /\ j \in Int /\ i - j = s.in - s.taken /\ j >= s.taken
      /\ i <= k - d /\ (s.decoded = 0 => i <= j)
  <2> HIDE DEF n, fetched
  <2>1. fetched \in Int
    BY <1>5
  <2> QED
    BY <1>1, <1>3, <2>1
<1>6. s.decoded = 0 => j \in 0..sent
  BY <1>1, <1>2, <1>3
<1> HIDE DEF fetched, m
<1>8. k \in 0..sent /\ d \in 0..Record /\ f \in BOOLEAN
  BY <1>1, <1>2, <1>5
<1>9. i \in Int /\ j \in Int /\ k \in Int /\ d \in Int
  BY <1>1, <1>7, <1>8
<1> HIDE DEF there, n, i, j, k, d, f
<1>10. CASE secure
  <2>1. tls \in SocketState
    BY <1>8, <1>9 DEF SocketState
  <2>2. /\ tls.open = s.open /\ tls.fatal = s.fatal /\ tls.sends = s.sends
        /\ SameOutput(s, tls)
        /\ tls.in = i /\ tls.taken = k /\ tls.decoded = d
    BY <2>1 DEF SocketState, SameOutput
  <2>3. Bounded(tls)
    BY <2>2, <1>7, <1>8, <1>9 DEF Bounded
  <2> QED
    BY <1>4, <1>10, <2>1, <2>2, <2>3
<1>11. CASE ~secure
  <2>1. plain \in SocketState
    BY <1>9 DEF SocketState
  <2>2. /\ plain.open = s.open /\ plain.fatal = s.fatal /\ plain.sends = s.sends
        /\ plain.decoded = s.decoded /\ plain.in = i /\ plain.taken = j
        /\ SameOutput(s, plain)
    BY <2>1 DEF SocketState, SameOutput
  <2> HIDE DEF plain
  <2>3. Bounded(plain)
    BY <2>2, <1>1, <1>6, <1>7, <1>9, <1>11 DEF Bounded
  <2> QED
    BY <1>4, <1>7, <1>11, <2>1, <2>2, <2>3
<1> QED
  BY <1>10, <1>11 DEF Kinds

(* "send input ready if input buffer was empty": what is read is announced.*)
LEMMA NotifiedGood ==
    ASSUME Kinds, NEW s, WellKept(s), s.open.readable
    PROVE  WellKept(Notified(s, Slurped(s)))
<1> DEFINE a == Slurped(s)
           b == Sends(a, <<"inputReady">>)
           t == Notified(s, a)
<1>0. s \in SocketState
  BY DEF WellKept
<1>a. Bounded(s) /\ (secure \/ s.decoded = 0)
  BY DEF WellKept, InGood, Kinds
<1>1. /\ a \in SocketState /\ SameOutput(s, a) /\ Bounded(a)
      /\ a.open = s.open /\ a.fatal = s.fatal /\ a.sends = s.sends
      /\ ~secure => a.decoded = s.decoded /\ a.in - a.taken = s.in - s.taken /\ a.taken >= s.taken
  BY <1>0, <1>a, SlurpedFields
<1> HIDE DEF a
<1>2. <<"inputReady">> \in Seq(Event) /\ EventsIn(<<"inputReady">>) = {"inputReady"}
  BY ListsOfEvents
<1>3. /\ b \in SocketState /\ SameInput(a, b) /\ SameOutput(a, b) /\ b.fatal = a.fatal
      /\ Told(b) = Told(a) \cup {"inputReady"}
  BY <1>1, <1>2, SendsFields
<1> HIDE DEF b
<1>4. t = IF s.in = 0 THEN b ELSE a
  BY DEF Notified, b
<1>5. Told(a) = Told(s)
  BY <1>1 DEF Told
<1>6. s.in \in Int
  BY <1>0 DEF SocketState
<1> HIDE DEF t
<1>7. t \in SocketState /\ OutGood(t)
  <2>1. OutGood(a)
    BY <1>1, OutSame DEF WellKept
  <2>2. OutGood(b)
    BY <2>1, <1>3, OutSame
  <2> QED
    BY <1>1, <1>3, <1>4, <2>1, <2>2
<1>8. InGood(t)
  <2>1. "inputReady" \in Told(s) => "inputReady" \in Told(t)
    BY <1>3, <1>4, <1>5
  <2>2. t.in > 0 => t.fatal \/ "inputReady" \in Told(t) \/ Waiting
    <3>1. CASE s.in = 0
      BY <3>1, <1>3, <1>4
    <3>2. CASE s.in > 0
      BY <3>2, <1>1, <1>3, <1>4, <2>1 DEF WellKept, InGood, SameInput
    <3> QED
      BY <3>1, <3>2, <1>6, <1>a DEF Bounded
  <2>3. ASSUME ~secure
        PROVE  /\ ~t.fatal /\ t.decoded = 0 /\ t.taken >= taken
               /\ peer # "reset" => t.in - t.taken = inBuf - taken
               /\ t.open.readable => open.readable
               /\ "inputReady" \in Told(t) => open.readable /\ "inputShutdown" \notin Told(t)
               /\ "inputShutdown" \in Told(t) =>
                    ~t.open.readable /\ peer = "closed" /\ t.taken = sent
    <3>1. /\ ~s.fatal /\ s.decoded = 0 /\ s.taken >= taken
          /\ peer # "reset" => s.in - s.taken = inBuf - taken
          /\ open.readable /\ "inputShutdown" \notin Told(s)
      BY <2>3 DEF WellKept, InGood
    <3>2. t.in = a.in /\ t.taken = a.taken /\ t.decoded = a.decoded /\ t.fatal = s.fatal
      BY <1>1, <1>3, <1>4 DEF SameInput
    <3>3. "inputShutdown" \notin Told(t)
      BY <3>1, <1>3, <1>4, <1>5
    <3>4. s.taken \in Int /\ a.taken \in Int /\ taken \in Int
      BY <1>0, <1>1 DEF SocketState, Kinds
    <3> QED
      BY <3>1, <3>2, <3>3, <3>4, <1>1, <2>3
  <2>4. Bounded(t)
    BY <1>1, <1>3, <1>4 DEF Bounded, SameInput
  <2> QED
    BY <2>2, <2>3, <2>4 DEF InGood
<1> QED
  BY <1>7, <1>8 DEF WellKept, t, a

LEMMA HungUpGood ==
    ASSUME Kinds, ~secure, NEW s, WellKept(s), s.open.readable, Told(s) \subseteq OtherEvents,
           peer = "closed", s.taken = sent
    PROVE  WellKept(HungUp(s))
<1> DEFINE dead == ~s.open.writable /\ s.in = 0
           tail == IF dead THEN <<"disconnected">> ELSE <<>>
           events == <<"inputShutdown">> \o tail
           b == Sends(s, events)
           c == b.open.connected /\ ~dead
           o == [b.open EXCEPT !.readable = FALSE, !.connected = c]
           t == [b EXCEPT !.open = o, !.result = "new"]
<1>0. s \in SocketState
  BY DEF WellKept
<1>1. /\ tail \in Seq(Event) /\ EventsIn(tail) \subseteq OtherEvents
      /\ <<"inputShutdown">> \in Seq(Event) /\ EventsIn(<<"inputShutdown">>) = {"inputShutdown"}
  BY ListsOfEvents, NoneOf DEF OtherEvents
<1> HIDE DEF tail
<1>2. events \in Seq(Event) /\ EventsIn(events) = {"inputShutdown"} \cup EventsIn(tail)
  BY <1>1, EventsConcat
<1> HIDE DEF events
<1>3. /\ b \in SocketState /\ SameInput(s, b) /\ SameOutput(s, b) /\ b.fatal = s.fatal
      /\ Told(b) = Told(s) \cup EventsIn(events)
  BY <1>0, <1>2, SendsFields
<1>4. HungUp(s) = t
  BY <1>3 DEF HungUp, tail, events, SocketState, Flags
<1> HIDE DEF b
<1>5. c \in BOOLEAN
  OBVIOUS
<1> HIDE DEF c
<1>6. o \in Flags /\ o.readable = FALSE /\ o.writable = b.open.writable
  BY <1>3, <1>5 DEF SocketState, Flags
<1> HIDE DEF o
<1>7. t \in SocketState
  BY <1>3, <1>6 DEF SocketState
<1>8. /\ t.in = b.in /\ t.taken = b.taken /\ t.decoded = b.decoded /\ t.fatal = b.fatal
      /\ t.open = o /\ t.sends = b.sends
      /\ t.out = b.out /\ t.flushed = b.flushed /\ t.retry = b.retry /\ t.accepted = b.accepted
  BY <1>7 DEF SocketState
<1> HIDE DEF t
<1>9. SameOutput(s, t)
  BY <1>3, <1>6, <1>8 DEF SameOutput
<1>10. OutGood(t)
  BY <1>9, OutSame DEF WellKept
<1>11. Told(t) = Told(s) \cup {"inputShutdown"} \cup EventsIn(tail)
  BY <1>2, <1>3, <1>8 DEF Told
<1>12. InGood(t)
  <2>1. "inputReady" \notin Told(t) /\ "inputReady" \notin Told(s)
    BY <1>1, <1>11 DEF OtherEvents
  <2>2. t.in = s.in /\ t.taken = s.taken /\ t.decoded = s.decoded /\ t.fatal = s.fatal
        /\ t.open.readable = FALSE
    BY <1>3, <1>6, <1>8 DEF SameInput
  <2> QED
    BY <2>1, <2>2 DEF WellKept, InGood, Bounded
<1> QED
  BY <1>4, <1>7, <1>10, <1>12 DEF WellKept

LEMMA PlainDoReadGood ==
    ASSUME Kinds, ~secure, NEW s, WellKept(s), s.open.readable, Told(s) \subseteq OtherEvents
    PROVE  WellKept(PlainDoRead(s))
<1>1. Arrived(s) \in Nat /\ (Arrived(s) = 0 => s.taken = sent)
  <2>1. s.taken \in 0..sent /\ sent \in Nat
    BY DEF WellKept, InGood, Bounded, Kinds
  <2> QED
    BY <2>1 DEF Arrived
<1>2. CASE peer = "reset"
  <2>1. <<"disconnected">> \in Seq(Event) /\ EventsIn(<<"disconnected">>) \subseteq OtherEvents
    BY ListsOfEvents DEF OtherEvents
  <2>2. WellKept([Sends(Disconnected(s), <<"disconnected">>) EXCEPT !.result = "new"])
    BY <1>2, <2>1, DisconnectedGood
  <2> QED
    BY <1>2, <2>2 DEF PlainDoRead
<1>3. CASE peer # "reset" /\ Arrived(s) > 0
  BY <1>1, <1>3, NotifiedGood DEF PlainDoRead
<1>4. CASE peer = "closed" /\ Arrived(s) = 0
  BY <1>1, <1>4, HungUpGood DEF PlainDoRead
<1>5. CASE peer = "open" /\ Arrived(s) = 0
  BY <1>1, <1>5 DEF PlainDoRead
<1> QED
  BY <1>1, <1>2, <1>3, <1>4, <1>5 DEF Kinds

(* What OpenSSL has of a stream that then fails has been read already.     *)
LEMMA SecureDoReadGood ==
    ASSUME Kinds, secure, NEW s, WellKept(s), s.open.readable
    PROVE  WellKept(SecureDoRead(s))
<1> DEFINE t == Slurped(s)
<1>0. s \in SocketState /\ Bounded(s)
  BY DEF WellKept, InGood
<1>1. t \in SocketState /\ SameOutput(s, t) /\ Bounded(t)
  BY <1>0, SlurpedFields
<1> HIDE DEF t
<1>2. WellKept(Fatal(s))
  BY FatalGood
<1>3. WellKept([s EXCEPT !.result = "new"])
  BY ResultGood
<1>4. WellKept(Notified(s, t))
  BY NotifiedGood DEF t
<1>5. WellKept(Fatal(t))
  <2>1. OutGood(t)
    BY <1>1, OutSame DEF WellKept
  <2> QED
    BY <1>1, <2>1, FatalEnds
<1>6. SecureDoRead(s) \in {Fatal(s), [s EXCEPT !.result = "new"], Fatal(t), Notified(s, t)}
  BY DEF SecureDoRead, t
<1> QED
  BY <1>2, <1>3, <1>4, <1>5, <1>6

LEMMA ReadGood ==
    ASSUME Kinds, NEW s, WellKept(s), s.open.readable, secure \/ Told(s) \subseteq OtherEvents
    PROVE  LET t == IF secure THEN SecureDoRead([s EXCEPT !.result = "retry"])
                               ELSE PlainDoRead([s EXCEPT !.result = "retry"]) IN
           WellKept(CASE "break" \in {s.result, t.result} -> [t EXCEPT !.result = "break"]
                  [] "break" \notin {s.result, t.result} /\ "new" \in {s.result, t.result}
                       -> [t EXCEPT !.result = "new"]
                  [] {s.result, t.result} = {"retry"} -> t)
<1> DEFINE u == [s EXCEPT !.result = "retry"]
           t == IF secure THEN SecureDoRead(u) ELSE PlainDoRead(u)
           b == "break" \in {s.result, t.result}
           n == "break" \notin {s.result, t.result} /\ "new" \in {s.result, t.result}
           r == {s.result, t.result} = {"retry"}
<1>1. WellKept(u) /\ Told(u) = Told(s) /\ u.open = s.open
  BY ResultGood
<1> HIDE DEF u
<1>2. WellKept(t)
  BY <1>1, SecureDoReadGood, PlainDoReadGood DEF Kinds
<1> HIDE DEF t
<1>3. s.result \in {"retry", "new", "break"} /\ t.result \in {"retry", "new", "break"}
  BY <1>2 DEF WellKept, SocketState
<1>4. /\ b \/ n \/ r
      /\ b => ~n /\ ~r
      /\ n => ~r
  BY <1>3
<1>5. WellKept([t EXCEPT !.result = "break"]) /\ WellKept([t EXCEPT !.result = "new"])
  BY <1>2, ResultGood
<1> DEFINE result == CASE b -> [t EXCEPT !.result = "break"]
                       [] n -> [t EXCEPT !.result = "new"]
                       [] r -> t
<1>6. WellKept(result)
  <2> HIDE DEF b, n, r
  <2>1. CASE b
    BY <2>1, <1>4, <1>5
  <2>2. CASE n
    BY <2>2, <1>4, <1>5
  <2>3. CASE r
    BY <2>3, <1>2, <1>4
  <2> QED
    BY <1>4, <2>1, <2>2, <2>3
<1> QED
  BY <1>6 DEF t, u

LEMMA ServiceGood ==
    ASSUME Kinds, WellKept(AsItIs), NEW p, NEW s \in ServiceConnected(p)
    PROVE  WellKept(s)
<1> DEFINE wrote == IF ~p.write THEN {AsItIs}
                    ELSE IF secure THEN SecureDoWrite(AsItIs) ELSE PlainDoWrite(AsItIs)
           read(w) == IF ~(p.read /\ w.open.readable) THEN w
                      ELSE LET t == IF secure THEN SecureDoRead([w EXCEPT !.result = "retry"])
                                    ELSE PlainDoRead([w EXCEPT !.result = "retry"]) IN
                           CASE "break" \in {w.result, t.result} -> [t EXCEPT !.result = "break"]
                             [] "break" \notin {w.result, t.result} /\ "new" \in {w.result, t.result}
                                  -> [t EXCEPT !.result = "new"]
                             [] {w.result, t.result} = {"retry"} -> t
<1>1. PICK w \in wrote : s = read(w)
  BY DEF ServiceConnected
<1>2. Told(AsItIs) = {}
  BY NoneOf DEF Told, AsItIs
<1>3. WellKept(w) /\ (secure \/ Told(w) \subseteq OtherEvents)
  <2>1. CASE w = AsItIs
    BY <2>1, <1>2
  <2>2. CASE secure /\ w \in SecureDoWrite(AsItIs)
    BY <2>2, SecureDoWriteGood
  <2>3. CASE ~secure /\ w \in PlainDoWrite(AsItIs)
    <3>1. WellKept(w) /\ Tells(AsItIs, w)
      BY <2>3, PlainDoWriteGood
    <3> QED
      BY <3>1, <1>2 DEF Tells
  <2> QED
    BY <2>1, <2>2, <2>3 DEF Kinds
<1>4. CASE ~(p.read /\ w.open.readable)
  BY <1>1, <1>3, <1>4
<1>5. CASE p.read /\ w.open.readable
  <2>1. WellKept(read(w))
    BY <1>3, <1>5, ReadGood, Zenon
  <2> QED
    BY <1>1, <2>1
<1> QED
  BY <1>4, <1>5

LEMMA ServiceErrorGood ==
    ASSUME Kinds, WellKept(AsItIs), peer = "reset"
    PROVE  WellKept(ServiceError)
<1>1. <<"disconnected">> \in Seq(Event) /\ EventsIn(<<"disconnected">>) \subseteq OtherEvents
  BY ListsOfEvents DEF OtherEvents
<1> QED
  BY <1>1, DisconnectedGood DEF ServiceError

-----------------------------------------------------------------------------
(* The inductive invariant.                                                *)

Filters == [was : BOOLEAN, size : BOOLEAN, buffer : Nat, shut : BOOLEAN]

StreamTypes ==
    /\ secure \in BOOLEAN /\ peer \in {"open", "closed", "reset"} /\ sent \in 0..MaxIn
    /\ open \in Flags /\ fatal \in BOOLEAN
    /\ outBuf \in Seq(Nat) /\ written \in Nat /\ flushed \in BOOLEAN
    /\ retry \in Seq(Nat) /\ accepted \in Seq(Nat)
    /\ taken \in 0..sent /\ decoded \in 0..Record /\ inBuf \in 0..(taken - decoded)
    /\ queue \in Seq(Event) /\ main \in {"idle", "reading", "setJob", "addSocket", "flush"}
    /\ filter \in Filters
    /\ handled \in Nat

StreamOut ==
    \E x, y, z \in Nat :
      /\ accepted = Run(0, x) /\ outBuf = Run(x, y) /\ retry = Run(x, z)
      /\ x + y <= written /\ x + z <= written
      /\ open.writable => x + y = written /\ z <= y
      /\ ~open.writable => y = 0
      /\ flushed => y = 0
      /\ ~secure => z = 0

(* The filter holds a whole packet only while the loop reads.              *)
FilterRead ==
    /\ main # "reading" => filter.buffer = 0
    /\ main = "reading" => ~filter.was /\ over = "no"
    /\ ~filter.size => filter.buffer = 0

InputAnnounced == inBuf > 0 => fatal \/ Waiting

(* Without TLS: every unit that has been taken is in a packet handled, in  *)
(* the filter or in the buffer.                                            *)
Held == 2 * handled + filter.buffer + (IF filter.size THEN 1 ELSE 0) + inBuf
InputAccounted ==
    ~secure => /\ ~fatal /\ decoded = 0
               /\ peer # "reset" /\ over = "no" => Held = taken

(* Nothing is announced after the end.                                     *)
Ordered(q) ==
    \A i, j \in 1..Len(q) : i < j /\ q[i] = "inputShutdown" => q[j] # "inputReady"
EndIsLast ==
    ~secure => /\ Ordered(queue)
               /\ "inputShutdown" \in EventsIn(queue) =>
                    ~open.readable /\ peer # "open" /\ (peer = "closed" => taken = sent)

EndHandled ==
    over = "inputShutdown" /\ ~secure =>
      peer # "open" /\ (peer = "closed" => handled = sent \div 2)

InputInv == FilterRead /\ InputAnnounced /\ InputAccounted /\ EndIsLast /\ EndHandled
StreamInv == StreamTypes /\ StreamOut /\ InputInv

-----------------------------------------------------------------------------
(* The queue.                                                              *)

LEMMA OrderedConcat ==
    ASSUME NEW q \in Seq(Event), NEW e \in Seq(Event), Ordered(q), Ordered(e),
           "inputShutdown" \in EventsIn(q) => "inputReady" \notin EventsIn(e)
    PROVE  Ordered(q \o e)
<1> DEFINE s == q \o e
<1>1. /\ s \in Seq(Event) /\ Len(s) = Len(q) + Len(e)
      /\ Len(q) \in Nat /\ Len(e) \in Nat
      /\ \A k \in 1..Len(q) : s[k] = q[k]
      /\ \A k \in 1..Len(e) : s[Len(q) + k] = e[k]
  BY ConcatParts
<1> HIDE DEF s
<1>2. ASSUME NEW k \in 1..Len(s)
      PROVE  \/ k \in 1..Len(q) /\ s[k] = q[k]
             \/ k - Len(q) \in 1..Len(e) /\ s[k] = e[k - Len(q)]
  <2>1. CASE k <= Len(q)
    BY <2>1, <1>1
  <2>2. CASE k > Len(q)
    <3>1. k - Len(q) \in 1..Len(e) /\ Len(q) + (k - Len(q)) = k
      BY <2>2, <1>1
    <3> QED
      BY <3>1, <1>1
  <2> QED
    BY <2>1, <2>2, <1>1
<1>3. ASSUME NEW i \in 1..Len(s), NEW j \in 1..Len(s), i < j, s[i] = "inputShutdown"
      PROVE  s[j] # "inputReady"
  <2>1. CASE i \in 1..Len(q) /\ s[i] = q[i] /\ j \in 1..Len(q) /\ s[j] = q[j]
    BY <2>1, <1>3 DEF Ordered
  <2>2. CASE i \in 1..Len(q) /\ s[i] = q[i] /\ j - Len(q) \in 1..Len(e) /\ s[j] = e[j - Len(q)]
    BY <2>2, <1>3 DEF EventsIn
  <2>3. CASE i - Len(q) \in 1..Len(e) /\ s[i] = e[i - Len(q)]
             /\ j - Len(q) \in 1..Len(e) /\ s[j] = e[j - Len(q)]
    <3>1. i - Len(q) < j - Len(q)
      BY <1>1, <1>3
    <3> QED
      BY <2>3, <3>1, <1>3 DEF Ordered
  <2>4. CASE i - Len(q) \in 1..Len(e) /\ j \in 1..Len(q)
    BY <2>4, <1>1, <1>3
  <2> QED
    BY <1>2, <2>1, <2>2, <2>3, <2>4
<1>4. Ordered(s)
  BY <1>3 DEF Ordered
<1> QED
  BY <1>4 DEF s

LEMMA OrderedOne ==
    ASSUME NEW e \in Seq(Event), "inputShutdown" \notin EventsIn(e) \/ "inputReady" \notin EventsIn(e)
    PROVE  Ordered(e)
  BY DEF Ordered, EventsIn

LEMMA TailOfQueue ==
    ASSUME NEW q \in Seq(Event), q # <<>>
    PROVE  /\ Tail(q) \in Seq(Event) /\ Head(q) \in Event
           /\ EventsIn(q) = {Head(q)} \cup EventsIn(Tail(q))
           /\ Ordered(q) => /\ Ordered(Tail(q))
                            /\ Head(q) = "inputShutdown" => "inputReady" \notin EventsIn(Tail(q))
<1> DEFINE s == Tail(q)
           h == Head(q)
<1>1. /\ s \in Seq(Event) /\ Len(q) \in Nat /\ Len(q) >= 1 /\ Len(s) = Len(q) - 1 /\ h = q[1] /\ h \in Event
      /\ \A k \in 1..Len(s) : s[k] = q[k + 1]
  OBVIOUS
<1> HIDE DEF s, h
<1>2. \A k \in 1..Len(s) : k + 1 \in 1..Len(q)
  BY <1>1
<1>3. EventsIn(q) = {h} \cup EventsIn(s)
  <2>1. ASSUME NEW k \in 1..Len(q) PROVE q[k] = h \/ q[k] \in EventsIn(s)
    <3>1. CASE k = 1
      BY <3>1, <1>1
    <3>2. CASE k # 1
      <4>1. k - 1 \in 1..Len(s) /\ (k - 1) + 1 = k
        BY <3>2, <1>1
      <4> QED
        BY <4>1, <1>1 DEF EventsIn
    <3> QED
      BY <3>1, <3>2
  <2>2. ASSUME NEW k \in 1..Len(s) PROVE s[k] \in EventsIn(q)
    BY <1>1, <1>2 DEF EventsIn
  <2>3. h \in EventsIn(q)
    <3>1. 1 \in 1..Len(q)
      BY <1>1
    <3> QED
      BY <3>1, <1>1 DEF EventsIn
  <2> QED
    BY <2>1, <2>2, <2>3 DEF EventsIn
<1>4. ASSUME Ordered(q) PROVE Ordered(s)
  <2>1. ASSUME NEW i \in 1..Len(s), NEW j \in 1..Len(s), i < j, s[i] = "inputShutdown"
        PROVE  s[j] # "inputReady"
    <3>1. i + 1 \in 1..Len(q) /\ j + 1 \in 1..Len(q) /\ i + 1 < j + 1
          /\ s[i] = q[i + 1] /\ s[j] = q[j + 1]
      BY <1>1, <1>2, <2>1
    <3> QED
      BY <3>1, <2>1, <1>4 DEF Ordered
  <2> QED
    BY <2>1 DEF Ordered
<1>5. ASSUME Ordered(q), h = "inputShutdown", NEW k \in 1..Len(s) PROVE s[k] # "inputReady"
  <2>1. 1 \in 1..Len(q) /\ k + 1 \in 1..Len(q) /\ 1 < k + 1 /\ s[k] = q[k + 1] /\ q[1] = "inputShutdown"
    BY <1>1, <1>2, <1>5
  <2> QED
    BY <2>1, <1>5 DEF Ordered
<1>6. Ordered(q) /\ h = "inputShutdown" => "inputReady" \notin EventsIn(s)
  BY <1>5 DEF EventsIn
<1> QED
  BY <1>1, <1>3, <1>4, <1>6 DEF s, h

LEMMA AppendOther ==
    ASSUME NEW q \in Seq(Event), NEW e \in {"outputError", "disconnected"}
    PROVE  /\ Append(q, e) \in Seq(Event)
           /\ EventsIn(Append(q, e)) = EventsIn(q) \cup {e}
           /\ Ordered(q) => Ordered(Append(q, e))
<1>1. <<e>> \in Seq(Event) /\ EventsIn(<<e>>) = {e}
  <2>1. e \in Event
    BY DEF Event
  <2> QED
    BY <2>1, OneOf
<1>2. Append(q, e) = q \o <<e>>
  <2>1. e \in Event
    BY DEF Event
  <2> QED
    BY <2>1, AppendIsConcat
<1>3. q \o <<e>> \in Seq(Event) /\ EventsIn(q \o <<e>>) = EventsIn(q) \cup {e}
  BY <1>1, EventsConcat
<1>4. Ordered(q) => Ordered(q \o <<e>>)
  BY <1>1, OrderedConcat, OrderedOne
<1> QED
  BY <1>2, <1>3, <1>4

-----------------------------------------------------------------------------
(* The steps.                                                              *)

LEMMA AsItIsGood ==
    ASSUME StreamInv
    PROVE  Kinds /\ WellKept(AsItIs)
<1>1. Kinds
  BY DEF StreamInv, StreamTypes, Kinds
<1>2. /\ AsItIs.open = open /\ AsItIs.in = inBuf /\ AsItIs.taken = taken
      /\ AsItIs.decoded = decoded /\ AsItIs.fatal = fatal /\ AsItIs.out = outBuf
      /\ AsItIs.flushed = flushed /\ AsItIs.retry = retry /\ AsItIs.accepted = accepted
      /\ AsItIs.sends = <<>>
  BY DEF AsItIs
<1>3. AsItIs \in SocketState
  <2>1. /\ open \in Flags /\ inBuf \in Int /\ taken \in Int /\ decoded \in Int /\ fatal \in BOOLEAN
        /\ outBuf \in Seq(Nat) /\ flushed \in BOOLEAN /\ retry \in Seq(Nat)
        /\ accepted \in Seq(Nat) /\ <<>> \in Seq(Event)
    BY NoneOf DEF StreamInv, StreamTypes
  <2> QED
    BY <2>1 DEF AsItIs, SocketState
<1>4. Told(AsItIs) = {}
  BY <1>2, NoneOf DEF Told
<1>5. OutGood(AsItIs)
  BY <1>2, Zenon DEF StreamInv, StreamOut, OutGood
<1>6. InGood(AsItIs)
  BY <1>2, <1>4 DEF StreamInv, StreamTypes, InputInv, InputAnnounced, InputAccounted,
                    InGood, Bounded
<1> QED
  BY <1>1, <1>3, <1>5, <1>6 DEF WellKept

LEMMA ServiceKeeps ==
    ASSUME StreamInv, ServiceSocket
    PROVE  StreamInv'
<1>1. Kinds /\ WellKept(AsItIs)
  BY AsItIsGood
<1>2. PICK s : WellKept(s) /\ Become(s)
  <2>1. PICK p \in Polled :
          \E s \in ServiceConnected(p) \cup {t \in {ServiceError} : peer = "reset"} : Become(s)
    BY DEF ServiceSocket
  <2>2. PICK s \in ServiceConnected(p) \cup {t \in {ServiceError} : peer = "reset"} : Become(s)
    BY <2>1
  <2>3. WellKept(s)
    BY <1>1, <2>2, ServiceGood, ServiceErrorGood
  <2> QED
    BY <2>2, <2>3
<1>3. UNCHANGED <<secure, side, sent, peer, written, main, flushing, filter, handled, over>>
  BY DEF ServiceSocket, around, reader
<1>4. /\ open' = s.open /\ fatal' = s.fatal
      /\ inBuf' = s.in /\ taken' = s.taken /\ decoded' = s.decoded
      /\ outBuf' = s.out /\ flushed' = s.flushed /\ retry' = s.retry /\ accepted' = s.accepted
      /\ queue' = queue \o s.sends
  BY <1>2 DEF Become
<1>5. s \in SocketState /\ OutGood(s) /\ InGood(s)
  BY <1>2 DEF WellKept
<1>6. s.sends \in Seq(Event) /\ queue \in Seq(Event)
  BY <1>5 DEF SocketState, StreamInv, StreamTypes, Filters
<1>7. queue' \in Seq(Event) /\ EventsIn(queue') = EventsIn(queue) \cup Told(s)
  BY <1>4, <1>6, EventsConcat DEF Told
<1>8. StreamTypes'
  <2>1. /\ s.open \in Flags /\ s.fatal \in BOOLEAN /\ s.out \in Seq(Nat) /\ s.flushed \in BOOLEAN
        /\ s.retry \in Seq(Nat) /\ s.accepted \in Seq(Nat)
    BY <1>5 DEF SocketState
  <2>2. Bounded(s)
    BY <1>5 DEF InGood
  <2> QED
    BY <1>3, <1>4, <1>7, <2>1, <2>2 DEF StreamInv, StreamTypes, Bounded
<1>9. StreamOut'
  BY <1>3, <1>4, <1>5, Zenon DEF OutGood, StreamOut
<1>10. FilterRead'
  BY <1>3 DEF StreamInv, InputInv, FilterRead
<1>11. InputAnnounced'
  BY <1>3, <1>4, <1>5, <1>7 DEF InGood, InputAnnounced, Waiting
<1>12. InputAccounted'
  <2> SUFFICES ASSUME ~secure
               PROVE  /\ ~fatal' /\ decoded' = 0
                      /\ peer # "reset" /\ over = "no" => Held' = taken'
    BY <1>3 DEF InputAccounted
  <2>1. ~s.fatal /\ s.decoded = 0 /\ (peer # "reset" => s.in - s.taken = inBuf - taken)
    BY <1>5 DEF InGood
  <2>2. s.in \in Int /\ s.taken \in Int /\ inBuf \in Int /\ taken \in Int /\ handled \in Int
        /\ filter.buffer \in Int
    BY <1>5 DEF SocketState, StreamInv, StreamTypes, Filters
  <2>3. peer # "reset" /\ over = "no" => Held = taken
    BY DEF StreamInv, InputInv, InputAccounted
  <2> DEFINE c == 2 * handled + filter.buffer + (IF filter.size THEN 1 ELSE 0)
  <2>4. c \in Int
    BY <2>2
  <2>5. Held = c + inBuf /\ Held' = c + s.in
    BY <1>3, <1>4 DEF Held
  <2> HIDE DEF c
  <2>6. peer # "reset" /\ over = "no" => c + s.in = s.taken
    BY <2>1, <2>2, <2>3, <2>4, <2>5
  <2> QED
    BY <1>3, <1>4, <2>1, <2>5, <2>6
<1>13. EndIsLast'
  <2> SUFFICES ASSUME ~secure
               PROVE  /\ Ordered(queue')
                      /\ "inputShutdown" \in EventsIn(queue') =>
                           ~open'.readable /\ peer # "open" /\ (peer = "closed" => taken' = sent)
    BY <1>3 DEF EndIsLast
  <2>1. /\ s.taken >= taken /\ s.taken \in 0..sent /\ taken \in Int /\ sent \in Nat
        /\ s.open.readable => open.readable
        /\ "inputReady" \in Told(s) => open.readable /\ "inputShutdown" \notin Told(s)
        /\ "inputShutdown" \in Told(s) =>
             ~s.open.readable /\ peer = "closed" /\ s.taken = sent
    BY <1>5 DEF InGood, Bounded, StreamInv, StreamTypes
  <2>2. /\ Ordered(queue)
        /\ "inputShutdown" \in EventsIn(queue) =>
             ~open.readable /\ peer # "open" /\ (peer = "closed" => taken = sent)
    BY DEF StreamInv, InputInv, EndIsLast
  <2>3. Ordered(s.sends)
    BY <1>6, <2>1, OrderedOne DEF Told
  <2>4. Ordered(queue \o s.sends)
    BY <1>6, <2>1, <2>2, <2>3, OrderedConcat DEF Told
  <2> QED
    BY <1>4, <1>7, <2>1, <2>2, <2>4
<1>14. EndHandled'
  BY <1>3 DEF StreamInv, InputInv, EndHandled
<1> QED
  BY <1>8, <1>9, <1>10, <1>11, <1>12, <1>13, <1>14 DEF StreamInv, InputInv

(* A step that leaves the socket and the queue alone.                      *)
LEMMA OutputKept ==
    ASSUME StreamOut, UNCHANGED <<secure, open, outBuf, written, flushed, retry, accepted>>
    PROVE  StreamOut'
  BY DEF StreamOut

LEMMA PeerKeeps ==
    ASSUME StreamInv, PeerSends \/ PeerEnds \/ PeerStalls \/ PeerResets
    PROVE  StreamInv'
<1>1. /\ UNCHANGED <<secure, taken, decoded, inBuf, open, fatal, outBuf, written, flushed, retry,
                     accepted, queue, main, filter, handled, over>>
      /\ \/ peer = "open" /\ peer' = "open" /\ sent' = sent + 1 /\ sent < MaxIn
         \/ peer = "open" /\ peer' \in {"closed", "reset"} /\ sent' = sent
         \/ peer = "closed" /\ peer' = "reset" /\ sent' = sent
         \/ peer' = peer /\ sent' = sent
  BY DEF PeerSends, PeerEnds, PeerStalls, PeerResets, around, io, output, reader
<1>2. StreamTypes'
  BY <1>1 DEF StreamInv, StreamTypes
<1>3. StreamOut'
  BY <1>1, OutputKept DEF StreamInv
<1>4. FilterRead' /\ InputAnnounced'
  BY <1>1 DEF StreamInv, InputInv, FilterRead, InputAnnounced, Waiting
<1>5. InputAccounted'
  BY <1>1 DEF StreamInv, InputInv, InputAccounted, Held
<1>6. EndIsLast'
  BY <1>1 DEF StreamInv, InputInv, EndIsLast
<1>7. EndHandled'
  BY <1>1 DEF StreamInv, InputInv, EndHandled
<1> QED
  BY <1>2, <1>3, <1>4, <1>5, <1>6, <1>7 DEF StreamInv, InputInv

LEMMA WriteKeeps ==
    ASSUME StreamInv, Write
    PROVE  StreamInv'
<1>1. UNCHANGED <<secure, sent, peer, taken, decoded, inBuf, open, fatal, retry, accepted,
                  filter, handled, over>>
  BY DEF Write, around, io, reader
<1>2. main = "idle" /\ over = "no"
  BY DEF Write
<1>3. main' \in {"idle", "setJob", "flush"}
  BY DEF Write
<1>4. CASE open.writable
  <2>1. /\ outBuf' = Append(outBuf, written + 1) /\ written' = written + 1
        /\ flushed' = FALSE /\ queue' = queue
    BY <1>4 DEF Write
  <2>2. StreamTypes'
    <3>1. outBuf \in Seq(Nat) /\ written \in Nat
      BY DEF StreamInv, StreamTypes
    <3>2. Append(outBuf, written + 1) \in Seq(Nat) /\ written + 1 \in Nat
      BY <3>1
    <3> QED
      BY <1>1, <1>3, <2>1, <3>2 DEF StreamInv, StreamTypes
  <2>3. StreamOut'
    <3>1. PICK x, y, z \in Nat :
            /\ accepted = Run(0, x) /\ outBuf = Run(x, y) /\ retry = Run(x, z)
            /\ x + y <= written /\ x + z <= written
            /\ open.writable => x + y = written /\ z <= y
            /\ ~secure => z = 0
      BY Zenon DEF StreamInv, StreamOut
    <3>2. x + y = written /\ z <= y /\ written \in Nat
      BY <3>1, <1>4 DEF StreamInv, StreamTypes
    <3>3. outBuf' = Run(x, y + 1)
      <4>1. Longer(Run(x, y), x + y + 1) = Run(x, y + 1)
        BY RunParts
      <4> QED
        BY <2>1, <3>1, <3>2, <4>1 DEF Longer
    <3>4. y + 1 \in Nat /\ x + (y + 1) = written' /\ x + z <= written' /\ x + (y + 1) <= written'
          /\ z <= y + 1
      BY <2>1, <3>1, <3>2
    <3> QED
      BY <1>1, <1>4, <2>1, <3>1, <3>3, <3>4, Zenon DEF StreamOut
  <2>4. InputInv'
    BY <1>1, <1>2, <1>3, <2>1 DEF StreamInv, InputInv, FilterRead, InputAnnounced, Waiting,
                                  InputAccounted, Held, EndIsLast, EndHandled
  <2> QED
    BY <2>2, <2>3, <2>4 DEF StreamInv
<1>5. CASE ~open.writable
  <2>1. queue' = Append(queue, "outputError") /\ UNCHANGED <<outBuf, written, flushed>>
    BY <1>5 DEF Write
  <2>2. queue \in Seq(Event) /\ "outputError" \in {"outputError", "disconnected"}
    BY DEF StreamInv, StreamTypes
  <2>3. /\ queue' \in Seq(Event) /\ EventsIn(queue') = EventsIn(queue) \cup {"outputError"}
        /\ Ordered(queue) => Ordered(queue')
    BY <2>1, <2>2, AppendOther
  <2>4. StreamTypes'
    BY <1>1, <1>3, <2>1, <2>3 DEF StreamInv, StreamTypes
  <2>5. StreamOut'
    BY <1>1, <2>1, OutputKept DEF StreamInv
  <2>6. FilterRead' /\ InputAnnounced' /\ InputAccounted' /\ EndHandled'
    BY <1>1, <1>2, <1>3, <2>3 DEF StreamInv, InputInv, FilterRead, InputAnnounced, Waiting,
                                  InputAccounted, Held, EndHandled
  <2>7. EndIsLast'
    BY <1>1, <2>3 DEF StreamInv, InputInv, EndIsLast
  <2> QED
    BY <2>4, <2>5, <2>6, <2>7 DEF StreamInv, InputInv
<1> QED
  BY <1>4, <1>5

LEMMA SetJobFlushKeep ==
    ASSUME StreamInv, MakeJob \/ SetJobAfter \/ Flush
    PROVE  StreamInv'
<1>1. /\ UNCHANGED <<secure, sent, peer, taken, decoded, inBuf, open, fatal, outBuf, written,
                     flushed, retry, accepted, queue, filter, handled, over>>
      /\ main \in {"setJob", "addSocket", "flush"} /\ main' \in {"idle", "addSocket", "flush"}
  BY DEF MakeJob, SetJobAfter, Flush, around, io, output, reader
<1>2. StreamTypes'
  BY <1>1 DEF StreamInv, StreamTypes
<1>3. StreamOut'
  BY <1>1, OutputKept DEF StreamInv
<1>4. InputInv'
  BY <1>1 DEF StreamInv, InputInv, FilterRead, InputAnnounced, Waiting,
              InputAccounted, Held, EndIsLast, EndHandled
<1> QED
  BY <1>2, <1>3, <1>4 DEF StreamInv

LEMMA ReadMoreKeeps ==
    ASSUME StreamInv, ReadMore
    PROVE  StreamInv'
<1>1. /\ UNCHANGED <<secure, sent, peer, taken, decoded, inBuf, open, fatal, outBuf, written,
                     flushed, retry, accepted, handled, over>>
      /\ main = "idle" /\ main' = "reading" /\ over = "no"
      /\ queue # <<>> /\ queue' = Tail(queue)
      /\ filter' = [filter EXCEPT !.was = Ready(filter)]
  BY DEF ReadMore, around, io, output
<1>2. queue \in Seq(Event)
      /\ filter \in Filters
  BY DEF StreamInv, StreamTypes
<1>3. /\ queue' \in Seq(Event) /\ EventsIn(queue') \subseteq EventsIn(queue)
      /\ Ordered(queue) => Ordered(queue')
  BY <1>1, <1>2, TailOfQueue
<1>4. filter.buffer = 0
  BY <1>1 DEF StreamInv, InputInv, FilterRead
<1>5. /\ filter' \in Filters
      /\ filter'.was = FALSE /\ filter'.size = filter.size /\ filter'.buffer = filter.buffer
  <2>1. Ready(filter) = FALSE
    BY <1>4 DEF Ready
  <2> QED
    <3>1. filter' = [filter EXCEPT !.was = FALSE]
      BY <1>1, <2>1
    <3> QED
      BY <1>2, <3>1 DEF Filters
<1>6. StreamTypes'
  BY <1>1, <1>3, <1>5 DEF StreamInv, StreamTypes
<1>7. StreamOut'
  BY <1>1, OutputKept DEF StreamInv
<1>8. FilterRead' /\ InputAnnounced' /\ EndHandled'
  BY <1>1, <1>4, <1>5 DEF StreamInv, InputInv, FilterRead, InputAnnounced, Waiting, EndHandled
<1>9. InputAccounted'
  BY <1>1, <1>5 DEF StreamInv, InputInv, InputAccounted, Held
<1>10. EndIsLast'
  BY <1>1, <1>3 DEF StreamInv, InputInv, EndIsLast
<1> QED
  BY <1>6, <1>7, <1>8, <1>9, <1>10 DEF StreamInv, InputInv

LEMMA ReadSocketKeeps ==
    ASSUME StreamInv, ReadSocket
    PROVE  StreamInv'
<1>1. /\ UNCHANGED <<secure, sent, peer, taken, decoded, fatal, outBuf, written,
                     flushed, retry, accepted, main, handled, over>>
      /\ main = "reading" /\ inBuf > 0 /\ inBuf' = 0
      /\ filter' = ReadPacketSize([filter EXCEPT !.buffer = @ + inBuf])
      /\ \/ queue' = Append(queue, "disconnected") /\ open' = [open EXCEPT !.connected = FALSE]
         \/ UNCHANGED <<queue, open>>
  BY DEF ReadSocket, around, output
<1>2. /\ queue \in Seq(Event) /\ inBuf \in Nat /\ handled \in Nat /\ open \in Flags
      /\ filter \in Filters
  BY DEF StreamInv, StreamTypes
<1>3. "disconnected" \in {"outputError", "disconnected"}
  OBVIOUS
<1>4. /\ queue' \in Seq(Event) /\ EventsIn(queue') \subseteq EventsIn(queue) \cup {"disconnected"}
      /\ Ordered(queue) => Ordered(queue')
  BY <1>1, <1>2, <1>3, AppendOther
<1>5. open' \in Flags /\ open'.readable = open.readable /\ open'.writable = open.writable
  BY <1>1, <1>2 DEF Flags
<1> DEFINE n == filter.buffer + inBuf
           f == [filter EXCEPT !.buffer = n]
           m == f.buffer - 1
           g == [f EXCEPT !.size = TRUE, !.buffer = m]
<1>6. filter.buffer \in Nat /\ n \in Nat /\ n > 0
  BY <1>1, <1>2 DEF Filters
<1>7. filter' = IF ~f.size /\ f.buffer > 0 THEN g ELSE f
  BY <1>1 DEF ReadPacketSize
<1> HIDE DEF n
<1>a. f \in Filters /\ f.was = filter.was /\ f.size = filter.size /\ f.buffer = n
  BY <1>2, <1>6 DEF Filters
<1> HIDE DEF f
<1>b. m \in Nat /\ m = n - 1
  BY <1>6, <1>a
<1> HIDE DEF m
<1>c. g \in Filters /\ g.was = f.was /\ g.size = TRUE /\ g.buffer = m
  BY <1>a, <1>b DEF Filters
<1> HIDE DEF g
<1>8. /\ filter' \in Filters
      /\ filter'.was = filter.was /\ filter'.size = TRUE
      /\ filter'.buffer = IF filter.size THEN n ELSE n - 1
  <2>1. filter.size \in BOOLEAN
    BY <1>2 DEF Filters
  <2> QED
    BY <1>6, <1>7, <1>a, <1>b, <1>c, <2>1
<1>9. StreamTypes'
  BY <1>1, <1>4, <1>5, <1>8 DEF StreamInv, StreamTypes
<1>10. StreamOut'
  BY <1>1, <1>5 DEF StreamInv, StreamOut
<1>11. FilterRead' /\ InputAnnounced' /\ EndHandled'
  BY <1>1, <1>8 DEF StreamInv, InputInv, FilterRead, InputAnnounced, EndHandled
<1>12. Held' = Held
  <2>1. Held' = 2 * handled + filter'.buffer + 1
    BY <1>1, <1>2, <1>6, <1>8 DEF Held
  <2>2. Held = 2 * handled + n + (IF filter.size THEN 1 ELSE 0)
    BY <1>2, <1>6 DEF Held, n
  <2>3. 2 * handled \in Nat
    BY <1>2
  <2> QED
    BY <1>6, <1>8, <2>1, <2>2, <2>3
<1>13. InputAccounted'
  BY <1>1, <1>12 DEF StreamInv, InputInv, InputAccounted
<1>14. EndIsLast'
  BY <1>1, <1>4, <1>5 DEF StreamInv, InputInv, EndIsLast
<1> QED
  BY <1>9, <1>10, <1>11, <1>13, <1>14 DEF StreamInv, InputInv

LEMMA Halves ==
    ASSUME NEW u \in Nat
    PROVE  /\ u \div 2 \in Nat /\ (u % 2 = 1) \in BOOLEAN
           /\ u = 2 * (u \div 2) + IF u % 2 = 1 THEN 1 ELSE 0
<1>1. u = 2 * (u \div 2) + (u % 2) /\ u % 2 \in 0..1 /\ u \div 2 \in Int
  OBVIOUS
<1>2. u \div 2 \in Nat
  OBVIOUS
<1> QED
  BY <1>1, <1>2

LEMMA ReadDoneKeeps ==
    ASSUME StreamInv, ReadDone
    PROVE  StreamInv'
<1>1. /\ UNCHANGED <<secure, sent, peer, taken, decoded, inBuf, open, fatal, outBuf, written,
                     flushed, retry, accepted, over>>
      /\ main = "reading" /\ inBuf = 0 /\ main' = "idle"
      /\ IF Ready(filter) # filter.was
         THEN LET d == Drain(filter) IN
              filter' = d.filter /\ handled' = handled + d.packets /\ queue' = queue \o d.shuts
         ELSE UNCHANGED <<filter, handled, queue>>
  BY DEF ReadDone, around, io, output, reader
<1>2. /\ queue \in Seq(Event) /\ handled \in Nat /\ filter \in Filters
      /\ filter.buffer \in Nat /\ filter.size \in BOOLEAN
  BY DEF StreamInv, StreamTypes, Filters
<1>3. ~filter.was /\ over = "no" /\ (~filter.size => filter.buffer = 0)
  BY <1>1 DEF StreamInv, InputInv, FilterRead
<1> DEFINE units == filter.buffer + IF filter.size THEN 1 ELSE 0
           odd == units % 2 = 1
           rest == [filter EXCEPT !.size = odd, !.buffer = 0]
           shuts == IF filter.shut /\ ~rest.size THEN <<"filterShutdown">> ELSE <<>>
<1>4. \/ /\ filter' = rest /\ handled' = handled + units \div 2 /\ queue' = queue \o shuts
      \/ /\ UNCHANGED <<filter, handled, queue>> /\ filter.buffer = 0
  <2>1. CASE Ready(filter) # filter.was
    <3>1. /\ Drain(filter).filter = rest /\ Drain(filter).packets = units \div 2
          /\ Drain(filter).shuts = shuts
      BY DEF Drain
    <3> QED
      BY <1>1, <2>1, <3>1
  <2>2. CASE ~ (Ready(filter) # filter.was)
    <3>1. ~ (filter.size /\ filter.buffer > 0)
      BY <1>2, <1>3, <2>2 DEF Ready, Filters
    <3> QED
      BY <1>1, <1>2, <1>3, <2>2, <3>1
  <2> QED
    BY <2>1, <2>2
<1>5. units \in Nat /\ units \div 2 \in Nat /\ odd \in BOOLEAN
      /\ units = 2 * (units \div 2) + (IF odd THEN 1 ELSE 0)
  <2>1. units \in Nat
    BY <1>2
  <2> HIDE DEF units
  <2> QED
    BY <2>1, Halves
<1> HIDE DEF units, odd
<1>6. rest \in Filters /\ rest.buffer = 0 /\ rest.size = odd
  BY <1>2, <1>5 DEF Filters
<1>7. shuts \in Seq(Event) /\ "inputReady" \notin EventsIn(shuts) /\ "inputShutdown" \notin EventsIn(shuts)
  <2>1. "filterShutdown" \in Event
    BY DEF Event
  <2>2. <<"filterShutdown">> \in Seq(Event) /\ EventsIn(<<"filterShutdown">>) = {"filterShutdown"}
    BY <2>1, OneOf
  <2> HIDE DEF rest
  <2> QED
    BY <2>2, NoneOf
<1> HIDE DEF rest, shuts
<1>8. /\ queue' \in Seq(Event)
      /\ "inputShutdown" \in EventsIn(queue') => "inputShutdown" \in EventsIn(queue)
      /\ "inputReady" \in EventsIn(queue) => "inputReady" \in EventsIn(queue')
      /\ Ordered(queue) => Ordered(queue')
  <2>1. queue \o shuts \in Seq(Event) /\ EventsIn(queue \o shuts) = EventsIn(queue) \cup EventsIn(shuts)
    BY <1>2, <1>7, EventsConcat
  <2>2. Ordered(shuts)
    BY <1>7, OrderedOne
  <2>3. Ordered(queue) => Ordered(queue \o shuts)
    BY <1>2, <1>7, <2>2, OrderedConcat
  <2> QED
    BY <1>2, <1>4, <1>7, <2>1, <2>3
<1>9. filter' \in Filters /\ filter'.buffer = 0 /\ handled' \in Nat
  BY <1>2, <1>4, <1>5, <1>6
<1>10. StreamTypes'
  BY <1>1, <1>8, <1>9 DEF StreamInv, StreamTypes
<1>11. StreamOut'
  BY <1>1, OutputKept DEF StreamInv
<1>12. FilterRead' /\ InputAnnounced' /\ EndHandled'
  BY <1>1, <1>3, <1>9 DEF FilterRead, InputAnnounced, EndHandled
<1>13. Held' = Held
  <2>1. CASE filter' = rest /\ handled' = handled + units \div 2
    <3>1. Held' = 2 * handled' + (IF odd THEN 1 ELSE 0) + 0 + 0
      BY <1>1, <1>6, <2>1 DEF Held
    <3>2. Held = 2 * handled + units
      BY <1>1, <1>2 DEF Held, units
    <3> DEFINE half == units \div 2
               one == IF odd THEN 1 ELSE 0
    <3>3. half \in Nat /\ one \in Nat /\ units = 2 * half + one /\ handled' = handled + half
          /\ Held' = 2 * handled' + one + 0 + 0
      BY <1>5, <2>1, <3>1
    <3> HIDE DEF half, one
    <3> QED
      BY <1>2, <3>2, <3>3
  <2>2. CASE UNCHANGED <<filter, handled>>
    BY <1>1, <2>2 DEF Held
  <2> QED
    BY <1>4, <2>1, <2>2
<1>14. InputAccounted'
  BY <1>1, <1>13 DEF StreamInv, InputInv, InputAccounted
<1>15. EndIsLast'
  BY <1>1, <1>8 DEF StreamInv, InputInv, EndIsLast
<1> QED
  BY <1>10, <1>11, <1>12, <1>14, <1>15 DEF StreamInv, InputInv

LEMMA FilterShutdownKeeps ==
    ASSUME StreamInv, FilterShutdown
    PROVE  StreamInv'
<1>1. /\ main = "idle" /\ over = "no" /\ queue # <<>> /\ Head(queue) = "inputShutdown"
      /\ queue' = Tail(queue)
  BY DEF FilterShutdown
<1>2. /\ queue \in Seq(Event) /\ filter \in Filters /\ handled \in Nat /\ inBuf \in Nat
      /\ sent \in Nat /\ filter.size \in BOOLEAN
  BY DEF StreamInv, StreamTypes, Filters
<1>3. filter.buffer = 0
  BY <1>1 DEF StreamInv, InputInv, FilterRead
<1>4. /\ filter' = [filter EXCEPT !.shut = TRUE, !.size = FALSE] /\ over' = "inputShutdown"
      /\ UNCHANGED <<secure, sent, peer, taken, decoded, inBuf, open, fatal, outBuf, written,
                     flushed, retry, accepted, main, handled>>
  BY <1>3 DEF FilterShutdown, Ready, Ends, around, io, output
<1>5. filter' \in Filters /\ filter'.buffer = 0
  BY <1>2, <1>3, <1>4 DEF Filters
<1>6. /\ queue' \in Seq(Event)
      /\ EventsIn(queue) = {"inputShutdown"} \cup EventsIn(queue')
      /\ Ordered(queue) => Ordered(queue') /\ "inputReady" \notin EventsIn(queue')
  BY <1>1, <1>2, TailOfQueue
<1>7. StreamTypes'
  BY <1>1, <1>4, <1>5, <1>6 DEF StreamInv, StreamTypes
<1>8. StreamOut'
  BY <1>4, OutputKept DEF StreamInv
<1>9. FilterRead'
  BY <1>1, <1>4, <1>5 DEF FilterRead
<1>10. InputAnnounced'
  BY <1>1, <1>4, <1>6 DEF StreamInv, InputInv, InputAnnounced, Waiting
<1>11. InputAccounted'
  BY <1>4 DEF StreamInv, InputInv, InputAccounted
<1>12. EndIsLast'
  BY <1>4, <1>6 DEF StreamInv, InputInv, EndIsLast
<1>13. EndHandled'
  <2> SUFFICES ASSUME ~secure
               PROVE  peer # "open" /\ (peer = "closed" => handled = sent \div 2)
    BY <1>4 DEF EndHandled
  <2>1. /\ peer # "open" /\ (peer = "closed" => taken = sent)
        /\ "inputReady" \notin EventsIn(queue')
    BY <1>6 DEF StreamInv, InputInv, EndIsLast
  <2>2. inBuf = 0
    BY <1>1, <1>2, <1>6, <2>1 DEF StreamInv, InputInv, InputAnnounced, InputAccounted, Waiting
  <2>3. peer # "reset" => Held = taken
    BY <1>1 DEF StreamInv, InputInv, InputAccounted
  <2>4. Held = 2 * handled + IF filter.size THEN 1 ELSE 0
    BY <1>2, <1>3, <2>2 DEF Held
  <2>5. ASSUME peer = "closed" PROVE handled = sent \div 2
    <3>1. sent = 2 * handled + IF filter.size THEN 1 ELSE 0
      BY <2>1, <2>3, <2>4, <2>5
    <3> QED
      BY <1>2, <3>1
  <2> QED
    BY <2>1, <2>5
<1> QED
  BY <1>7, <1>8, <1>9, <1>10, <1>11, <1>12, <1>13 DEF StreamInv, InputInv

LEMMA PassEventKeeps ==
    ASSUME StreamInv, PassEvent
    PROVE  StreamInv'
<1>1. /\ main = "idle" /\ over = "no" /\ queue # <<>> /\ queue' = Tail(queue)
      /\ Head(queue) \notin {"inputReady", "inputShutdown"}
      /\ UNCHANGED <<secure, sent, peer, taken, decoded, inBuf, open, fatal, outBuf, written,
                     flushed, retry, accepted, main, filter, handled>>
      /\ over' = over \/ over' = Head(queue)
  BY DEF PassEvent, Ends, around, io, output, reader
<1>2. queue \in Seq(Event)
  BY DEF StreamInv, StreamTypes
<1>3. /\ queue' \in Seq(Event)
      /\ EventsIn(queue) = {Head(queue)} \cup EventsIn(queue')
      /\ Ordered(queue) => Ordered(queue')
  BY <1>1, <1>2, TailOfQueue
<1>4. StreamTypes'
  BY <1>1, <1>3 DEF StreamInv, StreamTypes
<1>5. StreamOut'
  BY <1>1, OutputKept DEF StreamInv
<1>6. FilterRead'
  BY <1>1 DEF StreamInv, InputInv, FilterRead
<1>7. InputAnnounced'
  BY <1>1, <1>3 DEF StreamInv, InputInv, InputAnnounced, Waiting
<1>8. InputAccounted'
  BY <1>1 DEF StreamInv, InputInv, InputAccounted, Held
<1>9. EndIsLast'
  BY <1>1, <1>3 DEF StreamInv, InputInv, EndIsLast
<1>10. EndHandled'
  BY <1>1 DEF EndHandled
<1> QED
  BY <1>4, <1>5, <1>6, <1>7, <1>8, <1>9, <1>10 DEF StreamInv, InputInv

LEMMA StreamInvHolds == StreamSpec => []StreamInv
<1>1. ASSUME InitStream PROVE StreamInv
  <2>1. StreamTypes
    <3>1. filter \in Filters /\ open \in Flags
      BY <1>1 DEF InitStream, Filters, Flags
    <3>2. queue \in Seq(Event) /\ outBuf \in Seq(Nat) /\ retry \in Seq(Nat) /\ accepted \in Seq(Nat)
      BY <1>1, EmptySeq DEF InitStream
    <3>3. /\ sent = 0 /\ taken = 0 /\ decoded = 0 /\ inBuf = 0 /\ written = 0 /\ handled = 0
          /\ secure \in BOOLEAN /\ fatal = FALSE /\ flushed = TRUE
          /\ peer = "open" /\ main = "idle"
      BY <1>1 DEF InitStream
    <3>4. sent \in 0..MaxIn /\ taken \in 0..sent /\ decoded \in 0..Record /\ inBuf \in 0..(taken - decoded)
          /\ written \in Nat /\ handled \in Nat
      BY <3>3
    <3>5. fatal \in BOOLEAN /\ flushed \in BOOLEAN
      BY <3>3
    <3> QED
      BY <3>1, <3>2, <3>3, <3>4, <3>5 DEF StreamTypes
  <2>2. StreamOut
    <3>1. Run(0, 0) = <<>> /\ 0 \in Nat /\ 0 + 0 <= 0 /\ 0 + 0 = 0 /\ 0 <= 0
      BY RunParts
    <3>2. accepted = Run(0, 0) /\ outBuf = Run(0, 0) /\ retry = Run(0, 0) /\ written = 0
      BY <1>1, <3>1 DEF InitStream
    <3> QED
      BY <3>1, <3>2 DEF StreamOut
  <2>3. EventsIn(queue) = {} /\ Ordered(queue)
    BY <1>1, NoneOf, OrderedOne DEF InitStream
  <2>4. InputInv
    BY <1>1, <2>3 DEF InitStream, InputInv, FilterRead, InputAnnounced, InputAccounted, Held,
                      EndIsLast, EndHandled
  <2> QED
    BY <2>1, <2>2, <2>4 DEF StreamInv
<1>2. ASSUME StreamInv, [NextStream]_streamVars PROVE StreamInv'
  <2>1. CASE UNCHANGED streamVars
    <3>1. UNCHANGED <<secure, sent, peer, taken, decoded, inBuf, overfull, open, fatal,
                      outBuf, written, flushed, retry, accepted, job, queue, main, flushing,
                      filter, handled, over>>
      BY <2>1 DEF streamVars, around, io, output, reader
    <3> QED
      BY <1>2, <3>1 DEF StreamInv, StreamTypes, StreamOut, InputInv, FilterRead, InputAnnounced,
                        Waiting, InputAccounted, Held, EndIsLast, EndHandled
  <2>2. CASE NextStream
    BY <1>2, <2>2, PeerKeeps, ServiceKeeps, WriteKeeps, SetJobFlushKeep, ReadMoreKeeps,
       ReadSocketKeeps, ReadDoneKeeps, FilterShutdownKeeps, PassEventKeeps DEF NextStream
  <2> QED
    BY <1>2, <2>1, <2>2
<1> QED
  BY <1>1, <1>2, PTL DEF StreamSpec

(* Whatever fails, whenever, and however often a write must be repeated:   *)
(* what the kernel has taken to send is what was written, in order and     *)
(* nothing twice (TCPSocket::doWrite(), SecureSocket::doWrite()).          *)
THEOREM UnitsSentInOrder == StreamSpec => []SentInOrder
<1>1. StreamInv => SentInOrder
  <2> SUFFICES ASSUME StreamInv PROVE SentInOrder
    OBVIOUS
  <2>1. PICK x \in Nat : accepted = Run(0, x)
    BY Zenon DEF StreamInv, StreamOut
  <2>2. Len(accepted) = x
    BY <2>1, RunIs
  <2>3. Run(0, x) = [k \in 1..x |-> k]
    BY DEF Run
  <2> QED
    BY <2>1, <2>2, <2>3 DEF SentInOrder
<1> QED
  BY <1>1, StreamInvHolds, PTL

(* No byte that has arrived waits for an event that does not come, and a   *)
(* peer that closes in order, without TLS, has had every packet handled    *)
(* before the stream is closed (TCPSocket::doRead(),                       *)
(* PacketStreamFilter::filterEvent()).                                     *)
THEOREM EveryByteIsHandled == StreamSpec => []InputHandled
<1>1. StreamInv => InputHandled
  <2> SUFFICES ASSUME StreamInv PROVE InputHandled
    OBVIOUS
  <2>1. Announced
    BY DEF StreamInv, InputInv, FilterRead, InputAnnounced, Waiting, EventsIn, Announced, Ready
  <2>2. AllHandled
    BY DEF StreamInv, InputInv, EndHandled, AllHandled
  <2> QED
    BY <2>1, <2>2 DEF InputHandled
<1> QED
  BY <1>1, StreamInvHolds, PTL

(* The buffers keep their bounds, and the flags agree with them.           *)
THEOREM StreamTypeCorrect == StreamSpec => []StreamTypeOK
<1>1. StreamInv => StreamTypeOK
  <2> SUFFICES ASSUME StreamInv PROVE StreamTypeOK
    OBVIOUS
  <2>1. PICK x, y, z \in Nat :
          /\ accepted = Run(0, x) /\ outBuf = Run(x, y) /\ retry = Run(x, z)
          /\ x + y <= written
          /\ open.writable => z <= y
          /\ flushed => y = 0
    BY Zenon DEF StreamInv, StreamOut
  <2>2. Len(accepted) = x /\ Len(outBuf) = y /\ Len(retry) = z
        /\ (outBuf = <<>> <=> y = 0) /\ (retry = <<>> <=> z = 0)
    <3>1. /\ Len(Run(0, x)) = x /\ Len(Run(x, y)) = y /\ Len(Run(x, z)) = z
          /\ (Run(x, y) = <<>> <=> y = 0) /\ (Run(x, z) = <<>> <=> z = 0)
      BY RunIs
    <3> QED
      BY <2>1, <3>1, Zenon
  <2>3. /\ Len(outBuf) + Len(accepted) <= written
        /\ (flushed => outBuf = <<>>)
    BY <2>1, <2>2 DEF StreamInv, StreamTypes
  <2>4. retry # <<>> /\ open.writable => outBuf # <<>>
    BY <2>1, <2>2 DEF StreamInv, StreamTypes, Flags
  <2> QED
    BY <2>3, <2>4 DEF StreamInv, StreamTypes, StreamTypeOK, Flags
<1> QED
  BY <1>1, StreamInvHolds, PTL
=============================================================================
