---------------------------- MODULE Files_proofs ----------------------------
(***************************************************************************)
(* Proofs about the two ways files travel.  FileClipboard: what the other  *)
(* computer is given is the file uploaded for it, and the poll sends       *)
(* nothing back that it was given.  FileDrag: what earlier drags left      *)
(* behind does not mix with a drag that meets no other.                    *)
(***************************************************************************)
EXTENDS FileClipboard, FileDrag, SequenceTheorems, TLAPS

Contents == Machine \X Own \X Nat
Kept == {Saved(k) : k \in Numbers}
Path == {Nothing.path} \cup {Mine(i) : i \in Own} \cup Kept
Copy == [path : Path, of : Contents \cup {<<>>}, by : {"user", "event", "history"}]
Event == [path : Kept, of : Contents \cup {<<>>}, content : Contents, old : BOOLEAN]
Upload == [to : Machine, content : Contents, of : Contents \cup {<<>>}, try : Nat,
           clip : BOOLEAN, heard : BOOLEAN]
Post == [to : Machine, path : Kept, content : Contents, of : Contents \cup {<<>>},
         checked : BOOLEAN, heard : BOOLEAN]

(* The paths of a machine name its user's files or files it has saved.      *)
Named(m, p) == p \in Kept => saved[m][p[2]] # <<>>

DeskOK ==
  /\ clip \in [Machine -> Copy] /\ last \in [Machine -> Path]
  /\ copying \in [Machine -> SUBSET Kept]
  /\ toggling \in [Machine -> {Nothing.path} \cup ({"read"} \X Path)]
  /\ edit \in [Machine -> [Own -> Nat]]
PollOK ==
  /\ pc \in [Machine -> {"idle", "events", "copying", "read", "uploading", "posting", "hung"}]
  /\ seen \in [Machine -> Copy]
ReceiverOK ==
  /\ saved \in [Machine -> [Numbers -> Contents \cup {<<>>}]]
  /\ inbox \in [Machine -> Seq(Event)]
  /\ uploads \in SUBSET Upload /\ posts \in SUBSET Post
NamesOK ==
  \A m \in Machine : /\ Named(m, clip[m].path) /\ Named(m, seen[m].path)
                     /\ \A p \in copying[m] : Named(m, p)
Right ==
  /\ \A m \in Machine : \A k \in 1..Len(inbox[m]) :
       saved[m][inbox[m][k].path[2]] = inbox[m][k].content
  /\ \A p \in posts : saved[p.to][p.path[2]] = p.content
Inv == DeskOK /\ PollOK /\ ReceiverOK /\ NamesOK /\ Right

LEMMA NoContent == <<>> \notin Contents
  BY DEF Contents

LEMMA KeptNumber == \A p \in Kept : p[1] = "saved" /\ p[2] \in Numbers /\ p = Saved(p[2])
  BY DEF Kept, Saved

LEMMA SavedKept == \A k \in Numbers : Saved(k) \in Kept /\ Saved(k)[2] = k
  BY DEF Kept, Saved

LEMMA NotKept == Nothing.path \notin Kept /\ \A i \in Own : Mine(i) \notin Kept
  BY DEF Kept, Saved, Mine, Nothing

LEMMA PeerType == \A m \in Machine : Peer(m) \in Machine /\ Peer(m) # m
  BY ClipboardAssumption DEF Peer

LEMMA NothingType == Nothing \in Copy
  BY DEF Nothing, Copy, Path

LEMMA ContentType ==
  ASSUME DeskOK, ReceiverOK, NEW m \in Machine, NEW p \in Path, p # Nothing.path, Named(m, p)
  PROVE  Content(m, p) \in Contents
  <1>1. CASE p \in Kept
    BY <1>1, KeptNumber DEF Content, Named, ReceiverOK
  <1>2. CASE \E i \in Own : p = Mine(i)
    <2>1. PICK i \in Own : p = Mine(i)
      BY <1>2
    <2>2. p[1] = "own" /\ p[2] = i
      BY <2>1 DEF Mine
    <2> QED
      BY <2>2 DEF Content, DeskOK, Contents
  <1> QED
    BY <1>1, <1>2 DEF Path

(* Names stay those of files while nothing saved is lost.                   *)
LEMMA NamesStay ==
  ASSUME NamesOK, NEW m \in Machine, UNCHANGED <<clip, seen, copying, saved>>
  PROVE  NamesOK'
  BY DEF NamesOK, Named

LEMMA RightStays ==
  ASSUME Right, UNCHANGED <<saved, inbox, posts>>
  PROVE  Right'
  BY DEF Right

-----------------------------------------------------------------------------
(* The users.                                                                *)
LEMMA UserCopiesInv ==
  ASSUME Inv, NEW m \in Machine, UserCopies(m)
  PROVE  Inv'
  <1>1. PICK new \in {Nothing} \cup {[path |-> Mine(i), of |-> Content(m, Mine(i)), by |-> "user"] : i \in Own} :
          clip' = [clip EXCEPT ![m] = new]
    BY DEF UserCopies
  <1>2. new \in Copy /\ new.path \notin Kept
    <2>1. CASE new = Nothing
      BY <2>1, NothingType, NotKept
    <2>2. CASE \E i \in Own : new = [path |-> Mine(i), of |-> Content(m, Mine(i)), by |-> "user"]
      <3>1. PICK i \in Own : new = [path |-> Mine(i), of |-> Content(m, Mine(i)), by |-> "user"]
        BY <2>2
      <3>2. Mine(i) \in Path /\ Mine(i) \notin Kept /\ Mine(i) # Nothing.path
        BY NotKept DEF Path, Mine, Nothing
      <3>3. Content(m, Mine(i)) \in Contents
        BY <3>2, ContentType DEF Inv, Named
      <3> QED
        BY <3>1, <3>2, <3>3 DEF Copy
    <2> QED
      BY <1>1, <2>1, <2>2
  <1>3. DeskOK' /\ PollOK' /\ ReceiverOK' /\ Right'
    BY <1>1, <1>2, RightStays DEF Inv, UserCopies, DeskOK, PollOK, ReceiverOK, polling, window, receiver
  <1>4. NamesOK'
    BY <1>1, <1>2 DEF Inv, UserCopies, DeskOK, NamesOK, Named, polling, window, receiver
  <1> QED
    BY <1>3, <1>4 DEF Inv

LEMMA UserEditsInv ==
  ASSUME Inv, NEW m \in Machine, UserEdits(m)
  PROVE  Inv'
  <1>1. DeskOK'
    BY DEF Inv, UserEdits, DeskOK, desk, window
  <1>2. PollOK' /\ ReceiverOK' /\ Right' /\ NamesOK'
    BY RightStays, NamesStay DEF Inv, UserEdits, PollOK, ReceiverOK, desk, polling, window, receiver
  <1> QED
    BY <1>1, <1>2 DEF Inv

LEMMA UserSendsInv ==
  ASSUME Inv, NEW m \in Machine, UserSends(m)
  PROVE  Inv'
  <1>1. PICK i \in Own : uploads' = uploads \cup
          {[to |-> Peer(m), content |-> Content(m, Mine(i)), of |-> Content(m, Mine(i)),
            try |-> 1, clip |-> FALSE, heard |-> TRUE]}
    BY DEF UserSends
  <1>2. Mine(i) \in Path /\ Mine(i) \notin Kept /\ Mine(i) # Nothing.path
    BY NotKept DEF Path, Mine, Nothing
  <1>3. Content(m, Mine(i)) \in Contents
    BY <1>2, ContentType DEF Inv, Named
  <1>4. [to |-> Peer(m), content |-> Content(m, Mine(i)), of |-> Content(m, Mine(i)),
         try |-> 1, clip |-> FALSE, heard |-> TRUE] \in Upload
    BY <1>3, PeerType DEF Upload
  <1>6. ReceiverOK'
    BY <1>1, <1>4 DEF Inv, UserSends, ReceiverOK
  <1>5. DeskOK' /\ PollOK' /\ Right' /\ NamesOK'
    BY RightStays, NamesStay DEF Inv, UserSends, DeskOK, PollOK, desk, polling, window
  <1> QED
    BY <1>5, <1>6 DEF Inv

LEMMA HistoryInv ==
  ASSUME Inv, NEW m \in Machine, HistoryCopies(m) \/ HistoryCopied(m)
  PROVE  Inv'
  <1>1. CASE HistoryCopies(m)
    <2>1. PICK k \in Numbers : /\ saved[m][k] # <<>> /\ copying' = [copying EXCEPT ![m] = @ \cup {Saved(k)}]
                               /\ last' = CopyLocal(m, Saved(k))
      BY <1>1 DEF HistoryCopies
    <2>2. Saved(k) \in Kept /\ Saved(k) \in Path /\ Saved(k)[2] = k
      BY SavedKept DEF Path
    <2>3. DeskOK'
      BY <1>1, <2>1, <2>2 DEF Inv, HistoryCopies, DeskOK, CopyLocal
    <2>4. PollOK' /\ ReceiverOK' /\ Right'
      BY <1>1, RightStays DEF Inv, HistoryCopies, PollOK, ReceiverOK, polling, receiver
    <2>5. NamesOK'
      BY <1>1, <2>1, <2>2 DEF Inv, HistoryCopies, DeskOK, NamesOK, Named, polling, receiver
    <2> QED
      BY <2>3, <2>4, <2>5 DEF Inv
  <1>2. CASE HistoryCopied(m)
    <2>1. PICK p \in copying[m] :
            /\ copying' = [copying EXCEPT ![m] = @ \ {p}]
            /\ \/ clip' = [clip EXCEPT ![m] = [path |-> p, of |-> Content(m, p), by |-> "history"]]
               \/ clip' = clip
      BY <1>2 DEF HistoryCopied, WriteRejected
    <2>2. p \in Kept /\ p \in Path /\ p # Nothing.path /\ Named(m, p)
      BY NotKept DEF Inv, DeskOK, Path, NamesOK
    <2>3. Content(m, p) \in Contents
      BY <2>2, ContentType DEF Inv
    <2>4. DeskOK'
      <3>1. [path |-> p, of |-> Content(m, p), by |-> "history"] \in Copy
        BY <2>2, <2>3 DEF Copy
      <3>2. clip' \in [Machine -> Copy] /\ copying' \in [Machine -> SUBSET Kept]
        BY <2>1, <3>1 DEF Inv, DeskOK
      <3>3. UNCHANGED <<last, toggling, edit>>
        BY <1>2 DEF HistoryCopied, user
      <3> QED
        BY <3>2, <3>3 DEF Inv, DeskOK
    <2>5. PollOK' /\ ReceiverOK' /\ Right'
      BY <1>2, RightStays DEF Inv, HistoryCopied, PollOK, ReceiverOK, polling, receiver
    <2>6. NamesOK'
      BY <1>2, <2>1, <2>2 DEF Inv, HistoryCopied, DeskOK, NamesOK, Named, polling, receiver
    <2> QED
      BY <2>4, <2>5, <2>6 DEF Inv
  <1> QED
    BY <1>1, <1>2

LEMMA ConfigureInv ==
  ASSUME Inv, NEW m \in Machine, Configure(m) \/ Configured(m)
  PROVE  Inv'
  <1>1. clip[m].path \in Path
    BY DEF Inv, DeskOK, Copy
  <1>2. toggling[m] # Nothing.path => toggling[m][2] \in Path
    BY DEF Inv, DeskOK
  <1>3. DeskOK'
    <2>1. CASE Configure(m)
      <3>1. <<"read", clip[m].path>> \in {"read"} \X Path
        BY <1>1
      <3> QED
        BY <2>1, <3>1 DEF Inv, Configure, DeskOK, desk
    <2>2. CASE Configured(m)
      BY <1>2, <2>2 DEF Inv, Configured, DeskOK, user
    <2> QED
      BY <2>1, <2>2
  <1>4. PollOK' /\ ReceiverOK' /\ Right' /\ NamesOK'
    BY RightStays, NamesStay DEF Inv, Configure, Configured, PollOK, ReceiverOK, desk, polling, receiver
  <1> QED
    BY <1>3, <1>4 DEF Inv

-----------------------------------------------------------------------------
(* The polls.                                                                *)
LEMMA PollStartsInv ==
  ASSUME Inv, NEW m \in Machine, PollStarts(m) \/ Health(m) \/ LinkChanges
  PROVE  Inv'
  <1>1. DeskOK' /\ PollOK' /\ ReceiverOK'
    BY DEF Inv, PollStarts, Health, LinkChanges, Goto, DeskOK, PollOK, ReceiverOK, desk, polling, window,
           user, receiver
  <1>2. Right' /\ NamesOK'
    BY RightStays, NamesStay DEF Inv, PollStarts, Health, LinkChanges, desk, polling, window, receiver
  <1> QED
    BY <1>1, <1>2 DEF Inv

(* What is left when an event is removed was there.                         *)
LEMMA WithoutType ==
  ASSUME ReceiverOK, NEW m \in Machine, NEW k \in 1..Len(inbox[m])
  PROVE  /\ Without(m, k) \in Seq(Event)
         /\ \A j \in 1..Len(Without(m, k)) :
              \E i \in 1..Len(inbox[m]) : Without(m, k)[j] = inbox[m][i]
  <1> DEFINE q == inbox[m]
             a == SubSeq(q, 1, k - 1)
             b == SubSeq(q, k + 1, Len(q))
  <1>1. q \in Seq(Event)
    BY DEF ReceiverOK
  <1>2. a \in Seq(Event) /\ b \in Seq(Event)
    BY <1>1, SMT
  <1>3. Len(a) = k - 1 /\ Len(b) = Len(q) - k
    BY <1>1, SMT
  <1>4. \A j \in 1..Len(a) : a[j] = q[j]
    BY <1>1, <1>3, SMT
  <1>5. \A j \in 1..Len(b) : b[j] = q[k + j]
    BY <1>1, <1>3, SMT
  <1>6. Without(m, k) = a \o b
    BY DEF Without
  <1> HIDE DEF q, a, b
  <1>7. a \o b \in Seq(Event) /\ Len(a \o b) = Len(a) + Len(b)
    BY <1>2, ConcatProperties
  <1>8. ASSUME NEW j \in 1..Len(a \o b)
        PROVE  \E i \in 1..Len(q) : (a \o b)[j] = q[i]
    <2>1. Len(q) \in Nat
      BY <1>1
    <2>2. CASE j <= Len(a)
      <3>1. j \in 1..Len(a)
        BY <1>2, <1>7, <2>2, LenProperties
      <3>2. (a \o b)[j] = a[j]
        BY <1>2, <3>1, ConcatProperties
      <3>3. j \in 1..Len(q)
        BY <1>3, <2>1, <3>1
      <3> QED
        BY <1>4, <3>1, <3>2, <3>3
    <2>3. CASE j > Len(a)
      <3>1. (a \o b)[j] = b[j - Len(a)]
        BY <1>2, <1>7, <2>3, ConcatProperties
      <3>2. j - Len(a) \in 1..Len(b)
        BY <1>2, <1>7, <2>3, LenProperties
      <3>3. k + (j - Len(a)) \in 1..Len(q)
        BY <1>3, <2>1, <3>2
      <3> QED
        BY <1>5, <3>1, <3>2, <3>3
    <2> QED
      BY <1>2, <1>3, <2>1, <2>2, <2>3
  <1> QED
    BY <1>6, <1>7, <1>8 DEF q

(* What follows from an event that is in the inbox.                          *)
LEMMA EventNames ==
  ASSUME Inv, NEW m \in Machine, NEW k \in 1..Len(inbox[m])
  PROVE  /\ inbox[m][k] \in Event /\ inbox[m][k].path \in Path
         /\ inbox[m][k].path[2] \in Numbers /\ Named(m, inbox[m][k].path)
  <1>1. inbox[m][k] \in Event
    BY ElementOfSeq DEF Inv, ReceiverOK
  <1>2. inbox[m][k].path \in Kept /\ inbox[m][k].content \in Contents
    BY <1>1 DEF Event
  <1>3. saved[m][inbox[m][k].path[2]] = inbox[m][k].content
    BY DEF Inv, Right
  <1> QED
    BY <1>1, <1>2, <1>3, KeptNumber, NoContent DEF Path, Named

(* An event is removed.                                                      *)
LEMMA RemovedInv ==
  ASSUME Inv, NEW m \in Machine, NEW k \in 1..Len(inbox[m]),
         inbox' = [inbox EXCEPT ![m] = Without(m, k)], UNCHANGED <<saved, uploads, posts>>
  PROVE  ReceiverOK' /\ Right'
  <1>1. ReceiverOK'
    BY WithoutType DEF Inv, ReceiverOK
  <1>2. ASSUME NEW n \in Machine, NEW j \in 1..Len(inbox'[n])
        PROVE  saved[n][inbox'[n][j].path[2]] = inbox'[n][j].content
    <2>1. CASE n = m
      <3>1. inbox'[n] = Without(m, k)
        BY <2>1 DEF Inv, ReceiverOK
      <3>2. PICK i \in 1..Len(inbox[m]) : inbox'[n][j] = inbox[m][i]
        BY <1>2, <3>1, WithoutType DEF Inv
      <3> QED
        BY <2>1, <3>2 DEF Inv, Right
    <2>2. CASE n # m
      <3>1. inbox'[n] = inbox[n]
        BY <2>2 DEF Inv, ReceiverOK
      <3> QED
        BY <1>2, <3>1 DEF Inv, Right
    <2> QED
      BY <2>1, <2>2
  <1> QED
    BY <1>1, <1>2 DEF Inv, Right

LEMMA HandleEventInv ==
  ASSUME Inv, NEW m \in Machine, HandleEvent(m)
  PROVE  Inv'
  <1>1. PICK k \in 1..Len(inbox[m]) :
          \/ /\ last' = CopyLocal(m, inbox[m][k].path) /\ Goto(m, "copying") /\ UNCHANGED inbox
             /\ seen' = [seen EXCEPT ![m] = [path |-> inbox[m][k].path, of |-> inbox[m][k].of, by |-> "event"]]
          \/ inbox' = [inbox EXCEPT ![m] = Without(m, k)] /\ UNCHANGED <<last, pc, seen>>
    BY DEF HandleEvent
  <1>2. UNCHANGED <<clip, copying, toggling, edit, saved, uploads, posts>>
    BY DEF HandleEvent, window, user
  <1>3. /\ inbox[m][k] \in Event /\ inbox[m][k].path \in Path /\ Named(m, inbox[m][k].path)
    BY EventNames
  <1>4. DeskOK'
    BY <1>1, <1>2, <1>3 DEF Inv, DeskOK, CopyLocal
  <1>5. PollOK'
    <2>1. [path |-> inbox[m][k].path, of |-> inbox[m][k].of, by |-> "event"] \in Copy
      BY <1>3 DEF Event, Copy
    <2> QED
      BY <1>1, <2>1 DEF Inv, PollOK, Goto
  <1>6. NamesOK'
    BY <1>1, <1>2, <1>3 DEF Inv, PollOK, NamesOK, Named
  <1>7. CASE UNCHANGED inbox
    BY <1>2, <1>4, <1>5, <1>6, <1>7, RightStays DEF Inv, ReceiverOK
  <1>8. CASE inbox' = [inbox EXCEPT ![m] = Without(m, k)]
    BY <1>2, <1>4, <1>5, <1>6, <1>8, RemovedInv DEF Inv
  <1> QED
    BY <1>1, <1>7, <1>8

LEMMA EventCopiedInv ==
  ASSUME Inv, NEW m \in Machine, EventCopied(m)
  PROVE  Inv'
  <1>1. DeskOK' /\ PollOK'
    BY DEF Inv, EventCopied, WriteRejected, Goto, DeskOK, PollOK, window, user
  <1>2. ASSUME inbox' = inbox
        PROVE  ReceiverOK' /\ Right'
    BY <1>2 DEF EventCopied, Inv, ReceiverOK, Right
  <1>3. ASSUME NEW k \in 1..Len(inbox[m]), inbox' = [inbox EXCEPT ![m] = Without(m, k)]
        PROVE  ReceiverOK' /\ Right'
    BY <1>3, RemovedInv DEF EventCopied
  <1>4. NamesOK'
    BY DEF Inv, EventCopied, WriteRejected, DeskOK, NamesOK, Named, window
  <1>5. ReceiverOK' /\ Right'
    <2>1. inbox' = inbox \/ \E k \in 1..Len(inbox[m]) : inbox' = [inbox EXCEPT ![m] = Without(m, k)]
      BY DEF EventCopied
    <2> QED
      BY <1>2, <1>3, <2>1
  <1> QED
    BY <1>1, <1>4, <1>5 DEF Inv

LEMMA ReadClipboardInv ==
  ASSUME Inv, NEW m \in Machine, ReadClipboard(m)
  PROVE  Inv'
  <1>1. DeskOK' /\ PollOK' /\ ReceiverOK' /\ Right'
    BY RightStays DEF Inv, ReadClipboard, Goto, DeskOK, PollOK, ReceiverOK, desk, window, user, receiver
  <1>2. NamesOK'
    BY DEF Inv, ReadClipboard, PollOK, NamesOK, Named, desk, window, receiver
  <1> QED
    BY <1>1, <1>2 DEF Inv

LEMMA CompareInv ==
  ASSUME Inv, NEW m \in Machine, Compare(m)
  PROVE  Inv'
  <1> DEFINE s == seen[m]
             sends == s.path # last[m] /\ s.path # Nothing.path /\ conn[m]
             new == [to |-> Peer(m), content |-> Content(m, s.path), of |-> s.of,
                     try |-> 1, clip |-> TRUE, heard |-> TRUE]
  <1>1. s \in Copy /\ s.path \in Path /\ Named(m, s.path)
    BY DEF Inv, PollOK, NamesOK, Copy
  <1>2. /\ last' = [last EXCEPT ![m] = s.path]
        /\ uploads' = uploads \cup IF ~sends THEN {} ELSE {new}
        /\ pc' = [pc EXCEPT ![m] = IF sends THEN "uploading" ELSE "idle"]
        /\ UNCHANGED <<clip, seen, copying, toggling, edit, saved, inbox, posts>>
    BY DEF Compare, Goto, window, user
  <1>3. ASSUME sends
        PROVE  new \in Upload
    <2>1. Content(m, s.path) \in Contents
      BY <1>1, <1>3, ContentType DEF Inv
    <2>2. s.of \in Contents \cup {<<>>}
      BY <1>1 DEF Copy
    <2> QED
      BY <2>1, <2>2, PeerType DEF Upload
  <1> HIDE DEF s, sends, new
  <1>4. DeskOK' /\ PollOK'
    BY <1>1, <1>2 DEF Inv, DeskOK, PollOK
  <1>5. ReceiverOK'
    BY <1>2, <1>3 DEF Inv, ReceiverOK
  <1>6. Right' /\ NamesOK'
    BY <1>2, RightStays, NamesStay DEF Inv
  <1> QED
    BY <1>4, <1>5, <1>6 DEF Inv

LEMMA FailsInv ==
  ASSUME Inv, NEW m \in Machine, Fails(m)
  PROVE  Inv'
  <1>1. PICK goesOn \in BOOLEAN :
       /\ uploads' = {[u EXCEPT !.heard = @ /\ ~(u.clip /\ u.to # m)] :
                       u \in {x \in uploads : goesOn \/ ~x.clip \/ x.to = m \/ ~x.heard}}
       /\ posts' = {[u EXCEPT !.heard = @ /\ u.to = m] :
                     u \in {x \in posts : goesOn \/ x.to = m \/ ~x.heard}}
    BY DEF Fails
  <1>2. uploads' \subseteq Upload
    <2>1. ASSUME NEW u \in Upload
          PROVE  [u EXCEPT !.heard = @ /\ ~(u.clip /\ u.to # m)] \in Upload
      <3> DEFINE h == u.heard /\ ~(u.clip /\ u.to # m)
      <3>1. h \in BOOLEAN
        OBVIOUS
      <3> HIDE DEF h
      <3>2. [u EXCEPT !.heard = h] \in Upload
        BY <3>1 DEF Upload
      <3> QED
        BY <3>2 DEF h
    <2> QED
      BY <1>1, <2>1 DEF Inv, ReceiverOK
  <1>3. posts' \subseteq Post
    <2>1. ASSUME NEW p \in Post
          PROVE  [p EXCEPT !.heard = @ /\ p.to = m] \in Post
      <3> DEFINE h == p.heard /\ p.to = m
      <3>1. h \in BOOLEAN
        OBVIOUS
      <3> HIDE DEF h
      <3>2. [p EXCEPT !.heard = h] \in Post
        BY <3>1 DEF Post
      <3> QED
        BY <3>2 DEF h
    <2> QED
      BY <1>1, <2>1 DEF Inv, ReceiverOK
  <1>4. \A p \in posts' : \E q \in posts : p.to = q.to /\ p.path = q.path /\ p.content = q.content
    BY <1>1 DEF Inv, ReceiverOK, Post
  <1>5. DeskOK' /\ PollOK' /\ ReceiverOK' /\ NamesOK'
    BY <1>2, <1>3, NamesStay DEF Inv, Fails, Goto, DeskOK, PollOK, ReceiverOK, desk, window, user
  <1>6. Right'
    BY <1>4 DEF Inv, Fails, Right
  <1> QED
    BY <1>5, <1>6 DEF Inv

-----------------------------------------------------------------------------
(* The receivers.                                                            *)
LEMMA LinkUploadInv ==
  ASSUME Inv, NEW u \in uploads, LinkUpload(u)
  PROVE  Inv'
  <1> DEFINE m == u.to
             k == u.try
             new == [to |-> m, path |-> Saved(k), content |-> u.content,
                     of |-> u.of, checked |-> FALSE, heard |-> TRUE]
  <1>1. u \in Upload
    BY DEF Inv, ReceiverOK
  <1>2. m \in Machine /\ k \in Numbers /\ u.content \in Contents /\ Saved(k) \in Kept /\ Saved(k)[2] = k
    BY <1>1, SavedKept DEF Upload, LinkUpload
  <1>3. UNCHANGED <<clip, last, copying, toggling, edit, seen, inbox>>
    BY DEF LinkUpload, desk, window, user
  <1>4. CASE Free(m, k)
    <2>1. /\ saved' = [saved EXCEPT ![m][k] = u.content]
          /\ uploads' = uploads \ {u}
          /\ \/ Goto(Peer(m), "posting") /\ posts' = posts \cup {new}
             \/ UNCHANGED <<pc, posts>>
      BY <1>4 DEF LinkUpload
    <2>2. new \in Post
      BY <1>1, <1>2 DEF Post, Upload
    <2>3. ReceiverOK'
      BY <1>2, <1>3, <2>1, <2>2 DEF Inv, ReceiverOK
    <2>4. DeskOK' /\ PollOK'
      BY <1>2, <1>3, <2>1, PeerType DEF Inv, DeskOK, PollOK, Goto
    <2>5. \A n \in Machine, j \in Numbers : saved[n][j] # <<>> => saved'[n][j] = saved[n][j]
      BY <1>2, <1>4, <2>1 DEF Inv, ReceiverOK, Free
    <2>6. saved'[m][k] = u.content
      BY <1>2, <2>1 DEF Inv, ReceiverOK
    <2>7. NamesOK'
      BY <1>3, <2>5, KeptNumber DEF Inv, NamesOK, Named
    <2>8. \A n \in Machine : \A j \in 1..Len(inbox[n]) :
            saved'[n][inbox[n][j].path[2]] = inbox[n][j].content
      <3>1. TAKE n \in Machine
      <3>2. TAKE j \in 1..Len(inbox[n])
      <3>3. inbox[n][j].path[2] \in Numbers /\ inbox[n][j].content \in Contents
        BY EventNames DEF Event
      <3> QED
        BY <2>5, <3>3, NoContent DEF Inv, Right
    <2>9. \A p \in posts : saved'[p.to][p.path[2]] = p.content
      <3>1. TAKE p \in posts
      <3>2. p.to \in Machine /\ p.path[2] \in Numbers /\ p.content \in Contents
        BY KeptNumber DEF Inv, ReceiverOK, Post
      <3> QED
        BY <2>5, <3>2, NoContent DEF Inv, Right
    <2>10. saved'[new.to][new.path[2]] = new.content
      BY <1>2, <2>6
    <2> HIDE DEF new
    <2>11. Right'
      BY <1>3, <2>1, <2>8, <2>9, <2>10 DEF Right
    <2> QED
      BY <2>3, <2>4, <2>7, <2>11 DEF Inv
  <1>5. CASE ~Free(m, k)
    <2>1. /\ uploads' = (uploads \ {u}) \cup {[u EXCEPT !.try = @ + 1]}
          /\ UNCHANGED <<saved, pc, posts>>
      BY <1>5 DEF LinkUpload
    <2>2. [u EXCEPT !.try = @ + 1] \in Upload
      BY <1>1 DEF Upload
    <2>3. DeskOK' /\ PollOK' /\ ReceiverOK'
      BY <1>3, <2>1, <2>2 DEF Inv, DeskOK, PollOK, ReceiverOK
    <2>4. Right' /\ NamesOK'
      BY <1>2, <1>3, <2>1, RightStays, NamesStay DEF Inv
    <2> QED
      BY <2>3, <2>4 DEF Inv
  <1> QED
    BY <1>4, <1>5

LEMMA CheckInboxInv ==
  ASSUME Inv, NEW p \in posts, CheckInbox(p)
  PROVE  Inv'
  <1>1. p \in Post /\ p.to \in Machine
    BY DEF Inv, ReceiverOK, Post
  <1>2. UNCHANGED <<clip, last, copying, toggling, edit, seen, saved, inbox, uploads>>
    BY DEF CheckInbox, desk, window, user
  <1>3. [p EXCEPT !.checked = TRUE] \in Post
    BY <1>1 DEF Post
  <1>4. \/ posts' = posts \ {p}
        \/ posts' = (posts \ {p}) \cup {[p EXCEPT !.checked = TRUE]}
    BY DEF CheckInbox
  <1>5. PollOK'
    BY <1>1, <1>2, PeerType DEF Inv, CheckInbox, Answered, Goto, PollOK
  <1>6. DeskOK' /\ ReceiverOK'
    BY <1>2, <1>3, <1>4 DEF Inv, DeskOK, ReceiverOK
  <1>7. NamesOK'
    BY <1>1, <1>2, NamesStay DEF Inv
  <1>8. Right'
    <2>1. /\ [p EXCEPT !.checked = TRUE].to = p.to /\ [p EXCEPT !.checked = TRUE].path = p.path
          /\ [p EXCEPT !.checked = TRUE].content = p.content
      BY <1>1 DEF Post
    <2> QED
      BY <1>2, <1>4, <2>1 DEF Inv, Right
  <1> QED
    BY <1>5, <1>6, <1>7, <1>8 DEF Inv

LEMMA PutEventInv ==
  ASSUME Inv, NEW p \in posts, PutEvent(p)
  PROVE  Inv'
  <1> DEFINE m == p.to
             new == [path |-> p.path, of |-> p.of, content |-> p.content, old |-> FALSE]
  <1>1. p \in Post /\ m \in Machine
    BY DEF Inv, ReceiverOK, Post
  <1>2. UNCHANGED <<clip, last, copying, toggling, edit, seen, saved, uploads>>
    BY DEF PutEvent, desk, window, user
  <1>3. posts' = posts \ {p} /\ inbox' = [inbox EXCEPT ![m] = Append(@, new)]
    BY DEF PutEvent
  <1>4. new \in Event
    BY <1>1 DEF Post, Event
  <1>5. saved[m][new.path[2]] = new.content
    BY DEF Inv, Right
  <1>6. PollOK'
    BY <1>1, <1>2, PeerType DEF Inv, PutEvent, Answered, Goto, PollOK
  <1> HIDE DEF new
  <1>7. /\ Append(inbox[m], new) \in Seq(Event) /\ Len(Append(inbox[m], new)) = Len(inbox[m]) + 1
        /\ \A j \in 1..Len(inbox[m]) : Append(inbox[m], new)[j] = inbox[m][j]
        /\ Append(inbox[m], new)[Len(inbox[m]) + 1] = new /\ Len(inbox[m]) \in Nat
    BY <1>1, <1>4, AppendProperties, LenProperties DEF Inv, ReceiverOK
  <1>8. DeskOK' /\ ReceiverOK' /\ NamesOK'
    BY <1>1, <1>2, <1>3, <1>7, NamesStay DEF Inv, DeskOK, ReceiverOK
  <1>9. Right'
    <2>1. ASSUME NEW n \in Machine, NEW j \in 1..Len(inbox'[n])
          PROVE  saved[n][inbox'[n][j].path[2]] = inbox'[n][j].content
      <3>1. CASE n = m /\ j \in 1..Len(inbox[m])
        BY <1>1, <1>3, <1>7, <3>1 DEF Inv, ReceiverOK, Right
      <3>2. CASE n = m /\ j \notin 1..Len(inbox[m])
        <4>1. inbox'[n] = Append(inbox[m], new)
          BY <1>1, <1>3, <3>2 DEF Inv, ReceiverOK
        <4>2. j = Len(inbox[m]) + 1
          BY <1>7, <2>1, <3>2, <4>1
        <4> QED
          BY <1>5, <1>7, <3>2, <4>1, <4>2
      <3>3. CASE n # m
        <4>1. inbox'[n] = inbox[n]
          BY <1>3, <3>3 DEF Inv, ReceiverOK
        <4> QED
          BY <2>1, <4>1 DEF Inv, Right
      <3> QED
        BY <3>1, <3>2, <3>3
    <2> QED
      BY <1>2, <1>3, <2>1 DEF Inv, Right
  <1> QED
    BY <1>6, <1>8, <1>9 DEF Inv

LEMMA AgesInv ==
  ASSUME Inv, NEW m \in Machine, Ages(m)
  PROVE  Inv'
  <1> DEFINE q == inbox[m]
             r == [k \in DOMAIN q |-> [q[k] EXCEPT !.old = TRUE]]
  <1>1. UNCHANGED <<clip, last, copying, toggling, edit, seen, pc, saved, uploads, posts>>
    BY DEF Ages, desk, window, user, polling
  <1>2. inbox' = [inbox EXCEPT ![m] = r]
    BY DEF Ages
  <1>3. q \in Seq(Event) /\ Len(q) \in Nat /\ DOMAIN q = 1..Len(q)
    BY LenProperties DEF Inv, ReceiverOK
  <1>4. \A k \in 1..Len(q) : /\ q[k] \in Event
                              /\ [q[k] EXCEPT !.old = TRUE] \in Event
                              /\ [q[k] EXCEPT !.old = TRUE].path = q[k].path
                              /\ [q[k] EXCEPT !.old = TRUE].content = q[k].content
    <2>1. \A e \in Event : /\ [e EXCEPT !.old = TRUE] \in Event /\ [e EXCEPT !.old = TRUE].path = e.path
                            /\ [e EXCEPT !.old = TRUE].content = e.content
      BY DEF Event
    <2> QED
      BY <1>3, <2>1, ElementOfSeq
  <1>5. r \in Seq(Event) /\ Len(r) = Len(q)
    <2>1. r \in [1..Len(q) -> Event]
      BY <1>3, <1>4
    <2> QED
      BY <1>3, <2>1, SeqDef, LenProperties
  <1>6. \A k \in 1..Len(q) : r[k].path = q[k].path /\ r[k].content = q[k].content
    BY <1>3, <1>4
  <1> HIDE DEF r
  <1>7. DeskOK' /\ PollOK' /\ ReceiverOK' /\ NamesOK'
    BY <1>1, <1>2, <1>5, NamesStay DEF Inv, DeskOK, PollOK, ReceiverOK
  <1>8. Right'
    BY <1>1, <1>2, <1>5, <1>6 DEF Inv, ReceiverOK, Right
  <1> QED
    BY <1>7, <1>8 DEF Inv

-----------------------------------------------------------------------------
LEMMA InitInv == Init => Inv
  <1> SUFFICES ASSUME Init PROVE Inv
    OBVIOUS
  <1>1. DeskOK /\ PollOK
    BY NothingType DEF Init, DeskOK, PollOK, Path
  <1>2. ReceiverOK
    BY DEF Init, ReceiverOK
  <1>3. NamesOK
    BY NotKept DEF Init, NamesOK, Named
  <1>4. Right
    BY DEF Init, Right
  <1> QED
    BY <1>1, <1>2, <1>3, <1>4 DEF Inv

LEMMA NextInv == Inv /\ [Next]_vars => Inv'
  <1> SUFFICES ASSUME Inv, [Next]_vars PROVE Inv'
    OBVIOUS
  <1>1. ASSUME NEW m \in Machine,
               UserCopies(m) \/ UserEdits(m) \/ UserSends(m) \/ HistoryCopies(m)
                 \/ HistoryCopied(m) \/ Configure(m) \/ Configured(m)
        PROVE  Inv'
    BY <1>1, UserCopiesInv, UserEditsInv, UserSendsInv, HistoryInv, ConfigureInv
  <1>2. ASSUME NEW m \in Machine, Health(m) \/ Poll(m) \/ Fails(m) \/ Ages(m)
        PROVE  Inv'
    BY <1>2, PollStartsInv, HandleEventInv, EventCopiedInv, ReadClipboardInv, CompareInv, FailsInv,
       AgesInv DEF Poll
  <1>3. ASSUME Serve PROVE Inv'
    BY <1>3, LinkUploadInv, CheckInboxInv, PutEventInv DEF Serve
  <1>4. CASE LinkChanges
    <2>1. \E m \in Machine : TRUE
      BY ClipboardAssumption
    <2> QED
      BY <1>4, <2>1, PollStartsInv
  <1>5. CASE UNCHANGED vars
    <2>1. DeskOK' /\ PollOK' /\ ReceiverOK'
      BY <1>5 DEF Inv, vars, desk, polling, window, receiver, user, DeskOK, PollOK, ReceiverOK
    <2>2. Right' /\ NamesOK'
      BY <1>5 DEF Inv, vars, desk, polling, window, receiver, Right, NamesOK, Named
    <2> QED
      BY <2>1, <2>2 DEF Inv
  <1> QED
    BY <1>1, <1>2, <1>3, <1>4, <1>5 DEF Next

(* Every event names the file that was uploaded for it, whatever uploads of   *)
(* the same name overlap (saveUniqueUpload(), the handler of /clipboard).     *)
THEOREM RightFilesAlways == Spec => []RightFiles
  <1>1. Inv => RightFiles
    BY DEF Inv, Right, RightFiles, Entries
  <1> QED
    BY <1>1, InitInv, NextInv, PTL DEF Spec

-----------------------------------------------------------------------------
(* Which request a poll waits for.                                           *)
Served ==
  /\ \A u \in uploads : u.clip /\ u.heard => pc[Peer(u.to)] = "uploading"
  /\ \A u, v \in uploads : u.clip /\ u.heard /\ v.clip /\ v.heard /\ u.to = v.to => u = v
  /\ \A p \in posts : p.heard => pc[Peer(p.to)] = "posting"
  /\ \A p, q \in posts : p.heard /\ q.heard /\ p.to = q.to => p = q

LEMMA PeerPeer == \A m, n \in Machine : Peer(n) = m <=> n # m
  BY ClipboardAssumption, PeerType

LEMMA ServedStays ==
  ASSUME Inv, Served, UNCHANGED <<uploads, posts>>,
         \A m \in Machine : pc[m] \in {"uploading", "posting"} => pc'[m] = pc[m]
  PROVE  Served'
  BY PeerType DEF Inv, ReceiverOK, Upload, Post, Served

LEMMA SendsServed ==
  ASSUME Inv, Served, NEW m \in Machine, UserSends(m)
  PROVE  Served'
  BY DEF Served, UserSends, polling

LEMMA CompareServed ==
  ASSUME Inv, Served, NEW m \in Machine, Compare(m)
  PROVE  Served'
  <1>1. PICK new : /\ new.to = Peer(m) /\ new.clip /\ new.heard
                   /\ \/ uploads' = uploads /\ pc' = [pc EXCEPT ![m] = "idle"]
                      \/ uploads' = uploads \cup {new} /\ pc' = [pc EXCEPT ![m] = "uploading"]
    <2> DEFINE n == [to |-> Peer(m), content |-> Content(m, seen[m].path), of |-> seen[m].of,
                     try |-> 1, clip |-> TRUE, heard |-> TRUE]
    <2>1. n.to = Peer(m) /\ n.clip /\ n.heard
      OBVIOUS
    <2>2. \/ uploads' = uploads /\ pc' = [pc EXCEPT ![m] = "idle"]
          \/ uploads' = uploads \cup {n} /\ pc' = [pc EXCEPT ![m] = "uploading"]
      BY DEF Compare, Goto
    <2> HIDE DEF n
    <2> QED
      BY <2>1, <2>2
  <1>2. posts' = posts /\ pc[m] = "read" /\ pc \in [Machine -> {"idle", "events", "copying", "read", "uploading", "posting", "hung"}]
    BY DEF Compare, Inv, PollOK
  <1>3. /\ \A u \in uploads : u.clip /\ u.heard => Peer(u.to) # m /\ u.to # Peer(m)
        /\ \A p \in posts : p.heard => Peer(p.to) # m
    BY <1>2, PeerPeer, PeerType DEF Inv, ReceiverOK, Upload, Post, Served
  <1>4. Peer(Peer(m)) = m
    BY PeerPeer, PeerType
  <1>5. \A u \in uploads \cup posts : u.to \in Machine /\ Peer(u.to) \in Machine
    BY PeerType DEF Inv, ReceiverOK, Upload, Post
  <1> QED
    BY <1>1, <1>2, <1>3, <1>4, <1>5 DEF Served

LEMMA FailsServed ==
  ASSUME Inv, Served, NEW m \in Machine, Fails(m)
  PROVE  Served'
  <1>1. /\ \A u \in uploads' : \E x \in uploads :
             u = [x EXCEPT !.heard = @ /\ ~(x.clip /\ x.to # m)]
        /\ \A p \in posts' : \E x \in posts : p = [x EXCEPT !.heard = @ /\ x.to = m]
        /\ \E l \in {"idle", "hung"} : pc' = [pc EXCEPT ![m] = l]
    BY DEF Fails, Goto
  <1>2. \A u \in uploads' : u.clip /\ u.heard => u \in uploads /\ u.to = m
    <2>1. TAKE u \in uploads'
    <2>2. PICK x \in uploads : u = [x EXCEPT !.heard = @ /\ ~(x.clip /\ x.to # m)]
      BY <1>1
    <2>3. x \in Upload
      BY DEF Inv, ReceiverOK
    <2>4. u.clip = x.clip /\ u.to = x.to /\ u.heard = (x.heard /\ ~(x.clip /\ x.to # m))
      BY <2>2, <2>3 DEF Upload
    <2>5. ASSUME u.clip, u.heard PROVE u = x /\ x.to = m
      <3>1. x.heard = TRUE /\ x.to = m
        BY <2>3, <2>4, <2>5 DEF Upload
      <3>2. u = [x EXCEPT !.heard = TRUE]
        BY <2>2, <2>3, <2>4, <2>5, <3>1 DEF Upload
      <3> QED
        BY <2>3, <3>1, <3>2 DEF Upload
    <2> QED
      BY <2>4, <2>5
  <1>3. \A p \in posts' : p.heard => p \in posts /\ p.to = m
    <2>1. TAKE p \in posts'
    <2>2. PICK x \in posts : p = [x EXCEPT !.heard = @ /\ x.to = m]
      BY <1>1
    <2>3. x \in Post
      BY DEF Inv, ReceiverOK
    <2>4. p.to = x.to /\ p.heard = (x.heard /\ x.to = m)
      BY <2>2, <2>3 DEF Post
    <2>5. ASSUME p.heard PROVE p = x /\ x.to = m
      <3>1. x.heard = TRUE /\ x.to = m
        BY <2>3, <2>4, <2>5 DEF Post
      <3>2. p = [x EXCEPT !.heard = TRUE]
        BY <2>2, <2>3, <2>4, <2>5, <3>1 DEF Post
      <3> QED
        BY <2>3, <3>1, <3>2 DEF Post
    <2> QED
      BY <2>4, <2>5
  <1>4. Peer(m) # m /\ Peer(m) \in Machine /\ pc \in [Machine -> {"idle", "events", "copying", "read", "uploading", "posting", "hung"}]
    BY PeerType DEF Inv, PollOK
  <1> QED
    BY <1>1, <1>2, <1>3, <1>4 DEF Served

LEMMA LinkUploadServed ==
  ASSUME Inv, Served, NEW u \in uploads, LinkUpload(u)
  PROVE  Served'
  <1>1. u \in Upload /\ u.to \in Machine /\ Peer(u.to) \in Machine /\ Peer(u.to) # u.to
    BY PeerType DEF Inv, ReceiverOK, Upload
  <1>2. /\ pc \in [Machine -> {"idle", "events", "copying", "read", "uploading", "posting", "hung"}]
        /\ \A x \in uploads \cup posts : x.to \in Machine /\ Peer(x.to) \in Machine
    BY PeerType DEF Inv, PollOK, ReceiverOK, Upload, Post
  <1>3. CASE Free(u.to, u.try) /\ u.clip /\ u.heard
    <2>1. PICK new : /\ new.to = u.to /\ new.heard
                     /\ posts' = posts \cup {new} /\ uploads' = uploads \ {u}
                     /\ pc' = [pc EXCEPT ![Peer(u.to)] = "posting"]
      <3> DEFINE n == [to |-> u.to, path |-> Saved(u.try), content |-> u.content,
                       of |-> u.of, checked |-> FALSE, heard |-> TRUE]
      <3>1. n.to = u.to /\ n.heard
        OBVIOUS
      <3>2. posts' = posts \cup {n} /\ uploads' = uploads \ {u} /\ pc' = [pc EXCEPT ![Peer(u.to)] = "posting"]
        BY <1>3 DEF LinkUpload, Goto
      <3> HIDE DEF n
      <3> QED
        BY <3>1, <3>2
    <2>2. pc[Peer(u.to)] = "uploading"
      BY <1>3 DEF Served
    <2>3. \A v \in uploads \ {u} : v.clip /\ v.heard => Peer(v.to) # Peer(u.to)
      BY <1>1, <1>2, <1>3, PeerPeer DEF Served
    <2>4. \A p \in posts : p.heard => Peer(p.to) # Peer(u.to) /\ p.to # u.to
      BY <1>1, <1>2, <2>2 DEF Served
    <2> QED
      BY <1>1, <1>2, <2>1, <2>3, <2>4 DEF Served
  <1>4. CASE Free(u.to, u.try) /\ ~(u.clip /\ u.heard)
    BY <1>4 DEF LinkUpload, Served
  <1>5. CASE ~Free(u.to, u.try)
    <2>1. uploads' = (uploads \ {u}) \cup {[u EXCEPT !.try = @ + 1]} /\ UNCHANGED <<pc, posts>>
      BY <1>5 DEF LinkUpload
    <2> DEFINE v == [u EXCEPT !.try = @ + 1]
    <2>2. v.clip = u.clip /\ v.heard = u.heard /\ v.to = u.to
      BY <1>1 DEF Upload
    <2> HIDE DEF v
    <2>3. \A w \in uploads' : w = v \/ w \in uploads \ {u}
      BY <2>1 DEF v
    <2> QED
      BY <2>1, <2>2, <2>3 DEF Served
  <1> QED
    BY <1>3, <1>4, <1>5

LEMMA AnsweredServed ==
  ASSUME Inv, Served, NEW p \in posts, Answered(p), posts' = posts \ {p}, UNCHANGED uploads
  PROVE  Served'
  <1>1. /\ pc \in [Machine -> {"idle", "events", "copying", "read", "uploading", "posting", "hung"}]
        /\ \A x \in uploads \cup posts : x.to \in Machine /\ Peer(x.to) \in Machine
    BY PeerType DEF Inv, PollOK, ReceiverOK, Upload, Post
  <1>2. CASE p.heard
    <2>1. pc' = [pc EXCEPT ![Peer(p.to)] = "idle"] /\ pc[Peer(p.to)] = "posting"
      BY <1>2 DEF Answered, Goto, Served
    <2>2. \A q \in posts \ {p} : q.heard => Peer(q.to) # Peer(p.to)
      BY <1>1, <1>2, PeerPeer, PeerType DEF Served
    <2> QED
      BY <1>1, <2>1, <2>2 DEF Served
  <1>3. CASE ~p.heard
    BY <1>3 DEF Answered, Served
  <1> QED
    BY <1>2, <1>3

LEMMA CheckInboxServed ==
  ASSUME Inv, Served, NEW p \in posts, CheckInbox(p)
  PROVE  Served'
  <1>1. CASE posts' = posts \ {p} /\ Answered(p)
    BY <1>1, AnsweredServed DEF CheckInbox
  <1>2. CASE posts' = (posts \ {p}) \cup {[p EXCEPT !.checked = TRUE]} /\ UNCHANGED pc
    <2> DEFINE q == [p EXCEPT !.checked = TRUE]
    <2>1. q.heard = p.heard /\ q.to = p.to
      BY DEF Inv, ReceiverOK, Post
    <2> HIDE DEF q
    <2>2. \A x \in posts' : x = q \/ x \in posts \ {p}
      BY <1>2 DEF q
    <2>3. uploads' = uploads /\ pc' = pc
      BY <1>2 DEF CheckInbox
    <2> QED
      BY <2>1, <2>2, <2>3 DEF Served
  <1> QED
    BY <1>1, <1>2 DEF CheckInbox

LEMMA NextServed == Inv /\ Served /\ [Next]_vars => Served'
  <1> SUFFICES ASSUME Inv, Served, [Next]_vars PROVE Served'
    OBVIOUS
  <1>1. ASSUME NEW m \in Machine,
               UserCopies(m) \/ UserEdits(m) \/ HistoryCopies(m) \/ HistoryCopied(m) \/ Configure(m)
                 \/ Configured(m) \/ Health(m) \/ Ages(m)
        PROVE  Served'
    BY <1>1, ServedStays DEF UserCopies, UserEdits, HistoryCopies, HistoryCopied, Configure, Configured,
                             Health, Ages, polling, receiver
  <1>2. ASSUME NEW m \in Machine,
               PollStarts(m) \/ HandleEvent(m) \/ EventCopied(m) \/ ReadClipboard(m)
        PROVE  Served'
    <2>1. UNCHANGED <<uploads, posts>>
      BY <1>2 DEF PollStarts, HandleEvent, EventCopied, ReadClipboard, receiver
    <2>2. \A n \in Machine : pc[n] \in {"uploading", "posting"} => pc'[n] = pc[n]
      BY <1>2 DEF PollStarts, HandleEvent, EventCopied, ReadClipboard, Goto, Inv, PollOK
    <2> QED
      BY <2>1, <2>2, ServedStays
  <1>3. ASSUME NEW m \in Machine, UserSends(m) \/ Compare(m) \/ Fails(m)
        PROVE  Served'
    BY <1>3, SendsServed, CompareServed, FailsServed
  <1>4. ASSUME Serve PROVE Served'
    <2>1. ASSUME NEW p \in posts, PutEvent(p) PROVE Served'
      BY <2>1, AnsweredServed DEF PutEvent
    <2> QED
      BY <1>4, <2>1, LinkUploadServed, CheckInboxServed DEF Serve
  <1>5. CASE LinkChanges \/ UNCHANGED vars
    BY <1>5, ServedStays DEF LinkChanges, vars, polling, receiver
  <1> QED
    BY <1>1, <1>2, <1>3, <1>4, <1>5 DEF Next, Poll

-----------------------------------------------------------------------------
(* While nothing of the window falls into a poll, lastClipboard follows what  *)
(* events put on the clipboard.                                              *)
Quiet(m) == copying[m] = {} /\ toggling[m] = Nothing.path
Calm(m) ==
  /\ pc[m] # "idle" => Quiet(m)
  /\ clip[m].by = "event" /\ copying[m] = {} /\ pc[m] # "copying" /\ m \notin unwritten
       => last[m] = clip[m].path
  /\ clip[m].by = "event" /\ toggling[m] # Nothing.path => toggling[m][2] = clip[m].path
  /\ pc[m] = "read" /\ seen[m].by = "event" /\ m \notin unwritten => last[m] = seen[m].path
  /\ pc[m] = "read" /\ clip[m].by = "event" => seen[m] = clip[m]
  /\ pc[m] = "copying" => last[m] = seen[m].path
EchoInv == ~raced => \A m \in Machine : Calm(m)

LEMMA CalmStays ==
  ASSUME NEW n \in Machine, Calm(n),
         UNCHANGED <<clip[n], copying[n], toggling[n], last[n], seen[n], n \in unwritten>>,
         \/ pc'[n] = pc[n]
         \/ pc[n] \notin {"idle", "copying"} /\ pc'[n] \notin {"read", "copying"}
  PROVE  Calm(n)'
  BY DEF Calm, Quiet

(* A step of machine m leaves the others as they were.                       *)
OthersStay(m) ==
  \A n \in Machine \ {m} :
    UNCHANGED <<clip[n], copying[n], toggling[n], last[n], seen[n], pc[n], n \in unwritten>>

LEMMA CalmStep ==
  ASSUME NEW m \in Machine, EchoInv, OthersStay(m), raced' = raced,
         ~raced => Calm(m)'
  PROVE  EchoInv'
  <1>1. \A n \in Machine \ {m} : Calm(n) => Calm(n)'
    BY CalmStays DEF OthersStay
  <1> QED
    BY <1>1 DEF EchoInv

LEMMA UserCopiesCalm ==
  ASSUME Inv, EchoInv, NEW m \in Machine, UserCopies(m)
  PROVE  EchoInv'
  <1>1. PICK new : new.by = "user" /\ clip' = [clip EXCEPT ![m] = new]
    BY DEF UserCopies, Nothing
  <1>2. UNCHANGED <<copying, toggling, last, seen, pc, raced, unwritten>>
    BY DEF UserCopies, polling, window, history, apart
  <1>3. OthersStay(m)
    BY <1>1, <1>2 DEF Inv, DeskOK, OthersStay
  <1>4. clip'[m].by = "user"
    BY <1>1 DEF Inv, DeskOK
  <1>5. ~raced => Calm(m)'
    BY <1>2, <1>4 DEF EchoInv, Calm, Quiet
  <1> QED
    BY <1>2, <1>3, <1>5, CalmStep

LEMMA HistoryCalm ==
  ASSUME Inv, EchoInv, NEW m \in Machine, HistoryCopies(m) \/ HistoryCopied(m)
  PROVE  EchoInv'
  <1>1. CASE HistoryCopies(m)
    <2>1. /\ UNCHANGED <<clip, toggling, seen, pc, unwritten>> /\ raced' = (raced \/ pc[m] # "idle")
          /\ \A n \in Machine \ {m} : copying'[n] = copying[n] /\ last'[n] = last[n]
          /\ copying'[m] # {}
      BY <1>1 DEF HistoryCopies, CopyLocal, polling, history, apart, Inv, DeskOK
    <2>2. ASSUME ~raced' PROVE \A n \in Machine : Calm(n)'
      <3>1. pc[m] = "idle" /\ ~raced
        BY <2>1, <2>2
      <3>2. Calm(m)'
        BY <2>1, <3>1 DEF EchoInv, Calm, Quiet
      <3>3. \A n \in Machine \ {m} : Calm(n)'
        BY <2>1, <3>1, CalmStays DEF EchoInv
      <3> QED
        BY <3>2, <3>3
    <2> QED
      BY <2>1, <2>2 DEF EchoInv
  <1>2. CASE HistoryCopied(m)
    <2>1. /\ copying[m] # {} /\ \A n \in Machine \ {m} : copying'[n] = copying[n]
          /\ \/ \E c : /\ c.by = "history" /\ clip' = [clip EXCEPT ![m] = c]
                       /\ unwritten' = unwritten \ {m}
             \/ clip' = clip /\ unwritten' = unwritten \cup {m}
      <3>1. PICK p \in copying[m] :
              /\ copying' = [copying EXCEPT ![m] = @ \ {p}]
              /\ \/ InSync(m) /\ clip' = [clip EXCEPT ![m] =
                      [path |-> p, of |-> Content(m, p), by |-> "history"]]
                 \/ WriteRejected(m)
        BY <1>2 DEF HistoryCopied
      <3>2. [path |-> p, of |-> Content(m, p), by |-> "history"].by = "history"
        OBVIOUS
      <3>3. copying[m] # {} /\ \A n \in Machine \ {m} : copying'[n] = copying[n]
        BY <3>1 DEF Inv, DeskOK
      <3> QED
        BY <3>1, <3>2, <3>3 DEF InSync, WriteRejected
    <2>2. UNCHANGED <<toggling, last, seen, pc, raced>>
      BY <1>2 DEF HistoryCopied, polling
    <2>3. OthersStay(m)
      BY <2>1, <2>2 DEF Inv, DeskOK, OthersStay
    <2>4. clip'[m].by = "history" \/ (clip' = clip /\ m \in unwritten')
      BY <2>1 DEF Inv, DeskOK
    <2>5. ~raced => Calm(m)'
      BY <2>1, <2>2, <2>4 DEF EchoInv, Calm, Quiet
    <2> QED
      BY <2>2, <2>3, <2>5, CalmStep
  <1> QED
    BY <1>1, <1>2

LEMMA ConfigureCalm ==
  ASSUME Inv, EchoInv, NEW m \in Machine, Configure(m) \/ Configured(m)
  PROVE  EchoInv'
  <1>1. CASE Configure(m)
    <2>1. /\ UNCHANGED <<clip, last, copying, seen, pc, unwritten>> /\ raced' = (raced \/ pc[m] # "idle")
          /\ \A n \in Machine \ {m} : toggling'[n] = toggling[n]
          /\ toggling'[m][2] = clip[m].path
      BY <1>1 DEF Configure, desk, polling, history, apart, Inv, DeskOK
    <2>2. ASSUME ~raced' PROVE \A n \in Machine : Calm(n)'
      <3>1. pc[m] = "idle" /\ ~raced
        BY <2>1, <2>2
      <3>2. Calm(m)'
        BY <2>1, <3>1 DEF EchoInv, Calm, Quiet
      <3>3. \A n \in Machine \ {m} : Calm(n)'
        BY <2>1, <3>1, CalmStays DEF EchoInv
      <3> QED
        BY <3>2, <3>3
    <2> QED
      BY <2>1, <2>2 DEF EchoInv
  <1>2. CASE Configured(m)
    <2>1. /\ UNCHANGED <<clip, copying, seen, pc, raced>> /\ toggling[m] # Nothing.path
          /\ unwritten' = unwritten \ {m}
          /\ last' = [last EXCEPT ![m] = toggling[m][2]]
          /\ toggling' = [toggling EXCEPT ![m] = Nothing.path]
      BY <1>2 DEF Configured, InSync, polling
    <2>2. OthersStay(m) /\ last'[m] = toggling[m][2] /\ toggling'[m] = Nothing.path
      BY <2>1 DEF Inv, DeskOK, OthersStay
    <2>3. ~raced => Calm(m)'
      BY <2>1, <2>2 DEF EchoInv, Calm, Quiet
    <2> QED
      BY <2>1, <2>2, <2>3, CalmStep
  <1> QED
    BY <1>1, <1>2

LEMMA PollStartsCalm ==
  ASSUME Inv, EchoInv, NEW m \in Machine, PollStarts(m)
  PROVE  EchoInv'
  <1>1. /\ UNCHANGED <<clip, last, copying, toggling, seen, unwritten>>
        /\ raced' = (raced \/ copying[m] # {} \/ toggling[m] # Nothing.path)
        /\ pc[m] = "idle" /\ pc'[m] = "events" /\ \A n \in Machine \ {m} : pc'[n] = pc[n]
    BY DEF PollStarts, Goto, desk, window, history, apart, Inv, PollOK
  <1>2. ASSUME ~raced' PROVE \A n \in Machine : Calm(n)'
    <2>1. ~raced /\ Quiet(m)
      BY <1>1, <1>2 DEF Quiet
    <2>2. Calm(m)'
      BY <1>1, <2>1 DEF EchoInv, Calm, Quiet
    <2>3. \A n \in Machine \ {m} : Calm(n)'
      BY <1>1, <2>1, CalmStays DEF EchoInv
    <2> QED
      BY <2>2, <2>3
  <1> QED
    BY <1>1, <1>2 DEF EchoInv

LEMMA HandleEventCalm ==
  ASSUME Inv, EchoInv, NEW m \in Machine, HandleEvent(m)
  PROVE  EchoInv'
  <1>1. UNCHANGED <<clip, copying, toggling, raced, unwritten>> /\ pc[m] = "events"
    BY DEF HandleEvent, window, apart
  <1>2. PICK e : \/ /\ last' = [last EXCEPT ![m] = e.path] /\ pc' = [pc EXCEPT ![m] = "copying"]
                    /\ seen' = [seen EXCEPT ![m] = [path |-> e.path, of |-> e.of, by |-> "event"]]
                 \/ UNCHANGED <<last, pc, seen>>
    BY DEF HandleEvent, CopyLocal, Goto
  <1>3. OthersStay(m)
    BY <1>1, <1>2 DEF Inv, DeskOK, PollOK, OthersStay
  <1>4. CASE UNCHANGED <<last, pc, seen>>
    <2>1. ~raced => Calm(m)'
      BY <1>1, <1>4, CalmStays DEF EchoInv
    <2> QED
      BY <1>1, <1>3, <2>1, CalmStep
  <1>5. CASE last'[m] = e.path /\ pc'[m] = "copying" /\ seen'[m].path = e.path
    <2>1. ~raced => Calm(m)'
      BY <1>1, <1>5 DEF EchoInv, Calm, Quiet
    <2> QED
      BY <1>1, <1>3, <2>1, CalmStep
  <1> QED
    BY <1>2, <1>4, <1>5 DEF Inv, DeskOK, PollOK

LEMMA EventCopiedCalm ==
  ASSUME Inv, EchoInv, NEW m \in Machine, EventCopied(m)
  PROVE  EchoInv'
  <1>1. UNCHANGED <<last, copying, toggling, seen, raced>> /\ pc[m] = "copying"
    BY DEF EventCopied, window
  <1>2. \/ /\ pc' = [pc EXCEPT ![m] = "events"] /\ clip' = [clip EXCEPT ![m] = seen[m]]
           /\ unwritten' = unwritten \ {m}
        \/ /\ pc' = [pc EXCEPT ![m] = "idle"] /\ clip' = clip
           /\ unwritten' = unwritten \cup {m}
    BY DEF EventCopied, InSync, WriteRejected, Goto
  <1>3. /\ OthersStay(m)
        /\ \/ pc'[m] = "events" /\ clip'[m] = seen[m]
           \/ pc'[m] = "idle" /\ clip' = clip /\ m \in unwritten'
    BY <1>1, <1>2 DEF Inv, DeskOK, PollOK, OthersStay
  <1>4. ~raced => Calm(m)'
    BY <1>1, <1>3 DEF EchoInv, Calm, Quiet
  <1> QED
    BY <1>1, <1>3, <1>4, CalmStep

LEMMA ReadClipboardCalm ==
  ASSUME Inv, EchoInv, NEW m \in Machine, ReadClipboard(m)
  PROVE  EchoInv'
  <1>1. /\ UNCHANGED <<clip, last, copying, toggling, raced, unwritten>> /\ pc[m] = "events"
        /\ \/ pc' = [pc EXCEPT ![m] = "read"] /\ seen' = [seen EXCEPT ![m] = clip[m]]
           \/ pc' = [pc EXCEPT ![m] = "idle"] /\ seen' = seen
    BY DEF ReadClipboard, desk, window, apart, Goto
  <1>2. /\ OthersStay(m)
        /\ \/ pc'[m] = "read" /\ seen'[m] = clip[m]
           \/ pc'[m] = "idle" /\ seen'[m] = seen[m]
    BY <1>1 DEF Inv, PollOK, OthersStay
  <1>3. ~raced => Calm(m)'
    BY <1>1, <1>2 DEF EchoInv, Calm, Quiet
  <1> QED
    BY <1>1, <1>2, <1>3, CalmStep

LEMMA CompareCalm ==
  ASSUME Inv, EchoInv, NEW m \in Machine, Compare(m)
  PROVE  EchoInv'
  <1>1. /\ UNCHANGED <<clip, copying, toggling, seen, raced>> /\ pc[m] = "read"
        /\ last' = [last EXCEPT ![m] = seen[m].path] /\ unwritten' = unwritten \ {m}
        /\ \E l \in {"uploading", "idle"} : pc' = [pc EXCEPT ![m] = l]
    BY DEF Compare, InSync, window, Goto
  <1>2. OthersStay(m) /\ last'[m] = seen[m].path /\ pc'[m] \in {"uploading", "idle"}
    BY <1>1 DEF Inv, DeskOK, PollOK, OthersStay
  <1>3. ~raced => Calm(m)'
    BY <1>1, <1>2 DEF EchoInv, Calm, Quiet
  <1> QED
    BY <1>1, <1>2, <1>3, CalmStep

(* A poll that waits for a request and goes on, or ends.                     *)
LEMMA WaitingCalm ==
  ASSUME Inv, EchoInv, NEW m \in Machine, pc[m] \in {"uploading", "posting"},
         NEW l \in {"posting", "idle", "hung"}, pc' = [pc EXCEPT ![m] = l],
         UNCHANGED <<clip, copying, toggling, last, seen, raced, unwritten>>
  PROVE  EchoInv'
  <1>1. OthersStay(m) /\ pc'[m] = l
    BY DEF Inv, PollOK, OthersStay
  <1>2. ~raced => Calm(m)'
    BY <1>1, CalmStays DEF EchoInv
  <1> QED
    BY <1>1, <1>2, CalmStep

LEMMA SameCalm ==
  ASSUME EchoInv, UNCHANGED <<clip, copying, toggling, last, seen, pc, raced, unwritten>>
  PROVE  EchoInv'
  BY CalmStays DEF EchoInv

LEMMA NextCalm == Inv /\ Served /\ EchoInv /\ [Next]_vars => EchoInv'
  <1> SUFFICES ASSUME Inv, Served, EchoInv, [Next]_vars PROVE EchoInv'
    OBVIOUS
  <1>1. ASSUME NEW m \in Machine,
               UserEdits(m) \/ UserSends(m) \/ Health(m) \/ Ages(m)
        PROVE  EchoInv'
    BY <1>1, SameCalm DEF UserEdits, UserSends, Health, Ages, desk, polling, window, history, apart
  <1>2. ASSUME NEW m \in Machine,
               UserCopies(m) \/ HistoryCopies(m) \/ HistoryCopied(m) \/ Configure(m) \/ Configured(m)
        PROVE  EchoInv'
    BY <1>2, UserCopiesCalm, HistoryCalm, ConfigureCalm
  <1>3. ASSUME NEW m \in Machine, Poll(m)
        PROVE  EchoInv'
    BY <1>3, PollStartsCalm, HandleEventCalm, EventCopiedCalm, ReadClipboardCalm, CompareCalm DEF Poll
  <1>4. ASSUME NEW m \in Machine, Fails(m)
        PROVE  EchoInv'
    <2>1. /\ pc[m] \in {"uploading", "posting"}
          /\ \E l \in {"idle", "hung"} : pc' = [pc EXCEPT ![m] = l]
          /\ UNCHANGED <<clip, copying, toggling, last, seen, raced, unwritten>>
      BY <1>4 DEF Fails, Goto, desk, window, apart
    <2> QED
      BY <2>1, WaitingCalm
  <1>5. ASSUME NEW u \in uploads, LinkUpload(u)
        PROVE  EchoInv'
    <2>1. UNCHANGED <<clip, copying, toggling, last, seen, raced, unwritten>>
      BY <1>5 DEF LinkUpload, desk, window, history, apart
    <2>2. CASE UNCHANGED pc
      BY <2>1, <2>2, SameCalm
    <2>3. CASE u.clip /\ u.heard /\ Goto(Peer(u.to), "posting")
      <3>1. Peer(u.to) \in Machine /\ pc[Peer(u.to)] = "uploading"
        BY <2>3, PeerType DEF Served, Inv, ReceiverOK, Upload
      <3> QED
        BY <2>1, <2>3, <3>1, WaitingCalm DEF Goto
    <2> QED
      BY <1>5, <2>2, <2>3 DEF LinkUpload
  <1>6. ASSUME NEW p \in posts, CheckInbox(p) \/ PutEvent(p)
        PROVE  EchoInv'
    <2>1. UNCHANGED <<clip, copying, toggling, last, seen, raced, unwritten>>
      BY <1>6 DEF CheckInbox, PutEvent, desk, window, history, apart
    <2>2. CASE UNCHANGED pc
      BY <2>1, <2>2, SameCalm
    <2>3. CASE p.heard /\ Goto(Peer(p.to), "idle")
      <3>1. Peer(p.to) \in Machine /\ pc[Peer(p.to)] = "posting"
        BY <2>3, PeerType DEF Served, Inv, ReceiverOK, Post
      <3> QED
        BY <2>1, <2>3, <3>1, WaitingCalm DEF Goto
    <2> QED
      BY <1>6, <2>2, <2>3 DEF CheckInbox, PutEvent, Answered
  <1>7. CASE LinkChanges \/ UNCHANGED vars
    BY <1>7, SameCalm DEF LinkChanges, vars, desk, polling, window, history, apart
  <1> QED
    BY <1>1, <1>2, <1>3, <1>4, <1>5, <1>6, <1>7 DEF Next, Serve

(* Only the comparison leads from reading to uploading.                      *)
LEMMA OnlyCompare ==
  ASSUME Inv, Served, NEW m \in Machine, pc[m] = "read", pc'[m] = "uploading", [Next]_vars
  PROVE  Compare(m)
  <1>1. ASSUME NEW n \in Machine,
               \/ UserCopies(n) \/ UserEdits(n) \/ UserSends(n) \/ HistoryCopies(n)
               \/ HistoryCopied(n) \/ Configure(n) \/ Configured(n) \/ Health(n) \/ Ages(n)
        PROVE  FALSE
    BY <1>1 DEF UserCopies, UserEdits, UserSends, HistoryCopies, HistoryCopied, Configure,
                Configured, Health, Ages, polling
  <1>2. ASSUME NEW n \in Machine,
               PollStarts(n) \/ HandleEvent(n) \/ EventCopied(n) \/ ReadClipboard(n)
        PROVE  FALSE
    BY <1>2 DEF PollStarts, HandleEvent, EventCopied, ReadClipboard, Goto, Inv, PollOK
  <1>3. ASSUME NEW n \in Machine, Compare(n)
        PROVE  n = m
    BY <1>3 DEF Compare, Goto, Inv, PollOK
  <1>4. ASSUME NEW n \in Machine, Fails(n)
        PROVE  FALSE
    BY <1>4 DEF Fails, Goto, Inv, PollOK
  <1>5. ASSUME Serve
        PROVE  FALSE
    <2>1. ASSUME NEW n \in Machine, NEW l \in {"posting", "idle"}, Goto(n, l) \/ UNCHANGED pc
          PROVE  FALSE
      BY <2>1 DEF Goto, Inv, PollOK
    <2>2. ASSUME NEW u \in uploads, LinkUpload(u)
          PROVE  FALSE
      BY <2>1, <2>2, PeerType DEF LinkUpload, Inv, ReceiverOK, Upload
    <2>3. ASSUME NEW p \in posts, CheckInbox(p) \/ PutEvent(p)
          PROVE  FALSE
      BY <2>1, <2>3, PeerType DEF CheckInbox, PutEvent, Answered, Inv, ReceiverOK, Post
    <2> QED
      BY <1>5, <2>2, <2>3 DEF Serve
  <1>6. CASE LinkChanges \/ UNCHANGED vars
    BY <1>6 DEF LinkChanges, vars, polling
  <1> QED
    BY <1>1, <1>2, <1>3, <1>4, <1>5, <1>6 DEF Next, Poll

(* A file that an event put on the clipboard is not sent back, unless the     *)
(* window copied or was set in the middle of a poll, or the write that        *)
(* lastClipboard was last set for was rejected (copyLocalFiles()).            *)
THEOREM NoEchoAlways == Spec => NoEcho
  <1>1. Init => Served /\ EchoInv
    BY DEF Init, Served, EchoInv, Calm, Quiet, Nothing
  <1>2. ASSUME Inv, Served, EchoInv, [Next]_vars
        PROVE  \A m \in Machine : SendsBack(m) => raced \/ m \in unwritten
    <2> SUFFICES ASSUME NEW m \in Machine, SendsBack(m), ~raced, m \notin unwritten
                 PROVE  FALSE
      OBVIOUS
    <2>1. pc[m] = "read" /\ pc'[m] = "uploading" /\ seen[m].by = "event"
      BY DEF SendsBack
    <2>2. Compare(m)
      BY <1>2, <2>1, OnlyCompare
    <2>3. last[m] = seen[m].path
      BY <1>2, <2>1 DEF EchoInv, Calm
    <2> QED
      BY <1>2, <2>1, <2>2, <2>3 DEF Compare, Goto, Inv, PollOK
  <1> QED
    BY <1>1, <1>2, InitInv, NextInv, NextServed, NextCalm, PTL DEF Spec, NoEcho

-----------------------------------------------------------------------------
(* FileDrag.                                                               *)
USE DragAssumption, NamelessAssumption

Chunk == Job \X Nat
Name == Job \cup {Nameless}
File == [name : Name, pieces : Seq(Chunk)]
Box == [files : Seq(Job), index : Nat \ {0}, active : BOOLEAN, expected : Nat,
        name : Name, temp : Seq(Chunk)]

Drag == [by : Dragger, target : Nat \ {0}, sizes : Seq(Nat)]

(* The members of a sequence.                                              *)
In(s) == {s[k] : k \in 1..Len(s)}

(* n chunks of a job, from the a-th on.                                    *)
Chunks(j, a, n) == [k \in 1..n |-> <<j, a + k - 1>>]

By(j) == drags[j[1]].by
Target(j) == drags[j[1]].target
AloneJobs == {j \in Jobs : Alone(j[1])}

DragTypes ==
    /\ side \in {"client", "server"}
    /\ drags \in Seq(Drag)
    /\ sent \in [Job -> Nat] /\ over \subseteq Jobs
    /\ queue \in [Dragger -> Seq(Chunk)]
    /\ proxy \in [Dragger -> Nat]
    /\ box \in Box /\ disk \in Seq(File)
    /\ expected \in Nat /\ landed \in Seq(Nat) /\ shown \in Seq(Seq(Nat))

(* Only files of drags that have begun are known anywhere.                 *)
Known ==
    /\ \A p \in Dragger : \A c \in In(queue[p]) : c[1] \in Jobs /\ By(c[1]) = p
    /\ \A j \in In(box.files) : j \in Jobs
    /\ box.name \in Jobs \cup {Nameless}
    /\ \A c \in In(box.temp) : c[1] \in Jobs
    /\ \A f \in In(disk) : f.name \in Jobs \cup {Nameless} /\ \A c \in In(f.pieces) : c[1] \in Jobs

Counts ==
    /\ \A j \in Job \ Jobs : sent[j] = 0
    /\ \A j \in Jobs : sent[j] <= Size(j) + 2 /\ (j \notin over => sent[j] <= Size(j) + 1)
    /\ ~box.active => box.temp = NoTemp

Busy(j) == j[1] \in UnderWay
Shows(j) == box.active /\ box.name = j
Unwritten(j) == \A f \in In(disk) : f.name # j

(* Chunks of it from the a-th on are in the queue, and the receiver has the *)
(* ones before, unless it has failed.                                       *)
Progress(j) ==
    \E a, n \in Nat :
      /\ sent[j] = a + n /\ queue[By(j)] = Chunks(j, a, n)
      /\ a = 0 => ~Shows(j)
      /\ a > 0 /\ box.active =>
           box.name = j /\ box.expected = Size(j) /\ box.temp = Chunks(j, 1, a - 1)

(* Nobody but the job has anything under way.                              *)
Ongoing(j) ==
    /\ UnderWay = {j[1]}
    /\ By(j) \notin cut /\ Target(j) = proxy[By(j)]
    /\ box.files = <<j>> /\ box.index = 1 /\ Unwritten(j)
    /\ side = "client" => expected = 1 /\ landed = <<>>
    /\ Progress(j)

(* What is under way will first be started, on a connection that holds.    *)
Started(q) == \A k \in 1..Len(q) : \E l \in 1..k : q[l] = <<q[k][1], 0>>
StartsWait ==
    /\ \A p \in Dragger : Started(queue[p])
    /\ \A i \in Running : sent[i] > 0 => <<i, 0>> \in In(queue[By(i)])
Reached == \A d \in UnderWay : drags[d].by \notin cut /\ drags[d].target = proxy[drags[d].by]
Starting == StartsWait /\ Reached

(* What a job has left behind in the receiver.                             *)
Remains(j) ==
    /\ \A i \in box.index..Len(box.files) : box.files[i] = j => Unwritten(j) /\ UnderWay = {}
    /\ Shows(j) => Unwritten(j) /\ Starting

(* What is in the file being written, and on the disk.                     *)
Mixed(j) == (\E c \in In(box.temp) : c[1] = j) => box.name = j
Written(j) ==
    /\ \A f \in In(disk) :
         f.name = j \/ (\E c \in In(f.pieces) : c[1] = j)
           => f.name = j /\ f.pieces \in {Pieces(j), <<>>}
    /\ \A k, l \in 1..Len(disk) : disk[k].name = j /\ disk[l].name = j => k = l

JobInv(j) ==
    /\ \A i \in Jobs : i[1] = j[1] => i = j
    /\ Busy(j) => Ongoing(j)
    /\ ~Busy(j) => Remains(j)
    /\ Mixed(j) /\ Written(j)

Places ==
    /\ \A k \in 1..Len(landed) : landed[k] \in 1..Len(disk) /\ disk[landed[k]].name \notin AloneJobs
    /\ \A s \in 1..Len(shown) : \A k \in 1..Len(shown[s]) :
         /\ shown[s][k] \in 1..Len(disk)
         /\ disk[shown[s][k]].name \in AloneJobs => Len(shown[s]) = 1
    /\ side = "server" => landed = <<>>

DragInv == DragTypes /\ Known /\ Counts /\ (\A j \in AloneJobs : JobInv(j)) /\ Places

-----------------------------------------------------------------------------
(* Sequences.                                                              *)

LEMMA InAppend ==
    ASSUME NEW S, NEW s \in Seq(S), NEW e \in S
    PROVE  /\ Append(s, e) \in Seq(S) /\ Len(Append(s, e)) = Len(s) + 1 /\ Len(s) \in Nat
           /\ \A k \in 1..Len(s) : Append(s, e)[k] = s[k]
           /\ Append(s, e)[Len(s) + 1] = e
           /\ In(Append(s, e)) = In(s) \cup {e}
<1>1. /\ Append(s, e) \in Seq(S) /\ Len(Append(s, e)) = Len(s) + 1 /\ Len(s) \in Nat
      /\ \A k \in 1..Len(s) : Append(s, e)[k] = s[k]
      /\ Append(s, e)[Len(s) + 1] = e
  OBVIOUS
<1> DEFINE t == Append(s, e)
<1> HIDE DEF t
<1>2. /\ Len(t) = Len(s) + 1 /\ Len(s) \in Nat
      /\ \A k \in 1..Len(s) : t[k] = s[k]
      /\ t[Len(s) + 1] = e
  BY <1>1 DEF t
<1>3. In(t) = In(s) \cup {e}
  <2>1. ASSUME NEW k \in 1..Len(t) PROVE t[k] \in In(s) \cup {e}
    BY <1>2 DEF In
  <2>2. ASSUME NEW k \in 1..Len(s) PROVE s[k] \in In(t)
    BY <1>2 DEF In
  <2>3. e \in In(t)
    BY <1>2 DEF In
  <2> QED
    BY <2>1, <2>2, <2>3 DEF In
<1> QED
  BY <1>1, <1>3 DEF t

LEMMA InTail ==
    ASSUME NEW S, NEW s \in Seq(S), s # <<>>
    PROVE  /\ Tail(s) \in Seq(S) /\ Head(s) \in S /\ Len(s) \in Nat \ {0} /\ Head(s) = s[1]
           /\ In(s) = {Head(s)} \cup In(Tail(s))
<1>1. /\ Tail(s) \in Seq(S) /\ Head(s) \in S /\ Len(s) \in Nat \ {0} /\ Head(s) = s[1]
      /\ Len(Tail(s)) = Len(s) - 1
      /\ \A k \in 1..Len(s) - 1 : Tail(s)[k] = s[k + 1]
  OBVIOUS
<1> DEFINE t == Tail(s)
           h == Head(s)
<1> HIDE DEF t, h
<1>2. /\ Len(s) \in Nat \ {0} /\ h = s[1] /\ Len(t) = Len(s) - 1
      /\ \A k \in 1..Len(s) - 1 : t[k] = s[k + 1]
  BY <1>1 DEF t, h
<1>3. In(s) = {h} \cup In(t)
  <2>1. ASSUME NEW k \in 1..Len(s) PROVE s[k] \in {h} \cup In(t)
    <3>1. CASE k = 1
      BY <3>1, <1>2
    <3>2. CASE k # 1
      <4>1. k - 1 \in 1..Len(t) /\ t[k - 1] = s[k]
        BY <3>2, <1>2
      <4> QED
        BY <4>1 DEF In
    <3> QED
      BY <3>1, <3>2
  <2>2. ASSUME NEW k \in 1..Len(t) PROVE t[k] \in In(s)
    <3>1. k + 1 \in 1..Len(s) /\ t[k] = s[k + 1]
      BY <1>2
    <3> QED
      BY <3>1 DEF In
  <2>3. h \in In(s)
    BY <1>2 DEF In
  <2> QED
    BY <2>1, <2>2, <2>3 DEF In
<1> QED
  BY <1>1, <1>3 DEF t, h

LEMMA InEmpty ==
    ASSUME NEW S
    PROVE  <<>> \in Seq(S) /\ In(<<>>) = {} /\ Len(<<>>) = 0
  BY EmptySeq DEF In

LEMMA InOne ==
    ASSUME NEW S, NEW e \in S
    PROVE  <<e>> \in Seq(S) /\ In(<<e>>) = {e} /\ Len(<<e>>) = 1 /\ <<e>>[1] = e
  BY DEF In

LEMMA InIs ==
    ASSUME NEW S, NEW s \in Seq(S)
    PROVE  /\ In(s) \subseteq S /\ (In(s) = {} <=> s = <<>>)
           /\ \A k \in 1..Len(s) : s[k] \in In(s)
<1>1. Len(s) \in Nat /\ \A k \in 1..Len(s) : s[k] \in S
  OBVIOUS
<1>2. s = <<>> <=> Len(s) = 0
  BY EmptySeq
<1>3. ASSUME Len(s) # 0 PROVE s[1] \in In(s)
  BY <1>1, <1>3 DEF In
<1>4. ASSUME Len(s) = 0 PROVE In(s) = {}
  BY <1>4 DEF In
<1> QED
  BY <1>1, <1>2, <1>3, <1>4 DEF In

LEMMA OnlyEmpty ==
    ASSUME NEW S, NEW s \in Seq(S), In(s) = {}
    PROVE  s = <<>>
  BY InIs

LEMMA AtIs ==
    ASSUME NEW S, NEW s \in Seq(S), NEW k \in 1..Len(s)
    PROVE  s[k] \in S
  OBVIOUS

LEMMA ChunksAre ==
    ASSUME NEW j \in Job, NEW a \in Nat, NEW n \in Nat
    PROVE  /\ Chunks(j, a, n) \in Seq(Chunk) /\ Len(Chunks(j, a, n)) = n
           /\ \A k \in 1..n : Chunks(j, a, n)[k] = <<j, a + k - 1>>
           /\ (Chunks(j, a, n) = <<>> <=> n = 0)
<1>1. \A k \in 1..n : <<j, a + k - 1>> \in Chunk
  BY DEF Chunk
<1>2. Chunks(j, a, n) \in Seq(Chunk) /\ Len(Chunks(j, a, n)) = n
  BY <1>1 DEF Chunks
<1>3. \A k \in 1..n : Chunks(j, a, n)[k] = <<j, a + k - 1>>
  BY DEF Chunks
<1> QED
  BY <1>2, <1>3, EmptySeq

LEMMA ChunksOf ==
    ASSUME NEW j \in Job, NEW a \in Nat, NEW n \in Nat, NEW c \in In(Chunks(j, a, n))
    PROVE  c[1] = j
<1>1. Len(Chunks(j, a, n)) = n /\ \A k \in 1..n : Chunks(j, a, n)[k] = <<j, a + k - 1>>
  BY ChunksAre
<1>2. PICK k \in 1..n : c = Chunks(j, a, n)[k]
  BY <1>1 DEF In
<1> QED
  BY <1>1, <1>2

LEMMA ChunksGrow ==
    ASSUME NEW j \in Job, NEW a \in Nat, NEW n \in Nat
    PROVE  Append(Chunks(j, a, n), <<j, a + n>>) = Chunks(j, a, n + 1)
<1> DEFINE s == Chunks(j, a, n)
           t == Chunks(j, a, n + 1)
           u == Append(s, <<j, a + n>>)
<1>0. n + 1 \in Nat
  OBVIOUS
<1>1. s \in Seq(Chunk) /\ Len(s) = n /\ \A k \in 1..n : s[k] = <<j, a + k - 1>>
  BY ChunksAre
<1>2. t \in Seq(Chunk) /\ Len(t) = n + 1 /\ \A k \in 1..n + 1 : t[k] = <<j, a + k - 1>>
  BY <1>0, ChunksAre
<1>3. <<j, a + n>> \in Chunk
  BY DEF Chunk
<1> HIDE DEF s, t
<1>4. /\ u \in Seq(Chunk) /\ Len(u) = n + 1
      /\ \A k \in 1..n : u[k] = s[k]
      /\ u[n + 1] = <<j, a + n>>
  BY <1>1, <1>3, InAppend
<1> HIDE DEF u
<1>5. ASSUME NEW k \in 1..n + 1 PROVE u[k] = t[k]
  <2>1. CASE k \in 1..n
    BY <2>1, <1>1, <1>2, <1>4
  <2>2. CASE k \notin 1..n
    <3>1. k = n + 1 /\ a + k - 1 = a + n
      BY <2>2
    <3> QED
      BY <3>1, <1>2, <1>4
  <2> QED
    BY <2>1, <2>2
<1>6. u = t
  BY <1>2, <1>4, <1>5, SeqEqual
<1> QED
  BY <1>6 DEF s, t, u

LEMMA ChunksShrink ==
    ASSUME NEW j \in Job, NEW a \in Nat, NEW n \in Nat, n # 0
    PROVE  Head(Chunks(j, a, n)) = <<j, a>> /\ Tail(Chunks(j, a, n)) = Chunks(j, a + 1, n - 1)
<1> DEFINE s == Chunks(j, a, n)
           t == Chunks(j, a + 1, n - 1)
           u == Tail(s)
<1>0. a + 1 \in Nat /\ n - 1 \in Nat
  OBVIOUS
<1>1. s \in Seq(Chunk) /\ Len(s) = n /\ \A k \in 1..n : s[k] = <<j, a + k - 1>>
  BY ChunksAre
<1>2. t \in Seq(Chunk) /\ Len(t) = n - 1 /\ \A k \in 1..n - 1 : t[k] = <<j, (a + 1) + k - 1>>
  BY <1>0, ChunksAre
<1> HIDE DEF s, t
<1>3. s # <<>>
  BY <1>1, EmptySeq
<1>4. /\ u \in Seq(Chunk) /\ Len(u) = n - 1 /\ Head(s) = s[1]
      /\ \A k \in 1..n - 1 : u[k] = s[k + 1]
  BY <1>1, <1>3
<1>5. ASSUME NEW k \in 1..n - 1 PROVE u[k] = t[k]
  <2>1. k + 1 \in 1..n /\ a + (k + 1) - 1 = (a + 1) + k - 1
    OBVIOUS
  <2> QED
    BY <2>1, <1>1, <1>2, <1>4
<1>6. u = t
  BY <1>2, <1>4, <1>5, SeqEqual
<1>7. s[1] = <<j, a>>
  <2>1. 1 \in 1..n /\ a + 1 - 1 = a
    OBVIOUS
  <2> QED
    BY <2>1, <1>1
<1> QED
  BY <1>4, <1>6, <1>7 DEF s, t, u

LEMMA AllPieces ==
    ASSUME NEW j
    PROVE  Pieces(j) = Chunks(j, 1, Size(j))
  BY DEF Pieces, Chunks

LEMMA UnderWayIs ==
    /\ \A d : d \in UnderWay <=> \/ \E i \in Running : i[1] = d
                                 \/ \E p \in Dragger : \E c \in In(queue[p]) : c[1][1] = d
    /\ \A d : d \in UnderWay' <=> \/ \E i \in Running' : i[1] = d
                                  \/ \E p \in Dragger : \E c \in In(queue'[p]) : c[1][1] = d
<1>1. \A d : d \in UnderWay <=> \/ \E i \in Running : i[1] = d
                                \/ \E p \in Dragger : \E c \in In(queue[p]) : c[1][1] = d
  BY DEF UnderWay, In
<1>2. \A d : d \in UnderWay' <=> \/ \E i \in Running' : i[1] = d
                                 \/ \E p \in Dragger : \E c \in In(queue'[p]) : c[1][1] = d
  BY DEF UnderWay, In
<1> QED
  BY <1>1, <1>2

-----------------------------------------------------------------------------
(* The connections.                                                        *)

LEMMA SameDrags ==
    ASSUME UNCHANGED drags
    PROVE  /\ Jobs' = Jobs
           /\ \A j : Size(j)' = Size(j) /\ By(j)' = By(j) /\ Target(j)' = Target(j)
           /\ \A j : Pieces(j)' = Pieces(j)
           /\ crowded \subseteq crowded' => AloneJobs' \subseteq AloneJobs
<1>1. Jobs' = Jobs
  BY DEF Jobs, Sizes
<1>2. \A j : Size(j)' = Size(j) /\ By(j)' = By(j) /\ Target(j)' = Target(j)
  BY DEF Size, Sizes, By, Target
<1>3. \A j : Pieces(j)' = Pieces(j)
  BY DEF Pieces, Size, Sizes
<1> QED
  BY <1>1, <1>2, <1>3 DEF AloneJobs, Alone

LEMMA SameThreads ==
    ASSUME UNCHANGED <<drags, over, queue>>
    PROVE  Running' = Running /\ UnderWay' = UnderWay /\ \A j : Busy(j)' <=> Busy(j)
<1>1. Running' = Running /\ UnderWay' = UnderWay
  BY SameDrags DEF Running, UnderWay
<1> QED
  BY <1>1 DEF Busy

LEMMA SameReceiver ==
    ASSUME UNCHANGED <<drags, box, disk>>
    PROVE  \A j : /\ Shows(j)' <=> Shows(j)
                  /\ Unwritten(j)' <=> Unwritten(j)
                  /\ Mixed(j)' <=> Mixed(j)
                  /\ Written(j)' <=> Written(j)
<1> TAKE j
<1>1. Shows(j)' <=> Shows(j)
  BY DEF Shows
<1>2. Unwritten(j)' <=> Unwritten(j)
  BY DEF Unwritten
<1>3. Mixed(j)' <=> Mixed(j)
  BY DEF Mixed
<1>4. Written(j)' <=> Written(j)
  BY DEF Written, Pieces, Size, Sizes
<1> QED
  BY <1>1, <1>2, <1>3, <1>4

LEMMA PlacesStay ==
    ASSUME Places, UNCHANGED <<side, drags, disk, landed, shown>>, crowded \subseteq crowded'
    PROVE  Places'
<1>1. AloneJobs' \subseteq AloneJobs
  BY SameDrags
<1> QED
  BY <1>1 DEF Places

LEMMA KnownStays ==
    ASSUME Known, UNCHANGED <<drags, queue, box, disk>>
    PROVE  Known'
<1>1. Jobs' = Jobs /\ \A j : By(j)' = By(j)
  BY SameDrags
<1> QED
  BY <1>1 DEF Known

LEMMA ConnectionsKeep ==
    ASSUME DragInv, UNCHANGED <<side, drags, sent, over, queue, receiving>>,
           crowded \subseteq crowded', proxy' \in [Dragger -> Nat],
           \A j \in AloneJobs' : Busy(j) => By(j) \notin cut' /\ Target(j) = proxy'[By(j)],
           \A j \in AloneJobs' : ~Busy(j) /\ Shows(j) => Starting'
    PROVE  DragInv'
<1>1. UNCHANGED <<box, disk, expected, landed, shown>>
  BY DEF receiving
<1>2. /\ Jobs' = Jobs /\ AloneJobs' \subseteq AloneJobs
      /\ \A j : Size(j)' = Size(j) /\ By(j)' = By(j) /\ Target(j)' = Target(j)
  BY SameDrags
<1>3. Running' = Running /\ UnderWay' = UnderWay /\ \A j : Busy(j)' <=> Busy(j)
  BY SameThreads
<1>4. DragTypes'
  BY <1>1, <1>2 DEF DragInv, DragTypes
<1>5. Known' /\ Places'
  BY <1>1, KnownStays, PlacesStay DEF DragInv
<1>6. Counts'
  BY <1>1, <1>2 DEF DragInv, Counts
<1>7. ASSUME NEW j \in AloneJobs' PROVE JobInv(j)'
  <2>1. JobInv(j)
    BY <1>2, <1>7 DEF DragInv
  <2>2. /\ Shows(j)' <=> Shows(j)
        /\ Unwritten(j)' <=> Unwritten(j)
        /\ Mixed(j)' <=> Mixed(j)
        /\ Written(j)' <=> Written(j)
    BY <1>1, SameReceiver
  <2>3. ASSUME Busy(j) PROVE Ongoing(j)'
    <3>1. Progress(j)' <=> Progress(j)
      BY <1>1 DEF Progress, Shows, Size, Sizes, By
    <3>2. Ongoing(j)
      BY <2>1, <2>3 DEF JobInv
    <3>3. By(j) \notin cut' /\ Target(j) = proxy'[By(j)]
      BY <1>7, <2>3
    <3> QED
      BY <1>1, <1>2, <1>3, <2>2, <3>1, <3>2, <3>3 DEF Ongoing
  <2>4. ASSUME ~Busy(j) PROVE Remains(j)'
    <3>1. Remains(j)
      BY <2>1, <2>4 DEF JobInv
    <3>2. Shows(j) => Starting'
      BY <1>7, <2>4
    <3> QED
      BY <1>1, <1>3, <2>2, <3>1, <3>2 DEF Remains
  <2> QED
    BY <1>2, <1>3, <2>1, <2>2, <2>3, <2>4 DEF JobInv
<1> QED
  BY <1>4, <1>5, <1>6, <1>7 DEF DragInv

LEMMA JobsAre ==
    ASSUME DragTypes, NEW j \in Jobs
    PROVE  /\ j \in Job /\ j[1] \in 1..Len(drags) /\ j[2] \in Nat \ {0}
           /\ By(j) \in Dragger /\ Target(j) \in Nat \ {0} /\ Size(j) \in Nat
<1>1. j \in Job /\ j[1] <= Len(drags) /\ j[2] <= Len(Sizes(j[1])) /\ Len(drags) \in Nat
  BY DEF Jobs, DragTypes
<1>2. j[1] \in Nat \ {0} /\ j[2] \in Nat \ {0}
  <2>1. j[1] \in 1..MaxDrags /\ j[2] \in 1..MaxFiles
    BY <1>1 DEF Job
  <2> QED
    BY <2>1
<1>3. j[1] \in 1..Len(drags)
  BY <1>1, <1>2
<1>4. drags[j[1]] \in Drag
  BY <1>3, AtIs DEF DragTypes
<1>5. Sizes(j[1]) \in Seq(Nat) /\ Len(Sizes(j[1])) \in Nat
  BY <1>4 DEF Sizes, Drag
<1>6. j[2] \in 1..Len(Sizes(j[1]))
  BY <1>1, <1>2, <1>5
<1>7. Size(j) \in Nat
  BY <1>5, <1>6 DEF Size
<1> QED
  BY <1>1, <1>2, <1>3, <1>4, <1>7 DEF By, Target, Drag

LEMMA DragsUnderWay ==
    ASSUME DragInv, NEW d \in UnderWay
    PROVE  /\ d \in 1..Len(drags) /\ drags[d].by \in Dragger /\ drags[d].target \in Nat \ {0}
<1>1. Running \subseteq Jobs /\ \A p \in Dragger : \A c \in In(queue[p]) : c[1] \in Jobs
  BY DEF DragInv, Known, Running
<1>2. PICK j \in Jobs : j[1] = d
  BY <1>1, UnderWayIs
<1>3. d \in 1..Len(drags)
  BY <1>2, JobsAre DEF DragInv
<1> QED
  BY <1>2, <1>3, JobsAre DEF DragInv, By, Target

LEMMA CutKeeps ==
    ASSUME DragInv, NEW p \in Dragger, Cut(p)
    PROVE  DragInv'
<1>1. /\ cut' = cut \cup {p} /\ UNCHANGED <<side, drags, sent, over, queue, proxy, receiving>>
      /\ crowded' = crowded \cup Left \cup {d \in UnderWay : drags[d].by = p}
  BY DEF Cut, transfer
<1>2. proxy' \in [Dragger -> Nat] /\ AloneJobs' \subseteq AloneJobs
  BY <1>1, SameDrags DEF DragInv, DragTypes
<1>3. ASSUME NEW j \in AloneJobs'
      PROVE  j[1] \notin Left /\ (Busy(j) => By(j) # p) /\ JobInv(j) /\ j \in Jobs
  BY <1>1, <1>2, <1>3 DEF DragInv, AloneJobs, Alone, Busy, By
<1>4. ASSUME NEW j \in AloneJobs' PROVE Busy(j) => By(j) \notin cut' /\ Target(j) = proxy'[By(j)]
  BY <1>1, <1>3 DEF JobInv, Ongoing
<1>5. ASSUME NEW j \in AloneJobs' PROVE ~Shows(j)
  BY <1>3 DEF Shows, Left
<1> QED
  BY <1>1, <1>2, <1>4, <1>5, ConnectionsKeep

LEMMA DisconnectKeeps ==
    ASSUME DragInv, NEW p \in Dragger, Disconnect(p)
    PROVE  DragInv'
<1>1. /\ p \in cut /\ proxy' = [proxy EXCEPT ![p] = 0]
      /\ UNCHANGED <<side, drags, sent, over, queue, cut, receiving, crowded>>
  BY DEF Disconnect, transfer
<1>2. proxy' \in [Dragger -> Nat] /\ AloneJobs' = AloneJobs /\ UnderWay' = UnderWay
      /\ Running' = Running /\ \A j : By(j)' = By(j)
  BY <1>1, SameDrags, SameThreads DEF DragInv, DragTypes, AloneJobs, Alone
<1>3. ASSUME NEW q \in Dragger, q # p PROVE proxy'[q] = proxy[q]
  BY <1>1, <1>3 DEF DragInv, DragTypes
<1>4. \A j \in Jobs : By(j) \in Dragger
  BY JobsAre DEF DragInv
<1>5. ASSUME NEW j \in AloneJobs', Busy(j) PROVE By(j) \notin cut' /\ Target(j) = proxy'[By(j)]
  BY <1>1, <1>2, <1>3, <1>4, <1>5 DEF DragInv, JobInv, Ongoing, AloneJobs
<1>6. ASSUME NEW j \in AloneJobs', ~Busy(j), Shows(j) PROVE Starting'
  <2>1. Starting
    BY <1>2, <1>6 DEF DragInv, JobInv, Remains
  <2>2. \A d \in UnderWay : drags[d].by \in Dragger
    BY DragsUnderWay
  <2>3. Reached'
    BY <1>1, <1>2, <1>3, <2>1, <2>2 DEF Starting, Reached
  <2>4. StartsWait'
    BY <1>1, <1>2, <2>1 DEF Starting, StartsWait
  <2> QED
    BY <2>3, <2>4 DEF Starting
<1> QED
  BY <1>1, <1>2, <1>5, <1>6, ConnectionsKeep

LEMMA ConnectKeeps ==
    ASSUME DragInv, NEW p \in Dragger, Connect(p)
    PROVE  DragInv'
<1>1. /\ proxy[p] = 0 /\ cut' = cut \ {p}
      /\ UNCHANGED <<side, drags, sent, over, queue, receiving, crowded>>
      /\ \E a \in 1..MaxFailures + 1 : proxy' = [proxy EXCEPT ![p] = a]
  BY DEF Connect, transfer
<1>2. AloneJobs' = AloneJobs /\ UnderWay' = UnderWay
      /\ Running' = Running /\ \A j : By(j)' = By(j)
  BY <1>1, SameDrags, SameThreads DEF AloneJobs, Alone
<1>3. /\ proxy' \in [Dragger -> Nat]
      /\ \A q \in Dragger : q # p => proxy'[q] = proxy[q]
  <2>1. PICK a \in 1..MaxFailures + 1 : proxy' = [proxy EXCEPT ![p] = a]
    BY <1>1
  <2>2. a \in Nat
    OBVIOUS
  <2> QED
    BY <2>1, <2>2 DEF DragInv, DragTypes
<1>4. \A j \in Jobs : By(j) \in Dragger /\ Target(j) # 0
  BY JobsAre DEF DragInv
<1>5. ASSUME NEW j \in AloneJobs', Busy(j) PROVE By(j) \notin cut' /\ Target(j) = proxy'[By(j)]
  <2>1. j \in Jobs /\ By(j) \notin cut /\ Target(j) = proxy[By(j)]
    BY <1>2, <1>5 DEF DragInv, JobInv, Ongoing, AloneJobs
  <2> QED
    BY <1>1, <1>3, <1>4, <2>1
<1>6. ASSUME NEW j \in AloneJobs', ~Busy(j), Shows(j) PROVE Starting'
  <2>1. Starting
    BY <1>2, <1>6 DEF DragInv, JobInv, Remains
  <2>2. \A d \in UnderWay : drags[d].by \in Dragger /\ drags[d].target # 0
    BY DragsUnderWay
  <2>3. \A d \in UnderWay : drags[d].by # p
    BY <1>1, <2>1, <2>2 DEF Starting, Reached
  <2>4. Reached'
    BY <1>1, <1>2, <1>3, <2>1, <2>2, <2>3 DEF Starting, Reached
  <2>5. StartsWait'
    BY <1>1, <1>2, <2>1 DEF Starting, StartsWait
  <2> QED
    BY <2>4, <2>5 DEF Starting
<1> QED
  BY <1>1, <1>2, <1>3, <1>5, <1>6, ConnectionsKeep

-----------------------------------------------------------------------------
(* The threads.                                                            *)

LEMMA NothingUnderWay ==
    /\ DragTypes /\ UnderWay = {} =>
         Starting /\ Running = {} /\ \A p \in Dragger : queue[p] = <<>> /\ In(queue[p]) = {}
    /\ DragTypes' /\ UnderWay' = {} => Starting'
<1>1. ASSUME DragTypes, UnderWay = {}
      PROVE  Starting /\ Running = {} /\ \A p \in Dragger : queue[p] = <<>> /\ In(queue[p]) = {}
  <2>1. Running = {} /\ \A p \in Dragger : In(queue[p]) = {}
    BY <1>1, UnderWayIs
  <2>2. \A p \in Dragger : queue[p] \in Seq(Chunk)
    BY <1>1 DEF DragTypes
  <2>3. ASSUME NEW p \in Dragger PROVE queue[p] = <<>> /\ Len(queue[p]) = 0
    <3>0. queue[p] \in Seq(Chunk) /\ In(queue[p]) = {}
      BY <2>1, <2>2
    <3>1. queue[p] = <<>>
      BY <3>0, OnlyEmpty
    <3> QED
      BY <3>1, InEmpty
  <2>4. Starting
    BY <1>1, <2>1, <2>3 DEF Starting, StartsWait, Started, Reached
  <2> QED
    BY <2>1, <2>3, <2>4
<1>2. ASSUME DragTypes', UnderWay' = {} PROVE Starting'
  <2>1. Running' = {} /\ \A p \in Dragger : In(queue'[p]) = {}
    BY <1>2, UnderWayIs
  <2>2. \A p \in Dragger : queue'[p] \in Seq(Chunk)
    BY <1>2 DEF DragTypes
  <2>3. ASSUME NEW p \in Dragger PROVE queue'[p] = <<>> /\ Len(queue'[p]) = 0
    <3>0. queue'[p] \in Seq(Chunk) /\ In(queue'[p]) = {}
      BY <2>1, <2>2
    <3>1. queue'[p] = <<>>
      BY <3>0, OnlyEmpty
    <3> QED
      BY <3>1, InEmpty
  <2> QED
    BY <1>2, <2>1, <2>3 DEF Starting, StartsWait, Started, Reached
<1> QED
  BY <1>1, <1>2

LEMMA ReadFailsKeeps ==
    ASSUME DragInv, NEW i \in Job, ReadFails(i)
    PROVE  DragInv'
<1>1. /\ i \in Running /\ over' = over \cup {i}
      /\ UNCHANGED <<side, drags, sent, queue, proxy, cut, box, disk, expected, landed, shown, crowded>>
  BY DEF ReadFails, connection, receiving
<1>2. /\ Jobs' = Jobs /\ AloneJobs' = AloneJobs
      /\ \A j : Size(j)' = Size(j) /\ By(j)' = By(j) /\ Target(j)' = Target(j)
  BY <1>1, SameDrags DEF AloneJobs, Alone
<1>3. Running' = Running \ {i} /\ i \in Jobs
  BY <1>1, <1>2 DEF Running
<1>4. UnderWay' \subseteq UnderWay
  BY <1>1, <1>3, UnderWayIs
<1>5. DragTypes'
  BY <1>1, <1>2, <1>3 DEF DragInv, DragTypes
<1>6. Known' /\ Places'
  BY <1>1, KnownStays, PlacesStay DEF DragInv
<1>7. Counts'
  BY <1>1, <1>2 DEF DragInv, Counts
<1>8. ASSUME NEW j \in AloneJobs PROVE JobInv(j)'
  <2>1. JobInv(j)
    BY DEF DragInv
  <2>2. /\ Shows(j)' <=> Shows(j)
        /\ Unwritten(j)' <=> Unwritten(j)
        /\ Mixed(j)' <=> Mixed(j)
        /\ Written(j)' <=> Written(j)
    BY <1>1, SameReceiver
  <2>3. ASSUME Busy(j)' PROVE Ongoing(j)'
    <3>1. Busy(j) /\ Ongoing(j)
      BY <1>4, <2>1, <2>3 DEF JobInv, Busy
    <3>2. UnderWay' = {j[1]}
      BY <1>4, <2>3, <3>1 DEF Ongoing, Busy
    <3>3. Progress(j)' <=> Progress(j)
      BY <1>1 DEF Progress, Shows, Size, Sizes, By
    <3> QED
      BY <1>1, <1>2, <2>2, <3>1, <3>2, <3>3 DEF Ongoing
  <2>4. ASSUME ~Busy(j)', Busy(j) PROVE Remains(j)'
    <3>1. Ongoing(j)
      BY <2>1, <2>4 DEF JobInv
    <3>2. UnderWay' = {}
      BY <1>4, <2>4, <3>1 DEF Ongoing, Busy
    <3> QED
      BY <1>5, <2>2, <3>1, <3>2, NothingUnderWay DEF Remains, Ongoing
  <2>5. ASSUME ~Busy(j) PROVE Remains(j)'
    <3>1. Remains(j)
      BY <2>1, <2>5 DEF JobInv
    <3>2. Starting => Starting'
      BY <1>1, <1>2, <1>3, <1>4 DEF Starting, StartsWait, Reached
    <3>3. UnderWay = {} => UnderWay' = {}
      BY <1>4
    <3> QED
      BY <1>1, <2>2, <3>1, <3>2, <3>3 DEF Remains
  <2> QED
    BY <1>2, <2>1, <2>2, <2>3, <2>4, <2>5 DEF JobInv
<1> QED
  BY <1>2, <1>5, <1>6, <1>7, <1>8 DEF DragInv

LEMMA StartedAppend ==
    ASSUME NEW q \in Seq(Chunk), NEW j \in Job, NEW n \in Nat, Started(q),
           n > 0 => <<j, 0>> \in In(q)
    PROVE  Started(Append(q, <<j, n>>))
<1> DEFINE c == <<j, n>>
           s == Append(q, c)
<1>1. c \in Chunk /\ c[1] = j
  BY DEF Chunk
<1>2. /\ Len(s) = Len(q) + 1 /\ Len(q) \in Nat
      /\ \A k \in 1..Len(q) : s[k] = q[k]
      /\ s[Len(q) + 1] = c
  BY <1>1, InAppend
<1> HIDE DEF s
<1>3. ASSUME NEW k \in 1..Len(s) PROVE \E l \in 1..k : s[l] = <<s[k][1], 0>>
  <2>1. CASE k \in 1..Len(q)
    <3>1. PICK l \in 1..k : q[l] = <<q[k][1], 0>>
      BY <2>1 DEF Started
    <3>2. l \in 1..Len(q)
      BY <2>1, <3>1
    <3> QED
      BY <1>2, <2>1, <3>1, <3>2
  <2>2. CASE k \notin 1..Len(q)
    <3>1. k = Len(q) + 1 /\ s[k][1] = j
      BY <1>1, <1>2, <2>2
    <3>2. CASE n = 0
      BY <1>2, <3>1, <3>2
    <3>3. CASE n > 0
      <4>1. PICK l \in 1..Len(q) : q[l] = <<j, 0>>
        BY <3>3 DEF In
      <4>2. l \in 1..k /\ s[l] = <<j, 0>>
        BY <1>2, <3>1, <4>1
      <4> QED
        BY <3>1, <4>2
    <3> QED
      BY <3>2, <3>3
  <2> QED
    BY <2>1, <2>2
<1>4. Started(s)
  BY <1>3 DEF Started
<1> QED
  BY <1>4 DEF s

LEMMA QueueChunkKeeps ==
    ASSUME DragInv, NEW i \in Job, QueueChunk(i)
    PROVE  DragInv'
<1> DEFINE p == By(i)
           c == <<i, sent[i]>>
<1>0. DragTypes
  BY DEF DragInv
<1>1. /\ i \in Running
      /\ queue' = [queue EXCEPT ![p] = Append(@, c)]
      /\ sent' = [sent EXCEPT ![i] = @ + 1]
      /\ over' = IF sent[i] = Size(i) + 1 THEN over \cup {i} ELSE over
      /\ UNCHANGED <<side, drags, proxy, cut, box, disk, expected, landed, shown, crowded>>
  BY DEF QueueChunk, connection, receiving, By
<1>2. /\ Jobs' = Jobs /\ AloneJobs' = AloneJobs
      /\ \A j : Size(j)' = Size(j) /\ By(j)' = By(j) /\ Target(j)' = Target(j)
  BY <1>1, SameDrags DEF AloneJobs, Alone
<1>3. /\ i \in Jobs /\ i \notin over /\ p \in Dragger /\ sent[i] \in Nat /\ Size(i) \in Nat
      /\ c \in Chunk /\ c[1] = i /\ queue[p] \in Seq(Chunk)
  <2>1. i \in Jobs /\ i \notin over
    BY <1>1 DEF Running
  <2>2. p \in Dragger /\ Size(i) \in Nat /\ i \in Job
    BY <1>0, <2>1, JobsAre
  <2>3. sent[i] \in Nat /\ queue[p] \in Seq(Chunk)
    BY <1>0, <2>2 DEF DragTypes
  <2> QED
    BY <2>1, <2>2, <2>3 DEF Chunk
<1>4. /\ queue' \in [Dragger -> Seq(Chunk)] /\ queue'[p] = Append(queue[p], c)
      /\ In(queue'[p]) = In(queue[p]) \cup {c}
      /\ \A q \in Dragger : q # p => queue'[q] = queue[q]
  <2>1. /\ Append(queue[p], c) \in Seq(Chunk)
        /\ In(Append(queue[p], c)) = In(queue[p]) \cup {c}
    BY <1>3, InAppend
  <2> HIDE DEF c
  <2> QED
    BY <1>0, <1>1, <1>3, <2>1 DEF DragTypes
<1>5. sent' \in [Job -> Nat] /\ sent'[i] = sent[i] + 1 /\ \A j \in Job : j # i => sent'[j] = sent[j]
  <2>1. sent \in [Job -> Nat]
    BY <1>0 DEF DragTypes
  <2>2. sent' = [sent EXCEPT ![i] = sent[i] + 1]
    BY <1>1
  <2>3. sent[i] + 1 \in Nat /\ i \in Job
    BY <1>3
  <2> QED
    BY <2>1, <2>2, <2>3
<1>6. /\ over' \subseteq Jobs /\ over \subseteq over' /\ over' \subseteq over \cup {i}
      /\ Running' \subseteq Running /\ Running \subseteq Running' \cup {i}
  BY <1>1, <1>2, <1>3 DEF DragInv, DragTypes, Running
<1> HIDE DEF c
<1>7. UnderWay' = UnderWay
  <2>1. ASSUME NEW d \in UnderWay' PROVE d \in UnderWay
    BY <1>1, <1>3, <1>4, <1>6, UnderWayIs
  <2>2. ASSUME NEW d \in UnderWay PROVE d \in UnderWay'
    <3>1. CASE \E r \in Running : r[1] = d
      <4>1. PICK r \in Running : r[1] = d
        BY <3>1
      <4>2. c \in In(queue'[p]) /\ p \in Dragger
        BY <1>3, <1>4
      <4>3. i[1] \in UnderWay'
        BY <1>3, <4>2, UnderWayIs
      <4>4. CASE r \in Running'
        BY <4>1, <4>4, UnderWayIs
      <4> QED
        BY <1>6, <4>1, <4>3, <4>4
    <3>2. CASE \E q \in Dragger : \E e \in In(queue[q]) : e[1][1] = d
      <4>1. PICK q \in Dragger : \E e \in In(queue[q]) : e[1][1] = d
        BY <3>2
      <4>2. In(queue[q]) \subseteq In(queue'[q])
        BY <1>4
      <4> QED
        BY <4>1, <4>2, UnderWayIs
    <3> QED
      BY <3>1, <3>2, UnderWayIs
  <2> QED
    BY <2>1, <2>2
<1>8. DragTypes'
  BY <1>1, <1>2, <1>4, <1>5, <1>6 DEF DragInv, DragTypes
<1>9. Known'
  BY <1>1, <1>2, <1>3, <1>4 DEF DragInv, Known
<1>10. Places'
  BY <1>1, PlacesStay DEF DragInv
<1>11. Counts'
  <2>1. \A j \in Job \ Jobs' : sent'[j] = 0
    BY <1>2, <1>3, <1>5 DEF DragInv, Counts
  <2>2. ASSUME NEW j \in Jobs'
        PROVE  sent'[j] <= Size(j)' + 2 /\ (j \notin over' => sent'[j] <= Size(j)' + 1)
    <3>1. j \in Jobs /\ j \in Job /\ Size(j)' = Size(j)
      BY <1>2 DEF Jobs
    <3>2. CASE j = i
      BY <1>1, <1>3, <1>5, <3>1, <3>2 DEF DragInv, Counts
    <3>3. CASE j # i
      BY <1>5, <1>6, <3>1, <3>3 DEF DragInv, Counts
    <3> QED
      BY <3>2, <3>3
  <2> QED
    BY <1>1, <2>1, <2>2 DEF DragInv, Counts
<1>12. ASSUME NEW j \in AloneJobs PROVE JobInv(j)'
  <2>1. JobInv(j) /\ j \in Jobs /\ j \in Job
    BY DEF DragInv, AloneJobs, Jobs
  <2>2. /\ Shows(j)' <=> Shows(j)
        /\ Unwritten(j)' <=> Unwritten(j)
        /\ Mixed(j)' <=> Mixed(j)
        /\ Written(j)' <=> Written(j)
    BY <1>1, SameReceiver
  <2>3. Busy(j)' <=> Busy(j)
    BY <1>7 DEF Busy
  <2>4. ASSUME Busy(j) PROVE Ongoing(j)'
    <3>1. Ongoing(j)
      BY <2>1, <2>4 DEF JobInv
    <3>2. i = j
      <4>1. i[1] \in UnderWay
        BY <1>1, UnderWayIs
      <4> QED
        BY <1>3, <2>1, <3>1, <4>1 DEF Ongoing, JobInv
    <3>3. Progress(j)'
      <4>1. PICK a, n \in Nat :
              /\ sent[j] = a + n /\ queue[By(j)] = Chunks(j, a, n)
              /\ a = 0 => ~Shows(j)
              /\ a > 0 /\ box.active =>
                   box.name = j /\ box.expected = Size(j) /\ box.temp = Chunks(j, 1, a - 1)
        BY <3>1 DEF Ongoing, Progress
      <4>2. n + 1 \in Nat /\ sent'[j] = a + (n + 1)
        BY <1>5, <3>2, <4>1
      <4>3. queue'[p] = Chunks(j, a, n + 1)
        <5>1. c = <<j, a + n>> /\ queue[p] = Chunks(j, a, n)
          BY <3>2, <4>1 DEF c
        <5>2. Append(Chunks(j, a, n), <<j, a + n>>) = Chunks(j, a, n + 1)
          BY <2>1, ChunksGrow
        <5> QED
          BY <1>4, <5>1, <5>2
      <4>4. box' = box /\ Size(j)' = Size(j) /\ By(j)' = p
        BY <1>1, <1>2, <3>2
      <4> HIDE DEF p
      <4> QED
        BY <2>2, <4>1, <4>2, <4>3, <4>4 DEF Progress
    <3> QED
      BY <1>1, <1>2, <1>7, <2>2, <3>1, <3>3 DEF Ongoing
  <2>5. ASSUME ~Busy(j) PROVE Remains(j)'
    <3>1. Remains(j)
      BY <2>1, <2>5 DEF JobInv
    <3>2. ASSUME Starting PROVE Starting'
      <4>1. sent[i] > 0 => <<i, 0>> \in In(queue[p])
        BY <1>1, <3>2 DEF Starting, StartsWait
      <4>2. Started(queue'[p])
        BY <1>3, <1>4, <3>2, <4>1, StartedAppend DEF Starting, StartsWait, c
      <4>3. ASSUME NEW q \in Dragger PROVE Started(queue'[q])
        BY <1>4, <3>2, <4>2 DEF Starting, StartsWait
      <4>4. ASSUME NEW r \in Running', sent'[r] > 0 PROVE <<r, 0>> \in In(queue'[By(r)])
        <5>1. r \in Running /\ r \in Job /\ By(r) \in Dragger
          BY <1>2, <1>6, <4>4, JobsAre DEF Running, DragInv
        <5>2. CASE r = i
          <6>1. CASE sent[i] > 0
            BY <1>4, <4>1, <5>2, <6>1
          <6>2. CASE ~(sent[i] > 0)
            <7>1. c = <<i, 0>>
              BY <1>3, <6>2 DEF c
            <7> QED
              BY <1>4, <5>2, <7>1
          <6> QED
            BY <6>1, <6>2
        <5>3. CASE r # i
          <6>1. <<r, 0>> \in In(queue[By(r)])
            BY <1>5, <3>2, <4>4, <5>1, <5>3 DEF Starting, StartsWait
          <6>2. In(queue[By(r)]) \subseteq In(queue'[By(r)])
            BY <1>4, <5>1
          <6> QED
            BY <6>1, <6>2
        <5> QED
          BY <5>2, <5>3
      <4>5. StartsWait'
        BY <1>2, <4>3, <4>4 DEF StartsWait
      <4>6. Reached'
        BY <1>1, <1>7, <3>2 DEF Starting, Reached
      <4> QED
        BY <4>5, <4>6 DEF Starting
    <3> QED
      BY <1>1, <1>7, <2>2, <3>1, <3>2 DEF Remains
  <2> QED
    BY <1>2, <2>1, <2>2, <2>3, <2>4, <2>5 DEF JobInv
<1> QED
  BY <1>2, <1>8, <1>9, <1>10, <1>11, <1>12 DEF DragInv

-----------------------------------------------------------------------------
(* The receiver.                                                           *)

Begins(j) ==
    /\ box' = [Reset(box) EXCEPT !.active = TRUE, !.expected = Size(j), !.name = NextFinalName]
    /\ Ignored
Resets == box' = Reset(box) /\ Ignored
Adds(c) == box' = [box EXCEPT !.temp = Append(@, c)] /\ Ignored
Drops == box' = [box EXCEPT !.active = FALSE, !.temp = NoTemp] /\ Ignored
Writes ==
    /\ box' = [box EXCEPT !.active = FALSE, !.temp = NoTemp, !.index = @ + 1]
    /\ \E pieces \in {box.temp, NoTemp} :
         disk' = Append(disk, [name |-> box.name, pieces |-> pieces])
    /\ Collect(Len(disk) + 1)

LEMMA ChunkCases ==
    ASSUME DragInv, NEW c \in Chunk, c[1] \in Jobs, OnChunk(c)
    PROVE  \/ c[2] = 0 /\ (Begins(c[1]) \/ Resets)
           \/ c[2] > 0 /\ ~box.active /\ UNCHANGED receiving
           \/ c[2] \in 1..Size(c[1]) /\ box.active /\ (Adds(c) \/ Resets)
           \/ c[2] > Size(c[1]) /\ box.active /\ (Writes \/ Drops)
<1>1. \A j : OnStart(j) => Begins(j) \/ Resets
  BY DEF OnStart, Begins, Resets
<1>2. OnData(c) => Adds(c) \/ Resets
  BY DEF OnData, Adds, Resets
<1>3. OnEnd => Writes \/ Drops
  BY DEF OnEnd, Move, Writes, Drops
<1> QED
  BY <1>1, <1>2, <1>3 DEF OnChunk

(* What the receiver has in each case.                                     *)
LEMMA BoxAfter ==
    ASSUME DragInv
    PROVE  /\ box.files \in Seq(Job) /\ box.index \in Nat \ {0} /\ box.active \in BOOLEAN
           /\ box.expected \in Nat /\ box.name \in Name /\ box.temp \in Seq(Chunk)
           /\ \A j : Begins(j) =>
                /\ box'.files = box.files /\ box'.index = box.index /\ box'.active
                /\ box'.expected = Size(j) /\ box'.name = NextFinalName /\ box'.temp = <<>>
                /\ (Size(j) \in Nat => box' \in Box)
           /\ Resets => box'.files = box.files /\ box'.index = box.index /\ ~box'.active
                        /\ box'.name = Nameless /\ box'.temp = <<>> /\ box' \in Box
           /\ \A c \in Chunk : Adds(c) =>
                /\ box'.files = box.files /\ box'.index = box.index /\ box'.active = box.active
                /\ box'.expected = box.expected /\ box'.name = box.name
                /\ box'.temp = Append(box.temp, c) /\ box' \in Box
           /\ Drops => box'.files = box.files /\ box'.index = box.index /\ ~box'.active
                       /\ box'.name = box.name /\ box'.temp = <<>> /\ box' \in Box
           /\ Writes => box'.files = box.files /\ box'.index = box.index + 1 /\ ~box'.active
                        /\ box'.name = box.name /\ box'.temp = <<>> /\ box' \in Box
<1>1. box \in Box
  BY DEF DragInv, DragTypes
<1>2. /\ box.files \in Seq(Job) /\ box.index \in Nat \ {0} /\ box.active \in BOOLEAN
      /\ box.expected \in Nat /\ box.name \in Name /\ box.temp \in Seq(Chunk)
  BY <1>1 DEF Box
<1>3. Nameless \in Name /\ NextFinalName \in Name /\ <<>> \in Seq(Chunk) /\ box.index + 1 \in Nat \ {0}
  BY <1>2, AtIs, EmptySeq DEF Name, NextFinalName
<1>4. ASSUME NEW j, Begins(j)
      PROVE  /\ box'.files = box.files /\ box'.index = box.index /\ box'.active
             /\ box'.expected = Size(j) /\ box'.name = NextFinalName /\ box'.temp = <<>>
             /\ (Size(j) \in Nat => box' \in Box)
  BY <1>1, <1>2, <1>3, <1>4 DEF Begins, Reset, Box, NoTemp
<1>5. ASSUME Resets
      PROVE  /\ box'.files = box.files /\ box'.index = box.index /\ ~box'.active
             /\ box'.name = Nameless /\ box'.temp = <<>> /\ box' \in Box
  BY <1>1, <1>2, <1>3, <1>5 DEF Resets, Reset, Box, NoTemp
<1>6. ASSUME NEW c \in Chunk, Adds(c)
      PROVE  /\ box'.files = box.files /\ box'.index = box.index /\ box'.active = box.active
             /\ box'.expected = box.expected /\ box'.name = box.name
             /\ box'.temp = Append(box.temp, c) /\ box' \in Box
  <2>1. Append(box.temp, c) \in Seq(Chunk)
    BY <1>2, InAppend
  <2> QED
    BY <1>1, <1>2, <1>6, <2>1 DEF Adds, Box
<1>7. ASSUME Drops
      PROVE  /\ box'.files = box.files /\ box'.index = box.index /\ ~box'.active
             /\ box'.name = box.name /\ box'.temp = <<>> /\ box' \in Box
  BY <1>1, <1>2, <1>3, <1>7 DEF Drops, Box, NoTemp
<1>8. ASSUME Writes
      PROVE  /\ box'.files = box.files /\ box'.index = box.index + 1 /\ ~box'.active
             /\ box'.name = box.name /\ box'.temp = <<>> /\ box' \in Box
  BY <1>1, <1>2, <1>3, <1>8 DEF Writes, Box, NoTemp
<1> QED
  BY <1>2, <1>4, <1>5, <1>6, <1>7, <1>8

(* The disk after a file has been written.                                 *)
LEMMA DiskAfter ==
    ASSUME DragInv, Writes
    PROVE  \E f \in File :
           /\ f.name = box.name /\ f.pieces \in {box.temp, <<>>}
           /\ disk' \in Seq(File) /\ Len(disk') = Len(disk) + 1 /\ Len(disk) \in Nat
           /\ \A k \in 1..Len(disk) : disk'[k] = disk[k]
           /\ disk'[Len(disk) + 1] = f /\ In(disk') = In(disk) \cup {f}
<1>1. PICK pieces \in {box.temp, <<>>} :
        disk' = Append(disk, [name |-> box.name, pieces |-> pieces])
  BY DEF Writes, NoTemp
<1> DEFINE f == [name |-> box.name, pieces |-> pieces]
<1>2. f \in File /\ f.name = box.name /\ f.pieces \in {box.temp, <<>>}
  <2>1. pieces \in Seq(Chunk)
    BY <1>1, BoxAfter, EmptySeq
  <2> QED
    BY <1>1, <2>1, BoxAfter DEF File
<1>3. disk \in Seq(File) /\ disk' = Append(disk, f)
  BY <1>1 DEF DragInv, DragTypes
<1> HIDE DEF f
<1>4. /\ disk' \in Seq(File) /\ Len(disk') = Len(disk) + 1 /\ Len(disk) \in Nat
      /\ \A k \in 1..Len(disk) : disk'[k] = disk[k]
      /\ disk'[Len(disk) + 1] = f /\ In(disk') = In(disk) \cup {f}
  BY <1>2, <1>3, InAppend
<1> QED
  BY <1>2, <1>4

LEMMA ReceiverTyped ==
    ASSUME DragInv, NEW c \in Chunk, c[1] \in Jobs, OnChunk(c)
    PROVE  /\ box' \in Box /\ disk' \in Seq(File)
           /\ expected' \in Nat /\ landed' \in Seq(Nat) /\ shown' \in Seq(Seq(Nat))
           /\ ~box'.active => box'.temp = NoTemp
<1>1. /\ box \in Box /\ disk \in Seq(File) /\ expected \in Nat /\ landed \in Seq(Nat)
      /\ shown \in Seq(Seq(Nat)) /\ Size(c[1]) \in Nat /\ (~box.active => box.temp = NoTemp)
  BY JobsAre DEF DragInv, DragTypes, Counts
<1>2. CASE Writes
  <2> DEFINE place == Len(disk) + 1
             files == Append(landed, place)
  <2>1. box' \in Box /\ box'.temp = <<>> /\ disk' \in Seq(File) /\ place \in Nat
    BY <1>2, BoxAfter, DiskAfter
  <2>2. files \in Seq(Nat)
    BY <1>1, <2>1, InAppend
  <2>3. Collect(place)
    BY <1>2 DEF Writes
  <2>4. Append(shown, files) \in Seq(Seq(Nat)) /\ <<>> \in Seq(Nat) /\ 0 \in Nat
    BY <1>1, <2>2, InAppend, EmptySeq
  <2>5. \/ /\ shown' = Append(shown, files) /\ expected' = 0 /\ landed' = <<>>
        \/ landed' = files /\ shown' = shown /\ expected' = expected
        \/ landed' = landed /\ shown' = shown /\ expected' = expected
    BY <2>3 DEF Collect
  <2> DEFINE t == Append(shown, files)
             ss == Seq(Seq(Nat))
  <2> HIDE DEF place, files, t, ss
  <2>6. expected' \in Nat /\ landed' \in Seq(Nat) /\ shown' \in Seq(Seq(Nat))
    <3>1. t \in ss /\ shown \in ss
      BY <1>1, <2>4 DEF t, ss
    <3>2. shown' \in ss
      BY <2>5, <3>1 DEF t
    <3>3. expected' \in Nat /\ landed' \in Seq(Nat)
      BY <1>1, <2>2, <2>4, <2>5
    <3> QED
      BY <3>2, <3>3 DEF ss
  <2> QED
    BY <2>1, <2>6 DEF NoTemp
<1>3. CASE UNCHANGED receiving
  BY <1>1, <1>3 DEF receiving
<1>4. CASE Begins(c[1]) \/ Resets \/ (Adds(c) /\ box.active) \/ Drops
  <2>1. UNCHANGED <<disk, expected, landed, shown>>
    BY <1>4 DEF Begins, Resets, Adds, Drops, Ignored
  <2>2. box' \in Box /\ (~box'.active => box'.temp = <<>>)
    BY <1>1, <1>4, BoxAfter
  <2> QED
    BY <1>1, <2>1, <2>2 DEF NoTemp
<1> QED
  BY <1>2, <1>3, <1>4, ChunkCases

LEMMA ReceiverKnows ==
    ASSUME DragInv, NEW c \in Chunk, c[1] \in Jobs, OnChunk(c)
    PROVE  /\ \A j \in In(box'.files) : j \in Jobs
           /\ box'.name \in Jobs \cup {Nameless}
           /\ \A e \in In(box'.temp) : e[1] \in Jobs
           /\ \A f \in In(disk') : f.name \in Jobs \cup {Nameless} /\ \A e \in In(f.pieces) : e[1] \in Jobs
<1>1. /\ \A j \in In(box.files) : j \in Jobs
      /\ box.name \in Jobs \cup {Nameless}
      /\ \A e \in In(box.temp) : e[1] \in Jobs
      /\ \A f \in In(disk) : f.name \in Jobs \cup {Nameless} /\ \A e \in In(f.pieces) : e[1] \in Jobs
  BY DEF DragInv, Known
<1>2. box.files \in Seq(Job) /\ box.index \in Nat \ {0} /\ box.temp \in Seq(Chunk)
  BY BoxAfter
<1>3. NextFinalName \in Jobs \cup {Nameless}
  <2>1. CASE box.index <= Len(box.files)
    <3>1. box.index \in 1..Len(box.files)
      BY <1>2, <2>1
    <3>2. box.files[box.index] \in In(box.files)
      BY <3>1 DEF In
    <3> QED
      BY <1>1, <2>1, <3>2 DEF NextFinalName
  <2> QED
    BY <2>1 DEF NextFinalName
<1>4. In(<<>>) = {}
  BY InEmpty
<1>5. CASE Writes
  <2>1. PICK f \in File : /\ In(disk') = In(disk) \cup {f}
                          /\ f.name = box.name /\ f.pieces \in {box.temp, <<>>}
    BY <1>5, DiskAfter
  <2>2. box'.files = box.files /\ box'.name = box.name /\ box'.temp = <<>>
    BY <1>5, BoxAfter
  <2> QED
    BY <1>1, <1>4, <2>1, <2>2
<1>6. CASE UNCHANGED receiving
  BY <1>1, <1>6 DEF receiving
<1>7. CASE Begins(c[1]) \/ Resets \/ Drops
  <2>1. disk' = disk /\ box'.files = box.files /\ box'.temp = <<>>
        /\ (box'.name = NextFinalName \/ box'.name = Nameless \/ box'.name = box.name)
    BY <1>7, BoxAfter DEF Begins, Resets, Drops, Ignored
  <2> QED
    BY <1>1, <1>3, <1>4, <2>1
<1>8. CASE Adds(c)
  <2>1. disk' = disk /\ box'.files = box.files /\ box'.name = box.name
        /\ In(box'.temp) = In(box.temp) \cup {c}
    BY <1>2, <1>8, BoxAfter, InAppend DEF Adds, Ignored
  <2> QED
    BY <1>1, <2>1
<1> QED
  BY <1>5, <1>6, <1>7, <1>8, ChunkCases

-----------------------------------------------------------------------------
(* The chunk that is sent.                                                 *)

(* The connection of a peer delivers the chunks of a job.                  *)
Delivers(p, i) == Target(i) = proxy[p] /\ p \notin cut

LEMMA ChunkSent ==
    ASSUME DragInv, NEW p \in Dragger, SendChunk(p)
    PROVE  LET c == Head(queue[p]) IN
           /\ c \in Chunk /\ c = queue[p][1] /\ Len(queue[p]) \in Nat \ {0}
           /\ c[1] \in Jobs /\ c[1] \in Job /\ c[2] \in Nat /\ By(c[1]) = p /\ c[1][1] \in UnderWay
           /\ queue' \in [Dragger -> Seq(Chunk)] /\ queue'[p] = Tail(queue[p])
           /\ \A q \in Dragger : In(queue'[q]) \subseteq In(queue[q])
           /\ UNCHANGED <<side, drags, sent, over, proxy, cut, crowded>>
           /\ Jobs' = Jobs /\ AloneJobs' = AloneJobs /\ Running' = Running
           /\ \A j : Size(j)' = Size(j) /\ By(j)' = By(j) /\ Target(j)' = Target(j)
           /\ UnderWay' \subseteq UnderWay
           /\ \A q \in Dragger : q # p => queue'[q] = queue[q]
           /\ Delivers(p, c[1]) => OnChunk(c)
           /\ ~Delivers(p, c[1]) => UNCHANGED receiving
<1> DEFINE c == Head(queue[p])
<1>1. /\ queue[p] # <<>> /\ queue' = [queue EXCEPT ![p] = Tail(@)]
      /\ UNCHANGED <<side, drags, sent, over, proxy, cut, crowded>>
  BY DEF SendChunk, connection
<1>2. queue \in [Dragger -> Seq(Chunk)] /\ queue[p] \in Seq(Chunk)
  BY DEF DragInv, DragTypes
<1>3. /\ c \in Chunk /\ c = queue[p][1] /\ Len(queue[p]) \in Nat \ {0}
      /\ Tail(queue[p]) \in Seq(Chunk) /\ In(queue[p]) = {c} \cup In(Tail(queue[p]))
  BY <1>1, <1>2, InTail
<1>4. c[1] \in Jobs /\ By(c[1]) = p
  BY <1>3 DEF DragInv, Known
<1>5. c[1] \in Job /\ c[2] \in Nat
  BY <1>3 DEF Chunk
<1>6. c[1][1] \in UnderWay
  BY <1>3, UnderWayIs
<1>7. /\ queue' \in [Dragger -> Seq(Chunk)] /\ queue'[p] = Tail(queue[p])
      /\ \A q \in Dragger : q # p => queue'[q] = queue[q]
  BY <1>1, <1>2, <1>3
<1>8. \A q \in Dragger : In(queue'[q]) \subseteq In(queue[q])
  BY <1>3, <1>7
<1>9. /\ Jobs' = Jobs /\ AloneJobs' = AloneJobs
      /\ \A j : Size(j)' = Size(j) /\ By(j)' = By(j) /\ Target(j)' = Target(j)
  BY <1>1, SameDrags DEF AloneJobs, Alone
<1>10. Running' = Running
  BY <1>1, <1>9 DEF Running
<1>11. UnderWay' \subseteq UnderWay
  BY <1>8, <1>10, UnderWayIs
<1>12. IF Delivers(p, c[1]) THEN OnChunk(c) ELSE UNCHANGED <<receiving, failures>>
  BY <1>4 DEF SendChunk, Delivers, Target, By
<1>13. /\ Delivers(p, c[1]) => OnChunk(c)
       /\ ~Delivers(p, c[1]) => UNCHANGED receiving
  BY <1>12
<1> HIDE DEF c
<1>14. /\ c \in Chunk /\ c = queue[p][1] /\ Len(queue[p]) \in Nat \ {0}
       /\ c[1] \in Jobs /\ c[1] \in Job /\ c[2] \in Nat /\ By(c[1]) = p /\ c[1][1] \in UnderWay
  BY <1>3, <1>4, <1>5, <1>6
<1> QED
  BY <1>1, <1>7, <1>8, <1>9, <1>10, <1>11, <1>13, <1>14 DEF c

(* A job that meets no other receives its own chunks, in order.            *)
LEMMA BusySends ==
    ASSUME DragInv, NEW p \in Dragger, SendChunk(p), NEW j \in AloneJobs, Busy(j)
    PROVE  JobInv(j)'
<1> DEFINE c == Head(queue[p])
<1>1. /\ c \in Chunk /\ Len(queue[p]) \in Nat \ {0}
      /\ c[1] \in Jobs /\ c[1][1] \in UnderWay /\ By(c[1]) = p
      /\ queue'[p] = Tail(queue[p])
      /\ UNCHANGED <<side, drags, sent, over, proxy, cut>>
      /\ Jobs' = Jobs /\ Running' = Running
      /\ \A i : Size(i)' = Size(i) /\ By(i)' = By(i) /\ Target(i)' = Target(i)
      /\ UnderWay' \subseteq UnderWay
      /\ \A q \in Dragger : q # p => queue'[q] = queue[q]
      /\ Delivers(p, c[1]) => OnChunk(c)
  BY ChunkSent
<1> HIDE DEF c
<1>2. JobInv(j) /\ Ongoing(j) /\ j \in Jobs /\ j \in Job
  BY DEF DragInv, JobInv, AloneJobs, Jobs
<1>3. c[1] = j /\ By(j) = p /\ Delivers(p, j) /\ OnChunk(c)
  BY <1>1, <1>2 DEF Ongoing, JobInv, Delivers
<1>4. PICK a, n \in Nat :
        /\ sent[j] = a + n /\ queue[p] = Chunks(j, a, n)
        /\ a = 0 => ~Shows(j)
        /\ a > 0 /\ box.active =>
             box.name = j /\ box.expected = Size(j) /\ box.temp = Chunks(j, 1, a - 1)
  BY <1>2, <1>3 DEF Ongoing, Progress
<1>5. n # 0
  BY <1>1, <1>2, <1>4, ChunksAre
<1>6. PICK m \in Nat : n = m + 1
  <2>1. n - 1 \in Nat /\ n = (n - 1) + 1
    BY <1>5
  <2> QED
    BY <2>1
<1>7. a + 1 \in Nat /\ c = <<j, a>> /\ queue'[p] = Chunks(j, a + 1, m) /\ sent'[j] = (a + 1) + m
  <2>1. Head(Chunks(j, a, n)) = <<j, a>> /\ Tail(Chunks(j, a, n)) = Chunks(j, a + 1, n - 1)
    <3>1. j \in Job
      BY <1>2
    <3> QED
      BY <1>5, <3>1, ChunksShrink
  <2>2. c = <<j, a>> /\ queue'[p] = Chunks(j, a + 1, n - 1)
    BY <1>1, <1>4, <2>1 DEF c
  <2>3. sent'[j] = (a + 1) + m /\ n - 1 = m
    BY <1>1, <1>4, <1>6
  <2> QED
    BY <2>2, <2>3
<1>8. Size(j) \in Nat /\ c[1] = j /\ c[2] = a
  BY <1>2, <1>7, JobsAre DEF DragInv
<1>9. /\ box.files \in Seq(Job) /\ box.index = 1 /\ box.active \in BOOLEAN
      /\ box.files = <<j>> /\ Len(box.files) = 1 /\ NextFinalName = j
  <2>1. /\ box.files \in Seq(Job) /\ box.index = 1 /\ box.active \in BOOLEAN /\ box.files = <<j>>
    BY <1>2, BoxAfter DEF Ongoing
  <2>2. Len(<<j>>) = 1 /\ <<j>>[1] = j
    OBVIOUS
  <2> QED
    BY <2>1, <2>2 DEF NextFinalName
<1>10. (\A i \in Jobs : i[1] = j[1] => i = j)'
  BY <1>1, <1>2 DEF JobInv
<1>11. UnderWay' = {j[1]} \/ UnderWay' = {}
  BY <1>1, <1>2 DEF Ongoing
<1>12. DragTypes'
  <2>1. queue' \in [Dragger -> Seq(Chunk)]
    BY ChunkSent
  <2>2. /\ box' \in Box /\ disk' \in Seq(File)
        /\ expected' \in Nat /\ landed' \in Seq(Nat) /\ shown' \in Seq(Seq(Nat))
    BY <1>1, <1>3, ReceiverTyped
  <2> QED
    BY <1>1, <2>1, <2>2 DEF DragInv, DragTypes
(* Nothing is written yet: the job goes on, or leaves what it has.         *)
<1>13. ASSUME UNCHANGED <<disk, expected, landed>>, box'.files = box.files, box'.index = box.index,
              Progress(j)', Mixed(j)'
       PROVE  JobInv(j)'
  <2>1. Unwritten(j)'
    BY <1>2, <1>13 DEF Unwritten, Ongoing
  <2>2. Written(j)'
    BY <1>1, <1>2, <1>13 DEF Written, JobInv, Pieces
  <2>3. CASE UnderWay' = {j[1]}
    <3>1. Ongoing(j)'
      BY <1>1, <1>2, <1>13, <2>1, <2>3 DEF Ongoing
    <3> QED
      BY <1>10, <1>13, <2>2, <2>3, <3>1 DEF JobInv, Busy
  <2>4. CASE UnderWay' = {}
    <3>1. Remains(j)'
      BY <1>12, <2>1, <2>4, NothingUnderWay DEF Remains
    <3> QED
      BY <1>10, <1>13, <2>2, <2>4, <3>1 DEF JobInv, Busy
  <2> QED
    BY <1>11, <2>3, <2>4
<1>14. ASSUME box'.active =>
                box'.name = j /\ box'.expected = Size(j) /\ box'.temp = Chunks(j, 1, a)
       PROVE  Progress(j)'
  <2>1. a + 1 > 0 /\ (a + 1) - 1 = a
    OBVIOUS
  <2>2. By(j)' = p /\ Size(j)' = Size(j) /\ queue'[p] = Chunks(j, a + 1, m)
    BY <1>1, <1>3, <1>7
  <2> QED
    BY <1>7, <1>14, <2>1, <2>2 DEF Progress
<1>15. CASE a = 0 /\ (Begins(j) \/ Resets)
  <2>1. /\ UNCHANGED <<disk, expected, landed>>
        /\ box'.files = box.files /\ box'.index = box.index /\ box'.temp = <<>>
    BY <1>15, BoxAfter DEF Begins, Resets, Ignored
  <2>2. Chunks(j, 1, a) = <<>>
    BY <1>2, <1>15, ChunksAre
  <2>3. box'.active => box'.name = j /\ box'.expected = Size(j)
    BY <1>9, <1>15, BoxAfter
  <2>4. Progress(j)'
    BY <1>14, <2>1, <2>2, <2>3
  <2>5. Mixed(j)'
    BY <2>1, InEmpty DEF Mixed
  <2> QED
    BY <1>13, <2>1, <2>4, <2>5
<1>16. CASE ~box.active /\ UNCHANGED receiving
  <2>1. UNCHANGED <<box, disk, expected, landed>>
    BY <1>16 DEF receiving
  <2>2. Progress(j)' /\ Mixed(j)'
    BY <1>2, <1>14, <1>16, <2>1 DEF Mixed, JobInv
  <2> QED
    BY <1>13, <2>1, <2>2
<1>17. CASE a \in 1..Size(j) /\ box.active /\ (Adds(c) \/ Resets)
  <2>1. /\ UNCHANGED <<disk, expected, landed>>
        /\ box'.files = box.files /\ box'.index = box.index
    BY <1>1, <1>17, BoxAfter DEF Adds, Resets, Ignored
  <2>2. box.name = j /\ box.expected = Size(j) /\ box.temp = Chunks(j, 1, a - 1)
    BY <1>4, <1>17
  <2>3. CASE Adds(c)
    <3>1. /\ box'.name = j /\ box'.expected = Size(j)
          /\ box'.temp = Append(Chunks(j, 1, a - 1), c)
      BY <1>1, <2>2, <2>3, BoxAfter
    <3>2. a - 1 \in Nat /\ 1 + (a - 1) = a /\ (a - 1) + 1 = a
      BY <1>17
    <3>3. Append(Chunks(j, 1, a - 1), <<j, 1 + (a - 1)>>) = Chunks(j, 1, (a - 1) + 1)
      BY <1>2, <3>2, ChunksGrow
    <3>4. box'.temp = Chunks(j, 1, a)
      BY <1>7, <3>1, <3>2, <3>3
    <3>5. Progress(j)' /\ Mixed(j)'
      BY <1>14, <3>1, <3>4 DEF Mixed
    <3> QED
      BY <1>13, <2>1, <3>5
  <2>4. CASE Resets
    <3>1. ~box'.active /\ box'.temp = <<>>
      BY <2>4, BoxAfter
    <3>2. Progress(j)' /\ Mixed(j)'
      BY <1>14, <3>1, InEmpty DEF Mixed
    <3> QED
      BY <1>13, <2>1, <3>2
  <2> QED
    BY <1>17, <2>3, <2>4
<1>18. CASE a > Size(j) /\ box.active /\ (Writes \/ Drops)
  <2>1. box.name = j /\ box.temp = Chunks(j, 1, a - 1) /\ a > 0
    BY <1>4, <1>8, <1>18
  <2>2. a = Size(j) + 1 /\ m = 0 /\ j \in over
    <3>1. sent[j] <= Size(j) + 2 /\ (j \notin over => sent[j] <= Size(j) + 1)
      BY <1>2 DEF DragInv, Counts
    <3> QED
      BY <1>4, <1>6, <1>8, <1>18, <3>1
  <2>3. UnderWay' = {}
    <3>1. queue'[p] = <<>> /\ In(queue'[p]) = {}
      BY <1>2, <1>7, <2>2, ChunksAre, InEmpty
    <3>2. ASSUME NEW i \in Running PROVE FALSE
      <4>1. i[1] \in UnderWay /\ i \in Jobs /\ i \notin over
        BY UnderWayIs DEF Running
      <4> QED
        BY <1>2, <2>2, <4>1 DEF Ongoing, JobInv
    <3>3. ASSUME NEW q \in Dragger, q # p, NEW e \in In(queue'[q]) PROVE FALSE
      <4>1. e \in In(queue[q])
        BY <1>1, <3>3
      <4>2. e[1] \in Jobs /\ By(e[1]) = q /\ e[1][1] \in UnderWay
        BY <4>1, UnderWayIs DEF DragInv, Known
      <4> QED
        BY <1>2, <1>3, <3>3, <4>2 DEF Ongoing, JobInv
    <3> QED
      BY <1>1, <3>1, <3>2, <3>3, UnderWayIs
  <2>4. CASE Drops
    <3>1. /\ UNCHANGED <<disk, expected, landed>>
          /\ box'.files = box.files /\ box'.index = box.index
          /\ ~box'.active /\ box'.temp = <<>>
      BY <2>4, BoxAfter DEF Drops, Ignored
    <3>2. Progress(j)' /\ Mixed(j)'
      BY <1>14, <3>1, InEmpty DEF Mixed
    <3> QED
      BY <1>13, <3>1, <3>2
  <2>5. CASE Writes
    <3>1. PICK f \in File :
            /\ f.name = box.name /\ f.pieces \in {box.temp, <<>>}
            /\ Len(disk') = Len(disk) + 1 /\ Len(disk) \in Nat
            /\ \A k \in 1..Len(disk) : disk'[k] = disk[k]
            /\ disk'[Len(disk) + 1] = f /\ In(disk') = In(disk) \cup {f}
      BY <2>5, DiskAfter
    <3>2. f.pieces \in {Pieces(j), <<>>} /\ Pieces(j)' = Pieces(j)
      <4>1. a - 1 = Size(j)
        BY <1>8, <2>2
      <4>2. box.temp = Pieces(j)
        BY <2>1, <4>1, AllPieces
      <4> QED
        BY <1>1, <3>1, <4>2, SameDrags
    <3>3. f.name = j
      BY <2>1, <3>1
    <3>4. box'.files = <<j>> /\ box'.index = 2 /\ ~box'.active /\ box'.temp = <<>>
      BY <1>9, <2>5, BoxAfter
    <3>5. \A g \in In(disk) : g.name # j
      BY <1>2 DEF Ongoing, Unwritten
    <3>6. \A g \in In(disk) :
            (\E e \in In(g.pieces) : e[1] = j) => g.name = j
      BY <1>2 DEF JobInv, Written
    <3>7. \A k \in 1..Len(disk) : disk[k].name # j
      BY <3>5 DEF In
    <3>8. Written(j)'
      <4>1. \A g \in In(disk') :
              g.name = j \/ (\E e \in In(g.pieces) : e[1] = j)
                => g.name = j /\ g.pieces \in {Pieces(j), <<>>}
        BY <3>1, <3>2, <3>3, <3>5, <3>6
      <4>2. \A k \in 1..Len(disk') : disk'[k].name = j => k = Len(disk) + 1
        BY <3>1, <3>7
      <4> QED
        BY <3>2, <4>1, <4>2 DEF Written
    <3>9. Mixed(j)'
      BY <3>4, InEmpty DEF Mixed
    <3>10. Remains(j)'
      <4>1. Len(<<j>>) = 1
        OBVIOUS
      <4> QED
        BY <3>4, <4>1 DEF Remains, Shows
    <3> QED
      BY <1>10, <2>3, <3>8, <3>9, <3>10 DEF JobInv, Busy
  <2> QED
    BY <1>18, <2>4, <2>5
<1> QED
  BY <1>1, <1>3, <1>8, <1>15, <1>16, <1>17, <1>18, ChunkCases

(* A job that has nothing under way is no longer shown once a chunk is sent. *)
LEMMA OtherSends ==
    ASSUME DragInv, NEW p \in Dragger, SendChunk(p), NEW j \in AloneJobs, ~Busy(j)
    PROVE  JobInv(j)' /\ ~(Writes /\ Shows(j) /\ Delivers(p, Head(queue[p])[1]))
<1> DEFINE c == Head(queue[p])
<1>1. /\ c \in Chunk /\ c = queue[p][1] /\ Len(queue[p]) \in Nat \ {0}
      /\ c[1] \in Jobs /\ c[1][1] \in UnderWay /\ By(c[1]) = p
      /\ UNCHANGED drags
      /\ Jobs' = Jobs /\ UnderWay' \subseteq UnderWay
      /\ Delivers(p, c[1]) => OnChunk(c)
      /\ ~Delivers(p, c[1]) => UNCHANGED receiving
  BY ChunkSent
<1> HIDE DEF c
<1>2. JobInv(j) /\ Remains(j) /\ j \in Job /\ j # Nameless
  BY DEF DragInv, JobInv, AloneJobs, Jobs
<1>3. c[1] # j /\ ~Busy(j)'
  BY <1>1 DEF Busy
<1>4. \A k \in box.index..Len(box.files) : box.files[k] # j
  BY <1>1, <1>2 DEF Remains
<1>5. box.files \in Seq(Job) /\ box.index \in Nat \ {0} /\ box.active \in BOOLEAN
      /\ box.temp \in Seq(Chunk) /\ disk \in Seq(File)
  BY BoxAfter DEF DragInv, DragTypes
<1>6. NextFinalName # j
  BY <1>2, <1>4, <1>5 DEF NextFinalName
<1>7. Shows(j) => Delivers(p, c[1]) /\ c[2] = 0
  <2>1. SUFFICES ASSUME Shows(j) PROVE Delivers(p, c[1]) /\ c[2] = 0
    OBVIOUS
  <2>2. Starting
    BY <1>2, <2>1 DEF Remains
  <2>3. Delivers(p, c[1])
    BY <1>1, <2>2 DEF Starting, Reached, Delivers, Target, By
  <2>4. \E l \in 1..1 : queue[p][l] = <<queue[p][1][1], 0>>
    <3>1. 1 \in 1..Len(queue[p])
      BY <1>1
    <3> QED
      BY <2>2, <3>1 DEF Starting, StartsWait, Started
  <2>5. c = <<c[1], 0>>
    BY <1>1, <2>4
  <2> QED
    BY <2>3, <2>5
<1>8. \/ UNCHANGED receiving
      \/ Begins(c[1]) \/ Resets
      \/ box.active /\ Adds(c) /\ c[2] > 0
      \/ box.active /\ (Writes \/ Drops) /\ c[2] > 0
  <2>1. ASSUME Delivers(p, c[1])
        PROVE  \/ c[2] = 0 /\ (Begins(c[1]) \/ Resets)
               \/ c[2] > 0 /\ ~box.active /\ UNCHANGED receiving
               \/ c[2] \in 1..Size(c[1]) /\ box.active /\ (Adds(c) \/ Resets)
               \/ c[2] > Size(c[1]) /\ box.active /\ (Writes \/ Drops)
    BY <1>1, <2>1, ChunkCases
  <2>2. Size(c[1]) \in Nat /\ c[2] \in Nat
    BY <1>1, JobsAre DEF DragInv, Chunk
  <2> QED
    BY <1>1, <2>1, <2>2
<1>9. ~Shows(j)'
  <2>1. CASE UNCHANGED receiving
    <3>1. CASE Shows(j)
      <4>1. OnChunk(c) /\ c[2] = 0 /\ box' = box
        BY <1>1, <1>7, <2>1, <3>1 DEF receiving
      <4>2. Begins(c[1]) \/ Resets
        BY <1>1, <4>1, ChunkCases, JobsAre DEF DragInv
      <4> QED
        BY <1>2, <1>6, <4>2, BoxAfter DEF Shows
    <3>2. CASE ~Shows(j)
      BY <2>1, <3>2 DEF Shows, receiving
    <3> QED
      BY <3>1, <3>2
  <2>2. CASE Begins(c[1]) \/ Resets
    BY <1>2, <1>6, <2>2, BoxAfter DEF Shows
  <2>3. CASE box.active /\ Adds(c) /\ c[2] > 0
    <3>1. ~Shows(j)
      BY <1>7, <2>3
    <3> QED
      BY <1>1, <2>3, <3>1, BoxAfter DEF Shows
  <2>4. CASE Writes \/ Drops
    BY <2>4, BoxAfter DEF Shows
  <2> QED
    BY <1>8, <2>1, <2>2, <2>3, <2>4
<1>10. Remains(j)'
  <2>1. box'.files = box.files /\ (box'.index = box.index \/ box'.index = box.index + 1)
    BY <1>1, <1>8, BoxAfter DEF receiving
  <2>2. \A k \in box'.index..Len(box'.files) : box'.files[k] # j
    BY <1>4, <1>5, <2>1
  <2> QED
    BY <1>9, <2>2 DEF Remains
<1>11. Mixed(j)'
  <2>1. CASE UNCHANGED receiving
    BY <1>2, <2>1 DEF Mixed, JobInv, receiving
  <2>2. CASE Begins(c[1]) \/ Resets \/ Writes \/ Drops
    <3>1. box'.temp = <<>>
      BY <2>2, BoxAfter
    <3> QED
      BY <3>1, InEmpty DEF Mixed
  <2>3. CASE Adds(c)
    <3>1. box'.name = box.name /\ In(box'.temp) = In(box.temp) \cup {c}
      <4>1. box'.name = box.name /\ box'.temp = Append(box.temp, c)
        BY <1>1, <2>3, BoxAfter
      <4>2. In(Append(box.temp, c)) = In(box.temp) \cup {c}
        BY <1>1, <1>5, InAppend
      <4> QED
        BY <4>1, <4>2
    <3> QED
      BY <1>2, <1>3, <3>1 DEF Mixed, JobInv
  <2> QED
    BY <1>8, <2>1, <2>2, <2>3
<1>12. Pieces(j)' = Pieces(j)
  BY <1>1, SameDrags
<1>13. Written(j)'
  <2>1. CASE UNCHANGED disk
    BY <1>2, <1>12, <2>1 DEF Written, JobInv
  <2>2. CASE box.active /\ Writes /\ c[2] > 0
    <3>1. PICK f \in File :
            /\ f.name = box.name /\ f.pieces \in {box.temp, <<>>}
            /\ Len(disk') = Len(disk) + 1 /\ Len(disk) \in Nat
            /\ \A k \in 1..Len(disk) : disk'[k] = disk[k]
            /\ disk'[Len(disk) + 1] = f /\ In(disk') = In(disk) \cup {f}
      BY <2>2, DiskAfter
    <3>2. In(<<>>) = {}
      BY InEmpty
    <3>3. box.name # j
      BY <1>7, <2>2 DEF Shows
    <3>4. f.name # j /\ \A e \in In(f.pieces) : e[1] # j
      BY <1>2, <3>1, <3>2, <3>3 DEF JobInv, Mixed
    <3>5. \A g \in In(disk') :
            g.name = j \/ (\E e \in In(g.pieces) : e[1] = j)
              => g.name = j /\ g.pieces \in {Pieces(j), <<>>}
      BY <1>2, <3>1, <3>4 DEF JobInv, Written
    <3>6. \A k, l \in 1..Len(disk') : disk'[k].name = j /\ disk'[l].name = j => k = l
      BY <1>2, <3>1, <3>4 DEF JobInv, Written
    <3> QED
      BY <1>12, <3>5, <3>6 DEF Written
  <2> QED
    BY <1>8, <2>1, <2>2 DEF Begins, Resets, Adds, Drops, Ignored, receiving
<1>14. (\A i \in Jobs : i[1] = j[1] => i = j)'
  BY <1>1, <1>2 DEF JobInv
<1>15. ~(Writes /\ Shows(j) /\ Delivers(p, c[1]))
  <2>1. SUFFICES ASSUME Writes, Shows(j), OnChunk(c), c[2] = 0 PROVE FALSE
    BY <1>1, <1>7
  <2>2. Begins(c[1]) \/ Resets
    BY <1>1, <2>1, ChunkCases, JobsAre DEF DragInv
  <2>3. box'.index = box.index + 1 /\ box'.index = box.index
    BY <2>1, <2>2, BoxAfter
  <2> QED
    BY <1>5, <2>3
<1> QED
  BY <1>3, <1>10, <1>11, <1>13, <1>14, <1>15 DEF JobInv, c

(* A file that is written alone is shown alone.                            *)
LEMMA SendsPlaces ==
    ASSUME DragInv, NEW p \in Dragger, SendChunk(p)
    PROVE  Places'
<1> DEFINE c == Head(queue[p])
<1>1. /\ c[1] \in Jobs /\ c[1][1] \in UnderWay /\ By(c[1]) = p /\ c \in Chunk
      /\ UNCHANGED <<side, drags, crowded>> /\ AloneJobs' = AloneJobs
      /\ Delivers(p, c[1]) => OnChunk(c)
      /\ ~Delivers(p, c[1]) => UNCHANGED receiving
  BY ChunkSent
<1> HIDE DEF c
<1>2. CASE UNCHANGED <<disk, landed, shown>>
  BY <1>1, <1>2, PlacesStay DEF DragInv
<1>3. CASE Delivers(p, c[1]) /\ box.active /\ Writes
  <2> DEFINE place == Len(disk) + 1
             files == Append(landed, place)
  <2>1. /\ Len(disk') = place /\ Len(disk) \in Nat
        /\ \A k \in 1..Len(disk) : disk'[k] = disk[k]
        /\ disk'[place].name = box.name
    BY <1>3, DiskAfter
  <2>2. place \in Nat
    BY <2>1
  <2>3. /\ landed \in Seq(Nat) /\ shown \in Seq(Seq(Nat)) /\ side \in {"client", "server"}
    BY DEF DragInv, DragTypes
  <2>4. /\ files \in Seq(Nat) /\ Len(files) = Len(landed) + 1 /\ Len(landed) \in Nat
        /\ \A k \in 1..Len(landed) : files[k] = landed[k]
        /\ files[Len(landed) + 1] = place
    BY <2>2, <2>3, InAppend
  <2>5. /\ Len(Append(shown, files)) = Len(shown) + 1 /\ Len(shown) \in Nat
        /\ \A s \in 1..Len(shown) : Append(shown, files)[s] = shown[s]
        /\ Append(shown, files)[Len(shown) + 1] = files
    BY <2>3, <2>4, InAppend
  <2>6. Collect(place)
    BY <1>3 DEF Writes
  <2> HIDE DEF place
  <2>7. \/ /\ side = "client" /\ expected > 0 /\ Len(files) >= expected
           /\ shown' = Append(shown, files) /\ landed' = <<>>
        \/ /\ side = "client" /\ ~(expected > 0 /\ Len(files) >= expected)
           /\ landed' = files /\ shown' = shown
        \/ side = "server" /\ landed' = landed /\ shown' = shown
    BY <2>3, <2>6 DEF Collect
  <2> DEFINE more == Append(shown, files)
  <2> HIDE DEF files, more
  <2>8. /\ Len(more) = Len(shown) + 1 /\ Len(shown) \in Nat
        /\ \A s \in 1..Len(shown) : more[s] = shown[s]
        /\ more[Len(shown) + 1] = files
    BY <2>5 DEF more
  (* a file that is alone is the only one that was announced *)
  <2>9. ASSUME box.name \in AloneJobs
        PROVE  side = "client" => expected = 1 /\ landed = <<>>
    <3>1. Busy(box.name)
      BY <1>3, <2>9, OtherSends DEF Shows, c
    <3> QED
      BY <2>9, <3>1 DEF DragInv, JobInv, Ongoing
  <2>10. /\ \A k \in 1..Len(landed) : landed[k] \in 1..Len(disk) /\ disk[landed[k]].name \notin AloneJobs
         /\ \A s \in 1..Len(shown) : \A k \in 1..Len(shown[s]) :
              /\ shown[s][k] \in 1..Len(disk)
              /\ disk[shown[s][k]].name \in AloneJobs => Len(shown[s]) = 1
         /\ side = "server" => landed = <<>>
    BY DEF DragInv, Places
  <2>11. \A n \in 1..Len(disk) : n \in 1..Len(disk') /\ disk'[n] = disk[n]
    BY <2>1, <2>2 DEF place
  <2>12. place \in 1..Len(disk') /\ disk'[place].name = box.name
    BY <2>1, <2>2 DEF place
  <2>13. ASSUME NEW k \in 1..Len(files)
         PROVE  /\ files[k] \in 1..Len(disk')
                /\ disk'[files[k]].name \in AloneJobs => k = Len(files) /\ box.name \in AloneJobs
    <3>1. CASE k \in 1..Len(landed)
      BY <2>4, <2>10, <2>11, <3>1
    <3>2. CASE k \notin 1..Len(landed)
      <4>1. k = Len(landed) + 1
        BY <2>4, <3>2
      <4> QED
        BY <2>4, <2>12, <4>1
    <3> QED
      BY <3>1, <3>2
  <2>14. /\ \A k \in 1..Len(landed') :
              landed'[k] \in 1..Len(disk') /\ disk'[landed'[k]].name \notin AloneJobs
         /\ side = "server" => landed' = <<>>
    <3>1. CASE landed' = <<>>
      BY <3>1, InEmpty
    <3>2. CASE landed' = landed
      BY <2>10, <2>11, <3>2
    <3>3. CASE /\ side = "client" /\ ~(expected > 0 /\ Len(files) >= expected)
               /\ landed' = files
      <4>1. box.name \notin AloneJobs
        <5>1. SUFFICES ASSUME box.name \in AloneJobs PROVE FALSE
          OBVIOUS
        <5>2. expected = 1
          BY <2>9, <3>3, <5>1
        <5> QED
          BY <2>4, <3>3, <5>2
      <4> QED
        BY <2>13, <3>3, <4>1
    <3> QED
      BY <2>7, <3>1, <3>2, <3>3
  <2>15. ASSUME NEW s \in 1..Len(shown'), NEW k \in 1..Len(shown'[s])
         PROVE  /\ shown'[s][k] \in 1..Len(disk')
                /\ disk'[shown'[s][k]].name \in AloneJobs => Len(shown'[s]) = 1
    <3>1. CASE s \in 1..Len(shown) /\ shown'[s] = shown[s]
      BY <2>10, <2>11, <2>15, <3>1
    <3>2. CASE side = "client" /\ shown'[s] = files
      <4>1. box.name \in AloneJobs => Len(files) = 1
        <5>1. landed = <<>> => Len(landed) = 0
          BY InEmpty
        <5> QED
          BY <2>4, <2>9, <3>2, <5>1
      <4> QED
        BY <2>13, <2>15, <3>2, <4>1
    <3>3. CASE shown' = shown
      BY <3>1, <3>3
    <3>4. CASE side = "client" /\ shown' = more
      <4>1. CASE s \in 1..Len(shown)
        BY <2>8, <3>1, <3>4, <4>1
      <4>2. CASE s \notin 1..Len(shown)
        <5>1. s = Len(shown) + 1
          BY <2>8, <3>4, <4>2
        <5> QED
          BY <2>8, <3>2, <3>4, <5>1
      <4> QED
        BY <4>1, <4>2
    <3> QED
      BY <2>7, <3>3, <3>4 DEF more
  <2> QED
    BY <1>1, <2>14, <2>15 DEF Places
<1>4. \/ UNCHANGED <<disk, landed, shown>>
      \/ Delivers(p, c[1]) /\ box.active /\ Writes
  <2>1. CASE Delivers(p, c[1])
    <3>1. OnChunk(c)
      BY <1>1, <2>1
    <3> QED
      BY <1>1, <2>1, <3>1, ChunkCases DEF Begins, Resets, Adds, Drops, Ignored, receiving
  <2>2. CASE ~Delivers(p, c[1])
    BY <1>1, <2>2 DEF receiving
  <2> QED
    BY <2>1, <2>2
<1> QED
  BY <1>2, <1>3, <1>4

LEMMA SendChunkKeeps ==
    ASSUME DragInv, NEW p \in Dragger, SendChunk(p)
    PROVE  DragInv'
<1> DEFINE c == Head(queue[p])
<1>1. /\ c \in Chunk /\ c[1] \in Jobs
      /\ queue' \in [Dragger -> Seq(Chunk)]
      /\ \A q \in Dragger : In(queue'[q]) \subseteq In(queue[q])
      /\ UNCHANGED <<side, drags, sent, over, proxy, cut, crowded>>
      /\ Jobs' = Jobs /\ AloneJobs' = AloneJobs
      /\ \A j : Size(j)' = Size(j) /\ By(j)' = By(j)
      /\ Delivers(p, c[1]) => OnChunk(c)
      /\ ~Delivers(p, c[1]) => UNCHANGED receiving
  BY ChunkSent
<1> HIDE DEF c
<1>2. /\ box' \in Box /\ disk' \in Seq(File)
      /\ expected' \in Nat /\ landed' \in Seq(Nat) /\ shown' \in Seq(Seq(Nat))
      /\ ~box'.active => box'.temp = NoTemp
  <2>1. CASE Delivers(p, c[1])
    BY <1>1, <2>1, ReceiverTyped
  <2>2. CASE ~Delivers(p, c[1])
    BY <1>1, <2>2 DEF receiving, DragInv, DragTypes, Counts
  <2> QED
    BY <2>1, <2>2
<1>3. /\ \A j \in In(box'.files) : j \in Jobs
      /\ box'.name \in Jobs \cup {Nameless}
      /\ \A e \in In(box'.temp) : e[1] \in Jobs
      /\ \A f \in In(disk') : f.name \in Jobs \cup {Nameless} /\ \A e \in In(f.pieces) : e[1] \in Jobs
  <2>1. CASE Delivers(p, c[1])
    BY <1>1, <2>1, ReceiverKnows
  <2>2. CASE ~Delivers(p, c[1])
    BY <1>1, <2>2 DEF receiving, DragInv, Known
  <2> QED
    BY <2>1, <2>2
<1>4. DragTypes'
  BY <1>1, <1>2 DEF DragInv, DragTypes
<1>5. Known'
  BY <1>1, <1>3 DEF DragInv, Known
<1>6. Counts'
  BY <1>1, <1>2 DEF DragInv, Counts
<1>7. ASSUME NEW j \in AloneJobs PROVE JobInv(j)'
  BY BusySends, OtherSends
<1> QED
  BY <1>1, <1>4, <1>5, <1>6, <1>7, SendsPlaces DEF DragInv

-----------------------------------------------------------------------------
(* A drag begins.                                                          *)

LEMMA Announced ==
    ASSUME DragInv, NEW p \in Dragger, NEW sizes \in Selection, Announce(p, sizes)
    PROVE  LET d == Len(drags) + 1 IN
           /\ Len(drags) \in Nat /\ d \in 1..MaxDrags
           /\ sizes \in Seq(Nat) /\ Len(sizes) \in 1..MaxFiles
           /\ drags' \in Seq(Drag) /\ drags'[d].by = p /\ drags'[d].target = proxy[p]
           /\ \A e \in 1..Len(drags) : drags'[e] = drags[e]
           /\ Jobs \subseteq Jobs' /\ \A j \in Jobs' : j \in Jobs \/ (j[1] = d /\ j[2] \in 1..Len(sizes))
           /\ \A j \in Jobs : j[1] # d /\ Size(j)' = Size(j) /\ By(j)' = By(j) /\ Target(j)' = Target(j)
                              /\ Pieces(j)' = Pieces(j)
           /\ \A j \in Jobs' : j[1] = d => Size(j)' \in Nat /\ By(j)' = p /\ Target(j)' = proxy[p]
           /\ \A k \in 1..Len(sizes) : <<d, k>> \in Jobs'
           /\ AloneJobs' \cap Jobs \subseteq AloneJobs
<1> DEFINE d == Len(drags) + 1
           e == [by |-> p, target |-> proxy[p], sizes |-> sizes]
<1>1. /\ proxy[p] # 0 /\ d <= MaxDrags /\ drags' = Append(drags, e) /\ crowded \subseteq crowded'
  BY DEF Announce
<1>2. drags \in Seq(Drag) /\ Len(drags) \in Nat /\ proxy[p] \in Nat /\ MaxDrags \in Nat /\ MaxFiles \in Nat
      /\ MaxSize \in Nat
  BY DEF DragInv, DragTypes, DragAssumption
<1>3. sizes \in Seq(Nat) /\ Len(sizes) \in 1..MaxFiles /\ \A k \in 1..Len(sizes) : sizes[k] \in Nat
  <2>1. PICK n \in 1..MaxFiles : sizes \in [1..n -> 0..MaxSize]
    BY DEF Selection
  <2>2. n \in Nat
    BY <1>2
  <2>3. sizes \in Seq(Nat) /\ Len(sizes) = n
    BY <1>2, <2>1, <2>2
  <2> QED
    BY <2>3, AtIs
<1>4. e \in Drag
  BY <1>1, <1>2, <1>3 DEF Drag
<1> HIDE DEF e
<1>5. /\ drags' \in Seq(Drag) /\ Len(drags') = d /\ drags'[d] = e
      /\ \A n \in 1..Len(drags) : drags'[n] = drags[n]
  BY <1>1, <1>2, <1>4, InAppend
<1>6. e.by = p /\ e.target = proxy[p] /\ e.sizes = sizes
  BY DEF e
<1>7. \A j \in Jobs : j \in Job /\ j[1] \in 1..Len(drags)
  BY JobsAre DEF DragInv
<1>8. \A j \in Jobs : Sizes(j[1])' = Sizes(j[1])
  BY <1>5, <1>7 DEF Sizes
<1>9. \A j \in Jobs : j[1] # d /\ Size(j)' = Size(j) /\ By(j)' = By(j) /\ Target(j)' = Target(j)
                      /\ Pieces(j)' = Pieces(j)
  BY <1>2, <1>5, <1>7, <1>8 DEF Size, By, Target, Pieces
<1>10. Jobs \subseteq Jobs'
  BY <1>2, <1>5, <1>7, <1>8 DEF Jobs
<1>11. ASSUME NEW j \in Jobs' PROVE j \in Jobs \/ (j[1] = d /\ j[2] \in 1..Len(sizes))
  <2>1. j \in Job /\ j[1] <= d /\ j[2] <= Len(drags'[j[1]].sizes)
    BY <1>5 DEF Jobs, Sizes
  <2>2. j[1] \in Nat \ {0} /\ j[2] \in Nat \ {0}
    <3>1. j[1] \in 1..MaxDrags /\ j[2] \in 1..MaxFiles
      BY <2>1 DEF Job
    <3> QED
      BY <3>1
  <2>3. CASE j[1] = d
    BY <1>3, <1>5, <1>6, <2>1, <2>2, <2>3
  <2>4. CASE j[1] # d
    <3>1. j[1] \in 1..Len(drags)
      BY <1>2, <2>1, <2>2, <2>4
    <3> QED
      BY <1>5, <2>1, <3>1 DEF Jobs, Sizes
  <2> QED
    BY <2>3, <2>4
<1>12. ASSUME NEW j \in Jobs', j[1] = d PROVE Size(j)' \in Nat /\ By(j)' = p /\ Target(j)' = proxy[p]
  <2>1. j[2] \in 1..Len(sizes)
    BY <1>9, <1>11, <1>12
  <2> QED
    BY <1>3, <1>5, <1>6, <1>12, <2>1 DEF Size, Sizes, By, Target
<1>13. AloneJobs' \cap Jobs \subseteq AloneJobs
  BY <1>1 DEF AloneJobs, Alone
<1>14. d \in 1..MaxDrags /\ drags'[d].by = p /\ drags'[d].target = proxy[p]
  BY <1>1, <1>2, <1>5, <1>6
<1>15. ASSUME NEW k \in 1..Len(sizes) PROVE <<d, k>> \in Jobs'
  <2>1. k \in 1..MaxFiles
    BY <1>2, <1>3
  <2>2. <<d, k>> \in Job
    BY <1>14, <2>1 DEF Job
  <2>3. d <= Len(drags') /\ k <= Len(drags'[d].sizes)
    BY <1>2, <1>3, <1>5, <1>6
  <2> HIDE DEF d
  <2> QED
    BY <2>2, <2>3 DEF Jobs, Sizes
<1> QED
  BY <1>2, <1>3, <1>5, <1>9, <1>10, <1>11, <1>12, <1>13, <1>14, <1>15

(* What the message with the names does to the receiver.                   *)
LEMMA NamesArrive ==
    ASSUME DragInv, NEW p \in Dragger, NEW sizes \in Selection, Announce(p, sizes)
    PROVE  LET d == Len(drags) + 1 IN
           /\ UNCHANGED <<side, sent, over, queue, proxy, cut, disk, shown>>
           /\ box'.name = box.name /\ box'.active = box.active /\ box'.temp = box.temp
           /\ box' \in Box /\ expected' \in Nat
           /\ landed' = landed \/ landed' = <<>>
           /\ p \in cut => UNCHANGED <<box, landed>>
           /\ p \notin cut =>
                /\ box'.files = [i \in 1..Len(sizes) |-> <<d, i>>] /\ box'.index = 1
                /\ Len(box'.files) = Len(sizes)
                /\ side = "client" => expected' = Len(sizes) /\ landed' = <<>>
<1> DEFINE d == Len(drags) + 1
           files == [i \in 1..Len(sizes) |-> <<d, i>>]
<1>1. /\ UNCHANGED <<side, sent, over, queue, proxy, cut>>
      /\ IF p \in cut THEN UNCHANGED receiving ELSE DragInfoReceived(d, Len(sizes))
  BY DEF Announce, transfer, connection
<1>2. d \in 1..MaxDrags /\ Len(sizes) \in 1..MaxFiles /\ MaxFiles \in Nat
  BY Announced DEF DragAssumption
<1>3. box \in Box /\ expected \in Nat
  BY DEF DragInv, DragTypes
<1>4. files \in Seq(Job) /\ Len(files) = Len(sizes)
  <2>1. Len(sizes) \in Nat
    BY <1>2
  <2>2. ASSUME NEW i \in 1..Len(sizes) PROVE <<d, i>> \in Job
    <3>1. i \in 1..MaxFiles
      BY <1>2
    <3> QED
      BY <1>2, <3>1 DEF Job
  <2> HIDE DEF d
  <2> QED
    BY <2>1, <2>2
<1>5. CASE p \in cut
  BY <1>1, <1>3, <1>5 DEF receiving
<1>6. CASE p \notin cut
  <2>1. /\ box' = [box EXCEPT !.files = files, !.index = 1]
        /\ IF side = "client" THEN expected' = Len(sizes) /\ landed' = <<>>
                              ELSE UNCHANGED <<expected, landed>>
        /\ UNCHANGED <<disk, shown>>
    BY <1>1, <1>6 DEF DragInfoReceived, SetDragFiles
  <2> HIDE DEF files
  <2>2. /\ box'.name = box.name /\ box'.active = box.active /\ box'.temp = box.temp
        /\ box'.files = files /\ box'.index = 1 /\ box' \in Box
    <3>1. box' = [box EXCEPT !.files = files, !.index = 1] /\ 1 \in Nat \ {0}
      BY <2>1
    <3> QED
      BY <1>3, <1>4, <3>1 DEF Box
  <2>3. expected' \in Nat
    BY <1>2, <1>3, <2>1
  <2> QED
    BY <1>1, <1>4, <1>6, <2>1, <2>2, <2>3 DEF files
<1> QED
  BY <1>5, <1>6

LEMMA AnnounceThreads ==
    ASSUME DragInv, NEW p \in Dragger, NEW sizes \in Selection, Announce(p, sizes)
    PROVE  LET d == Len(drags) + 1 IN
           /\ Running \subseteq Running' /\ \A j \in Running' : j \in Running \/ (j \in Jobs' /\ j[1] = d)
           /\ UnderWay \subseteq UnderWay' /\ UnderWay' \subseteq UnderWay \cup {d}
           /\ \A j \in Jobs' \ Jobs : j \in Job /\ sent[j] = 0 /\ sent'[j] = 0
           /\ d \notin UnderWay
           /\ \A j \in AloneJobs' : j \in Jobs => j \in AloneJobs /\ ~Busy(j) /\ ~Busy(j)'
           /\ p \notin cut /\ Starting => Starting'
<1> DEFINE d == Len(drags) + 1
<1>1. /\ Len(drags) \in Nat
      /\ \A e \in 1..Len(drags) : drags'[e] = drags[e]
      /\ drags'[d].by = p /\ drags'[d].target = proxy[p]
      /\ Jobs \subseteq Jobs' /\ \A j \in Jobs' : j \in Jobs \/ j[1] = d
      /\ \A j \in Jobs : j[1] # d /\ By(j)' = By(j)
      /\ \A j \in Jobs' : j[1] = d => By(j)' = p
      /\ AloneJobs' \cap Jobs \subseteq AloneJobs
  BY Announced
<1>2. UNCHANGED <<sent, over, queue, proxy, cut>>
  BY NamesArrive
<1>3. over \subseteq Jobs
  BY DEF DragInv, DragTypes
<1> HIDE DEF d
<1>4. Running \subseteq Running' /\ \A j \in Running' : j \in Running \/ (j \in Jobs' /\ j[1] = d)
  BY <1>1, <1>2, <1>3 DEF Running
<1>5. UnderWay \subseteq UnderWay' /\ UnderWay' \subseteq UnderWay \cup {d}
  BY <1>2, <1>4, UnderWayIs
<1>6. \A j \in Jobs' \ Jobs : j \in Job /\ sent[j] = 0 /\ sent'[j] = 0
  BY <1>2 DEF Jobs, DragInv, Counts
<1>7. \A e \in UnderWay : e \in 1..Len(drags)
  BY DragsUnderWay
<1>8. d \notin UnderWay
  BY <1>1, <1>7 DEF d
<1>9. ASSUME NEW j \in AloneJobs', j \in Jobs PROVE j \in AloneJobs /\ ~Busy(j) /\ ~Busy(j)'
  <2>1. j[1] \notin crowded' /\ j \in AloneJobs
    BY <1>1, <1>9 DEF AloneJobs, Alone
  <2>2. crowded' = crowded
       \cup (IF UnderWay = {} THEN {} ELSE UnderWay \cup {d})
       \cup (IF Len(sizes) = 1 /\ p \notin cut THEN {} ELSE {d})
       \cup (IF p \notin cut THEN {} ELSE Left)
    BY DEF Announce, d
  <2>3. j[1] \notin UnderWay
    BY <2>1, <2>2
  <2> QED
    BY <1>1, <1>5, <1>9, <2>1, <2>3 DEF Busy
<1>10. ASSUME p \notin cut, Starting PROVE Starting'
  <2>1. StartsWait'
    <3>1. ASSUME NEW i \in Running', sent'[i] > 0 PROVE <<i, 0>> \in In(queue'[By(i)'])
      <4>1. i \in Running /\ i \in Jobs
        <5>1. i \in Jobs' /\ ~(sent'[i] = 0)
          BY <3>1 DEF Running
        <5>2. i \in Jobs
          BY <1>6, <5>1
        <5> QED
          BY <1>1, <1>4, <5>2
      <4> QED
        BY <1>1, <1>2, <1>10, <3>1, <4>1 DEF Starting, StartsWait
    <3> QED
      BY <1>2, <1>10, <3>1 DEF Starting, StartsWait
  <2>2. Reached'
    <3>1. ASSUME NEW e \in UnderWay'
          PROVE  drags'[e].by \notin cut' /\ drags'[e].target = proxy'[drags'[e].by]
      <4>1. CASE e = d
        BY <1>1, <1>2, <1>10, <4>1
      <4>2. CASE e \in UnderWay
        BY <1>1, <1>2, <1>7, <1>10, <4>2 DEF Starting, Reached
      <4> QED
        BY <1>5, <4>1, <4>2
    <3> QED
      BY <3>1 DEF Reached
  <2> QED
    BY <2>1, <2>2 DEF Starting
<1> QED
  BY <1>4, <1>5, <1>6, <1>8, <1>9, <1>10 DEF d

(* A drag that begins alone is the only one under way.                     *)
LEMMA NewJob ==
    ASSUME DragInv, NEW p \in Dragger, NEW sizes \in Selection, Announce(p, sizes),
           DragTypes', NEW j \in AloneJobs', j \notin Jobs
    PROVE  JobInv(j)'
<1> DEFINE d == Len(drags) + 1
<1>1. /\ Len(drags) \in Nat /\ d \in 1..MaxDrags
      /\ \A i \in Jobs' : i \in Jobs \/ (i[1] = d /\ i[2] \in 1..Len(sizes))
      /\ \A i \in Jobs : i[1] # d
      /\ \A i \in Jobs' : i[1] = d => By(i)' = p /\ Target(i)' = proxy[p]
  BY Announced
<1>2. /\ UNCHANGED <<side, sent, over, queue, proxy, cut, disk>>
      /\ box'.name = box.name /\ box'.temp = box.temp
      /\ p \notin cut =>
           /\ box'.files = [i \in 1..Len(sizes) |-> <<d, i>>] /\ box'.index = 1
           /\ Len(box'.files) = Len(sizes)
           /\ side = "client" => expected' = Len(sizes) /\ landed' = <<>>
  BY NamesArrive
<1>3. crowded' = crowded
       \cup (IF UnderWay = {} THEN {} ELSE UnderWay \cup {d})
       \cup (IF Len(sizes) = 1 /\ p \notin cut THEN {} ELSE {d})
       \cup (IF p \notin cut THEN {} ELSE Left)
  BY DEF Announce
<1>4. /\ Running \subseteq Running' /\ UnderWay' \subseteq UnderWay \cup {d}
      /\ sent'[j] = 0
  BY AnnounceThreads DEF AloneJobs
<1> HIDE DEF d
<1>5. j \in Jobs' /\ j \in Job /\ j[1] = d /\ j[1] \notin crowded'
  BY <1>1 DEF AloneJobs, Alone, Jobs
<1>6. UnderWay = {} /\ Len(sizes) = 1 /\ p \notin cut
  BY <1>3, <1>5
<1>7. j = <<d, 1>>
  <2>1. j[2] = 1
    BY <1>1, <1>5, <1>6
  <2>2. j = <<j[1], j[2]>>
    BY <1>5 DEF Job
  <2> QED
    BY <1>5, <2>1, <2>2
<1>8. ASSUME NEW i \in Jobs', i[1] = j[1] PROVE i = j
  <2>1. i[2] = 1 /\ i[1] = d
    BY <1>1, <1>5, <1>6, <1>8
  <2>2. i = <<i[1], i[2]>>
    BY DEF Jobs, Job
  <2> QED
    BY <1>7, <2>1, <2>2
<1>9. UnderWay' = {j[1]}
  <2>1. j \in Running'
    <3>1. j \notin over
      BY DEF DragInv, DragTypes
    <3> QED
      BY <1>2, <1>5, <3>1 DEF Running
  <2> QED
    BY <1>4, <1>5, <1>6, <2>1, UnderWayIs
(* nobody knows it yet *)
<1>10. /\ box.name # j /\ \A e \in In(box.temp) : e[1] # j
       /\ \A f \in In(disk) : f.name # j /\ \A e \in In(f.pieces) : e[1] # j
  BY <1>5, NamelessAssumption DEF DragInv, Known
<1>11. Mixed(j)'
  BY <1>2, <1>10 DEF Mixed
<1>12. Written(j)'
  <2>1. \A f \in In(disk') : f.name # j /\ \A e \in In(f.pieces) : e[1] # j
    BY <1>2, <1>10
  <2>2. \A k \in 1..Len(disk') : disk'[k].name # j
    BY <2>1 DEF In
  <2> QED
    BY <2>1, <2>2 DEF Written
<1>13. Unwritten(j)' /\ ~Shows(j)'
  BY <1>2, <1>10 DEF Unwritten, Shows
<1>14. Progress(j)'
  <2>1. queue[p] = <<>>
    BY <1>6, NothingUnderWay DEF DragInv
  <2>2. Chunks(j, 0, 0) = <<>>
    BY <1>5, ChunksAre
  <2>3. queue'[By(j)'] = Chunks(j, 0, 0) /\ sent'[j] = 0 + 0
    BY <1>1, <1>2, <1>4, <1>5, <2>1, <2>2
  <2> QED
    BY <1>13, <2>3 DEF Progress
<1>15. box'.files = <<j>> /\ box'.index = 1
  <2>1. [i \in 1..1 |-> <<d, i>>] = <<<<d, 1>>>>
    OBVIOUS
  <2> QED
    BY <1>2, <1>6, <1>7, <2>1
<1>16. Ongoing(j)'
  BY <1>1, <1>2, <1>5, <1>6, <1>9, <1>13, <1>14, <1>15 DEF Ongoing
<1> QED
  BY <1>8, <1>9, <1>11, <1>12, <1>16 DEF JobInv, Busy

(* A drag that was alone has nothing under way, and is no longer named.    *)
LEMMA OldJob ==
    ASSUME DragInv, NEW p \in Dragger, NEW sizes \in Selection, Announce(p, sizes),
           NEW j \in AloneJobs', j \in Jobs
    PROVE  JobInv(j)'
<1> DEFINE d == Len(drags) + 1
<1>1. /\ \A i \in Jobs' : i \in Jobs \/ i[1] = d
      /\ j[1] # d /\ Pieces(j)' = Pieces(j)
  BY Announced
<1>2. /\ UNCHANGED <<queue, cut, disk>>
      /\ box'.name = box.name /\ box'.active = box.active /\ box'.temp = box.temp
      /\ p \in cut => UNCHANGED box
      /\ p \notin cut =>
           /\ box'.files = [i \in 1..Len(sizes) |-> <<d, i>>] /\ box'.index = 1
           /\ Len(box'.files) = Len(sizes)
  BY NamesArrive
<1>3. /\ j \in AloneJobs /\ ~Busy(j) /\ ~Busy(j)'
      /\ p \notin cut /\ Starting => Starting'
  BY AnnounceThreads
<1> HIDE DEF d
<1>4. JobInv(j) /\ Remains(j)
  BY <1>3 DEF DragInv, JobInv
<1>5. Mixed(j)' /\ Written(j)'
  BY <1>1, <1>2, <1>4 DEF JobInv, Mixed, Written
<1>6. (\A i \in Jobs : i[1] = j[1] => i = j)'
  BY <1>1, <1>4 DEF JobInv
<1>7. CASE p \notin cut
  <2>1. \A k \in box'.index..Len(box'.files) : box'.files[k] # j
    <3>1. Len(sizes) \in Nat
      BY Announced
    <3>2. \A k \in 1..Len(sizes) : box'.files[k] = <<d, k>>
      BY <1>2, <1>7
    <3>3. \A k \in 1..Len(sizes) : box'.files[k] # j
      BY <1>1, <3>2
    <3> QED
      BY <1>2, <1>7, <3>3
  <2>2. Shows(j)' => Unwritten(j)' /\ Starting'
    BY <1>2, <1>3, <1>4, <1>7 DEF Shows, Unwritten, Remains
  <2>3. Remains(j)'
    BY <2>1, <2>2 DEF Remains
  <2> QED
    BY <1>3, <1>5, <1>6, <2>3 DEF JobInv
<1>8. CASE p \in cut
  <2>1. Left \subseteq crowded'
    BY <1>8 DEF Announce
  <2>2. j[1] \notin Left
    BY <1>3, <2>1 DEF AloneJobs, Alone
  <2>3. ~Shows(j) /\ \A k \in box.index..Len(box.files) : box.files[k] # j
    BY <2>2 DEF Left, Shows
  <2>4. Remains(j)'
    BY <1>2, <1>8, <2>3 DEF Remains, Shows
  <2> QED
    BY <1>3, <1>5, <1>6, <2>4 DEF JobInv
<1> QED
  BY <1>7, <1>8

LEMMA AnnounceKeeps ==
    ASSUME DragInv, NEW p \in Dragger, NEW sizes \in Selection, Announce(p, sizes)
    PROVE  DragInv'
<1> DEFINE d == Len(drags) + 1
<1>1. /\ Len(drags) \in Nat /\ d \in 1..MaxDrags /\ Len(sizes) \in 1..MaxFiles
      /\ drags' \in Seq(Drag)
      /\ Jobs \subseteq Jobs' /\ \A j \in Jobs' : j \in Jobs \/ (j[1] = d /\ j[2] \in 1..Len(sizes))
      /\ \A j \in Jobs : j[1] # d /\ Size(j)' = Size(j) /\ By(j)' = By(j)
      /\ \A j \in Jobs' : j[1] = d => Size(j)' \in Nat
      /\ \A k \in 1..Len(sizes) : <<d, k>> \in Jobs'
      /\ AloneJobs' \cap Jobs \subseteq AloneJobs
  BY Announced
<1>2. /\ UNCHANGED <<side, sent, over, queue, proxy, cut, disk, shown>>
      /\ box'.name = box.name /\ box'.active = box.active /\ box'.temp = box.temp
      /\ box' \in Box /\ expected' \in Nat
      /\ landed' = landed \/ landed' = <<>>
      /\ p \in cut => UNCHANGED <<box, landed>>
      /\ p \notin cut =>
           /\ box'.files = [i \in 1..Len(sizes) |-> <<d, i>>] /\ Len(box'.files) = Len(sizes)
  BY NamesArrive
<1> HIDE DEF d
<1>3. DragTypes'
  <2>1. landed' \in Seq(Nat)
    BY <1>2, EmptySeq DEF DragInv, DragTypes
  <2> QED
    BY <1>1, <1>2, <2>1 DEF DragInv, DragTypes
<1>4. Known'
  <2>1. \A j \in In(box'.files) : j \in Jobs'
    <3>1. CASE p \in cut
      BY <1>1, <1>2, <3>1 DEF DragInv, Known
    <3>2. CASE p \notin cut
      BY <1>1, <1>2, <3>2 DEF In
    <3> QED
      BY <3>1, <3>2
  <2>2. \A q \in Dragger : \A c \in In(queue'[q]) : c[1] \in Jobs' /\ By(c[1])' = q
    BY <1>1, <1>2 DEF DragInv, Known
  <2> QED
    BY <1>1, <1>2, <2>1, <2>2 DEF DragInv, Known
<1>5. Counts'
  <2>1. \A j \in Job \ Jobs' : sent'[j] = 0
    BY <1>1, <1>2 DEF DragInv, Counts
  <2>2. ASSUME NEW j \in Jobs'
        PROVE  sent'[j] <= Size(j)' + 2 /\ (j \notin over' => sent'[j] <= Size(j)' + 1)
    <3>1. CASE j \in Jobs
      BY <1>1, <1>2, <3>1 DEF DragInv, Counts
    <3>2. CASE j \notin Jobs
      <4>1. sent'[j] = 0 /\ Size(j)' \in Nat
        BY <1>1, <3>2, AnnounceThreads
      <4> QED
        BY <4>1
    <3> QED
      BY <3>1, <3>2
  <2> QED
    BY <1>2, <2>1, <2>2 DEF DragInv, Counts
<1>6. Places'
  <2>1. \A f \in In(disk) : f.name \in AloneJobs' => f.name \in AloneJobs
    <3>1. ASSUME NEW f \in In(disk), f.name \in AloneJobs' PROVE f.name \in AloneJobs
      <4>1. f.name \in Jobs \/ f.name = Nameless
        BY DEF DragInv, Known
      <4>2. f.name # Nameless
        BY <3>1 DEF AloneJobs, Jobs
      <4> QED
        BY <1>1, <3>1, <4>1, <4>2
    <3> QED
      BY <3>1
  <2>2. \A k \in 1..Len(disk) : disk[k].name \in AloneJobs' => disk[k].name \in AloneJobs
    BY <2>1 DEF In
  <2>3. Len(<<>>) = 0
    BY InEmpty
  <2> QED
    BY <1>2, <2>2, <2>3 DEF DragInv, Places
<1>7. ASSUME NEW j \in AloneJobs' PROVE JobInv(j)'
  BY <1>3, NewJob, OldJob
<1> QED
  BY <1>3, <1>4, <1>5, <1>6, <1>7 DEF DragInv

-----------------------------------------------------------------------------
LEMMA DragInvInit == InitDrag => DragInv
<1> SUFFICES ASSUME InitDrag PROVE DragInv
  OBVIOUS
<1>1. /\ side \in {"client", "server"} /\ drags = <<>> /\ sent = [j \in Job |-> 0] /\ over = {}
      /\ queue = [p \in Dragger |-> <<>>] /\ proxy = [p \in Dragger |-> 1]
      /\ box = [files |-> <<>>, index |-> 1, active |-> FALSE, expected |-> 0,
                name |-> Nameless, temp |-> <<>>]
      /\ disk = <<>> /\ expected = 0 /\ landed = <<>> /\ shown = <<>>
  BY DEF InitDrag, Fresh, NoTemp
<1>2. In(<<>>) = {} /\ Len(<<>>) = 0
  BY InEmpty
<1>3. Jobs = {}
  <2>1. ASSUME NEW j \in Jobs PROVE FALSE
    <3>1. j[1] \in 1..MaxDrags /\ j[1] <= 0
      BY <1>1, <1>2, <2>1 DEF Jobs, Job
    <3> QED
      BY <3>1
  <2> QED
    BY <2>1
<1>4. box \in Box
  BY <1>1, EmptySeq DEF Box, Name
<1>5. DragTypes
  BY <1>1, <1>4, EmptySeq DEF DragTypes
<1>6. Known
  BY <1>1, <1>2 DEF Known
<1>7. Counts
  BY <1>1, <1>3 DEF Counts, NoTemp
<1>8. Places
  BY <1>1, <1>2 DEF Places
<1>9. AloneJobs = {}
  BY <1>3 DEF AloneJobs
<1> QED
  BY <1>5, <1>6, <1>7, <1>8, <1>9 DEF DragInv

LEMMA DragInvStep == DragInv /\ [NextDrag]_dragVars => DragInv'
<1> SUFFICES ASSUME DragInv, [NextDrag]_dragVars PROVE DragInv'
  OBVIOUS
<1>1. ASSUME NEW p \in Dragger, SendDragInfoToClient(p) \/ SendDragToServer(p) PROVE DragInv'
  <2>1. PICK sizes \in Selection : Announce(p, sizes)
    BY <1>1 DEF SendDragInfoToClient, SendDragToServer
  <2> QED
    BY <2>1, AnnounceKeeps
<1>2. ASSUME NEW p \in Dragger, SendChunk(p) PROVE DragInv'
  BY <1>2, SendChunkKeeps
<1>3. ASSUME NEW p \in Dragger, Cut(p) \/ Disconnect(p) \/ Connect(p) PROVE DragInv'
  BY <1>3, CutKeeps, DisconnectKeeps, ConnectKeeps
<1>4. ASSUME NEW j \in Job, QueueChunk(j) \/ ReadFails(j) PROVE DragInv'
  BY <1>4, QueueChunkKeeps, ReadFailsKeeps
<1>5. CASE UNCHANGED dragVars
  <2>1. UNCHANGED <<side, drags, sent, over, queue, proxy, cut, receiving, crowded>>
    BY <1>5 DEF dragVars, transfer, connection
  <2>2. proxy' \in [Dragger -> Nat] /\ AloneJobs' = AloneJobs /\ UnderWay' = UnderWay /\ Running' = Running
    BY <2>1, SameDrags, SameThreads DEF DragInv, DragTypes, AloneJobs, Alone
  <2>3. \A j : By(j)' = By(j)
    BY <2>1, SameDrags
  <2>4. ASSUME NEW j \in AloneJobs', Busy(j) PROVE By(j) \notin cut' /\ Target(j) = proxy'[By(j)]
    BY <2>1, <2>2, <2>4 DEF DragInv, JobInv, Ongoing
  <2>5. ASSUME NEW j \in AloneJobs', ~Busy(j), Shows(j) PROVE Starting'
    <3>1. Starting
      BY <2>2, <2>5 DEF DragInv, JobInv, Remains
    <3> QED
      BY <2>1, <2>2, <2>3, <3>1 DEF Starting, StartsWait, Reached
  <2> QED
    BY <2>1, <2>2, <2>4, <2>5, ConnectionsKeep
<1> QED
  BY <1>1, <1>2, <1>3, <1>4, <1>5 DEF NextDrag

LEMMA DragInvApart == DragInv => DragsApart
<1> SUFFICES ASSUME DragInv PROVE DragsApart
  OBVIOUS
<1>1. disk \in Seq(File) /\ Len(disk) \in Nat /\ \A k \in 1..Len(disk) : disk[k] \in In(disk)
  BY DEF DragInv, DragTypes, In
<1>2. ASSUME NEW k \in 1..Len(disk), NEW j \in Jobs, Alone(j[1]),
             disk[k].name = j \/ \E i \in 1..Len(disk[k].pieces) : disk[k].pieces[i][1] = j
      PROVE  disk[k].name = j /\ disk[k].pieces \in {Pieces(j), NoTemp}
  <2>1. Written(j)
    BY <1>2 DEF DragInv, JobInv, AloneJobs
  <2>2. disk[k].name = j \/ \E c \in In(disk[k].pieces) : c[1] = j
    BY <1>2 DEF In
  <2> QED
    BY <1>1, <2>1, <2>2 DEF Written, NoTemp
<1>3. ASSUME NEW k \in 1..Len(disk), NEW l \in 1..Len(disk), disk[k].name = disk[l].name,
             disk[k].name \in {j \in Jobs : Alone(j[1])}
      PROVE  k = l
  <2>1. Written(disk[k].name)
    BY <1>3 DEF DragInv, JobInv, AloneJobs
  <2> QED
    BY <1>3, <2>1 DEF Written
<1>4. ShownAlone
  BY DEF ShownAlone, DragInv, Places, AloneJobs
<1> QED
  BY <1>2, <1>3, <1>4 DEF DragsApart, WrittenWhole

(* What earlier drags left behind does not mix with a drag that is alone,  *)
(* whatever fails and whichever connections are lost                       *)
(* (FileReceiver::onChunk(), setDragFiles(), Client::fileChunkReceived()). *)
THEOREM DragsStayApart == DragSpec => []DragsApart
<1>1. DragSpec => []DragInv
  BY DragInvInit, DragInvStep, PTL DEF DragSpec
<1> QED
  BY <1>1, DragInvApart, PTL
=============================================================================
