---------------------------- MODULE FileClipboard ----------------------------
(***************************************************************************)
(* Copied files shared by two desktop applications (desktop/main.cjs): each *)
(* polls its clipboard, uploads new files through the relay to the other's  *)
(* receiver (cmd/deskbridge/clipboard.go) and leaves an event in its inbox, *)
(* which the other's poll puts on its own clipboard.  An action of an       *)
(* application runs from one await to the next, one of a receiver is a file *)
(* operation.  Copied lists have one file, and all files the same name, the *)
(* k-th of which is saved as "name (k-1)".                                  *)
(***************************************************************************)
EXTENDS Integers, Sequences

CONSTANTS
  Machine,     \* the two computers
  Own,         \* files of a user
  MaxActs,     \* bound on what the users do
  MaxFaults,   \* bound on failures, and on edits of a file
  MaxSaved,    \* bound on saved files
  MaxInbox     \* entries after which the inbox is full

ASSUME ClipboardAssumption ==
  /\ \E a, b \in Machine : a # b /\ Machine = {a, b}
  /\ {MaxActs, MaxFaults, MaxSaved, MaxInbox} \subseteq Nat

VARIABLES
  clip,      \* a machine's clipboard: [path, of, by]
  last,      \* lastClipboard: a path
  pref,      \* preferences.clipboard
  conn,      \* connected and clipboardSupported, as poll() last saw
  link,      \* whether the relay connects the machines
  pc,        \* where pollClipboard() is, "idle" when not busy, "hung" for ever
  todo,      \* events it has listed and not handled yet
  seen,      \* what it has read from the clipboard
  copying,   \* paths that copyLocalFiles() of the window is writing
  toggling,  \* what a change of the settings has read, or Nothing
  edit,      \* edits of a user's file
  saved,     \* contents of the files a receiver has saved, by number
  inbox,     \* events as they came: [path, of, content, old]
  uploads,   \* requests being served: [to, content, of, try, clip, heard]
  posts,     \* the same for /clipboard: [to, path, content, of, checked, heard]
  acts, faults,
  got,       \* history: what events have put on a clipboard
  missed,    \* history: copies given up for a reason that is told or by design
  raced,     \* history: the window copied or set while the poll was under way
  unwritten  \* history: where a write failed after lastClipboard was set for it

desk == <<clip, last, pref>>
polling == <<pc, todo, seen>>
window == <<copying, toggling>>
receiver == <<saved, inbox, uploads, posts>>
user == <<edit, acts>>
history == <<got, missed>>
apart == <<raced, unwritten>>
vars == <<desk, conn, link, polling, window, user, receiver, faults, history, apart>>

Nothing == [path |-> <<"none", 0>>, of |-> <<>>, by |-> "user"]
Mine(i) == <<"own", i>>
Saved(k) == <<"saved", k>>
Numbers == 1..MaxSaved
Peer(m) == CHOOSE n \in Machine : n # m
Entries(m) == {inbox[m][k] : k \in 1..Len(inbox[m])}

Init ==
  /\ clip = [m \in Machine |-> Nothing] /\ last = [m \in Machine |-> Nothing.path]
  /\ pref = [m \in Machine |-> TRUE] /\ conn = [m \in Machine |-> TRUE] /\ link = TRUE
  /\ pc = [m \in Machine |-> "idle"] /\ todo = [m \in Machine |-> {}]
  /\ seen = [m \in Machine |-> Nothing]
  /\ copying = [m \in Machine |-> {}] /\ toggling = [m \in Machine |-> Nothing.path]
  /\ edit = [m \in Machine |-> [i \in Own |-> 0]]
  /\ saved = [m \in Machine |-> [k \in Numbers |-> <<>>]]
  /\ inbox = [m \in Machine |-> <<>>] /\ uploads = {} /\ posts = {}
  /\ acts = 0 /\ faults = 0
  /\ got = [m \in Machine |-> {}] /\ missed = {} /\ raced = FALSE /\ unwritten = {}

Content(m, path) ==
  IF path[1] = "own" THEN <<m, path[2], edit[m][path[2]]>> ELSE saved[m][path[2]]

-----------------------------------------------------------------------------
(* The users.                                                                *)
Acts == acts < MaxActs /\ acts' = acts + 1

\* A file, or text, is copied in another application.
UserCopies(m) ==
  /\ Acts
  /\ \E new \in {Nothing} \cup {[path |-> Mine(i), of |-> Content(m, Mine(i)), by |-> "user"] : i \in Own} :
       clip' = [clip EXCEPT ![m] = new]
  /\ UNCHANGED <<last, pref, conn, link, polling, window, edit, receiver, faults, history, apart>>

\* Before it is copied an edited file is no other than a new one.
UserEdits(m) ==
  /\ faults < MaxFaults /\ faults' = faults + 1
  /\ \E i \in Own : clip[m].path = Mine(i) /\ edit' = [edit EXCEPT ![m][i] = @ + 1]
  /\ UNCHANGED <<desk, conn, link, polling, window, acts, receiver, history, apart>>

\* Files are sent from the window, sendFiles(files).
UserSends(m) ==
  /\ Acts /\ conn[m]
  /\ \E i \in Own : LET c == Content(m, Mine(i)) IN
       uploads' = uploads \cup
         {[to |-> Peer(m), content |-> c, of |-> c, try |-> 1, clip |-> FALSE, heard |-> TRUE]}
  /\ UNCHANGED <<desk, conn, link, polling, window, edit, saved, inbox, posts, faults, history, apart>>

\* Mutant: copyLocalFiles() leaves lastClipboard.
CopyLocalAnew(m, path) == last

\* copyLocalFiles(), up to its await.
CopyLocal(m, path) == [last EXCEPT ![m] = path]

\* The handler "copy-files": a file that was received is copied from the history.
HistoryCopies(m) ==
  /\ Acts
  /\ \E k \in Numbers :
       /\ saved[m][k] # <<>> /\ copying' = [copying EXCEPT ![m] = @ \cup {Saved(k)}]
       /\ last' = CopyLocal(m, Saved(k))
  /\ raced' = (raced \/ pc[m] # "idle") /\ UNCHANGED unwritten
  /\ UNCHANGED <<clip, pref, conn, link, polling, toggling, edit, receiver, faults, history>>

\* lastClipboard names what was written or read; or the clipboard.write() rejects.
InSync(m) == unwritten' = unwritten \ {m} /\ UNCHANGED faults
WriteRejected(m) ==
  /\ faults < MaxFaults /\ faults' = faults + 1
  /\ unwritten' = unwritten \cup {m} /\ UNCHANGED clip

\* The rest of copyLocalFiles(); a rejection ends in the handler.
HistoryCopied(m) ==
  /\ \E p \in copying[m] :
       /\ copying' = [copying EXCEPT ![m] = @ \ {p}]
       /\ \/ InSync(m) /\ clip' = [clip EXCEPT ![m] =
               [path |-> p, of |-> Content(m, p), by |-> "history"]]
          \/ WriteRejected(m)
  /\ UNCHANGED <<last, pref, conn, link, polling, toggling, user, receiver, history, raced>>

\* The handler "configure": the clipboard is read, then both variables are set.
Configure(m) ==
  /\ Acts /\ toggling[m] = Nothing.path
  /\ toggling' = [toggling EXCEPT ![m] = <<"read", clip[m].path>>]
  /\ raced' = (raced \/ pc[m] # "idle") /\ UNCHANGED unwritten
  /\ UNCHANGED <<desk, conn, link, polling, copying, edit, receiver, faults, history>>

Configured(m) ==
  /\ toggling[m] # Nothing.path
  /\ last' = [last EXCEPT ![m] = toggling[m][2]] /\ pref' = [pref EXCEPT ![m] = ~@]
  /\ toggling' = [toggling EXCEPT ![m] = Nothing.path]
  /\ missed' = missed \cup {clip[m].of} /\ InSync(m)
  /\ UNCHANGED <<clip, conn, link, polling, copying, user, receiver, got, raced>>

-----------------------------------------------------------------------------
(* poll() and pollClipboard().                                               *)
Health(m) ==
  /\ conn[m] # link /\ conn' = [conn EXCEPT ![m] = link]
  /\ UNCHANGED <<desk, link, polling, window, user, receiver, faults, history, apart>>

Goto(m, l) == pc' = [pc EXCEPT ![m] = l]

\* if(clipboardBusy)return; the events there are, in the order of random names.
PollStarts(m) ==
  /\ pc[m] = "idle" /\ Goto(m, "events")
  /\ todo' = [todo EXCEPT ![m] = Entries(m)]
  /\ raced' = (raced \/ copying[m] # {} \/ toggling[m] # Nothing.path) /\ UNCHANGED unwritten
  /\ UNCHANGED <<desk, conn, link, seen, window, user, receiver, faults, history>>

\* Mutant: what came in the meantime is removed as well.
WithoutAny(m, k) == <<>>

\* fsp.unlink() of an event.
Without(m, k) == SubSeq(inbox[m], 1, k - 1) \o SubSeq(inbox[m], k + 1, Len(inbox[m]))

\* An event: it is put on the clipboard if it is new, and then removed.
HandleEvent(m) ==
  /\ pc[m] = "events"
  /\ \E k \in 1..Len(inbox[m]) : LET e == inbox[m][k] IN
       /\ e \in todo[m] /\ todo' = [todo EXCEPT ![m] = @ \ {e}]
       /\ IF pref[m] /\ ~e.old
          THEN /\ last' = CopyLocal(m, e.path) /\ Goto(m, "copying")
               /\ seen' = [seen EXCEPT ![m] = [path |-> e.path, of |-> e.of, by |-> "event"]]
               /\ UNCHANGED <<inbox, missed>>
          ELSE /\ inbox' = [inbox EXCEPT ![m] = Without(m, k)]
               /\ missed' = missed \cup {e.of} /\ UNCHANGED <<last, pc, seen>>
  /\ UNCHANGED <<clip, pref, conn, link, window, user, saved, uploads, posts, faults, got, apart>>

\* A rejection ends the poll, and the next one comes to the event again.
EventCopied(m) ==
  /\ pc[m] = "copying"
  /\ \/ /\ InSync(m) /\ clip' = [clip EXCEPT ![m] = seen[m]]
        /\ Goto(m, "events") /\ got' = [got EXCEPT ![m] = @ \cup {seen[m].of}]
        /\ \E k \in 1..Len(inbox[m]) :
             inbox[m][k].path = seen[m].path /\ inbox' = [inbox EXCEPT ![m] = Without(m, k)]
        /\ UNCHANGED todo
     \/ /\ WriteRejected(m) /\ Goto(m, "idle")
        /\ todo' = [todo EXCEPT ![m] = {}] /\ UNCHANGED <<got, inbox>>
  /\ UNCHANGED <<last, pref, conn, link, seen, window, user, saved, uploads, posts, missed, raced>>

\* readFiles() of the clipboard, when the settings ask for it.
ReadClipboard(m) ==
  /\ pc[m] = "events" /\ todo[m] = {}
  /\ IF pref[m] THEN Goto(m, "read") /\ seen' = [seen EXCEPT ![m] = clip[m]]
                ELSE Goto(m, "idle") /\ UNCHANGED seen
  /\ UNCHANGED <<desk, conn, link, todo, window, user, receiver, faults, history, apart>>

\* What is new is sent: sendFiles(files,true) begins.  New is another path, so a
\* file that is copied again after it was edited is not sent.
Compare(m) ==
  LET s == seen[m]  new == s.path # last[m]  sends == new /\ s.path # Nothing.path /\ conn[m]
      edited == s.by = "user" /\ s.path # Nothing.path /\ s.of[3] > 0
  IN
  /\ pc[m] = "read"
  /\ last' = [last EXCEPT ![m] = s.path]
  /\ Goto(m, IF sends THEN "uploading" ELSE "idle")
  /\ uploads' = uploads \cup
       IF ~sends THEN {} ELSE
         {[to |-> Peer(m), content |-> Content(m, s.path), of |-> s.of,
           try |-> 1, clip |-> TRUE, heard |-> TRUE]}
  /\ missed' = missed \cup IF ~sends /\ (new \/ edited) THEN {s.of} ELSE {}
  /\ InSync(m)
  /\ UNCHANGED <<clip, pref, conn, link, todo, seen, window, user, saved, inbox, posts, got, raced>>

\* A request fails or is given up, while the receiver may go on to serve it.  When
\* its answer is cut after the headers, neither listener runs: the poll stays busy.
Fails(m) ==
  /\ faults < MaxFaults /\ faults' = faults + 1
  /\ pc[m] \in {"uploading", "posting"} /\ \E l \in {"idle", "hung"} : Goto(m, l)
  /\ \E goesOn \in BOOLEAN :
       /\ uploads' = {[u EXCEPT !.heard = @ /\ ~(u.clip /\ u.to # m)] :
                       u \in {x \in uploads : goesOn \/ ~x.clip \/ x.to = m \/ ~x.heard}}
       /\ posts' = {[u EXCEPT !.heard = @ /\ u.to = m] :
                     u \in {x \in posts : goesOn \/ x.to = m \/ ~x.heard}}
  /\ missed' = missed \cup {seen[m].of}
  /\ UNCHANGED <<desk, conn, link, todo, seen, window, user, saved, inbox, got, apart>>

-----------------------------------------------------------------------------
(* The receivers.                                                            *)
\* Mutant: whether the name is taken was seen before.
FreeLater(m, k) == TRUE

\* os.Link() succeeds.
Free(m, k) == saved[m][k] = <<>>

\* saveUniqueUpload(): one name is tried.
LinkUpload(u) ==
  /\ u.try \in Numbers
  /\ IF Free(u.to, u.try)
     THEN /\ saved' = [saved EXCEPT ![u.to][u.try] = u.content]
          /\ uploads' = uploads \ {u}
          /\ IF u.clip /\ u.heard
             THEN /\ Goto(Peer(u.to), "posting")
                  /\ posts' = posts \cup {[to |-> u.to, path |-> Saved(u.try), content |-> u.content,
                                           of |-> u.of, checked |-> FALSE, heard |-> TRUE]}
             ELSE UNCHANGED <<pc, posts>>
     ELSE uploads' = (uploads \ {u}) \cup {[u EXCEPT !.try = @ + 1]} /\ UNCHANGED <<saved, pc, posts>>
  /\ UNCHANGED <<desk, conn, link, todo, seen, window, user, inbox, faults, history, apart>>

\* Mutant: who is refused is not told.
AnsweredLess(p) == IF p.heard /\ p.checked THEN Goto(Peer(p.to), "idle") ELSE UNCHANGED pc

\* The answer to /clipboard reaches the poll, which ends.
Answered(p) == IF p.heard THEN Goto(Peer(p.to), "idle") ELSE UNCHANGED pc

\* The handler of /clipboard looks at the inbox: "clipboard inbox full".
CheckInbox(p) ==
  /\ ~p.checked
  /\ IF Len(inbox[p.to]) >= MaxInbox
     THEN posts' = posts \ {p} /\ Answered(p) /\ missed' = missed \cup {p.of}
     ELSE posts' = (posts \ {p}) \cup {[p EXCEPT !.checked = TRUE]} /\ UNCHANGED <<pc, missed>>
  /\ UNCHANGED <<desk, conn, link, todo, seen, window, user, saved, inbox, uploads, faults, got, apart>>

\* It writes the event and renames it.
PutEvent(p) ==
  /\ p.checked /\ posts' = posts \ {p} /\ Answered(p)
  /\ inbox' = [inbox EXCEPT ![p.to] = Append(@,
       [path |-> p.path, of |-> p.of, content |-> p.content, old |-> FALSE])]
  /\ UNCHANGED <<desk, conn, link, todo, seen, window, user, saved, uploads, faults, history, apart>>

\* A minute passes while the poll uploads a large file.
Ages(m) ==
  /\ pc[m] = "uploading" /\ faults < MaxFaults /\ faults' = faults + 1
  /\ inbox' = [inbox EXCEPT ![m] = [k \in DOMAIN @ |-> [@[k] EXCEPT !.old = TRUE]]]
  /\ UNCHANGED <<desk, conn, link, polling, window, user, saved, uploads, posts, history, apart>>

LinkChanges ==
  /\ faults < MaxFaults /\ faults' = faults + 1 /\ link' = ~link
  /\ UNCHANGED <<desk, conn, polling, window, user, receiver, history, apart>>

-----------------------------------------------------------------------------
Poll(m) ==
  PollStarts(m) \/ HandleEvent(m) \/ EventCopied(m) \/ ReadClipboard(m) \/ Compare(m)
Serve == (\E u \in uploads : LinkUpload(u)) \/ (\E p \in posts : CheckInbox(p) \/ PutEvent(p))
Next ==
  \/ \E m \in Machine :
       \/ UserCopies(m) \/ UserEdits(m) \/ UserSends(m)
       \/ HistoryCopies(m) \/ HistoryCopied(m) \/ Configure(m) \/ Configured(m)
       \/ Health(m) \/ Poll(m) \/ Fails(m) \/ Ages(m)
  \/ Serve \/ LinkChanges

Spec == Init /\ [][Next]_vars

(* Timers run, awaits return, requests are served.  The answers to poll() may *)
(* be cut as well, so that conn need not follow the link.                     *)
FairSpec ==
  /\ Spec
  /\ \A m \in Machine : WF_vars(Poll(m)) /\ WF_vars(HistoryCopied(m)) /\ WF_vars(Configured(m))
  /\ WF_vars(Serve)

-----------------------------------------------------------------------------
TypeOK ==
  /\ \A m \in Machine :
       /\ pc[m] \in {"idle", "events", "copying", "read", "uploading", "posting", "hung"}
       /\ todo[m] \subseteq Entries(m)
       /\ pc[m] = "uploading" <=> \E u \in uploads : u.to # m /\ u.clip /\ u.heard
       /\ pc[m] = "posting" <=> \E p \in posts : p.to # m /\ p.heard

(* What the other computer is given is the file that was uploaded for it,     *)
(* also when uploads of the same name overlap (saveUniqueUpload()).           *)
RightFiles ==
  \A m \in Machine : \A e \in Entries(m) \cup {p \in posts : p.to = m} :
    saved[m][e.path[2]] = e.content

(* A file the poll has put on the clipboard is not sent back, unless the      *)
(* window copied a file or changed the setting in the middle of a poll, or the *)
(* last file that lastClipboard was set for could not be written.             *)
SendsBack(m) == pc[m] = "read" /\ pc'[m] = "uploading" /\ seen[m].by = "event"
NoEcho == [][\A m \in Machine : SendsBack(m) => raced \/ m \in unwritten]_vars

(* The same always, and but for what the window does.                         *)
NeverEchoed == [][\A m \in Machine : ~SendsBack(m)]_vars
EchoedByWindow == [][\A m \in Machine : SendsBack(m) => raced]_vars

(* The poll stays busy only when an answer is cut.                            *)
PollEnds == \A m \in Machine : pc[m] # "idle" ~> pc[m] \in {"idle", "hung"}

(* It never stays busy.                                                       *)
PollReturns == \A m \in Machine : pc[m] # "idle" ~> pc[m] = "idle"

(* A file that is copied reaches the other clipboard, unless it is replaced   *)
(* before, or given up for a reason the code names: no connection, a failure, *)
(* a full inbox, an event too old, the setting, a path that was sent before,   *)
(* or a poll that has hung.                                                   *)
Shared ==
  \A m \in Machine, i \in Own, n \in 0..MaxFaults :
    LET c == <<m, i, n>> IN
    clip[m].of = c /\ clip[m].by = "user"
      ~> c \in got[Peer(m)] \cup missed \/ clip[m].of # c \/ ~pref[m] \/ raced
           \/ "hung" \in {pc[m], pc[Peer(m)]}

(* Copies arrive, and go on to.                                              *)
CopiesArrive == PollEnds /\ Shared

(* Files are put on the clipboard in the order they came, so that the last    *)
(* one copied stays (pollClipboard()).                                        *)
InOrder ==
  [][\A m \in Machine :
       pc[m] = "events" /\ pc'[m] = "copying" => seen'[m].of = inbox[m][1].of]_vars
=============================================================================
