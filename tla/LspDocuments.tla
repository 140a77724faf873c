---------------------------- MODULE LspDocuments ----------------------------
(***************************************************************************)
(* The language server's documents: the editor opens, changes and closes   *)
(* them, the server runs one handler per notification and shares one map   *)
(* of analysed documents among them.                                       *)
(*                                                                         *)
(* tower-lsp (external) starts handlers in the order of the notifications, *)
(* several at a time; between two awaits a handler runs alone, and at      *)
(* every await another may go on.  The map's lock is tokio's fair RwLock.  *)
(* A text is what its analysis needs: its version, what it imports, and    *)
(* whether the analysis gives up and where.                                *)
(***************************************************************************)
EXTENDS Naturals, Sequences

CONSTANTS
  Uris,       \* documents
  Handlers,   \* handlers that may run at a time
  MaxVersion, \* bound: versions of a document the editor sends
  MaxInbox,   \* bound: notifications the server has not started on
  None        \* no document

VARIABLES
  editor,    \* uri -> the text the editor has open, or None
  sent,      \* uri -> versions sent so far
  inbox,     \* notifications not yet handled, in order
  documents, \* uri -> the text of the analysed document, or None
  handling,  \* handler -> the notification it handles, or None
  pc,        \* handler -> where it is
  todo,      \* handler -> dependencies to collect
  seen,      \* handler -> dependencies collected
  waiting,   \* handlers that wait for the map's lock, in order
  shown      \* uri -> version of the last diagnostics the client was sent, or None

vars == <<editor, sent, inbox, documents, handling, pc, todo, seen, waiting, shown>>

Texts == [version: 1 .. MaxVersion, imports: SUBSET Uris, fails: {"no", "parse", "plan"}]
OnDisk == [version |-> 0, imports |-> {}, fails |-> "no"]

Init ==
  /\ editor = [u \in Uris |-> None] /\ sent = [u \in Uris |-> 0]
  /\ inbox = <<>>
  /\ documents = [u \in Uris |-> None]
  /\ handling = [h \in Handlers |-> None]
  /\ pc = [h \in Handlers |-> "idle"]
  /\ todo = [h \in Handlers |-> {}] /\ seen = [h \in Handlers |-> {}]
  /\ waiting = <<>>
  /\ shown = [u \in Uris |-> None]

-----------------------------------------------------------------------------
(* The editor. *)

\* didOpen, or didChange with the full text.
Edit(u, text) ==
  /\ Len(inbox) < MaxInbox /\ text.version = sent[u] + 1 /\ u \notin text.imports
  /\ editor' = [editor EXCEPT ![u] = text] /\ sent' = [sent EXCEPT ![u] = text.version]
  /\ inbox' = Append(inbox, [uri |-> u, text |-> text])
  /\ UNCHANGED <<documents, handling, pc, todo, seen, waiting, shown>>

Close(u) ==
  /\ Len(inbox) < MaxInbox /\ editor[u] # None
  /\ editor' = [editor EXCEPT ![u] = None]
  /\ inbox' = Append(inbox, [uri |-> u, text |-> None])
  /\ UNCHANGED <<sent, documents, handling, pc, todo, seen, waiting, shown>>

-----------------------------------------------------------------------------
(* The map's lock, and where a handler is suspended: "deps", "store" and     *)
(* "close" wait for the lock, the others for the client to take what was     *)
(* published, "collect" with the lock held shared, "closed" exclusively.     *)

Writing(h) == \E g \in Handlers \ {h} : pc[g] = "closed"
Reading(h) == \E g \in Handlers \ {h} : pc[g] = "collect"

\* The lock is granted in order; queue are those who wait before h.
CanRead(h, queue)  == queue = <<>> /\ ~Writing(h)
CanWrite(h, queue) == queue = <<>> /\ ~Writing(h) /\ ~Reading(h)

Suspend(h, where, queue) == pc' = [pc EXCEPT ![h] = where] /\ waiting' = queue

Publish(u, version) == shown' = [shown EXCEPT ![u] = version]

-----------------------------------------------------------------------------
(* The handlers.  An action runs from one await to the next. *)

\* What a dependency's source is taken to be.
Source(u) == IF documents[u] # None THEN documents[u] ELSE OnDisk

\* collect_dependency_modules with the lock held: the source of one dependency
\* is parsed, its diagnostics are published and, if it parses, its imports are
\* to be collected too.
CollectDependency(h, want, done, queue) ==
  \E u \in want :
    /\ seen' = [seen EXCEPT ![h] = done \cup {u}]
    /\ todo' = [todo EXCEPT ![h] = IF Source(u).fails = "parse" THEN want \ {u}
                                   ELSE (want \cup Source(u).imports) \ (done \cup {u})]
    /\ Publish(u, IF documents[u] # None THEN documents[u].version ELSE None)
    /\ Suspend(h, "collect", queue)
    /\ UNCHANGED documents

\* docs.insert, whatever is there, and the diagnostics.
Store(h, note, queue) ==
  /\ documents' = [documents EXCEPT ![note.uri] = note.text]
  /\ Publish(note.uri, note.text.version)
  /\ Suspend(h, "publish", queue)

\* All dependencies are collected and the lock given back: the analysis gives
\* up, or is done and stores its result as soon as the lock is free.
Check(h, note, queue) ==
  /\ seen' = [seen EXCEPT ![h] = {}] /\ todo' = [todo EXCEPT ![h] = {}]
  /\ \/ /\ note.text.fails = "plan"
        /\ Publish(note.uri, note.text.version)
        /\ Suspend(h, "publish", queue) /\ UNCHANGED documents
     \/ note.text.fails = "no" /\ CanWrite(h, queue) /\ Store(h, note, queue)
     \/ /\ note.text.fails = "no" /\ ~CanWrite(h, queue)
        /\ Suspend(h, "store", Append(queue, h)) /\ UNCHANGED <<documents, shown>>

Analyse(h, note, want, done, queue) ==
  \/ CollectDependency(h, want, done, queue)
  \/ want = {} /\ Check(h, note, queue)

\* did_close removes the document and keeps the lock while it publishes.
RemoveDocument(h, note, queue) ==
  /\ documents' = [documents EXCEPT ![note.uri] = None]
  /\ Publish(note.uri, None)
  /\ Suspend(h, "closed", queue)

\* A handler starts: an analysis whose text does not parse publishes that at once.
StartAnalysis(h) ==
  LET note == Head(inbox)
  IN /\ pc[h] = "idle" /\ inbox # <<>> /\ note.text # None
     /\ inbox' = Tail(inbox) /\ handling' = [handling EXCEPT ![h] = note]
     /\ \/ /\ note.text.fails = "parse"
           /\ Publish(note.uri, note.text.version)
           /\ Suspend(h, "publish", waiting) /\ UNCHANGED <<documents, todo, seen>>
        \/ /\ note.text.fails # "parse" /\ CanRead(h, waiting)
           /\ Analyse(h, note, note.text.imports, {}, waiting)
        \/ /\ note.text.fails # "parse" /\ ~CanRead(h, waiting)
           /\ todo' = [todo EXCEPT ![h] = note.text.imports]
           /\ Suspend(h, "deps", Append(waiting, h)) /\ UNCHANGED <<documents, seen, shown>>
     /\ UNCHANGED <<editor, sent>>

StartClose(h) ==
  LET note == Head(inbox)
  IN /\ pc[h] = "idle" /\ inbox # <<>> /\ note.text = None
     /\ inbox' = Tail(inbox) /\ handling' = [handling EXCEPT ![h] = note]
     /\ IF CanWrite(h, waiting)
        THEN RemoveDocument(h, note, waiting)
        ELSE Suspend(h, "close", Append(waiting, h)) /\ UNCHANGED <<documents, shown>>
     /\ UNCHANGED <<editor, sent, todo, seen>>

\* The lock is granted to the first who waits for it.
Granted(h) ==
  /\ waiting # <<>> /\ Head(waiting) = h
  /\ \/ /\ pc[h] = "deps" /\ CanRead(h, <<>>)
        /\ Analyse(h, handling[h], todo[h], {}, Tail(waiting))
     \/ /\ pc[h] = "store" /\ CanWrite(h, <<>>)
        /\ Store(h, handling[h], Tail(waiting)) /\ UNCHANGED <<todo, seen>>
     \/ /\ pc[h] = "close" /\ CanWrite(h, <<>>)
        /\ RemoveDocument(h, handling[h], Tail(waiting)) /\ UNCHANGED <<todo, seen>>
  /\ UNCHANGED <<editor, sent, inbox, handling>>

\* The client has taken a dependency's diagnostics.
CollectOn(h) ==
  /\ pc[h] = "collect"
  /\ Analyse(h, handling[h], todo[h], seen[h], waiting)
  /\ UNCHANGED <<editor, sent, inbox, handling>>

\* The client has taken the last diagnostics: the handler ends.
End(h) ==
  /\ pc[h] \in {"publish", "closed"}
  /\ Suspend(h, "idle", waiting) /\ handling' = [handling EXCEPT ![h] = None]
  /\ UNCHANGED <<editor, sent, inbox, documents, todo, seen, shown>>

Next ==
  \/ \E u \in Uris : Close(u) \/ \E text \in Texts : Edit(u, text)
  \/ \E h \in Handlers : StartAnalysis(h) \/ StartClose(h) \/ Granted(h) \/ CollectOn(h) \/ End(h)

Spec == Init /\ [][Next]_vars

-----------------------------------------------------------------------------
(* What a comment says and the code does not do. *)

\* A document with nothing of it queued or being handled.
Quiet(u) ==
  /\ \A i \in DOMAIN inbox : inbox[i].uri # u
  /\ \A h \in Handlers : handling[h] # None => handling[h].uri # u

\* "If a dependency is currently open in the editor, uses its in-memory
\* contents", and the disk's otherwise: once all that was sent of a document
\* is handled, an analysis that imports it reads what the editor shows, or
\* the disk if it was closed, in whatever order the handlers ran.  (A text
\* whose own analysis gave up is not held against it.)
DependencyUsesOpenContents ==
  \A u \in Uris : Quiet(u) =>
    \/ editor[u] # None /\ editor[u].fails # "no"
    \/ Source(u) = IF editor[u] # None THEN editor[u] ELSE OnDisk
=============================================================================
