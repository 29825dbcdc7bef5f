------------------------------- MODULE Session -------------------------------
(***************************************************************************)
(* ontixad: the session of a compile daemon.  One client sends requests,   *)
(* one at a time; each may panic in the middle.  The files of the          *)
(* workspace are also on a disk, where an editor saves them, also while    *)
(* the daemon reads them.                                                  *)
(*                                                                         *)
(* A text is the modules it uses and the one name it is about; a rename or *)
(* a patch rewrites that name in every file it reaches.  A path is the     *)
(* module it provides, and paths are in the order of their names.          *)
(* `check` stands for `explain` too, `edit` for `rename` and `patch`,      *)
(* which differ in their plans only.                                       *)
(* The client spells a path as a directory listing does, and not in its    *)
(* canonical form.                                                         *)
(***************************************************************************)
EXTENDS Naturals, Sequences, FiniteSets

CONSTANTS Paths,        \* the files of the directory, modules by their stems
          Names,        \* what a text may be about
          TextsOf,      \* the texts each path may have: [uses, name]
          Disks,        \* what the disk may hold at first
          Edits,        \* the edits a client asks for: [path, name, to]
          NoFile,       \* a path that is not on the disk
          MaxRequests, MaxSaves, MaxPanics        \* bounds
AllTexts == UNION {TextsOf[p] : p \in Paths}
ASSUME SessionAssumption ==
  /\ Paths \subseteq Nat
  /\ Disks \subseteq [Paths -> AllTexts \cup {NoFile}]
  /\ \A d \in Disks : \A p \in Paths : d[p] \in TextsOf[p] \cup {NoFile}
  /\ Edits \subseteq [path : Paths, name : Names, to : Names]
  /\ \A p \in Paths : TextsOf[p] \subseteq [uses : SUBSET Paths, name : Names]
  /\ {MaxRequests, MaxSaves, MaxPanics} \subseteq Nat

VARIABLES session,      \* Session: the database, the bound paths, poisoned
          disk,
          job,          \* the request being handled and how far, or the answer to it
          preview,      \* the last preview the client got
          ghost         \* what the properties compare the session with
vars == <<session, disk, job, preview, ghost>>

NotEvaluated == [reads |-> {}, at |-> 0]

(* ---- Session ---- *)
\* path_key: canonical while the file exists, as it was given otherwise.
Keys == Paths \X BOOLEAN
Key(p) == <<p, disk[p] # NoFile>>
NewSession(id) ==
  [id |-> id, revision |-> 0, slots |-> <<>>, memos |-> <<>>, files |-> [k \in Keys |-> 0],
   poisoned |-> FALSE]
\* The slot of a path, 0 when it is not bound.
Bound(s, p) == s.files[Key(p)]
\* Mutant: the slot's number is taken before the slot is there.
BindNamedBefore(s, p, text) ==
  [s EXCEPT !.revision = @ + 1, !.slots = Append(@, [path |-> p, text |-> text, changed |-> s.revision + 1]),
            !.memos = Append(@, NotEvaluated), !.files[Key(p)] = Len(s.slots)]
BindNamed(s, p, text) ==
  [s EXCEPT !.revision = @ + 1, !.slots = Append(@, [path |-> p, text |-> text, changed |-> s.revision + 1]),
            !.memos = Append(@, NotEvaluated), !.files[Key(p)] = Len(s.slots) + 1]
\* write_source: the text of a slot, and when it last changed.
Replaced(slot, text, revision) ==
  [slot EXCEPT !.text = text, !.changed = IF text = slot.text THEN @ ELSE revision]
BindText(s, p, text) ==
  IF Bound(s, p) > 0
  THEN [s EXCEPT !.revision = @ + 1, !.slots[Bound(s, p)] = Replaced(@, text, s.revision + 1)]
  ELSE BindNamed(s, p, text)
\* A path already bound is not read again; one that cannot be read stays unbound.
OpenPath(s, p) ==
  IF Bound(s, p) > 0 \/ disk[p] = NoFile THEN s ELSE BindNamed(s, p, disk[p])

(* ---- the scope a request sees ---- *)
\* The first slot that provides a module: a path bound again, after a close or under
\* another key, is another slot.
Providers(s, p) == {f \in DOMAIN s.slots : s.slots[f].path = p}
OneSlot(s, p) == \A f, g \in Providers(s, p) : f = g
SlotOf(s, p) == CHOOSE f \in Providers(s, p) : \A g \in Providers(s, p) : f <= g
UsedFrom(s, fs) ==
  {SlotOf(s, p) : p \in {p \in UNION {s.slots[f].text.uses : f \in fs} : Providers(s, p) # {}}}
\* What is reached from the root: the least set that has it and what is used from its own.
Discover(s, root) ==
  {f \in DOMAIN s.slots : \A fs \in SUBSET DOMAIN s.slots :
                            root \in fs /\ UsedFrom(s, fs) \subseteq fs => f \in fs}
TextsIn(s, fs) == [f \in fs |-> s.slots[f].text]
\* A scope is evaluated again when a file it reads has changed, never because one was added.
Evaluated(s, root) ==
  LET memo == s.memos[root]
      fresh == memo # NotEvaluated /\ \A f \in memo.reads : s.slots[f].changed <= memo.at
  IN [s EXCEPT !.memos[root] = [reads |-> IF fresh THEN memo.reads ELSE Discover(s, root), at |-> s.revision]]
\* Every module used from the scope is in it, and no module twice.
Clean(s, fs) ==
  /\ \A f \in fs : \A p \in s.slots[f].text.uses : \E g \in fs : s.slots[g].path = p
  /\ \A f, g \in fs : s.slots[f].path = s.slots[g].path => f = g

\* The new texts an edit has for the files in scope; no file when it is refused.
Plan(s, fs, r) ==
  LET hit == {f \in fs : s.slots[f].text.name = r.name}
      taken == \E f \in fs : s.slots[f].text.name = r.to
  IN IF Clean(s, fs) /\ ~taken THEN [f \in hit |-> [s.slots[f].text EXCEPT !.name = r.to]] ELSE <<>>

(* ---- the loop ---- *)
Idle == [pc |-> "idle"]
\* An answer: what it was computed from, and what an apply has written.
Answer(kind, s) == [pc |-> "answer", kind |-> kind, id |-> s.id, reads |-> <<>>, wrote |-> <<>>]
Reading(answer, s, fs) == [answer EXCEPT !.reads = TextsIn(s, fs)]
NoPreview == [id |-> 0, revision |-> 0, request |-> [op |-> "none"], wrote |-> <<>>]

\* What the client holds of the session: `written` is the text it last gave each path,
\* `aliased` the paths that may have a second slot: closed, or created or removed on disk.
\* `whole` is the slots with the texts the last request that was not cut short left them.
Forgotten == [p \in Paths |-> NoFile]
Grown(s) == [ghost EXCEPT !.whole = @ \o SubSeq(s.slots, Len(@) + 1, Len(s.slots))]

Init ==
  /\ session = NewSession(1)
  /\ disk \in Disks
  /\ job = Idle /\ preview = NoPreview
  /\ ghost = [whole |-> <<>>, written |-> Forgotten, aliased |-> {},
             requests |-> 0, saves |-> 0, panics |-> 0]

EditOf(e, revision, apply) ==
  [op |-> "edit", path |-> e.path, name |-> e.name, to |-> e.to, apply |-> apply, revision |-> revision]
EditsAt(revision, apply) == {EditOf(e, revision, apply) : e \in Edits}
SetsOf(p) == [op : {"set"}, path : {p}, text : TextsOf[p]]
\* An apply names the revision of the preview, or the present one.
Requests ==
  [op : {"open", "check", "fmt", "close"}, path : Paths] \cup [op : {"diff", "stats"}]
  \cup (UNION {SetsOf(p) : p \in Paths})
  \cup EditsAt(0, FALSE) \cup EditsAt(preview.revision, TRUE) \cup EditsAt(session.revision, TRUE)

\* The handler returns.
Ends(s, answer) == session' = s /\ job' = answer /\ UNCHANGED disk
\* The client gets its answer and may send the next request.
Deliver ==
  /\ job.pc = "answer" /\ job' = Idle
  /\ ghost' = [ghost EXCEPT !.requests = @ + 1]
  /\ UNCHANGED <<session, disk, preview>>

\* Mutant: only what changes the session is refused.
RefusedWrites == {"edit", "close"}
\* What a poisoned session refuses; the requests that reset it are open and set.
RefusedOps == {"check", "edit", "fmt", "close", "stats"}
Received(r, ops) == job = Idle /\ ghost.requests < MaxRequests /\ r.op \in ops
Admitted(r, ops) == Received(r, ops) /\ ~(session.poisoned /\ r.op \in RefusedOps)
RefusePoisoned(r) ==
  /\ Received(r, RefusedOps) /\ session.poisoned
  /\ Ends(session, Answer("internal", session))
  /\ UNCHANGED <<preview, ghost>>

\* diff owns its snapshots; stats only counts.
Diff(r) ==
  /\ Admitted(r, {"diff", "stats"})
  /\ Ends(session, Answer("ok", session))
  /\ UNCHANGED <<preview, ghost>>

OpenOrSet(r) ==
  /\ Admitted(r, {"open", "set"})
  /\ LET s == IF session.poisoned THEN NewSession(session.id + 1) ELSE session
         next == IF r.op = "set" THEN BindText(s, r.path, r.text) ELSE OpenPath(s, r.path)
         kept == IF session.poisoned
                 THEN [ghost EXCEPT !.written = Forgotten, !.aliased = {}] ELSE ghost
     IN /\ Ends(next, Answer(IF Bound(next, r.path) > 0 THEN "ok" ELSE "io", next))
        /\ ghost' = [kept EXCEPT !.whole = next.slots,
                                 !.written[r.path] = IF r.op = "set" THEN r.text ELSE @]
  /\ UNCHANGED preview

\* Only the path goes; its slot stays in the database.
Close(r) ==
  /\ Admitted(r, {"close"})
  /\ Ends([session EXCEPT !.files[Key(r.path)] = 0], Answer("ok", session))
  /\ ghost' = [ghost EXCEPT !.aliased = @ \cup {r.path}]
  /\ UNCHANGED preview

Fmt(r) ==
  /\ Admitted(r, {"fmt"})
  /\ LET s == OpenPath(session, r.path)
         f == Bound(s, r.path)
     IN /\ Ends(s, IF f = 0 THEN Answer("io", s) ELSE Reading(Answer("ok", s), s, {f}))
        /\ ghost' = Grown(s)
  /\ UNCHANGED preview

(* ---- ensure_workspace ---- *)
Load(r) ==
  /\ Admitted(r, {"check", "edit"})
  /\ LET s == OpenPath(session, r.path)
         siblings == {p \in Paths \ {r.path} : disk[p] # NoFile}
     IN /\ Ends(s, IF Bound(s, r.path) = 0 THEN Answer("io", s)
                   ELSE [pc |-> "read", request |-> r, root |-> Bound(s, r.path),
                         left |-> siblings, found |-> <<>>])
        /\ ghost' = Grown(s)
  /\ UNCHANGED preview
\* workspace_files reads every sibling, bound or not; one that is gone by now is skipped.
ReadSibling ==
  /\ job.pc = "read"
  /\ \E p \in job.left :
       /\ \A q \in job.left : p <= q
       /\ job' = [job EXCEPT !.left = @ \ {p},
                             !.found = IF disk[p] = NoFile THEN @
                                       ELSE Append(@, [path |-> p, text |-> disk[p]])]
  /\ UNCHANGED <<session, disk, preview, ghost>>
\* Mutant: a sibling read from the disk replaces what is bound.
BindRead(s, x) == BindText(s, x.path, x.text)
BindSibling(s, x) == IF Bound(s, x.path) > 0 THEN s ELSE BindNamed(s, x.path, x.text)
BindSiblings ==
  /\ job.pc = "read" /\ job.left = {} /\ job.found # <<>>
  /\ session' = BindSibling(session, Head(job.found))
  /\ job' = [job EXCEPT !.found = Tail(@)]
  /\ ghost' = Grown(session')
  /\ UNCHANGED <<disk, preview>>

(* ---- check, rename and patch ---- *)
Serving(op) == job.pc = "read" /\ job.left = {} /\ job.found = <<>> /\ job.request.op = op
Seen == Evaluated(session, job.root)
InScope == Seen.memos[job.root].reads
Check ==
  /\ Serving("check")
  /\ Ends(Seen, Reading(Answer("ok", Seen), Seen, InScope))
  /\ UNCHANGED <<preview, ghost>>

\* Mutant: any revision will do.
AnyRevision(s, r) == FALSE
Stale(s, r) == r.apply /\ r.revision # s.revision
RefuseStale ==
  /\ Serving("edit") /\ Stale(session, job.request)
  /\ Ends(session, Answer("stale", session))
  /\ UNCHANGED <<preview, ghost>>
Planned == Plan(Seen, InScope, job.request)
PlannedAnswer(kind) == [Reading(Answer(kind, Seen), Seen, InScope) EXCEPT !.wrote = Planned]
RefuseEdit ==
  /\ Serving("edit") /\ ~Stale(session, job.request) /\ Planned = <<>>
  /\ Ends(Seen, PlannedAnswer("refused"))
  /\ UNCHANGED <<preview, ghost>>
Preview ==
  /\ Serving("edit") /\ ~job.request.apply /\ Planned # <<>>
  /\ Ends(Seen, PlannedAnswer("planned"))
  /\ preview' = [id |-> Seen.id, revision |-> Seen.revision, wrote |-> Planned,
                 request |-> [job.request EXCEPT !.apply = TRUE, !.revision = Seen.revision]]
  /\ UNCHANGED ghost
\* set_sources: one revision for all the files of the plan.
Apply ==
  /\ Serving("edit") /\ job.request.apply /\ ~Stale(session, job.request) /\ Planned # <<>>
  /\ Ends([Seen EXCEPT !.revision = @ + 1],
          [pc |-> "write", request |-> job.request, wrote |-> Planned, left |-> DOMAIN Planned])
  /\ UNCHANGED <<preview, ghost>>
Write ==
  /\ job.pc = "write"
  /\ \E f \in job.left :
       /\ \A g \in job.left : f <= g
       /\ session' = [session EXCEPT !.slots[f] = Replaced(@, job.wrote[f], session.revision)]
       /\ job' = [job EXCEPT !.left = @ \ {f}]
  /\ UNCHANGED <<disk, preview, ghost>>
Applied ==
  /\ job.pc = "write" /\ job.left = {}
  /\ Ends(session, [pc |-> "answer", kind |-> "applied", id |-> session.id, reads |-> <<>>,
                 request |-> job.request, wrote |-> job.wrote])
  /\ ghost' = [ghost EXCEPT !.whole = session.slots,
                 !.written = [p \in Paths |-> IF Bound(session, p) \in DOMAIN job.wrote
                                              THEN job.wrote[Bound(session, p)] ELSE @[p]]]
  /\ UNCHANGED preview

(* ---- what goes wrong ---- *)
\* catch_unwind: the handler ends where it is.
Panics ==
  /\ ghost.panics < MaxPanics
  /\ Ends([session EXCEPT !.poisoned = TRUE], Answer("internal", session))
  /\ ghost' = [ghost EXCEPT !.panics = @ + 1]
  /\ UNCHANGED preview
Panic ==
  \/ job.pc \in {"read", "write"} /\ Panics
  \/ \E r \in Requests : Admitted(r, {"open", "set", "fmt", "close", "stats"}) /\ Panics
\* An editor saves or removes a file.
Save ==
  /\ ghost.saves < MaxSaves
  /\ \E p \in Paths : \E text \in TextsOf[p] \cup {NoFile} :
       /\ disk' = [disk EXCEPT ![p] = text]
       /\ ghost' = [ghost EXCEPT !.saves = @ + 1,
                      !.aliased = IF (text = NoFile) = (disk[p] = NoFile) THEN @ ELSE @ \cup {p}]
  /\ UNCHANGED <<session, job, preview>>

Handle(r) == RefusePoisoned(r) \/ Diff(r) \/ OpenOrSet(r) \/ Close(r) \/ Fmt(r) \/ Load(r)
Next ==
  \/ \E r \in Requests : Handle(r)
  \/ ReadSibling \/ BindSiblings
  \/ Check \/ RefuseStale \/ RefuseEdit \/ Preview \/ Apply \/ Write \/ Applied
  \/ Deliver \/ Panic \/ Save
Spec == Init /\ [][Next]_vars

(* ---- properties ---- *)
TypeOK ==
  /\ session.id \in 1 .. (MaxPanics + 1) /\ session.revision \in Nat
  /\ session.poisoned \in BOOLEAN
  /\ session.slots \in Seq([path : Paths, text : [uses : SUBSET Paths, name : Names], changed : 1 .. session.revision])
  /\ Len(session.memos) = Len(session.slots)
  /\ \A f \in DOMAIN session.memos :
       session.memos[f].reads \subseteq DOMAIN session.slots /\ session.memos[f].at <= session.revision
  /\ session.files \in [Keys -> 0 .. Len(session.slots)]
  /\ \A k \in Keys : session.files[k] > 0 => session.slots[session.files[k]].path = k[1]
  /\ disk \in [Paths -> AllTexts \cup {NoFile}]
  /\ job.pc \in {"idle", "read", "write", "answer"}
  /\ job.pc = "write" => job.left \subseteq DOMAIN job.wrote
  /\ Len(ghost.whole) = Len(session.slots)

\* What the client was shown is what an apply does: one that names the revision of its
\* preview, in the same session, gives the same slots the same texts, whatever requests,
\* saves and siblings come in between (the stale guards of rename and patch).  It does where
\* the session has one slot for the path: the revision does not say which slot the path
\* resolves to, and a path bound while it has no file is bound again once it has one.
AppliesThePreview ==
  /\ job.pc = "answer" /\ job.kind = "applied"
  /\ preview.id = job.id /\ preview.request = job.request
PreviewIsWhatApplies ==
  AppliesThePreview /\ OneSlot(session, job.request.path) => job.wrote = preview.wrote

\* An answer is computed from the text the client last gave a path, by a set or an applied
\* edit, never from what the disk holds, as long as the path was not closed or its file
\* created or removed (ensure_workspace: client sets win; the scope sees each module once).
ClientTextsWin ==
  job.pc = "answer" =>
    \A f \in DOMAIN job.reads :
      LET p == session.slots[f].path
      IN p \in ghost.aliased \/ ghost.written[p] \in {NoFile, job.reads[f]}

\* No answer is computed from an apply that a panic cut short (poisoned sessions).
NothingHalfServed ==
  job.pc = "answer" => \A f \in DOMAIN job.reads : job.reads[f] = ghost.whole[f].text
=============================================================================
