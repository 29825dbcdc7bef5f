--------------------------- MODULE SessionProofs ---------------------------
(* Proofs about Session, for any paths, texts, disks, edits and bounds. *)
EXTENDS Session, SequenceTheorems, TLAPS

Text == [uses : SUBSET Paths, name : Names]
Slot == [path : Paths, text : Text, changed : Nat]
Memo == [reads : SUBSET Nat, at : Nat]
EditRequest ==
  [op : {"edit"}, path : Paths, name : Names, to : Names, apply : BOOLEAN, revision : Nat]
CheckRequest == [op : {"check"}, path : Paths]

-----------------------------------------------------------------------------
(* What a session is, and what each of its operations makes of it. *)

SlotsOK(s) == \A f \in 1 .. Len(s.slots) : s.slots[f].changed \in 1 .. s.revision
MemosOK(s) ==
  /\ Len(s.memos) = Len(s.slots)
  /\ \A f \in 1 .. Len(s.memos) :
       s.memos[f].reads \subseteq 1 .. Len(s.slots) /\ s.memos[f].at <= s.revision
\* A bound path leads to a slot of that path.
FilesOK(s) ==
  \A k \in Keys : /\ s.files[k] \in 0 .. Len(s.slots)
                  /\ s.files[k] > 0 => s.slots[s.files[k]].path = k[1]
SessionOK(s) ==
  /\ s \in [id : Nat, revision : Nat, slots : Seq(Slot), memos : Seq(Memo),
            files : [Keys -> Nat], poisoned : BOOLEAN]
  /\ SlotsOK(s) /\ MemosOK(s) /\ FilesOK(s)

\* A path's key is one of its two.
LEMMA KeyOfPath ==
  ASSUME NEW p \in Paths PROVE Key(p) \in Keys /\ Key(p)[1] = p
<1>1. (disk[p] # NoFile) \in BOOLEAN  OBVIOUS
<1> QED BY <1>1 DEF Key, Keys

LEMMA NewIsOK ==
  ASSUME NEW n \in Nat PROVE SessionOK(NewSession(n))
<1>1. /\ <<>> \in Seq(Slot) /\ <<>> \in Seq(Memo) /\ Len(<<>>) = 0
      /\ [k \in Keys |-> 0] \in [Keys -> Nat]
  BY EmptySeq
<1>2. NewSession(n) \in [id : Nat, revision : Nat, slots : Seq(Slot), memos : Seq(Memo),
                         files : [Keys -> Nat], poisoned : BOOLEAN]
  BY <1>1 DEF NewSession
<1> QED BY <1>1, <1>2 DEF NewSession, SessionOK, SlotsOK, MemosOK, FilesOK

\* bind_named: one slot more, in a new revision, under the path's present key.
Binds(s, p, text, t) ==
  /\ SessionOK(t)
  /\ t.id = s.id /\ t.poisoned = s.poisoned /\ t.revision = s.revision + 1
  /\ t.slots = Append(s.slots, [path |-> p, text |-> text, changed |-> s.revision + 1])
  /\ t.memos = Append(s.memos, NotEvaluated)
  /\ \A k \in Keys : t.files[k] = IF k = Key(p) THEN Len(s.slots) + 1 ELSE s.files[k]
LEMMA BindNamedBinds ==
  ASSUME NEW s, SessionOK(s), NEW p \in Paths, NEW text \in Text
  PROVE  Binds(s, p, text, BindNamed(s, p, text))
<1>0. PICK t : t = BindNamed(s, p, text)  OBVIOUS
<1> DEFINE slot == [path |-> p, text |-> text, changed |-> s.revision + 1]
<1>1. /\ s.id \in Nat /\ s.revision \in Nat /\ s.slots \in Seq(Slot) /\ s.memos \in Seq(Memo)
      /\ s.files \in [Keys -> Nat] /\ s.poisoned \in BOOLEAN /\ Len(s.slots) \in Nat
  BY DEF SessionOK
<1>2. slot \in Slot /\ NotEvaluated \in Memo
  BY <1>1 DEF Slot, Memo, NotEvaluated
<1>3. s = [id |-> s.id, revision |-> s.revision, slots |-> s.slots, memos |-> s.memos,
           files |-> s.files, poisoned |-> s.poisoned]
  BY DEF SessionOK
<1>4. t = [id |-> s.id, revision |-> s.revision + 1, slots |-> Append(s.slots, slot),
           memos |-> Append(s.memos, NotEvaluated),
           files |-> [s.files EXCEPT ![Key(p)] = Len(s.slots) + 1], poisoned |-> s.poisoned]
  BY <1>0, <1>3 DEF BindNamed
<1>5. t \in [id : Nat, revision : Nat, slots : Seq(Slot), memos : Seq(Memo),
             files : [Keys -> Nat], poisoned : BOOLEAN]
  <2>1. Append(s.slots, slot) \in Seq(Slot)  BY <1>1, <1>2, AppendProperties
  <2>2. Append(s.memos, NotEvaluated) \in Seq(Memo)  BY <1>1, <1>2, AppendProperties
  <2> HIDE DEF slot
  <2>3. [s.files EXCEPT ![Key(p)] = Len(s.slots) + 1] \in [Keys -> Nat]
    <3>1. Len(s.slots) + 1 \in Nat /\ Key(p) \in Keys  BY <1>1, KeyOfPath
    <3> QED BY <1>1, <3>1
  <2> QED BY <1>1, <1>4, <2>1, <2>2, <2>3
<1>6. /\ Len(t.slots) = Len(s.slots) + 1 /\ Len(t.memos) = Len(s.memos) + 1
      /\ \A f \in 1 .. Len(s.slots) : t.slots[f] = s.slots[f]
      /\ \A f \in 1 .. Len(s.memos) : t.memos[f] = s.memos[f]
      /\ t.slots[Len(s.slots) + 1] = slot /\ t.memos[Len(s.memos) + 1] = NotEvaluated
  BY <1>1, <1>2, <1>4, AppendProperties
<1>7. SlotsOK(t)
  BY <1>1, <1>4, <1>6 DEF SessionOK, SlotsOK
<1>8. MemosOK(t)
  <2>1. Len(t.memos) = Len(t.slots)  BY <1>6 DEF SessionOK, MemosOK
  <2>2. ASSUME NEW f \in 1 .. Len(t.memos)
        PROVE  t.memos[f].reads \subseteq 1 .. Len(t.slots) /\ t.memos[f].at <= t.revision
    <3>1. CASE f \in 1 .. Len(s.memos)
      <4>1. s.memos[f].reads \subseteq 1 .. Len(s.slots) /\ s.memos[f].at <= s.revision
        BY <3>1 DEF SessionOK, MemosOK
      <4>2. s.memos[f] \in Memo  BY <1>1, <3>1, ElementOfSeq
      <4>3. t.memos[f] = s.memos[f] /\ t.revision = s.revision + 1  BY <1>4, <1>6, <3>1
      <4>4. t.memos[f].at \in Nat  BY <4>2, <4>3 DEF Memo
      <4> QED BY SMTT(60), <1>1, <1>6, <4>1, <4>3, <4>4
    <3>2. CASE f = Len(s.memos) + 1
      BY <1>1, <1>4, <1>6, <3>2 DEF NotEvaluated
    <3> QED BY <1>1, <1>6, <3>1, <3>2
  <2> QED BY <2>1, <2>2 DEF MemosOK
<1>9. FilesOK(t)
  <2> SUFFICES ASSUME NEW k \in Keys
               PROVE  /\ t.files[k] \in 0 .. Len(t.slots)
                      /\ t.files[k] > 0 => t.slots[t.files[k]].path = k[1]
    BY DEF FilesOK
  <2>1. CASE k = Key(p)
    <3>1. t.files[k] = Len(s.slots) + 1  BY <1>1, <1>4, <2>1, KeyOfPath
    <3> QED BY <1>1, <1>6, <2>1, <3>1, KeyOfPath
  <2>2. CASE k # Key(p)
    <3>1. t.files[k] = s.files[k]  BY <1>1, <1>4, <2>2
    <3>2. s.files[k] \in 0 .. Len(s.slots) /\ (s.files[k] > 0 => s.slots[s.files[k]].path = k[1])
      BY DEF SessionOK, FilesOK
    <3> QED BY <1>1, <1>6, <3>1, <3>2
  <2> QED BY <2>1, <2>2
<1>10. \A k \in Keys : t.files[k] = IF k = Key(p) THEN Len(s.slots) + 1 ELSE s.files[k]
  BY <1>1, <1>4
<1>11. Binds(s, p, text, t)  BY <1>4, <1>5, <1>7, <1>8, <1>9, <1>10 DEF SessionOK, Binds
<1> QED BY <1>0, <1>11

\* write_source: one slot has another text, of the revision at hand or of its own.
Rewritten(s, f, text, n) == [s EXCEPT !.revision = n, !.slots[f] = Replaced(@, text, n)]
Rewrites(s, f, text, n, t) ==
  /\ SessionOK(t)
  /\ t.id = s.id /\ t.poisoned = s.poisoned /\ t.revision = n
  /\ t.memos = s.memos /\ t.files = s.files
  /\ Len(t.slots) = Len(s.slots)
  /\ t.slots[f].text = text /\ t.slots[f].path = s.slots[f].path
  /\ \A g \in 1 .. Len(s.slots) : g # f => t.slots[g] = s.slots[g]
LEMMA RewrittenRewrites ==
  ASSUME NEW s, SessionOK(s), NEW f \in 1 .. Len(s.slots), NEW text \in Text,
         NEW n \in {s.revision, s.revision + 1}, n > 0
  PROVE  Rewrites(s, f, text, n, Rewritten(s, f, text, n))
<1>0. PICK t : t = Rewritten(s, f, text, n)  OBVIOUS
<1> DEFINE slot == Replaced(s.slots[f], text, n)
<1>1. /\ s.id \in Nat /\ s.revision \in Nat /\ s.slots \in Seq(Slot) /\ s.memos \in Seq(Memo)
      /\ s.files \in [Keys -> Nat] /\ s.poisoned \in BOOLEAN /\ Len(s.slots) \in Nat
      /\ n \in Nat
  BY DEF SessionOK
<1>2. /\ s.slots[f] \in Slot /\ s.slots[f].changed \in 1 .. s.revision
  BY <1>1, ElementOfSeq DEF SessionOK, SlotsOK
<1>3. /\ slot \in Slot /\ slot.changed \in 1 .. n /\ slot.text = text
      /\ slot.path = s.slots[f].path
  <2>1. slot = [path |-> s.slots[f].path, text |-> text,
                changed |-> IF text = s.slots[f].text THEN s.slots[f].changed ELSE n]
    <3> DEFINE old == s.slots[f]
    <3>1. old = [path |-> old.path, text |-> old.text, changed |-> old.changed]
      BY <1>2 DEF Slot
    <3>2. slot = [old EXCEPT !.text = text, !.changed = IF text = old.text THEN @ ELSE n]
      BY DEF Replaced
    <3> HIDE DEF slot, old
    <3>3. slot = [path |-> old.path, text |-> text,
                  changed |-> IF text = old.text THEN old.changed ELSE n]
      BY <3>1, <3>2
    <3> QED BY <3>3 DEF old
  <2>2. s.slots[f].path \in Paths /\ s.slots[f].changed \in 1 .. n  BY <1>1, <1>2 DEF Slot
  <2> QED BY <1>1, <2>1, <2>2 DEF Slot
<1>4. s = [id |-> s.id, revision |-> s.revision, slots |-> s.slots, memos |-> s.memos,
           files |-> s.files, poisoned |-> s.poisoned]
  BY DEF SessionOK
<1> DEFINE slots == [s.slots EXCEPT ![f] = slot]
<1>5. t = [id |-> s.id, revision |-> n, slots |-> slots,
           memos |-> s.memos, files |-> s.files, poisoned |-> s.poisoned]
  BY <1>0, <1>4 DEF Rewritten
<1> HIDE DEF slot
<1>6. /\ slots \in Seq(Slot) /\ Len(slots) = Len(s.slots)
      /\ \A g \in 1 .. Len(s.slots) : slots[g] = IF g = f THEN slot ELSE s.slots[g]
  BY <1>1, <1>3, ExceptSeq
<1> HIDE DEF slots
<1>7. t \in [id : Nat, revision : Nat, slots : Seq(Slot), memos : Seq(Memo),
             files : [Keys -> Nat], poisoned : BOOLEAN]
  BY <1>1, <1>5, <1>6
<1>8. /\ t.revision = n /\ Len(t.slots) = Len(s.slots) /\ t.memos = s.memos /\ t.files = s.files
      /\ t.slots[f] = slot /\ \A g \in 1 .. Len(s.slots) : g # f => t.slots[g] = s.slots[g]
  <2>1. /\ t.revision = n /\ t.slots = slots /\ t.memos = s.memos /\ t.files = s.files
    BY <1>5
  <2> QED BY <1>6, <2>1
<1>9. SlotsOK(t)
  <2> SUFFICES ASSUME NEW g \in 1 .. Len(t.slots) PROVE t.slots[g].changed \in 1 .. n
    BY <1>8 DEF SlotsOK
  <2>1. CASE g = f  BY <1>3, <1>8, <2>1
  <2>2. CASE g # f
    <3>1. t.slots[g] = s.slots[g] /\ s.slots[g].changed \in 1 .. s.revision
      BY <1>8, <2>2 DEF SessionOK, SlotsOK
    <3> QED BY <1>1, <3>1
  <2> QED BY <2>1, <2>2
<1>10. MemosOK(t)
  <2>1. Len(t.memos) = Len(t.slots)  BY <1>8 DEF SessionOK, MemosOK
  <2>2. ASSUME NEW g \in 1 .. Len(t.memos)
        PROVE  t.memos[g].reads \subseteq 1 .. Len(t.slots) /\ t.memos[g].at <= t.revision
    <3>1. s.memos[g].reads \subseteq 1 .. Len(s.slots) /\ s.memos[g].at <= s.revision
      BY <1>8 DEF SessionOK, MemosOK
    <3>2. g \in 1 .. Len(s.memos)  BY <1>8
    <3>3. s.memos[g] \in Memo  BY <1>1, <3>2, ElementOfSeq
    <3>4. s.memos[g].at \in Nat  BY <3>3 DEF Memo
    <3> QED BY SMTT(60), <1>1, <1>8, <3>1, <3>4
  <2> QED BY <2>1, <2>2 DEF MemosOK
<1>11. FilesOK(t)
  <2> SUFFICES ASSUME NEW k \in Keys
               PROVE  /\ t.files[k] \in 0 .. Len(t.slots)
                      /\ t.files[k] > 0 => t.slots[t.files[k]].path = k[1]
    BY DEF FilesOK
  <2>1. s.files[k] \in 0 .. Len(s.slots) /\ (s.files[k] > 0 => s.slots[s.files[k]].path = k[1])
    BY DEF SessionOK, FilesOK
  <2>2. \A g \in 1 .. Len(s.slots) : t.slots[g].path = s.slots[g].path
    BY <1>3, <1>8
  <2> QED BY <1>1, <1>8, <2>1, <2>2
<1>12. Rewrites(s, f, text, n, t)
  BY <1>3, <1>5, <1>7, <1>8, <1>9, <1>10, <1>11 DEF SessionOK, Rewrites
<1> QED BY <1>0, <1>12

\* A path that is bound is a slot of that path.
LEMMA BoundIs ==
  ASSUME NEW s, SessionOK(s), NEW p \in Paths
  PROVE  /\ Bound(s, p) \in 0 .. Len(s.slots)
         /\ Bound(s, p) > 0 => s.slots[Bound(s, p)].path = p
<1>1. Key(p) \in Keys /\ Key(p)[1] = p  BY KeyOfPath
<1>2. /\ s.files[Key(p)] \in 0 .. Len(s.slots)
      /\ s.files[Key(p)] > 0 => s.slots[s.files[Key(p)]].path = Key(p)[1]
  BY <1>1 DEF SessionOK, FilesOK
<1> QED BY <1>1, <1>2 DEF Bound

\* After bind_named the path leads to the new slot.
LEMMA BindsLeads ==
  ASSUME NEW s, NEW p \in Paths, NEW text, NEW t, Binds(s, p, text, t)
  PROVE  Bound(t, p) = Len(s.slots) + 1
BY KeyOfPath DEF Bound, Binds

\* bind of a path that is bound: a write to its slot, in a new revision.
LEMMA BoundTextIs ==
  ASSUME NEW s, SessionOK(s), NEW p \in Paths, NEW text, Bound(s, p) > 0
  PROVE  BindText(s, p, text) = Rewritten(s, Bound(s, p), text, s.revision + 1)
<1> DEFINE f == Bound(s, p)
<1>1. BindText(s, p, text)
        = [s EXCEPT !.revision = @ + 1, !.slots[f] = Replaced(@, text, s.revision + 1)]
  BY DEF BindText
<1> QED BY <1>1 DEF Rewritten

\* The evaluation of a scope touches one memo, and keeps it when nothing it read changed.
Evaluates(s, root, t) ==
  /\ SessionOK(t)
  /\ t.id = s.id /\ t.poisoned = s.poisoned /\ t.revision = s.revision
  /\ t.slots = s.slots /\ t.files = s.files
  /\ Len(t.memos) = Len(s.memos) /\ t.memos[root].at = s.revision
  /\ \A g \in 1 .. Len(s.memos) : g # root => t.memos[g] = s.memos[g]
  /\ (/\ s.memos[root] # NotEvaluated
      /\ \A f \in s.memos[root].reads : s.slots[f].changed <= s.memos[root].at)
       => t.memos[root].reads = s.memos[root].reads
LEMMA EvaluatedEvaluates ==
  ASSUME NEW s, SessionOK(s), NEW root \in 1 .. Len(s.slots)
  PROVE  Evaluates(s, root, Evaluated(s, root))
<1>0. PICK t : t = Evaluated(s, root)  OBVIOUS
<1> DEFINE old == s.memos[root]
           fresh == /\ old # NotEvaluated
                    /\ \A f \in old.reads : s.slots[f].changed <= old.at
           memo == [reads |-> IF fresh THEN old.reads ELSE Discover(s, root), at |-> s.revision]
           memos == [s.memos EXCEPT ![root] = memo]
<1>1. /\ s.id \in Nat /\ s.revision \in Nat /\ s.slots \in Seq(Slot) /\ s.memos \in Seq(Memo)
      /\ s.files \in [Keys -> Nat] /\ s.poisoned \in BOOLEAN /\ Len(s.slots) \in Nat
      /\ Len(s.memos) = Len(s.slots)
  BY DEF SessionOK, MemosOK
<1>2. s = [id |-> s.id, revision |-> s.revision, slots |-> s.slots, memos |-> s.memos,
           files |-> s.files, poisoned |-> s.poisoned]
  BY DEF SessionOK
<1>3. t = [id |-> s.id, revision |-> s.revision, slots |-> s.slots, memos |-> memos,
           files |-> s.files, poisoned |-> s.poisoned]
  BY <1>0, <1>2 DEF Evaluated
<1>4. memo.reads \subseteq 1 .. Len(s.slots) /\ memo.at = s.revision
  <2>1. old.reads \subseteq 1 .. Len(s.slots)  BY <1>1 DEF SessionOK, MemosOK
  <2>2. Discover(s, root) \subseteq 1 .. Len(s.slots)
    <3>1. DOMAIN s.slots = 1 .. Len(s.slots)  BY <1>1, LenProperties
    <3> QED BY <3>1 DEF Discover
  <2> HIDE DEF fresh, old
  <2> QED BY <2>1, <2>2
<1>5. memo \in Memo
  <2>1. 1 .. Len(s.slots) \subseteq Nat  BY <1>1
  <2>2. memo = [reads |-> memo.reads, at |-> memo.at]  OBVIOUS
  <2> HIDE DEF memo
  <2> QED BY <1>1, <1>4, <2>1, <2>2 DEF Memo
<1>6. fresh => memo.reads = old.reads  OBVIOUS
<1> HIDE DEF memo
<1>7. /\ memos \in Seq(Memo) /\ Len(memos) = Len(s.memos)
      /\ \A g \in 1 .. Len(s.memos) : memos[g] = IF g = root THEN memo ELSE s.memos[g]
  BY <1>1, <1>5, ExceptSeq
<1> HIDE DEF memos
<1>8. t \in [id : Nat, revision : Nat, slots : Seq(Slot), memos : Seq(Memo),
             files : [Keys -> Nat], poisoned : BOOLEAN]
  BY <1>1, <1>3, <1>7
<1>9. /\ t.id = s.id /\ t.poisoned = s.poisoned /\ t.revision = s.revision
      /\ t.slots = s.slots /\ t.files = s.files /\ t.memos = memos
  BY <1>3
<1>10. MemosOK(t)
  <2>1. ASSUME NEW g \in 1 .. Len(t.memos)
        PROVE  t.memos[g].reads \subseteq 1 .. Len(t.slots) /\ t.memos[g].at <= t.revision
    <3>1. CASE g = root  BY <1>1, <1>4, <1>7, <1>9, <3>1
    <3>2. CASE g # root
      <4>1. t.memos[g] = s.memos[g] /\ g \in 1 .. Len(s.memos)  BY <1>7, <1>9, <3>2
      <4> QED BY <1>9, <4>1 DEF SessionOK, MemosOK
    <3> QED BY <3>1, <3>2
  <2> QED BY <1>1, <1>7, <1>9, <2>1 DEF MemosOK
<1>11. SlotsOK(t) /\ FilesOK(t)  BY <1>9 DEF SessionOK, SlotsOK, FilesOK
<1>12. t.memos[root] = memo  BY <1>1, <1>7, <1>9
<1>13. Evaluates(s, root, t)
  BY <1>4, <1>6, <1>7, <1>8, <1>9, <1>10, <1>11, <1>12 DEF SessionOK, Evaluates
<1> QED BY <1>0, <1>13

\* bind: a slot more for a path that is not bound, another text in the slot of one that is.
LEMMA BindTextIs ==
  ASSUME NEW s, SessionOK(s), NEW p \in Paths, NEW text \in Text
  PROVE  /\ Bound(s, p) = 0 => Binds(s, p, text, BindText(s, p, text))
         /\ Bound(s, p) > 0 =>
              Rewrites(s, Bound(s, p), text, s.revision + 1, BindText(s, p, text))
<1>1. CASE Bound(s, p) = 0
  <2>1. BindText(s, p, text) = BindNamed(s, p, text)  BY <1>1 DEF BindText
  <2> QED BY <1>1, <2>1, BindNamedBinds
<1>2. CASE Bound(s, p) > 0
  <2>1. BindText(s, p, text) = Rewritten(s, Bound(s, p), text, s.revision + 1)
    BY <1>2, BoundTextIs
  <2>2. Bound(s, p) \in 1 .. Len(s.slots) /\ s.revision + 1 > 0 /\ s.revision \in Nat
    BY <1>2, BoundIs DEF SessionOK
  <2>3. Rewrites(s, Bound(s, p), text, s.revision + 1,
                 Rewritten(s, Bound(s, p), text, s.revision + 1))
    BY <2>2, RewrittenRewrites
  <2> QED BY <1>2, <2>1, <2>3
<1> QED BY <1>1, <1>2, BoundIs

\* What open and the loading of siblings make of a session: a slot more for a path that
\* was not bound, or nothing.
Grows(s, t) ==
  \/ t = s
  \/ \E p \in Paths, text \in Text : Bound(s, p) = 0 /\ Binds(s, p, text, t)

DiskOK == disk \in [Paths -> AllTexts \cup {NoFile}]

LEMMA TextsAreText ==
  /\ \A p \in Paths : TextsOf[p] \subseteq Text
  /\ AllTexts \subseteq Text
BY SessionAssumption DEF AllTexts, Text

LEMMA OpenPathGrows ==
  ASSUME NEW s, SessionOK(s), NEW p \in Paths, DiskOK
  PROVE  /\ Grows(s, OpenPath(s, p))
         /\ SessionOK(OpenPath(s, p))
<1>1. CASE Bound(s, p) > 0 \/ disk[p] = NoFile
  BY <1>1 DEF OpenPath, Grows
<1>2. CASE ~(Bound(s, p) > 0 \/ disk[p] = NoFile)
  <2>1. disk[p] \in Text  BY <1>2, TextsAreText DEF DiskOK
  <2>2. Bound(s, p) = 0  BY <1>2, BoundIs
  <2>3. Binds(s, p, disk[p], OpenPath(s, p))
    BY <1>2, <2>1, BindNamedBinds DEF OpenPath
  <2> QED BY <2>1, <2>2, <2>3 DEF Grows, Binds
<1> QED BY <1>1, <1>2

LEMMA BindSiblingGrows ==
  ASSUME NEW s, SessionOK(s), NEW x \in [path : Paths, text : Text]
  PROVE  /\ Grows(s, BindSibling(s, x))
         /\ SessionOK(BindSibling(s, x))
<1>0. x.path \in Paths /\ x.text \in Text  OBVIOUS
<1>1. CASE Bound(s, x.path) > 0
  BY <1>1 DEF BindSibling, Grows
<1>2. CASE ~(Bound(s, x.path) > 0)
  <2>1. Bound(s, x.path) = 0  BY <1>0, <1>2, BoundIs
  <2>2. Binds(s, x.path, x.text, BindSibling(s, x))
    BY <1>0, <1>2, BindNamedBinds DEF BindSibling
  <2> QED BY <1>0, <2>1, <2>2 DEF Grows, Binds
<1> QED BY <1>1, <1>2

\* What stays when a session grows.
LEMMA GrownKeeps ==
  ASSUME NEW s, SessionOK(s), NEW t, Grows(s, t)
  PROVE  /\ SessionOK(t) /\ t.id = s.id /\ t.poisoned = s.poisoned
         /\ Len(t.slots) >= Len(s.slots)
         /\ \A f \in 1 .. Len(s.slots) : t.slots[f] = s.slots[f]
         /\ t = s \/ t.revision = s.revision + 1
<1>1. s.slots \in Seq(Slot) /\ Len(s.slots) \in Nat /\ s.revision \in Nat  BY DEF SessionOK
<1>2. CASE t = s  BY <1>1, <1>2
<1>3. ASSUME NEW p \in Paths, NEW text \in Text, Binds(s, p, text, t)
      PROVE  /\ SessionOK(t) /\ t.id = s.id /\ t.poisoned = s.poisoned
             /\ t.revision = s.revision + 1
             /\ Len(t.slots) = Len(s.slots) + 1
             /\ \A f \in 1 .. Len(s.slots) : t.slots[f] = s.slots[f]
  <2> DEFINE slot == [path |-> p, text |-> text, changed |-> s.revision + 1]
  <2>1. slot \in Slot  BY <1>1 DEF Slot
  <2>2. t.slots = Append(s.slots, slot)  BY <1>3 DEF Binds
  <2> HIDE DEF slot
  <2>3. /\ Len(t.slots) = Len(s.slots) + 1
        /\ \A f \in 1 .. Len(s.slots) : t.slots[f] = s.slots[f]
    BY <1>1, <2>1, <2>2, AppendProperties
  <2> QED BY <1>3, <2>3 DEF Binds
<1> QED BY <1>1, <1>2, <1>3 DEF Grows

\* A sequence prolonged by what another has beyond it.
Prolong(q, r) == q \o SubSeq(r, Len(q) + 1, Len(r))
LEMMA Prolonged ==
  ASSUME NEW S, NEW q \in Seq(S), NEW r \in Seq(S), Len(q) <= Len(r),
         NEW next, next = Prolong(q, r)
  PROVE  /\ next \in Seq(S) /\ Len(next) = Len(r)
         /\ \A f \in 1 .. Len(q) : next[f] = q[f]
         /\ \A f \in Len(q) + 1 .. Len(r) : next[f] = r[f]
<1>1. PICK m \in Nat, n \in Nat : m = Len(q) /\ n = Len(r)
  BY LenProperties
<1>2. PICK rest : rest = SubSeq(r, m + 1, n)  OBVIOUS
<1>3. m <= n  BY <1>1
<1>4. \A i \in m + 1 .. n : r[i] \in S
  <2>1. \A i \in m + 1 .. n : i \in 1 .. Len(r)  BY <1>1
  <2> QED BY <2>1, ElementOfSeq
<1>5. /\ rest \in Seq(S)
      /\ Len(rest) = IF m + 1 <= n THEN n - (m + 1) + 1 ELSE 0
      /\ \A i \in 1 .. n - (m + 1) + 1 : rest[i] = r[(m + 1) + i - 1]
  <2>1. m + 1 \in Int /\ n \in Int  BY <1>1
  <2> QED BY <1>2, <1>4, <2>1, SubSeqProperties
<1>6. Len(rest) = n - m /\ \A i \in 1 .. n - m : rest[i] = r[m + i]
  <2>1. Len(rest) = n - m  BY <1>3, <1>5
  <2>2. ASSUME NEW i \in 1 .. n - m PROVE rest[i] = r[m + i]
    <3>1. n - (m + 1) + 1 = n - m /\ (m + 1) + i - 1 = m + i  OBVIOUS
    <3> QED BY <1>5, <3>1
  <2> QED BY <2>1, <2>2
<1>7. next = q \o rest  BY <1>1, <1>2 DEF Prolong
<1>8. /\ next \in Seq(S) /\ Len(next) = m + (n - m)
      /\ \A i \in 1 .. m + (n - m) : next[i] = IF i <= m THEN q[i] ELSE rest[i - m]
  BY <1>1, <1>5, <1>6, <1>7, ConcatProperties
<1>9. m + (n - m) = n  OBVIOUS
<1>10. \A f \in 1 .. m : next[f] = q[f]  BY <1>3, <1>8
<1>11. ASSUME NEW f \in m + 1 .. n PROVE next[f] = r[f]
  <2>1. f - m \in 1 .. n - m /\ m + (f - m) = f  OBVIOUS
  <2>2. rest[f - m] = r[f]  BY <1>6, <2>1
  <2>3. f \in 1 .. m + (n - m) /\ ~(f <= m)  OBVIOUS
  <2> QED BY <1>8, <2>2, <2>3
<1> QED BY <1>1, <1>8, <1>9, <1>10, <1>11

\* The history of what is whole grows with the slots.
LEMMA GrownIs ==
  ASSUME NEW s, SessionOK(s), NEW t, Grows(s, t),
         NEW whole \in Seq(Slot), Len(whole) = Len(s.slots),
         NEW next, next = Prolong(whole, t.slots)
  PROVE  /\ next \in Seq(Slot) /\ Len(next) = Len(t.slots)
         /\ \A f \in 1 .. Len(whole) : next[f] = whole[f]
         /\ \A f \in Len(whole) + 1 .. Len(t.slots) : next[f] = t.slots[f]
         /\ whole = s.slots => next = t.slots
<1>1. PICK old, new : old = s.slots /\ new = t.slots  OBVIOUS
<1>2. /\ old \in Seq(Slot) /\ new \in Seq(Slot)
      /\ Len(old) \in Nat /\ Len(new) \in Nat /\ Len(old) <= Len(new)
      /\ \A f \in 1 .. Len(old) : new[f] = old[f]
  <2>1. /\ SessionOK(t) /\ Len(t.slots) >= Len(s.slots)
        /\ \A f \in 1 .. Len(s.slots) : t.slots[f] = s.slots[f]
    BY GrownKeeps
  <2>2. old \in Seq(Slot) /\ new \in Seq(Slot)  BY <1>1, <2>1 DEF SessionOK
  <2>3. Len(old) \in Nat /\ Len(new) \in Nat  BY <2>2, LenProperties
  <2> QED BY <1>1, <2>1, <2>2, <2>3
<1>3. /\ next \in Seq(Slot) /\ Len(next) = Len(new)
      /\ \A f \in 1 .. Len(whole) : next[f] = whole[f]
      /\ \A f \in Len(whole) + 1 .. Len(new) : next[f] = new[f]
  <2>1. next = Prolong(whole, new)  BY <1>1
  <2>2. Len(whole) <= Len(new)  BY <1>1, <1>2
  <2> QED BY <1>2, <2>1, <2>2, Prolonged
<1>4. ASSUME whole = old PROVE next = new
  <2>1. \A i \in 1 .. Len(next) : next[i] = new[i]  BY SMTT(60), <1>2, <1>3, <1>4
  <2> QED BY <1>2, <1>3, <2>1, SeqEqual
<1> QED BY <1>1, <1>3, <1>4

-----------------------------------------------------------------------------
(* The types, and what is known of a request that is being handled. *)

ReadOK ==
  job.pc = "read" =>
    /\ job = [pc |-> "read", request |-> job.request, root |-> job.root,
              left |-> job.left, found |-> job.found]
    /\ job.request \in CheckRequest \cup EditRequest
    /\ job.root \in 1 .. Len(session.slots)
    /\ session.slots[job.root].path = job.request.path
    /\ job.left \subseteq Paths
    /\ job.found \in Seq([path : Paths, text : Text])
    /\ ~session.poisoned
WriteOK ==
  job.pc = "write" =>
    /\ job = [pc |-> "write", request |-> job.request, wrote |-> job.wrote, left |-> job.left]
    /\ job.request \in EditRequest
    /\ job.left \subseteq DOMAIN job.wrote
    /\ DOMAIN job.wrote \subseteq 1 .. Len(session.slots)
    /\ \A f \in DOMAIN job.wrote : job.wrote[f] \in Text
    /\ session.revision > 0
    /\ ~session.poisoned
JobOK == job.pc \in {"idle", "read", "write", "answer"} /\ ReadOK /\ WriteOK
GhostOK ==
  /\ ghost \in [whole : Seq(Slot), written : [Paths -> Text \cup {NoFile}], aliased : SUBSET Paths,
                requests : Nat, saves : Nat, panics : Nat]
  /\ Len(ghost.whole) = Len(session.slots)
  /\ ghost.panics <= MaxPanics
\* Every reset follows a panic.
ResetsOK ==
  /\ session.id >= 1 /\ session.id <= ghost.panics + 1
  /\ session.poisoned => session.id <= ghost.panics
TypeInv ==
  /\ SessionOK(session) /\ DiskOK /\ GhostOK /\ ResetsOK /\ JobOK
  /\ preview.revision \in Nat

LEMMA RequestIs ==
  ASSUME NEW r \in Requests, preview.revision \in Nat, session.revision \in Nat
  PROVE  /\ r.op \in {"open", "set", "fmt", "close", "check", "edit"} => r.path \in Paths
         /\ r.op = "set" => r.text \in Text
         /\ r.op = "edit" => r \in EditRequest
         /\ r.op = "check" => r \in CheckRequest
<1>1. CASE r \in [op : {"open", "check", "fmt", "close"}, path : Paths]
  BY <1>1 DEF CheckRequest
<1>2. CASE r \in [op : {"diff", "stats"}]
  BY <1>2
<1>3. ASSUME NEW p \in Paths, r \in SetsOf(p)
      PROVE  r.op = "set" /\ r.path \in Paths /\ r.text \in Text
  BY <1>3, TextsAreText DEF SetsOf
<1>4. ASSUME NEW e \in Edits, NEW n \in Nat, NEW b \in BOOLEAN, r = EditOf(e, n, b)
      PROVE  r \in EditRequest /\ r.op = "edit" /\ r.path \in Paths
  <2>1. e.path \in Paths /\ e.name \in Names /\ e.to \in Names  BY SessionAssumption
  <2> QED BY <1>4, <2>1 DEF EditOf, EditRequest
<1>5. \/ r \in [op : {"open", "check", "fmt", "close"}, path : Paths]
      \/ r \in [op : {"diff", "stats"}]
      \/ \E p \in Paths : r \in SetsOf(p)
      \/ \E e \in Edits : r = EditOf(e, 0, FALSE)
      \/ \E e \in Edits : r = EditOf(e, preview.revision, TRUE)
      \/ \E e \in Edits : r = EditOf(e, session.revision, TRUE)
  <2>1. r \in UNION {SetsOf(p) : p \in Paths} => \E p \in Paths : r \in SetsOf(p)
    OBVIOUS
  <2>2. ASSUME NEW n, NEW b, r \in EditsAt(n, b) PROVE \E e \in Edits : r = EditOf(e, n, b)
    BY <2>2 DEF EditsAt
  <2>3. \/ r \in [op : {"open", "check", "fmt", "close"}, path : Paths]
        \/ r \in [op : {"diff", "stats"}]
        \/ r \in UNION {SetsOf(p) : p \in Paths}
        \/ r \in EditsAt(0, FALSE)
        \/ r \in EditsAt(preview.revision, TRUE)
        \/ r \in EditsAt(session.revision, TRUE)
    BY DEF Requests
  <2> QED BY <2>1, <2>2, <2>3
<1> QED BY <1>1, <1>2, <1>3, <1>4, <1>5

\* Every answer is one.
LEMMA AnswersAnswer ==
  ASSUME NEW kind, NEW s, NEW t, NEW fs
  PROVE  /\ Answer(kind, s).pc = "answer" /\ Reading(Answer(kind, s), t, fs).pc = "answer"
         /\ Answer(kind, s).reads = <<>>
         /\ Reading(Answer(kind, s), t, fs).reads = TextsIn(t, fs)
BY DEF Answer, Reading

LEMMA TypesInit == Init => TypeInv
<1> SUFFICES ASSUME Init PROVE TypeInv
  OBVIOUS
<1>1. SessionOK(session)  BY NewIsOK DEF Init
<1>2. DiskOK  BY SessionAssumption DEF Init, DiskOK
<1>3. GhostOK
  <2>1. <<>> \in Seq(Slot) /\ Len(<<>>) = 0  BY EmptySeq
  <2>2. Forgotten \in [Paths -> Text \cup {NoFile}]  BY DEF Forgotten
  <2>3. MaxPanics \in Nat  BY SessionAssumption
  <2> QED BY <2>1, <2>2, <2>3 DEF Init, GhostOK, NewSession
<1>4. ResetsOK  BY DEF Init, ResetsOK, NewSession
<1>5. JobOK  BY DEF Init, JobOK, ReadOK, WriteOK, Idle
<1>6. preview.revision \in Nat  BY DEF Init, NoPreview
<1> QED BY <1>1, <1>2, <1>3, <1>4, <1>5, <1>6 DEF TypeInv

\* The scope of a check or an edit, as the evaluation of its root leaves it.
LEMMA SeenIs ==
  ASSUME TypeInv, job.pc = "read"
  PROVE  /\ Evaluates(session, job.root, Seen)
         /\ SessionOK(Seen) /\ Seen.slots = session.slots
         /\ InScope \subseteq 1 .. Len(session.slots)
<1>1. SessionOK(session) /\ job.root \in 1 .. Len(session.slots)
  BY DEF TypeInv, JobOK, ReadOK
<1>2. Evaluates(session, job.root, Seen)  BY <1>1, EvaluatedEvaluates DEF Seen
<1>3. SessionOK(Seen) /\ Seen.slots = session.slots  BY <1>2 DEF Evaluates
<1>4. job.root \in 1 .. Len(Seen.memos)  BY <1>1, <1>3 DEF SessionOK, MemosOK
<1>5. Seen.memos[job.root].reads \subseteq 1 .. Len(Seen.slots)
  BY <1>3, <1>4 DEF SessionOK, MemosOK
<1> QED BY <1>2, <1>3, <1>5 DEF InScope

\* A plan has a text for each of the slots it writes, all of them in scope.
LEMMA PlanIs ==
  ASSUME NEW s, SessionOK(s), NEW fs, fs \subseteq 1 .. Len(s.slots), NEW r, r.to \in Names
  PROVE  /\ DOMAIN Plan(s, fs, r) \subseteq 1 .. Len(s.slots)
         /\ \A f \in DOMAIN Plan(s, fs, r) : Plan(s, fs, r)[f] \in Text
<1> DEFINE hit == {f \in fs : s.slots[f].text.name = r.name}
           plan == [f \in hit |-> [s.slots[f].text EXCEPT !.name = r.to]]
<1>1. Plan(s, fs, r) = plan \/ Plan(s, fs, r) = <<>>  BY DEF Plan
<1>2. DOMAIN plan = hit /\ \A f \in hit : plan[f] = [s.slots[f].text EXCEPT !.name = r.to]
  OBVIOUS
<1>3. ASSUME NEW f \in hit PROVE [s.slots[f].text EXCEPT !.name = r.to] \in Text
  <2>1. s.slots[f].text \in Text
    <3>1. s.slots \in Seq(Slot) /\ f \in 1 .. Len(s.slots)  BY DEF SessionOK
    <3>2. s.slots[f] \in Slot  BY <3>1, ElementOfSeq
    <3> QED BY <3>2 DEF Slot
  <2> QED BY <2>1 DEF Text
<1>4. DOMAIN <<>> = {}  OBVIOUS
<1> HIDE DEF plan
<1> QED BY <1>1, <1>2, <1>3, <1>4

LEMMA PlannedIs ==
  ASSUME TypeInv, Serving("edit")
  PROVE  /\ job.request \in EditRequest
         /\ DOMAIN Planned \subseteq 1 .. Len(session.slots)
         /\ \A f \in DOMAIN Planned : Planned[f] \in Text
<1>1. job.request \in EditRequest
  BY DEF TypeInv, JobOK, ReadOK, Serving, CheckRequest
<1>2. job.request.to \in Names  BY <1>1 DEF EditRequest
<1>3. SessionOK(Seen) /\ Seen.slots = session.slots /\ InScope \subseteq 1 .. Len(session.slots)
  BY SeenIs DEF Serving
<1> QED BY <1>1, <1>2, <1>3, PlanIs DEF Planned

\* What the rest of the state needs of a step that leaves the clients' side alone.
LEMMA TypesAnswered ==
  ASSUME TypeInv, SessionOK(session'), Len(session'.slots) = Len(session.slots),
         session'.id = session.id, session'.poisoned = session.poisoned,
         job'.pc \in {"idle", "answer"}, UNCHANGED <<disk, ghost>>, preview'.revision \in Nat
  PROVE  TypeInv'
<1>1. DiskOK'  BY DEF TypeInv, DiskOK
<1>2. GhostOK'  BY DEF TypeInv, GhostOK
<1>3. ResetsOK'  BY DEF TypeInv, ResetsOK
<1>4. JobOK'  BY DEF JobOK, ReadOK, WriteOK
<1> QED BY <1>1, <1>2, <1>3, <1>4 DEF TypeInv

LEMMA TypesRefused ==
  ASSUME TypeInv, NEW r \in Requests, RefusePoisoned(r) \/ Diff(r) \/ RefuseStale
  PROVE  TypeInv'
<1>1. session' = session /\ UNCHANGED <<disk, ghost, preview>> /\ job'.pc = "answer"
  BY AnswersAnswer DEF RefusePoisoned, Diff, RefuseStale, Ends
<1> QED BY <1>1, TypesAnswered DEF TypeInv

LEMMA TypesChecked ==
  ASSUME TypeInv, Check \/ RefuseEdit PROVE TypeInv'
<1>1. job.pc = "read" /\ session' = Seen /\ UNCHANGED <<disk, ghost, preview>> /\ job'.pc = "answer"
  <2>1. PlannedAnswer("refused").pc = "answer"
    BY DEF PlannedAnswer, Reading, Answer
  <2> QED BY <2>1, AnswersAnswer DEF Check, RefuseEdit, Ends, Serving
<1>2. Evaluates(session, job.root, session')  BY <1>1, SeenIs
<1> QED BY <1>1, <1>2, TypesAnswered DEF TypeInv, Evaluates

LEMMA TypesPreview ==
  ASSUME TypeInv, Preview PROVE TypeInv'
<1>1. job.pc = "read" /\ session' = Seen /\ UNCHANGED <<disk, ghost>> /\ job'.pc = "answer"
  <2>1. PlannedAnswer("planned").pc = "answer"
    BY DEF PlannedAnswer, Reading, Answer
  <2> QED BY <2>1, AnswersAnswer DEF Preview, Ends, Serving
<1>2. Evaluates(session, job.root, session')  BY <1>1, SeenIs
<1>3. preview'.revision = Seen.revision  BY DEF Preview
<1>4. preview'.revision \in Nat
  BY <1>1, <1>2, <1>3 DEF Evaluates, SessionOK
<1> QED BY <1>1, <1>2, <1>4, TypesAnswered DEF TypeInv, Evaluates

LEMMA TypesDeliver ==
  ASSUME TypeInv, Deliver PROVE TypeInv'
<1>1. /\ job'.pc = "idle" /\ UNCHANGED <<session, disk, preview>>
      /\ ghost' = [ghost EXCEPT !.requests = @ + 1]
  BY DEF Deliver, Idle
<1>2. GhostOK'  BY <1>1 DEF TypeInv, GhostOK
<1>3. ResetsOK'  BY <1>1 DEF TypeInv, ResetsOK, GhostOK
<1>4. JobOK'  BY <1>1 DEF JobOK, ReadOK, WriteOK
<1>5. DiskOK' /\ SessionOK(session)'  BY <1>1 DEF TypeInv, DiskOK
<1> QED BY <1>1, <1>2, <1>3, <1>4, <1>5 DEF TypeInv

\* Growing keeps the types, with the history that grows along.
LEMMA TypesGrown ==
  ASSUME TypeInv, Grows(session, session'), ghost' = Grown(session'), UNCHANGED <<disk, preview>>
  PROVE  /\ SessionOK(session') /\ GhostOK' /\ ResetsOK' /\ DiskOK' /\ preview'.revision \in Nat
         /\ session'.poisoned = session.poisoned
         /\ Len(session'.slots) >= Len(session.slots)
         /\ \A f \in 1 .. Len(session.slots) : session'.slots[f] = session.slots[f]
<1>1. SessionOK(session) /\ GhostOK  BY DEF TypeInv
<1>2. /\ SessionOK(session') /\ session'.id = session.id /\ session'.poisoned = session.poisoned
      /\ Len(session'.slots) >= Len(session.slots)
      /\ \A f \in 1 .. Len(session.slots) : session'.slots[f] = session.slots[f]
  BY <1>1, GrownKeeps
<1>3. PICK whole : whole = Prolong(ghost.whole, session'.slots)  OBVIOUS
<1>4. ghost' = [ghost EXCEPT !.whole = whole]  BY <1>3 DEF Grown, Prolong
<1>5. ghost.whole \in Seq(Slot) /\ Len(ghost.whole) = Len(session.slots)  BY <1>1 DEF GhostOK
<1>6. whole \in Seq(Slot) /\ Len(whole) = Len(session'.slots)
  BY <1>1, <1>3, <1>5, GrownIs
<1>7. GhostOK'  BY <1>1, <1>4, <1>6 DEF GhostOK
<1>8. ResetsOK'  BY <1>1, <1>2, <1>4 DEF TypeInv, ResetsOK, GhostOK
<1> QED BY <1>2, <1>7, <1>8 DEF TypeInv, DiskOK

LEMMA TypesFmt ==
  ASSUME TypeInv, NEW r \in Requests, Fmt(r) PROVE TypeInv'
<1>1. r.path \in Paths  BY RequestIs DEF Fmt, Admitted, Received, TypeInv, SessionOK
<1>2. /\ session' = OpenPath(session, r.path) /\ ghost' = Grown(session')
      /\ UNCHANGED <<disk, preview>> /\ job'.pc = "answer"
  BY AnswersAnswer DEF Fmt, Ends
<1>3. Grows(session, session')  BY <1>1, <1>2, OpenPathGrows DEF TypeInv
<1>4. JobOK'  BY <1>2 DEF JobOK, ReadOK, WriteOK
<1> QED BY <1>2, <1>3, <1>4, TypesGrown DEF TypeInv

LEMMA TypesLoad ==
  ASSUME TypeInv, NEW r \in Requests, Load(r) PROVE TypeInv'
<1>1. /\ r.path \in Paths /\ r \in CheckRequest \cup EditRequest /\ ~session.poisoned
  BY RequestIs DEF Load, Admitted, Received, TypeInv, SessionOK, RefusedOps
<1> DEFINE siblings == {p \in Paths \ {r.path} : disk[p] # NoFile}
<1>2. /\ session' = OpenPath(session, r.path) /\ ghost' = Grown(session')
      /\ UNCHANGED <<disk, preview>>
      /\ job' = IF Bound(session', r.path) = 0 THEN Answer("io", session')
                ELSE [pc |-> "read", request |-> r, root |-> Bound(session', r.path),
                      left |-> siblings, found |-> <<>>]
  BY DEF Load, Ends
<1>3. Grows(session, session')  BY <1>1, <1>2, OpenPathGrows DEF TypeInv
<1>4. SessionOK(session') /\ session'.poisoned = session.poisoned  BY <1>2, <1>3, TypesGrown
<1>5. siblings \subseteq Paths /\ <<>> \in Seq([path : Paths, text : Text])  BY EmptySeq
<1> HIDE DEF siblings
<1>6. JobOK'
  <2>1. CASE Bound(session', r.path) = 0
    <3>1. job'.pc = "answer"  BY <1>2, <2>1, AnswersAnswer
    <3> QED BY <3>1 DEF JobOK, ReadOK, WriteOK
  <2>2. CASE Bound(session', r.path) # 0
    <3>1. Bound(session', r.path) \in 1 .. Len(session'.slots)
          /\ session'.slots[Bound(session', r.path)].path = r.path
      BY <1>1, <1>4, <2>2, BoundIs
    <3>2. job' = [pc |-> "read", request |-> r, root |-> Bound(session', r.path),
                  left |-> siblings, found |-> <<>>]
      BY <1>2, <2>2
    <3> QED BY <1>1, <1>4, <1>5, <3>1, <3>2 DEF JobOK, ReadOK, WriteOK
  <2> QED BY <2>1, <2>2
<1> QED BY <1>2, <1>3, <1>6, TypesGrown DEF TypeInv

LEMMA TypesReadSibling ==
  ASSUME TypeInv, ReadSibling PROVE TypeInv'
<1>1. /\ job.pc = "read" /\ ReadOK /\ UNCHANGED <<session, disk, preview, ghost>>
  BY DEF TypeInv, JobOK, ReadSibling
<1>2. PICK p \in job.left :
        job' = [job EXCEPT !.left = @ \ {p},
                           !.found = IF disk[p] = NoFile THEN @
                                     ELSE Append(@, [path |-> p, text |-> disk[p]])]
  BY DEF ReadSibling
<1>3. PICK left, found : /\ left = job.left \ {p}
                         /\ found = IF disk[p] = NoFile THEN job.found
                                    ELSE Append(job.found, [path |-> p, text |-> disk[p]])
  OBVIOUS
<1>4. job' = [pc |-> "read", request |-> job.request, root |-> job.root,
              left |-> left, found |-> found]
  BY <1>1, <1>2, <1>3 DEF ReadOK
<1>5. left \subseteq Paths  BY <1>1, <1>3 DEF ReadOK
<1>6. found \in Seq([path : Paths, text : Text])
  <2>1. p \in Paths /\ job.found \in Seq([path : Paths, text : Text])  BY <1>1 DEF ReadOK
  <2>2. CASE disk[p] = NoFile  BY <1>3, <2>1, <2>2
  <2>3. CASE disk[p] # NoFile
    <3>1. disk[p] \in Text  BY <2>1, <2>3, TextsAreText DEF TypeInv, DiskOK
    <3>2. [path |-> p, text |-> disk[p]] \in [path : Paths, text : Text]  BY <2>1, <3>1
    <3> QED BY <1>3, <2>1, <2>3, <3>2, AppendProperties
  <2> QED BY <2>2, <2>3
<1>7. JobOK'  BY <1>1, <1>4, <1>5, <1>6 DEF JobOK, ReadOK, WriteOK
<1> QED BY <1>1, <1>7 DEF TypeInv, DiskOK, GhostOK, ResetsOK

LEMMA TypesBindSiblings ==
  ASSUME TypeInv, BindSiblings PROVE TypeInv'
<1>1. /\ job.pc = "read" /\ ReadOK /\ job.found # <<>>
      /\ session' = BindSibling(session, Head(job.found)) /\ ghost' = Grown(session')
      /\ job' = [job EXCEPT !.found = Tail(@)] /\ UNCHANGED <<disk, preview>>
  BY DEF TypeInv, JobOK, BindSiblings
<1>2. /\ Head(job.found) \in [path : Paths, text : Text]
      /\ Tail(job.found) \in Seq([path : Paths, text : Text])
  BY <1>1, HeadTailProperties DEF ReadOK
<1>3. Grows(session, session')  BY <1>1, <1>2, BindSiblingGrows DEF TypeInv
<1>4. /\ session'.poisoned = session.poisoned
      /\ Len(session'.slots) >= Len(session.slots)
      /\ \A f \in 1 .. Len(session.slots) : session'.slots[f] = session.slots[f]
      /\ SessionOK(session')
  BY <1>1, <1>3, TypesGrown
<1>5. job' = [pc |-> "read", request |-> job.request, root |-> job.root,
              left |-> job.left, found |-> Tail(job.found)]
  BY <1>1 DEF ReadOK
<1>6. Len(session.slots) \in Nat /\ Len(session'.slots) \in Nat
  BY <1>4, LenProperties DEF TypeInv, SessionOK
<1>7. JobOK'
  <2>1. /\ job.root \in 1 .. Len(session.slots) /\ session.slots[job.root].path = job.request.path
        /\ job.request \in CheckRequest \cup EditRequest /\ job.left \subseteq Paths
        /\ ~session.poisoned
    BY <1>1 DEF ReadOK
  <2>2. job.root \in 1 .. Len(session'.slots) /\ session'.slots[job.root].path = job.request.path
    BY <1>4, <1>6, <2>1
  <2> QED BY <1>2, <1>4, <1>5, <2>1, <2>2 DEF JobOK, ReadOK, WriteOK
<1> QED BY <1>1, <1>3, <1>7, TypesGrown DEF TypeInv

LEMMA TypesClose ==
  ASSUME TypeInv, NEW r \in Requests, Close(r) PROVE TypeInv'
<1>1. r.path \in Paths  BY RequestIs DEF Close, Admitted, Received, TypeInv, SessionOK
<1>2. /\ session' = [session EXCEPT !.files[Key(r.path)] = 0]
      /\ ghost' = [ghost EXCEPT !.aliased = @ \cup {r.path}]
      /\ UNCHANGED <<disk, preview>> /\ job'.pc = "answer"
  BY AnswersAnswer DEF Close, Ends
<1>3. SessionOK(session)  BY DEF TypeInv
<1>4. PICK files : files = [session.files EXCEPT ![Key(r.path)] = 0]  OBVIOUS
<1>5. /\ files \in [Keys -> Nat]
      /\ \A k \in Keys : files[k] = 0 \/ files[k] = session.files[k]
  BY <1>3, <1>4 DEF SessionOK
<1>6. session' = [id |-> session.id, revision |-> session.revision, slots |-> session.slots,
                  memos |-> session.memos, files |-> files, poisoned |-> session.poisoned]
  <2>1. session = [id |-> session.id, revision |-> session.revision, slots |-> session.slots,
                   memos |-> session.memos, files |-> session.files, poisoned |-> session.poisoned]
    BY <1>3 DEF SessionOK
  <2> QED BY <1>2, <1>4, <2>1
<1>7. SessionOK(session')
  <2>1. SlotsOK(session') /\ MemosOK(session')
    BY <1>3, <1>6 DEF SessionOK, SlotsOK, MemosOK
  <2>2. FilesOK(session')
    <3>1. Len(session.slots) \in Nat  BY <1>3, LenProperties DEF SessionOK
    <3>2. session'.files = files /\ session'.slots = session.slots  BY <1>6
    <3>3. ASSUME NEW k \in Keys
          PROVE  /\ files[k] \in 0 .. Len(session.slots)
                 /\ files[k] > 0 => session.slots[files[k]].path = k[1]
      <4>1. /\ session.files[k] \in 0 .. Len(session.slots)
            /\ session.files[k] > 0 => session.slots[session.files[k]].path = k[1]
        BY <1>3 DEF SessionOK, FilesOK
      <4> QED BY <1>5, <3>1, <4>1
    <3> QED BY <3>2, <3>3 DEF FilesOK
  <2>3. session' \in [id : Nat, revision : Nat, slots : Seq(Slot), memos : Seq(Memo),
                      files : [Keys -> Nat], poisoned : BOOLEAN]
    BY <1>3, <1>5, <1>6 DEF SessionOK
  <2> QED BY <2>1, <2>2, <2>3 DEF SessionOK
<1>8. GhostOK'  BY <1>1, <1>2, <1>6 DEF TypeInv, GhostOK
<1>9. ResetsOK'  BY <1>2, <1>6 DEF TypeInv, ResetsOK, GhostOK
<1>10. JobOK'  BY <1>2 DEF JobOK, ReadOK, WriteOK
<1> QED BY <1>2, <1>7, <1>8, <1>9, <1>10 DEF TypeInv, DiskOK

LEMMA TypesOpenOrSet ==
  ASSUME TypeInv, NEW r \in Requests, OpenOrSet(r) PROVE TypeInv'
<1> DEFINE s == IF session.poisoned THEN NewSession(session.id + 1) ELSE session
           next == IF r.op = "set" THEN BindText(s, r.path, r.text) ELSE OpenPath(s, r.path)
           kept == IF session.poisoned
                   THEN [ghost EXCEPT !.written = Forgotten, !.aliased = {}] ELSE ghost
<1>1. /\ r.path \in Paths
      /\ r.op = "set" => r.text \in Text
  BY RequestIs DEF OpenOrSet, Admitted, Received, TypeInv, SessionOK
<1>2. /\ session' = next
      /\ ghost' = [kept EXCEPT !.whole = next.slots,
                               !.written[r.path] = IF r.op = "set" THEN r.text ELSE @]
      /\ UNCHANGED <<disk, preview>> /\ job'.pc = "answer"
  BY AnswersAnswer DEF OpenOrSet, Ends
<1>3. SessionOK(session) /\ session.id \in Nat  BY DEF TypeInv, SessionOK
<1>4. /\ SessionOK(s) /\ ~s.poisoned
      /\ s.id = IF session.poisoned THEN session.id + 1 ELSE session.id
  <2>1. NewSession(session.id + 1).id = session.id + 1 /\ ~NewSession(session.id + 1).poisoned
    BY DEF NewSession
  <2> QED BY <1>3, <2>1, NewIsOK
<1> HIDE DEF s
<1>5. SessionOK(next) /\ next.id = s.id /\ ~next.poisoned
  <2>1. CASE r.op = "set" /\ Bound(s, r.path) = 0
    <3>1. Binds(s, r.path, r.text, BindText(s, r.path, r.text))
      BY <1>1, <1>4, <2>1, BindTextIs
    <3>2. next = BindText(s, r.path, r.text)  BY <2>1
    <3> QED BY <1>4, <3>1, <3>2 DEF Binds
  <2>2. CASE r.op = "set" /\ Bound(s, r.path) > 0
    BY <1>1, <1>4, <2>2, BindTextIs DEF Rewrites
  <2>3. CASE r.op # "set"
    <3>1. Grows(s, OpenPath(s, r.path))  BY <1>1, <1>4, OpenPathGrows DEF TypeInv
    <3> QED BY <1>4, <2>3, <3>1, GrownKeeps
  <2>4. Bound(s, r.path) \in 0 .. Len(s.slots)  BY <1>1, <1>4, BoundIs
  <2> QED BY <2>1, <2>2, <2>3, <2>4
<1> HIDE DEF next
<1>6. GhostOK'
  <2>1. kept \in [whole : Seq(Slot), written : [Paths -> Text \cup {NoFile}], aliased : SUBSET Paths,
                 requests : Nat, saves : Nat, panics : Nat]
        /\ kept.panics = ghost.panics
    <3>1. Forgotten \in [Paths -> Text \cup {NoFile}]  BY DEF Forgotten
    <3>2. GhostOK  BY DEF TypeInv
    <3> QED BY <3>1, <3>2 DEF GhostOK
  <2> HIDE DEF kept
  <2>2. next.slots \in Seq(Slot)  BY <1>5 DEF SessionOK
  <2>3. PICK written : written = [kept.written EXCEPT ![r.path] = IF r.op = "set" THEN r.text ELSE @]
    OBVIOUS
  <2>4. written \in [Paths -> Text \cup {NoFile}]  BY <1>1, <2>1, <2>3
  <2>5. ghost' = [whole |-> next.slots, written |-> written, aliased |-> kept.aliased,
                  requests |-> kept.requests, saves |-> kept.saves, panics |-> kept.panics]
    <3>1. kept = [whole |-> kept.whole, written |-> kept.written, aliased |-> kept.aliased,
                  requests |-> kept.requests, saves |-> kept.saves, panics |-> kept.panics]
      BY <2>1
    <3> QED BY <1>2, <2>3, <3>1
  <2>6. ghost' \in [whole : Seq(Slot), written : [Paths -> Text \cup {NoFile}], aliased : SUBSET Paths,
                   requests : Nat, saves : Nat, panics : Nat]
    BY <2>1, <2>2, <2>4, <2>5
  <2>7. ghost'.whole = session'.slots /\ ghost'.panics = ghost.panics  BY <1>2, <2>1, <2>5
  <2> QED BY <2>6, <2>7 DEF TypeInv, GhostOK
<1>7. ghost'.panics = ghost.panics
  <2>1. kept.panics = ghost.panics  OBVIOUS
  <2> HIDE DEF kept
  <2> QED BY <1>2, <2>1
<1>8. ResetsOK'
  BY <1>2, <1>3, <1>4, <1>5, <1>7 DEF TypeInv, ResetsOK, GhostOK
<1>9. JobOK'  BY <1>2 DEF JobOK, ReadOK, WriteOK
<1> QED BY <1>2, <1>5, <1>6, <1>8, <1>9 DEF TypeInv, DiskOK

LEMMA TypesApply ==
  ASSUME TypeInv, Apply PROVE TypeInv'
<1>1. /\ job.pc = "read" /\ Serving("edit") /\ UNCHANGED <<disk, preview, ghost>>
      /\ session' = [Seen EXCEPT !.revision = @ + 1]
      /\ job' = [pc |-> "write", request |-> job.request, wrote |-> Planned, left |-> DOMAIN Planned]
  BY DEF Apply, Ends, Serving
<1>2. PICK seen : seen = Seen  OBVIOUS
<1>3. SessionOK(seen) /\ Evaluates(session, job.root, seen) /\ ~session.poisoned
  BY <1>1, <1>2, SeenIs DEF TypeInv, JobOK, ReadOK
<1>4. session' = [id |-> seen.id, revision |-> seen.revision + 1, slots |-> seen.slots,
                  memos |-> seen.memos, files |-> seen.files, poisoned |-> seen.poisoned]
  <2>1. seen = [id |-> seen.id, revision |-> seen.revision, slots |-> seen.slots,
                memos |-> seen.memos, files |-> seen.files, poisoned |-> seen.poisoned]
    BY <1>3 DEF SessionOK
  <2> QED BY <1>1, <1>2, <2>1
<1>5. seen.revision \in Nat /\ seen.memos \in Seq(Memo) /\ seen.slots \in Seq(Slot)
  BY <1>3 DEF SessionOK
<1>6. SessionOK(session')
  <2>1. session' \in [id : Nat, revision : Nat, slots : Seq(Slot), memos : Seq(Memo),
                      files : [Keys -> Nat], poisoned : BOOLEAN]
    BY <1>3, <1>4, <1>5 DEF SessionOK
  <2>2. SlotsOK(session')
    <3>1. \A f \in 1 .. Len(seen.slots) : seen.slots[f].changed \in 1 .. seen.revision
      BY <1>3 DEF SessionOK, SlotsOK
    <3>2. 1 .. seen.revision \subseteq 1 .. seen.revision + 1  BY <1>5
    <3> QED BY <1>4, <3>1, <3>2 DEF SlotsOK
  <2>3. MemosOK(session')
    <3>1. /\ Len(seen.memos) = Len(seen.slots)
          /\ \A f \in 1 .. Len(seen.memos) :
               seen.memos[f].reads \subseteq 1 .. Len(seen.slots) /\ seen.memos[f].at <= seen.revision
      BY <1>3 DEF SessionOK, MemosOK
    <3>2. \A f \in 1 .. Len(seen.memos) : seen.memos[f].at \in Nat
      <4>1. \A f \in 1 .. Len(seen.memos) : seen.memos[f] \in Memo  BY <1>5, ElementOfSeq
      <4> QED BY <4>1 DEF Memo
    <3>3. \A f \in 1 .. Len(seen.memos) : seen.memos[f].at <= seen.revision + 1
      BY <1>5, <3>1, <3>2
    <3> QED BY <1>4, <3>1, <3>3 DEF MemosOK
  <2>4. FilesOK(session')  BY <1>3, <1>4 DEF SessionOK, FilesOK
  <2> QED BY <2>1, <2>2, <2>3, <2>4 DEF SessionOK
<1>7. /\ session'.id = session.id /\ session'.poisoned = session.poisoned
      /\ session'.slots = session.slots /\ session'.revision > 0
  BY <1>3, <1>4, <1>5 DEF Evaluates
<1>8. GhostOK'  BY <1>1, <1>7 DEF TypeInv, GhostOK
<1>9. ResetsOK'  BY <1>1, <1>7 DEF TypeInv, ResetsOK
<1>10. JobOK'
  <2>1. /\ job.request \in EditRequest /\ DOMAIN Planned \subseteq 1 .. Len(session.slots)
        /\ \A f \in DOMAIN Planned : Planned[f] \in Text
    BY <1>1, PlannedIs
  <2> QED BY <1>1, <1>3, <1>7, <2>1 DEF JobOK, ReadOK, WriteOK
<1> QED BY <1>1, <1>6, <1>8, <1>9, <1>10 DEF TypeInv, DiskOK

\* One file of an apply.
LEMMA WriteRewrites ==
  ASSUME TypeInv, Write
  PROVE  \E f \in job.left :
           /\ f \in 1 .. Len(session.slots)
           /\ Rewrites(session, f, job.wrote[f], session.revision, session')
           /\ job' = [pc |-> "write", request |-> job.request, wrote |-> job.wrote,
                      left |-> job.left \ {f}]
           /\ UNCHANGED <<disk, preview, ghost>>
<1>1. job.pc = "write" /\ WriteOK  BY DEF TypeInv, JobOK, Write
<1>2. PICK f \in job.left :
        /\ session' = [session EXCEPT !.slots[f] = Replaced(@, job.wrote[f], session.revision)]
        /\ job' = [job EXCEPT !.left = @ \ {f}]
        /\ UNCHANGED <<disk, preview, ghost>>
  BY DEF Write
<1>3. /\ f \in 1 .. Len(session.slots) /\ job.wrote[f] \in Text
      /\ session.revision > 0
  BY <1>1 DEF WriteOK
<1>4. session' = Rewritten(session, f, job.wrote[f], session.revision)
  <2>1. session = [id |-> session.id, revision |-> session.revision, slots |-> session.slots,
                   memos |-> session.memos, files |-> session.files, poisoned |-> session.poisoned]
    BY DEF TypeInv, SessionOK
  <2> QED BY <1>2, <2>1 DEF Rewritten
<1>5. SessionOK(session) /\ session.revision \in Nat  BY DEF TypeInv, SessionOK
<1>6. Rewrites(session, f, job.wrote[f], session.revision, session')
  BY <1>3, <1>4, <1>5, RewrittenRewrites
<1>7. job' = [pc |-> "write", request |-> job.request, wrote |-> job.wrote, left |-> job.left \ {f}]
  BY <1>1, <1>2 DEF WriteOK
<1> QED BY <1>2, <1>3, <1>6, <1>7

LEMMA TypesWrite ==
  ASSUME TypeInv, Write PROVE TypeInv'
<1>1. PICK f \in job.left :
        /\ Rewrites(session, f, job.wrote[f], session.revision, session')
        /\ job' = [pc |-> "write", request |-> job.request, wrote |-> job.wrote,
                   left |-> job.left \ {f}]
        /\ UNCHANGED <<disk, preview, ghost>>
  BY WriteRewrites
<1>2. job.pc = "write" /\ WriteOK  BY DEF TypeInv, JobOK, Write
<1>3. /\ SessionOK(session') /\ session'.id = session.id /\ session'.poisoned = session.poisoned
      /\ session'.revision = session.revision /\ Len(session'.slots) = Len(session.slots)
  BY <1>1 DEF Rewrites
<1>4. GhostOK'  BY <1>1, <1>3 DEF TypeInv, GhostOK
<1>5. ResetsOK'  BY <1>1, <1>3 DEF TypeInv, ResetsOK
<1>6. JobOK'  BY <1>1, <1>2, <1>3 DEF JobOK, ReadOK, WriteOK
<1> QED BY <1>1, <1>3, <1>4, <1>5, <1>6 DEF TypeInv, DiskOK

LEMMA TypesApplied ==
  ASSUME TypeInv, Applied PROVE TypeInv'
<1>1. job.pc = "write" /\ WriteOK  BY DEF TypeInv, JobOK, Applied
<1>2. PICK written :
        written = [p \in Paths |-> IF Bound(session, p) \in DOMAIN job.wrote
                                   THEN job.wrote[Bound(session, p)] ELSE ghost.written[p]]
  OBVIOUS
<1>3. /\ UNCHANGED <<session, disk, preview>> /\ job'.pc = "answer"
      /\ ghost' = [ghost EXCEPT !.whole = session.slots, !.written = written]
  BY <1>2 DEF Applied, Ends
<1>4. written \in [Paths -> Text \cup {NoFile}]
  <2>1. ghost.written \in [Paths -> Text \cup {NoFile}]  BY DEF TypeInv, GhostOK
  <2>2. \A f \in DOMAIN job.wrote : job.wrote[f] \in Text  BY <1>1 DEF WriteOK
  <2> QED BY <1>2, <2>1, <2>2
<1>5. GhostOK'
  <2>1. session.slots \in Seq(Slot)  BY DEF TypeInv, SessionOK
  <2> QED BY <1>3, <1>4, <2>1 DEF TypeInv, GhostOK
<1>6. ResetsOK'  BY <1>3 DEF TypeInv, ResetsOK, GhostOK
<1>7. JobOK'  BY <1>3 DEF JobOK, ReadOK, WriteOK
<1> QED BY <1>3, <1>5, <1>6, <1>7 DEF TypeInv, DiskOK

LEMMA TypesPanic ==
  ASSUME TypeInv, Panic PROVE TypeInv'
<1>1. Panics  BY DEF Panic
<1>2. /\ session' = [session EXCEPT !.poisoned = TRUE] /\ job'.pc = "answer"
      /\ ghost' = [ghost EXCEPT !.panics = @ + 1] /\ UNCHANGED <<disk, preview>>
      /\ ghost.panics < MaxPanics
  BY <1>1, AnswersAnswer DEF Panics, Ends
<1>3. SessionOK(session') /\ session'.slots = session.slots /\ session'.id = session.id
  <2>1. SessionOK(session)  BY DEF TypeInv
  <2>2. session' = [id |-> session.id, revision |-> session.revision, slots |-> session.slots,
                    memos |-> session.memos, files |-> session.files, poisoned |-> TRUE]
    <3>1. session = [id |-> session.id, revision |-> session.revision, slots |-> session.slots,
                     memos |-> session.memos, files |-> session.files, poisoned |-> session.poisoned]
      BY <2>1 DEF SessionOK
    <3> QED BY <1>2, <3>1
  <2> QED BY <2>1, <2>2 DEF SessionOK, SlotsOK, MemosOK, FilesOK
<1>4. MaxPanics \in Nat  BY SessionAssumption
<1>5. GhostOK'  BY SMTT(60), <1>2, <1>3, <1>4 DEF TypeInv, GhostOK
<1>6. ResetsOK'
  <2>1. ghost'.panics = ghost.panics + 1 /\ ghost.panics \in Nat  BY <1>2 DEF TypeInv, GhostOK
  <2>2. session.id >= 1 /\ session.id <= ghost.panics + 1  BY DEF TypeInv, ResetsOK
  <2>3. session.id \in Nat  BY DEF TypeInv, SessionOK
  <2> QED BY <1>3, <2>1, <2>2, <2>3 DEF ResetsOK
<1>7. JobOK'  BY <1>2 DEF JobOK, ReadOK, WriteOK
<1> QED BY <1>2, <1>3, <1>5, <1>6, <1>7 DEF TypeInv, DiskOK

LEMMA TypesSave ==
  ASSUME TypeInv, Save PROVE TypeInv'
<1>0. PICK p \in Paths : \E text \in TextsOf[p] \cup {NoFile} :
        /\ disk' = [disk EXCEPT ![p] = text]
        /\ ghost' = [ghost EXCEPT !.saves = @ + 1,
                       !.aliased = IF (text = NoFile) = (disk[p] = NoFile) THEN @ ELSE @ \cup {p}]
        /\ UNCHANGED <<session, job, preview>>
  BY DEF Save
<1>1. PICK text \in TextsOf[p] \cup {NoFile} :
        /\ disk' = [disk EXCEPT ![p] = text]
        /\ ghost' = [ghost EXCEPT !.saves = @ + 1,
                       !.aliased = IF (text = NoFile) = (disk[p] = NoFile) THEN @ ELSE @ \cup {p}]
        /\ UNCHANGED <<session, job, preview>>
  BY <1>0
<1>2. DiskOK'
  <2>1. text \in AllTexts \cup {NoFile}  BY DEF AllTexts
  <2> QED BY <1>1, <2>1 DEF TypeInv, DiskOK
<1>3. PICK aliased :
        aliased = IF (text = NoFile) = (disk[p] = NoFile) THEN ghost.aliased ELSE ghost.aliased \cup {p}
  OBVIOUS
<1>4. ghost' = [ghost EXCEPT !.saves = @ + 1, !.aliased = aliased]  BY <1>1, <1>3
<1>5. GhostOK'
  <2>1. aliased \subseteq Paths  BY <1>3 DEF TypeInv, GhostOK
  <2>2. GhostOK  BY DEF TypeInv
  <2>3. ghost' = [whole |-> ghost.whole, written |-> ghost.written, aliased |-> aliased,
                  requests |-> ghost.requests, saves |-> ghost.saves + 1, panics |-> ghost.panics]
    BY <1>4, <2>2 DEF GhostOK
  <2> QED BY <1>1, <2>1, <2>2, <2>3 DEF GhostOK
<1>6. ResetsOK'  BY <1>1, <1>4 DEF TypeInv, ResetsOK, GhostOK
<1>7. JobOK'  BY <1>1 DEF TypeInv, JobOK, ReadOK, WriteOK
<1> QED BY <1>1, <1>2, <1>5, <1>6, <1>7 DEF TypeInv

LEMMA TypesStep == TypeInv /\ [Next]_vars => TypeInv'
<1> SUFFICES ASSUME TypeInv, [Next]_vars PROVE TypeInv'
  OBVIOUS
<1>1. ASSUME NEW r \in Requests, Handle(r) PROVE TypeInv'
  <2>1. \/ RefusePoisoned(r) \/ Diff(r) \/ OpenOrSet(r) \/ Close(r) \/ Fmt(r) \/ Load(r)
    BY <1>1 DEF Handle
  <2> QED BY <2>1, TypesRefused, TypesOpenOrSet, TypesClose, TypesFmt, TypesLoad
<1>2. CASE ReadSibling  BY <1>2, TypesReadSibling
<1>3. CASE BindSiblings  BY <1>3, TypesBindSiblings
<1>4. CASE Check \/ RefuseEdit  BY <1>4, TypesChecked
<1>5. CASE RefuseStale
  <2>1. session' = session /\ UNCHANGED <<disk, ghost, preview>> /\ job'.pc = "answer"
    BY <1>5, AnswersAnswer DEF RefuseStale, Ends
  <2> QED BY <2>1, TypesAnswered DEF TypeInv
<1>6. CASE Preview  BY <1>6, TypesPreview
<1>7. CASE Apply  BY <1>7, TypesApply
<1>8. CASE Write  BY <1>8, TypesWrite
<1>9. CASE Applied  BY <1>9, TypesApplied
<1>10. CASE Deliver  BY <1>10, TypesDeliver
<1>11. CASE Panic  BY <1>11, TypesPanic
<1>12. CASE Save  BY <1>12, TypesSave
<1>13. CASE UNCHANGED vars
  BY <1>13 DEF vars, TypeInv, DiskOK, GhostOK, ResetsOK, JobOK, ReadOK, WriteOK
<1> QED BY <1>1, <1>2, <1>3, <1>4, <1>5, <1>6, <1>7, <1>8, <1>9, <1>10, <1>11, <1>12, <1>13
        DEF Next

LEMMA TypesImplied == TypeInv => TypeOK
<1> SUFFICES ASSUME TypeInv PROVE TypeOK
  OBVIOUS
<1>1. SessionOK(session) /\ GhostOK /\ ResetsOK /\ JobOK /\ DiskOK  BY DEF TypeInv
<1>2. session.id \in 1 .. (MaxPanics + 1)
  <2>1. session.id \in Nat  BY <1>1 DEF SessionOK
  <2>2. ghost.panics \in Nat /\ ghost.panics <= MaxPanics /\ MaxPanics \in Nat
    BY <1>1, SessionAssumption DEF GhostOK
  <2> QED BY <1>1, <2>1, <2>2 DEF ResetsOK
<1>3. session.revision \in Nat /\ session.poisoned \in BOOLEAN  BY <1>1 DEF SessionOK
<1>4. session.slots \in Seq([path : Paths, text : [uses : SUBSET Paths, name : Names],
                            changed : 1 .. session.revision])
  <2>1. PICK slots, slot : /\ slots = session.slots
                           /\ slot = [path : Paths, text : Text, changed : 1 .. session.revision]
    OBVIOUS
  <2>2. slots \in Seq(Slot)  BY <1>1, <2>1 DEF SessionOK
  <2>3. \A f \in 1 .. Len(slots) : slots[f] \in slot
    <3> SUFFICES ASSUME NEW f \in 1 .. Len(slots) PROVE slots[f] \in slot
      OBVIOUS
    <3>1. slots[f] \in Slot  BY <2>2, ElementOfSeq
    <3>2. slots[f].changed \in 1 .. session.revision  BY <1>1, <2>1 DEF SessionOK, SlotsOK
    <3> QED BY <2>1, <3>1, <3>2 DEF Slot
  <2>4. slots \in Seq(slot)
    <3>1. Len(slots) \in Nat /\ slots \in [1 .. Len(slots) -> Slot]  BY <2>2, LenProperties
    <3>2. slots \in [1 .. Len(slots) -> slot]  BY <2>3, <3>1
    <3> QED BY <3>1, <3>2
  <2> QED BY <2>1, <2>4 DEF Text
<1>5. DOMAIN session.slots = 1 .. Len(session.slots) /\ DOMAIN session.memos = 1 .. Len(session.memos)
  BY <1>1, LenProperties DEF SessionOK
<1>6. /\ Len(session.memos) = Len(session.slots)
      /\ \A f \in DOMAIN session.memos :
           session.memos[f].reads \subseteq DOMAIN session.slots /\ session.memos[f].at <= session.revision
  BY <1>1, <1>5 DEF SessionOK, MemosOK
<1>7. /\ session.files \in [Keys -> 0 .. Len(session.slots)]
      /\ \A k \in Keys : session.files[k] > 0 => session.slots[session.files[k]].path = k[1]
  BY <1>1 DEF SessionOK, FilesOK
<1>8. disk \in [Paths -> AllTexts \cup {NoFile}]  BY <1>1 DEF DiskOK
<1>9. /\ job.pc \in {"idle", "read", "write", "answer"}
      /\ job.pc = "write" => job.left \subseteq DOMAIN job.wrote
  BY <1>1 DEF JobOK, WriteOK
<1>10. Len(ghost.whole) = Len(session.slots)  BY <1>1 DEF GhostOK
<1> QED BY <1>2, <1>3, <1>4, <1>6, <1>7, <1>8, <1>9, <1>10 DEF TypeOK

\* A session is always well formed, whatever it is asked, and wherever it panics: a bound
\* path leads to a slot of that path, a scope reads slots there are, and a file that is
\* written is one of the plan (Session, bind, bind_named, set_sources).
THEOREM SessionTyping == Spec => []TypeOK
<1>1. TypeInv /\ [Next]_vars => TypeInv'  BY TypesStep
<1> QED BY <1>1, TypesInit, TypesImplied, PTL DEF Spec

-----------------------------------------------------------------------------
(* Answers are computed from whole texts. *)

\* What an answer was computed from is what its session holds, and that session is sound.
ReadsNow ==
  job.pc = "answer" =>
    \A f \in DOMAIN job.reads :
      /\ f \in 1 .. Len(session.slots) /\ job.reads[f] = session.slots[f].text
      /\ ~session.poisoned
\* The slots are what the last request that ended left, but while an apply is written and
\* after a panic.
WholeNow == ~session.poisoned /\ job.pc # "write" => ghost.whole = session.slots
HalfInv == ReadsNow /\ WholeNow

LEMMA NothingRead == DOMAIN <<>> = {}
OBVIOUS

\* The steps that leave slots, bound paths, disk and history alone.
Still ==
  /\ session'.slots = session.slots /\ session'.files = session.files
  /\ session'.id = session.id /\ session'.poisoned = session.poisoned
  /\ UNCHANGED <<disk, ghost>>

LEMMA StillSteps ==
  ASSUME TypeInv,
         \/ \E r \in Requests : RefusePoisoned(r) \/ Diff(r)
         \/ RefuseStale \/ Check \/ RefuseEdit \/ Preview \/ Apply \/ ReadSibling
  PROVE  Still /\ job.pc \in {"idle", "read"}
<1>1. CASE \/ \E r \in Requests : RefusePoisoned(r) \/ Diff(r)
           \/ RefuseStale \/ ReadSibling
  <2>1. session' = session /\ UNCHANGED <<disk, ghost>>
    BY <1>1 DEF RefusePoisoned, Diff, RefuseStale, ReadSibling, Ends
  <2>2. job = Idle \/ job.pc = "read"
    BY <1>1 DEF RefusePoisoned, Diff, RefuseStale, ReadSibling, Received, Admitted, Serving
  <2>3. job.pc \in {"idle", "read"}  BY <2>2 DEF Idle
  <2> QED BY <2>1, <2>3 DEF Still
<1>2. CASE Check \/ RefuseEdit \/ Preview \/ Apply
  <2>1. job.pc = "read"  BY <1>2 DEF Check, RefuseEdit, Preview, Apply, Serving
  <2>2. PICK seen : seen = Seen  OBVIOUS
  <2>3. Evaluates(session, job.root, seen)  BY <2>1, <2>2, SeenIs
  <2>4. seen = [id |-> seen.id, revision |-> seen.revision, slots |-> seen.slots,
                memos |-> seen.memos, files |-> seen.files, poisoned |-> seen.poisoned]
    BY <2>3 DEF Evaluates, SessionOK
  <2>5. session' = seen \/ session' = [seen EXCEPT !.revision = @ + 1]
    BY <1>2, <2>2 DEF Check, RefuseEdit, Preview, Apply, Ends
  <2>6. /\ session'.slots = seen.slots /\ session'.files = seen.files
        /\ session'.id = seen.id /\ session'.poisoned = seen.poisoned
    BY <2>4, <2>5
  <2>7. UNCHANGED <<disk, ghost>>  BY <1>2 DEF Check, RefuseEdit, Preview, Apply, Ends
  <2> QED BY <2>1, <2>3, <2>6, <2>7 DEF Still, Evaluates
<1> QED BY <1>1, <1>2

\* What an answer that is about the scope of a check or an edit reads.
LEMMA ScopeReads ==
  ASSUME TypeInv, Check \/ RefuseEdit \/ Preview
  PROVE  /\ job'.pc = "answer" /\ job'.reads = TextsIn(Seen, InScope)
         /\ InScope \subseteq 1 .. Len(session.slots) /\ Seen.slots = session.slots
         /\ ~session.poisoned
<1>1. job.pc = "read"  BY DEF Check, RefuseEdit, Preview, Serving
<1>2. /\ job'.pc = "answer" /\ job'.reads = TextsIn(Seen, InScope)
  BY DEF Check, RefuseEdit, Preview, Ends, PlannedAnswer, Reading, Answer
<1>3. ~session.poisoned  BY <1>1 DEF TypeInv, JobOK, ReadOK
<1> QED BY <1>1, <1>2, <1>3, SeenIs

LEMMA ReadsStep == TypeInv /\ ReadsNow /\ [Next]_vars => ReadsNow'
<1> SUFFICES ASSUME TypeInv, ReadsNow, [Next]_vars PROVE ReadsNow'
  OBVIOUS
<1>0. ASSUME job'.pc = "answer" => job'.reads = <<>> PROVE ReadsNow'
  BY <1>0, NothingRead DEF ReadsNow
<1>1. ASSUME NEW r \in Requests, RefusePoisoned(r) \/ Diff(r) PROVE ReadsNow'
  BY <1>0, <1>1, AnswersAnswer DEF RefusePoisoned, Diff, Ends
<1>2. ASSUME NEW r \in Requests, OpenOrSet(r) PROVE ReadsNow'
  BY <1>0, <1>2, AnswersAnswer DEF OpenOrSet, Ends
<1>3. ASSUME NEW r \in Requests, Close(r) PROVE ReadsNow'
  BY <1>0, <1>3, AnswersAnswer DEF Close, Ends
<1>4. ASSUME NEW r \in Requests, Fmt(r) PROVE ReadsNow'
  <2>1. r.path \in Paths /\ ~session.poisoned
    BY <1>4, RequestIs DEF Fmt, Admitted, Received, TypeInv, SessionOK, RefusedOps
  <2>2. PICK s : s = OpenPath(session, r.path)  OBVIOUS
  <2>3. session' = s /\ job' = IF Bound(s, r.path) = 0 THEN Answer("io", s)
                              ELSE Reading(Answer("ok", s), s, {Bound(s, r.path)})
    BY <1>4, <2>2 DEF Fmt, Ends
  <2>4. CASE Bound(s, r.path) = 0
    BY <1>0, <2>3, <2>4, AnswersAnswer
  <2>5. CASE Bound(s, r.path) # 0
    <3>1. SessionOK(s) /\ s.poisoned = session.poisoned
      BY <2>1, <2>2, OpenPathGrows, GrownKeeps DEF TypeInv
    <3>2. Bound(s, r.path) \in 1 .. Len(s.slots)  BY <2>1, <2>5, <3>1, BoundIs
    <3>3. job'.reads = TextsIn(s, {Bound(s, r.path)})  BY <2>3, <2>5, AnswersAnswer
    <3> QED BY <2>1, <2>3, <3>1, <3>2, <3>3 DEF ReadsNow, TextsIn
  <2> QED BY <2>4, <2>5
<1>5. ASSUME NEW r \in Requests, Load(r) PROVE ReadsNow'
  BY <1>0, <1>5, AnswersAnswer DEF Load, Ends
<1>6. CASE ReadSibling \/ BindSiblings
  <2>1. job.pc = "read" /\ ReadOK  BY <1>6 DEF TypeInv, JobOK, ReadSibling, BindSiblings
  <2>2. job'.pc = "read"  BY <1>6, <2>1 DEF ReadOK, ReadSibling, BindSiblings
  <2> QED BY <2>2 DEF ReadsNow
<1>7. CASE Check \/ RefuseEdit \/ Preview
  <2>1. /\ job'.reads = TextsIn(Seen, InScope) /\ InScope \subseteq 1 .. Len(session.slots)
        /\ Seen.slots = session.slots /\ ~session.poisoned
    BY <1>7, ScopeReads
  <2>2. session'.slots = session.slots /\ session'.poisoned = session.poisoned
    BY <1>7, StillSteps DEF Still
  <2> DEFINE scope == InScope
  <2>3. job'.reads = [f \in scope |-> session.slots[f].text]  BY <2>1 DEF TextsIn
  <2>4. scope \subseteq 1 .. Len(session.slots)  BY <2>1
  <2> HIDE DEF scope
  <2> QED BY <2>1, <2>2, <2>3, <2>4 DEF ReadsNow
<1>8. CASE RefuseStale  BY <1>0, <1>8, AnswersAnswer DEF RefuseStale, Ends
<1>9. CASE Apply  BY <1>9 DEF Apply, Ends, ReadsNow
<1>10. CASE Write
  <2>1. job'.pc = "write"  BY <1>10, WriteRewrites
  <2> QED BY <2>1 DEF ReadsNow
<1>11. CASE Applied  BY <1>0, <1>11 DEF Applied, Ends
<1>12. CASE Deliver  BY <1>12 DEF Deliver, Idle, ReadsNow
<1>13. CASE Panic  BY <1>0, <1>13, AnswersAnswer DEF Panic, Panics, Ends
<1>14. CASE Save  BY <1>14 DEF Save, ReadsNow
<1>15. CASE UNCHANGED vars  BY <1>15 DEF vars, ReadsNow
<1> QED BY <1>1, <1>2, <1>3, <1>4, <1>5, <1>6, <1>7, <1>8, <1>9, <1>10, <1>11, <1>12, <1>13,
           <1>14, <1>15 DEF Next, Handle

\* The steps by which a session grows, and the history with it.
LEMMA GrowingSteps ==
  ASSUME TypeInv, (\E r \in Requests : Fmt(r) \/ Load(r)) \/ BindSiblings
  PROVE  /\ Grows(session, session') /\ ghost' = Grown(session') /\ UNCHANGED <<disk, preview>>
         /\ job.pc \in {"idle", "read"} /\ ~session.poisoned
<1>1. ASSUME NEW r \in Requests, Fmt(r) \/ Load(r)
      PROVE  /\ Grows(session, session') /\ ghost' = Grown(session') /\ UNCHANGED <<disk, preview>>
             /\ job.pc \in {"idle", "read"} /\ ~session.poisoned
  <2>1. Admitted(r, {"fmt"}) \/ Admitted(r, {"check", "edit"})  BY <1>1 DEF Fmt, Load
  <2>2. r.path \in Paths /\ ~session.poisoned /\ job = Idle
    BY <2>1, RequestIs DEF Admitted, Received, TypeInv, SessionOK, RefusedOps
  <2>3. /\ session' = OpenPath(session, r.path) /\ ghost' = Grown(session')
        /\ UNCHANGED <<disk, preview>>
    BY <1>1 DEF Fmt, Load, Ends
  <2>4. job.pc = "idle"  BY <2>2 DEF Idle
  <2> QED BY <2>2, <2>3, <2>4, OpenPathGrows DEF TypeInv
<1>2. CASE BindSiblings
  <2>1. /\ job.pc = "read" /\ ReadOK /\ job.found # <<>>
        /\ session' = BindSibling(session, Head(job.found)) /\ ghost' = Grown(session')
        /\ UNCHANGED <<disk, preview>>
    BY <1>2 DEF TypeInv, JobOK, BindSiblings
  <2>2. Head(job.found) \in [path : Paths, text : Text]
    BY <2>1, HeadTailProperties DEF ReadOK
  <2> QED BY <2>1, <2>2, BindSiblingGrows DEF TypeInv, ReadOK
<1> QED BY <1>1, <1>2

\* The history after such a step.
LEMMA GrownHistory ==
  ASSUME TypeInv, Grows(session, session'), ghost' = Grown(session')
  PROVE  /\ ghost.whole = session.slots => ghost'.whole = session'.slots
         /\ ghost'.written = ghost.written /\ ghost'.aliased = ghost.aliased
<1>1. PICK whole : whole = Prolong(ghost.whole, session'.slots)  OBVIOUS
<1>2. ghost' = [ghost EXCEPT !.whole = whole]  BY <1>1 DEF Grown, Prolong
<1>3. SessionOK(session) /\ GhostOK  BY DEF TypeInv
<1>4. ghost.whole \in Seq(Slot) /\ Len(ghost.whole) = Len(session.slots)  BY <1>3 DEF GhostOK
<1>5. ghost.whole = session.slots => whole = session'.slots  BY <1>1, <1>3, <1>4, GrownIs
<1> QED BY <1>2, <1>3, <1>5 DEF GhostOK

LEMMA WholeStep == TypeInv /\ WholeNow /\ [Next]_vars => WholeNow'
<1> SUFFICES ASSUME TypeInv, WholeNow, [Next]_vars PROVE WholeNow'
  OBVIOUS
<1>1. CASE \/ \E r \in Requests : RefusePoisoned(r) \/ Diff(r)
           \/ RefuseStale \/ Check \/ RefuseEdit \/ Preview \/ Apply \/ ReadSibling
  BY <1>1, StillSteps DEF Still, WholeNow
<1>2. ASSUME NEW r \in Requests, OpenOrSet(r) PROVE WholeNow'
  <2> DEFINE s == IF session.poisoned THEN NewSession(session.id + 1) ELSE session
             next == IF r.op = "set" THEN BindText(s, r.path, r.text) ELSE OpenPath(s, r.path)
             kept == IF session.poisoned
                     THEN [ghost EXCEPT !.written = Forgotten, !.aliased = {}] ELSE ghost
  <2>1. /\ session' = next
        /\ ghost' = [kept EXCEPT !.whole = next.slots,
                                 !.written[r.path] = IF r.op = "set" THEN r.text ELSE @]
    BY <1>2 DEF OpenOrSet, Ends
  <2> HIDE DEF next
  <2>2. GhostOK  BY DEF TypeInv
  <2>3. kept \in [whole : Seq(Slot), written : [Paths -> Text \cup {NoFile}], aliased : SUBSET Paths,
                  requests : Nat, saves : Nat, panics : Nat]
    <3>1. Forgotten \in [Paths -> Text \cup {NoFile}]  BY DEF Forgotten
    <3> QED BY <2>2, <3>1 DEF GhostOK
  <2> HIDE DEF kept
  <2>4. ghost'.whole = session'.slots  BY <2>1, <2>3
  <2> QED BY <2>4 DEF WholeNow
<1>3. ASSUME NEW r \in Requests, Close(r) PROVE WholeNow'
  <2>1. job = Idle /\ session' = [session EXCEPT !.files[Key(r.path)] = 0]
        /\ ghost' = [ghost EXCEPT !.aliased = @ \cup {r.path}]
    BY <1>3 DEF Close, Ends, Admitted, Received
  <2>2. session'.slots = session.slots /\ session'.poisoned = session.poisoned
    BY <2>1 DEF TypeInv, SessionOK
  <2>3. ghost'.whole = ghost.whole  BY <2>1 DEF TypeInv, GhostOK
  <2>4. job.pc = "idle"  BY <2>1 DEF Idle
  <2> QED BY <2>2, <2>3, <2>4 DEF WholeNow
<1>4. CASE (\E r \in Requests : Fmt(r) \/ Load(r)) \/ BindSiblings
  <2>1. /\ Grows(session, session') /\ ghost' = Grown(session')
        /\ job.pc \in {"idle", "read"} /\ ~session.poisoned
    BY <1>4, GrowingSteps
  <2>2. ghost.whole = session.slots  BY <2>1 DEF WholeNow
  <2>3. ghost'.whole = session'.slots  BY <2>1, <2>2, GrownHistory
  <2> QED BY <2>3 DEF WholeNow
<1>5. CASE Write
  <2>1. job'.pc = "write"  BY <1>5, WriteRewrites
  <2> QED BY <2>1 DEF WholeNow
<1>6. CASE Applied
  <2>1. session' = session /\ ghost' = [ghost EXCEPT !.whole = session.slots,
          !.written = [p \in Paths |-> IF Bound(session, p) \in DOMAIN job.wrote
                                       THEN job.wrote[Bound(session, p)] ELSE @[p]]]
    BY <1>6 DEF Applied, Ends
  <2>2. ghost'.whole = session.slots  BY <2>1 DEF TypeInv, GhostOK
  <2> QED BY <2>1, <2>2 DEF WholeNow
<1>7. CASE Deliver
  <2>1. job.pc = "answer" /\ session' = session /\ ghost' = [ghost EXCEPT !.requests = @ + 1]
    BY <1>7 DEF Deliver
  <2>2. ghost'.whole = ghost.whole  BY <2>1 DEF TypeInv, GhostOK
  <2> QED BY <2>1, <2>2 DEF WholeNow
<1>8. CASE Panic
  <2>1. session' = [session EXCEPT !.poisoned = TRUE]  BY <1>8 DEF Panic, Panics, Ends
  <2>2. session'.poisoned  BY <2>1 DEF TypeInv, SessionOK
  <2> QED BY <2>2 DEF WholeNow
<1>9. CASE Save
  <2>1. session' = session /\ job' = job /\ ghost'.whole = ghost.whole
    BY <1>9 DEF Save, TypeInv, GhostOK
  <2> QED BY <2>1 DEF WholeNow
<1>10. CASE UNCHANGED vars  BY <1>10 DEF vars, WholeNow
<1> QED BY <1>1, <1>2, <1>3, <1>4, <1>5, <1>6, <1>7, <1>8, <1>9, <1>10 DEF Next, Handle

\* No answer is computed from an apply that a panic cut short: after a panic in the middle
\* of set_sources the session answers only the requests that reset it (Session::reset,
\* handle: poisoned), and before the last write nothing is answered.
THEOREM NothingHalf == Spec => []NothingHalfServed
<1>1. Init => HalfInv
  BY DEF Init, HalfInv, ReadsNow, WholeNow, NewSession, Idle
<1>2. TypeInv /\ HalfInv /\ [Next]_vars => HalfInv'
  BY ReadsStep, WholeStep DEF HalfInv
<1>3. HalfInv => NothingHalfServed
  BY DEF HalfInv, ReadsNow, WholeNow, NothingHalfServed
<1>4. TypeInv /\ [Next]_vars => TypeInv'  BY TypesStep
<1> QED BY <1>1, <1>2, <1>3, <1>4, TypesInit, PTL DEF Spec

-----------------------------------------------------------------------------
(* The client's texts win. *)

\* Where a path was neither closed nor created or removed: its one slot is the bound one,
\* and a path the client has written is bound.
Unique(s, written, aliased) ==
  \A p \in Paths \ aliased :
    /\ \A f \in 1 .. Len(s.slots) : s.slots[f].path = p => Bound(s, p) = f
    /\ written[p] # NoFile => Bound(s, p) > 0
\* Such a slot has what the client has written, if anything.
Written(s, written, aliased) ==
  \A f \in 1 .. Len(s.slots) :
    s.slots[f].path \notin aliased => written[s.slots[f].path] \in {NoFile, s.slots[f].text}

UniqueNow == Unique(session, ghost.written, ghost.aliased)
WrittenNow ==
  ~session.poisoned =>
    \A f \in 1 .. Len(session.slots) :
      session.slots[f].path \notin ghost.aliased =>
        IF job.pc = "write" /\ f \in DOMAIN job.wrote
        THEN f \in job.left \/ session.slots[f].text = job.wrote[f]
        ELSE ghost.written[session.slots[f].path] \in {NoFile, session.slots[f].text}
ClientInv == ReadsNow /\ UniqueNow /\ WrittenNow

LEMMA PathsOfSlots ==
  ASSUME NEW s, SessionOK(s), NEW f \in 1 .. Len(s.slots)
  PROVE  s.slots[f].path \in Paths
<1>1. s.slots \in Seq(Slot)  BY DEF SessionOK
<1>2. s.slots[f] \in Slot  BY <1>1, ElementOfSeq
<1> QED BY <1>2 DEF Slot

\* Paths have keys of their own.
LEMMA KeysDiffer ==
  ASSUME NEW p \in Paths, NEW q \in Paths, p # q PROVE Key(p) # Key(q)
BY DEF Key

LEMMA BoundToOther ==
  ASSUME NEW s, NEW p \in Paths, NEW text, NEW t, Binds(s, p, text, t), NEW q \in Paths, q # p
  PROVE  Bound(t, q) = Bound(s, q)
<1>1. Key(q) \in Keys /\ Key(q) # Key(p)  BY KeyOfPath, KeysDiffer
<1> QED BY <1>1 DEF Binds, Bound

LEMMA NewIsUnique ==
  ASSUME NEW n
  PROVE  Unique(NewSession(n), Forgotten, {}) /\ Written(NewSession(n), Forgotten, {})
<1>1. Len(<<>>) = 0  BY EmptySeq
<1> QED BY <1>1 DEF Unique, Written, NewSession, Forgotten

\* A slot more for a path that had none.
LEMMA BindsKeepsUnique ==
  ASSUME NEW s, SessionOK(s), NEW p \in Paths, NEW text \in Text, NEW t, Bound(s, p) = 0,
         Binds(s, p, text, t), NEW w, NEW aliased, Unique(s, w, aliased), Written(s, w, aliased)
  PROVE  Unique(t, w, aliased) /\ Written(t, w, aliased)
<1>1. PICK slot : slot = [path |-> p, text |-> text, changed |-> s.revision + 1]  OBVIOUS
<1>2. /\ Len(t.slots) = Len(s.slots) + 1 /\ t.slots[Len(s.slots) + 1] = slot
      /\ \A f \in 1 .. Len(s.slots) : t.slots[f] = s.slots[f]
      /\ Len(s.slots) \in Nat
  <2>1. s.slots \in Seq(Slot) /\ slot \in Slot  BY <1>1 DEF SessionOK, Slot
  <2>2. t.slots = Append(s.slots, slot)  BY <1>1 DEF Binds
  <2> QED BY <2>1, <2>2, AppendProperties, LenProperties
<1>3. Bound(t, p) = Len(s.slots) + 1  BY BindsLeads
<1>4. \A q \in Paths : q # p => Bound(t, q) = Bound(s, q)  BY BoundToOther
<1>5. Unique(t, w, aliased)
  <2> SUFFICES ASSUME NEW q \in Paths \ aliased
               PROVE  /\ \A f \in 1 .. Len(t.slots) : t.slots[f].path = q => Bound(t, q) = f
                      /\ w[q] # NoFile => Bound(t, q) > 0
    BY DEF Unique
  <2>1. /\ \A f \in 1 .. Len(s.slots) : s.slots[f].path = q => Bound(s, q) = f
        /\ w[q] # NoFile => Bound(s, q) > 0
    BY DEF Unique
  <2>2. CASE q = p
    <3>1. \A f \in 1 .. Len(s.slots) : s.slots[f].path # q  BY <1>2, <2>1, <2>2
    <3> QED BY <1>2, <1>3, <2>2, <3>1
  <2>3. CASE q # p
    <3>1. slot.path # q  BY <1>1, <2>3
    <3>2. Bound(t, q) = Bound(s, q)  BY <1>4, <2>3
    <3> QED BY <1>2, <2>1, <3>1, <3>2
  <2> QED BY <2>2, <2>3
<1>6. Written(t, w, aliased)
  <2> SUFFICES ASSUME NEW f \in 1 .. Len(t.slots), t.slots[f].path \notin aliased
               PROVE  w[t.slots[f].path] \in {NoFile, t.slots[f].text}
    BY DEF Written
  <2>1. CASE f \in 1 .. Len(s.slots)  BY <1>2, <2>1 DEF Written
  <2>2. CASE f = Len(s.slots) + 1
    <3>1. t.slots[f].path = p  BY <1>1, <1>2, <2>2
    <3>2. w[p] = NoFile  BY <3>1 DEF Unique
    <3> QED BY <3>1, <3>2
  <2> QED BY <1>2, <2>1, <2>2
<1> QED BY <1>5, <1>6

LEMMA GrowsKeepsUnique ==
  ASSUME NEW s, SessionOK(s), NEW t, Grows(s, t), NEW w, NEW aliased,
         Unique(s, w, aliased), Written(s, w, aliased)
  PROVE  Unique(t, w, aliased) /\ Written(t, w, aliased)
<1>1. CASE t = s  BY <1>1
<1>2. ASSUME NEW p \in Paths, NEW text \in Text, Bound(s, p) = 0, Binds(s, p, text, t)
      PROVE  Unique(t, w, aliased) /\ Written(t, w, aliased)
  BY <1>2, BindsKeepsUnique
<1> QED BY <1>1, <1>2 DEF Grows

\* A set gives the path's slot what the client has written now.
LEMMA SetKeepsUnique ==
  ASSUME NEW s, SessionOK(s), NEW p \in Paths, NEW text \in Text,
         NEW w \in [Paths -> Text \cup {NoFile}], NEW aliased,
         Unique(s, w, aliased), Written(s, w, aliased),
         NEW t, t = BindText(s, p, text), NEW v, v = [w EXCEPT ![p] = text]
  PROVE  Unique(t, v, aliased) /\ Written(t, v, aliased)
<1>0. v[p] = text /\ \A q \in Paths : q # p => v[q] = w[q]  OBVIOUS
<1>1. CASE Bound(s, p) = 0
  <2>1. Binds(s, p, text, t)  BY <1>1, BindTextIs
  <2>2. Unique(t, w, aliased) /\ Written(t, w, aliased)  BY <1>1, <2>1, BindsKeepsUnique
  <2>3. Bound(t, p) = Len(s.slots) + 1 /\ Len(s.slots) \in Nat
    BY <2>1, BindsLeads, LenProperties DEF SessionOK
  <2>4. Unique(t, v, aliased)  BY <1>0, <2>2, <2>3 DEF Unique
  <2>5. Written(t, v, aliased)
    <3> SUFFICES ASSUME NEW f \in 1 .. Len(t.slots), t.slots[f].path \notin aliased
                 PROVE  v[t.slots[f].path] \in {NoFile, t.slots[f].text}
      BY DEF Written
    <3>1. SessionOK(t)  BY <2>1 DEF Binds
    <3>2. t.slots[f].path \in Paths  BY <3>1, PathsOfSlots
    <3>3. CASE t.slots[f].path = p
      <4>1. Bound(t, p) = f  BY <2>2, <3>3 DEF Unique
      <4>2. f = Len(s.slots) + 1  BY <2>3, <4>1
      <4>3. PICK slot : slot = [path |-> p, text |-> text, changed |-> s.revision + 1]  OBVIOUS
      <4>4. s.slots \in Seq(Slot) /\ slot \in Slot  BY <4>3 DEF SessionOK, Slot
      <4>5. t.slots = Append(s.slots, slot)  BY <2>1, <4>3 DEF Binds
      <4>6. t.slots[f] = slot  BY <4>2, <4>4, <4>5, AppendProperties
      <4> QED BY <1>0, <3>3, <4>3, <4>6
    <3>4. CASE t.slots[f].path # p
      BY <1>0, <2>2, <3>2, <3>4 DEF Written
    <3> QED BY <3>3, <3>4
  <2> QED BY <2>4, <2>5
<1>2. CASE Bound(s, p) > 0
  <2>1. PICK b : b = Bound(s, p)  OBVIOUS
  <2>2. b \in 1 .. Len(s.slots) /\ s.slots[b].path = p  BY <1>2, <2>1, BoundIs
  <2>3. Rewrites(s, b, text, s.revision + 1, t)  BY <1>2, <2>1, BindTextIs
  <2>4. /\ Len(t.slots) = Len(s.slots) /\ t.files = s.files
        /\ t.slots[b].text = text /\ t.slots[b].path = p
        /\ \A g \in 1 .. Len(s.slots) : g # b => t.slots[g] = s.slots[g]
    BY <2>2, <2>3 DEF Rewrites
  <2>5. \A q \in Paths : Bound(t, q) = Bound(s, q)  BY <2>4 DEF Bound
  <2>6. \A g \in 1 .. Len(s.slots) : t.slots[g].path = s.slots[g].path  BY <2>2, <2>4
  <2>7. Unique(t, v, aliased)
    BY <1>0, <1>2, <2>1, <2>4, <2>5, <2>6 DEF Unique
  <2>8. Written(t, v, aliased)
    <3> SUFFICES ASSUME NEW f \in 1 .. Len(t.slots), t.slots[f].path \notin aliased
                 PROVE  v[t.slots[f].path] \in {NoFile, t.slots[f].text}
      BY DEF Written
    <3>1. f \in 1 .. Len(s.slots) /\ s.slots[f].path \in Paths /\ t.slots[f].path = s.slots[f].path
      BY <2>4, <2>6, PathsOfSlots
    <3>2. CASE f = b  BY <1>0, <2>4, <3>2
    <3>3. CASE f # b
      <4>1. s.slots[f].path # p  BY <2>1, <3>1, <3>3 DEF Unique
      <4> QED BY <1>0, <2>4, <3>1, <3>3, <4>1 DEF Written
    <3> QED BY <3>2, <3>3
  <2> QED BY <2>7, <2>8
<1>3. Bound(s, p) \in 0 .. Len(s.slots)  BY BoundIs
<1> QED BY <1>1, <1>2, <1>3

\* Between two requests, and while a request is read in, the written texts are plain.
LEMMA WrittenPlain ==
  ASSUME ~session.poisoned, job.pc # "write"
  PROVE  WrittenNow <=> Written(session, ghost.written, ghost.aliased)
BY DEF WrittenNow, Written

\* Unique speaks of the disk; a step that leaves it alone may be reasoned about before it.
LEMMA UniqueNext ==
  ASSUME UNCHANGED disk, Unique(session', ghost'.written, ghost'.aliased)
  PROVE  UniqueNow'
BY DEF UniqueNow, Unique, Bound, Key

LEMMA ClientStill ==
  ASSUME TypeInv, UniqueNow, WrittenNow, Still, job.pc \in {"idle", "read"},
         job'.pc = "write" => job'.left = DOMAIN job'.wrote
  PROVE  UniqueNow' /\ WrittenNow'
<1>1. UniqueNow'  BY DEF UniqueNow, Unique, Bound, Key, Still
<1>2. WrittenNow'  BY DEF WrittenNow, Still
<1> QED BY <1>1, <1>2

LEMMA ClientGrown ==
  ASSUME TypeInv, UniqueNow, WrittenNow, Grows(session, session'), ghost' = Grown(session'),
         UNCHANGED disk, job.pc \in {"idle", "read"}, job'.pc # "write", ~session.poisoned
  PROVE  UniqueNow' /\ WrittenNow'
<1>1. /\ SessionOK(session) /\ Unique(session, ghost.written, ghost.aliased)
      /\ Written(session, ghost.written, ghost.aliased)
  BY WrittenPlain DEF TypeInv, UniqueNow
<1>2. ghost'.written = ghost.written /\ ghost'.aliased = ghost.aliased  BY GrownHistory
<1>3. /\ Unique(session', ghost'.written, ghost'.aliased)
      /\ Written(session', ghost'.written, ghost'.aliased)
  BY <1>1, <1>2, GrowsKeepsUnique
<1>4. UniqueNow'  BY <1>3, UniqueNext
<1>5. WrittenNow'  BY <1>3 DEF WrittenNow, Written
<1> QED BY <1>4, <1>5

LEMMA ClientOpenOrSet ==
  ASSUME TypeInv, UniqueNow, WrittenNow, NEW r \in Requests, OpenOrSet(r)
  PROVE  UniqueNow' /\ WrittenNow'
<1>1. PICK s, w, a :
        /\ s = IF session.poisoned THEN NewSession(session.id + 1) ELSE session
        /\ w = IF session.poisoned THEN Forgotten ELSE ghost.written
        /\ a = IF session.poisoned THEN {} ELSE ghost.aliased
  OBVIOUS
<1>2. r.path \in Paths /\ (r.op = "set" => r.text \in Text)
  BY RequestIs DEF OpenOrSet, Admitted, Received, TypeInv, SessionOK
<1>3. PICK t : t = IF r.op = "set" THEN BindText(s, r.path, r.text) ELSE OpenPath(s, r.path)
  OBVIOUS
<1>4. PICK v : v = [w EXCEPT ![r.path] = IF r.op = "set" THEN r.text ELSE @]  OBVIOUS
<1>5. /\ job = Idle /\ session' = t /\ UNCHANGED disk /\ job'.pc = "answer"
      /\ ghost'.written = v /\ ghost'.aliased = a
  <2>1. GhostOK  BY DEF TypeInv
  <2>2. PICK kept : kept = IF session.poisoned
                           THEN [ghost EXCEPT !.written = Forgotten, !.aliased = {}] ELSE ghost
    OBVIOUS
  <2>3. PICK whole, m, n, k : kept = [whole |-> whole, written |-> w, aliased |-> a,
                                      requests |-> m, saves |-> n, panics |-> k]
    BY <1>1, <2>1, <2>2 DEF GhostOK
  <2>4. ghost' = [kept EXCEPT !.whole = t.slots,
                              !.written[r.path] = IF r.op = "set" THEN r.text ELSE @]
    BY <1>1, <1>3, <2>2 DEF OpenOrSet, Ends
  <2>5. ghost' = [kept EXCEPT !.whole = t.slots, !.written = v]  BY <1>4, <2>3, <2>4
  <2>6. ghost'.written = v /\ ghost'.aliased = a  BY <2>3, <2>5
  <2>7. job = Idle /\ session' = t /\ UNCHANGED disk
    BY <1>1, <1>3 DEF OpenOrSet, Ends, Admitted, Received
  <2>8. job'.pc = "answer"  BY AnswersAnswer DEF OpenOrSet, Ends
  <2> QED BY <2>6, <2>7, <2>8
<1>6. /\ SessionOK(s) /\ ~s.poisoned /\ w \in [Paths -> Text \cup {NoFile}]
      /\ Unique(s, w, a) /\ Written(s, w, a)
  <2>1. CASE session.poisoned
    <3>1. Forgotten \in [Paths -> Text \cup {NoFile}]  BY DEF Forgotten
    <3>2. session.id + 1 \in Nat  BY DEF TypeInv, SessionOK
    <3>3. ~NewSession(session.id + 1).poisoned  BY DEF NewSession
    <3> QED BY <1>1, <2>1, <3>1, <3>2, <3>3, NewIsOK, NewIsUnique
  <2>2. CASE ~session.poisoned
    <3>1. job.pc # "write"  BY <1>5 DEF Idle
    <3>2. Written(session, ghost.written, ghost.aliased)  BY <2>2, <3>1, WrittenPlain
    <3>3. s = session /\ w = ghost.written /\ a = ghost.aliased  BY <1>1, <2>2
    <3> QED BY <2>2, <3>2, <3>3 DEF TypeInv, GhostOK, UniqueNow
  <2> QED BY <2>1, <2>2
<1>7. Unique(t, v, a) /\ Written(t, v, a)
  <2>1. CASE r.op = "set"
    <3>1. t = BindText(s, r.path, r.text) /\ v = [w EXCEPT ![r.path] = r.text]
      BY <1>3, <1>4, <2>1
    <3> QED BY <1>2, <1>6, <2>1, <3>1, SetKeepsUnique
  <2>2. CASE r.op # "set"
    <3>1. v = w  BY <1>4, <1>6, <2>2
    <3>2. Grows(s, t)  BY <1>2, <1>3, <1>6, <2>2, OpenPathGrows DEF TypeInv
    <3> QED BY <1>6, <3>1, <3>2, GrowsKeepsUnique
  <2> QED BY <2>1, <2>2
<1>8. UniqueNow'  BY <1>5, <1>7, UniqueNext
<1>9. WrittenNow'  BY <1>5, <1>7 DEF WrittenNow, Written
<1> QED BY <1>8, <1>9

\* A path that is closed may get a second slot, the others keep theirs.
LEMMA ClientClose ==
  ASSUME TypeInv, UniqueNow, WrittenNow, NEW r \in Requests, Close(r)
  PROVE  UniqueNow' /\ WrittenNow'
<1>1. r.path \in Paths /\ job.pc = "idle"
  BY RequestIs DEF Close, Admitted, Received, TypeInv, SessionOK, Idle
<1>2. /\ session' = [session EXCEPT !.files[Key(r.path)] = 0]
      /\ ghost' = [ghost EXCEPT !.aliased = @ \cup {r.path}]
      /\ UNCHANGED disk /\ job'.pc = "answer"
  BY AnswersAnswer DEF Close, Ends
<1>3. /\ session'.slots = session.slots /\ session'.poisoned = session.poisoned
      /\ session'.files = [session.files EXCEPT ![Key(r.path)] = 0]
      /\ session.files \in [Keys -> Nat]
  BY <1>2 DEF TypeInv, SessionOK
<1>4. ghost'.aliased = ghost.aliased \cup {r.path} /\ ghost'.written = ghost.written
  BY <1>2 DEF TypeInv, GhostOK
<1>5. UniqueNow'
  <2>1. ASSUME NEW p \in Paths \ ghost'.aliased
        PROVE  Bound(session', p) = Bound(session, p) /\ p \in Paths \ ghost.aliased
    <3>1. p \in Paths \ ghost.aliased /\ p # r.path  BY <1>4
    <3>2. Key(p) \in Keys /\ Key(p) # Key(r.path)  BY <1>1, <3>1, KeyOfPath, KeysDiffer
    <3> QED BY <1>3, <3>1, <3>2 DEF Bound
  <2>2. Unique(session', ghost'.written, ghost'.aliased)
    BY <1>3, <1>4, <2>1 DEF UniqueNow, Unique
  <2> QED BY <1>2, <2>2, UniqueNext
<1>6. WrittenNow'  BY <1>1, <1>2, <1>3, <1>4 DEF WrittenNow
<1> QED BY <1>5, <1>6

\* A file that is written has its new text, and is no more among those left.
LEMMA ClientWrite ==
  ASSUME TypeInv, UniqueNow, WrittenNow, Write
  PROVE  UniqueNow' /\ WrittenNow'
<1>1. PICK f \in job.left :
        /\ f \in 1 .. Len(session.slots)
        /\ Rewrites(session, f, job.wrote[f], session.revision, session')
        /\ job' = [pc |-> "write", request |-> job.request, wrote |-> job.wrote,
                   left |-> job.left \ {f}]
        /\ UNCHANGED <<disk, preview, ghost>>
  BY WriteRewrites
<1>2. /\ Len(session'.slots) = Len(session.slots) /\ session'.files = session.files
      /\ session'.poisoned = session.poisoned
      /\ session'.slots[f].text = job.wrote[f]
      /\ \A g \in 1 .. Len(session.slots) : g # f => session'.slots[g] = session.slots[g]
      /\ \A g \in 1 .. Len(session.slots) : session'.slots[g].path = session.slots[g].path
  BY <1>1 DEF Rewrites
<1>3. job.pc = "write" /\ f \in DOMAIN job.wrote  BY <1>1 DEF Write, TypeInv, JobOK, WriteOK
<1>4. UniqueNow'
  <2>1. Unique(session', ghost.written, ghost.aliased)
    BY <1>2 DEF UniqueNow, Unique, Bound
  <2> QED BY <1>1, <2>1, UniqueNext
<1>5. WrittenNow'
  <2> SUFFICES ASSUME ~session.poisoned, NEW g \in 1 .. Len(session.slots),
                      session.slots[g].path \notin ghost.aliased
               PROVE  IF g \in DOMAIN job.wrote
                      THEN g \in job.left \ {f} \/ session'.slots[g].text = job.wrote[g]
                      ELSE ghost.written[session.slots[g].path] \in {NoFile, session'.slots[g].text}
    BY <1>1, <1>2 DEF WrittenNow
  <2>1. CASE g = f  BY <1>2, <1>3, <2>1
  <2>2. CASE g # f  BY <1>2, <1>3, <2>2 DEF WrittenNow
  <2> QED BY <2>1, <2>2
<1> QED BY <1>4, <1>5

\* An apply that ends has written all of its texts, and the client knows them.
LEMMA ClientApplied ==
  ASSUME TypeInv, UniqueNow, WrittenNow, Applied
  PROVE  UniqueNow' /\ WrittenNow'
<1>1. job.pc = "write" /\ job.left = {} /\ WriteOK  BY DEF TypeInv, JobOK, Applied
<1>2. PICK written :
        written = [p \in Paths |-> IF Bound(session, p) \in DOMAIN job.wrote
                                   THEN job.wrote[Bound(session, p)] ELSE ghost.written[p]]
  OBVIOUS
<1>3. /\ UNCHANGED <<session, disk>> /\ job'.pc = "answer"
      /\ ghost' = [ghost EXCEPT !.whole = session.slots, !.written = written]
  BY <1>2 DEF Applied, Ends
<1>4. ghost'.written = written /\ ghost'.aliased = ghost.aliased
  BY <1>3 DEF TypeInv, GhostOK
<1>5. Len(session.slots) \in Nat /\ DOMAIN job.wrote \subseteq 1 .. Len(session.slots)
  BY <1>1, LenProperties DEF WriteOK, TypeInv, SessionOK
<1>6. UniqueNow'
  <2>1. ASSUME NEW p \in Paths \ ghost.aliased, written[p] # NoFile
        PROVE  Bound(session, p) > 0
    <3>1. CASE Bound(session, p) \in DOMAIN job.wrote  BY <1>5, <3>1
    <3>2. CASE Bound(session, p) \notin DOMAIN job.wrote
      <4>1. written[p] = ghost.written[p]  BY <1>2, <3>2
      <4> QED BY <2>1, <4>1 DEF UniqueNow, Unique
    <3> QED BY <3>1, <3>2
  <2>2. Unique(session, written, ghost.aliased)  BY <2>1 DEF UniqueNow, Unique
  <2> QED BY <1>3, <1>4, <2>2, UniqueNext
<1>7. WrittenNow'
  <2> SUFFICES ASSUME ~session.poisoned, NEW f \in 1 .. Len(session.slots),
                      session.slots[f].path \notin ghost.aliased
               PROVE  written[session.slots[f].path] \in {NoFile, session.slots[f].text}
    BY <1>3, <1>4 DEF WrittenNow
  <2>1. session.slots[f].path \in Paths  BY PathsOfSlots DEF TypeInv
  <2>2. Bound(session, session.slots[f].path) = f  BY <2>1 DEF UniqueNow, Unique
  <2>3. CASE f \in DOMAIN job.wrote
    <3>1. session.slots[f].text = job.wrote[f]  BY <1>1, <2>3 DEF WrittenNow
    <3> QED BY <1>2, <2>1, <2>2, <2>3, <3>1
  <2>4. CASE f \notin DOMAIN job.wrote
    <3>1. ghost.written[session.slots[f].path] \in {NoFile, session.slots[f].text}
      BY <1>1, <2>4 DEF WrittenNow
    <3> QED BY <1>2, <2>1, <2>2, <2>4, <3>1
  <2> QED BY <2>3, <2>4
<1> QED BY <1>6, <1>7

\* A file that is created or removed may get a second slot, the others keep their keys.
LEMMA ClientSave ==
  ASSUME TypeInv, UniqueNow, WrittenNow, Save
  PROVE  UniqueNow' /\ WrittenNow'
<1>1. PICK p \in Paths : \E text \in TextsOf[p] \cup {NoFile} :
        /\ disk' = [disk EXCEPT ![p] = text]
        /\ ghost' = [ghost EXCEPT !.saves = @ + 1,
                       !.aliased = IF (text = NoFile) = (disk[p] = NoFile) THEN @ ELSE @ \cup {p}]
        /\ UNCHANGED <<session, job, preview>>
  BY DEF Save
<1>2. PICK text \in TextsOf[p] \cup {NoFile} :
        /\ disk' = [disk EXCEPT ![p] = text]
        /\ ghost' = [ghost EXCEPT !.saves = @ + 1,
                       !.aliased = IF (text = NoFile) = (disk[p] = NoFile) THEN @ ELSE @ \cup {p}]
        /\ UNCHANGED <<session, job, preview>>
  BY <1>1
<1>3. PICK aliased :
        aliased = IF (text = NoFile) = (disk[p] = NoFile) THEN ghost.aliased ELSE ghost.aliased \cup {p}
  OBVIOUS
<1>4. /\ ghost'.aliased = aliased /\ ghost'.written = ghost.written
      /\ ghost.aliased \subseteq aliased
  BY <1>2, <1>3 DEF TypeInv, GhostOK
<1>5. disk \in [Paths -> AllTexts \cup {NoFile}]  BY DEF TypeInv, DiskOK
<1>6. ASSUME NEW q \in Paths \ aliased PROVE Key(q)' = Key(q)
  <2>1. CASE q = p
    <3>1. (text = NoFile) = (disk[p] = NoFile)  BY <1>3, <2>1
    <3>2. disk'[q] = text  BY <1>2, <1>5, <2>1
    <3>3. (disk'[q] # NoFile) = (disk[q] # NoFile)  BY <2>1, <3>1, <3>2
    <3> QED BY <3>3 DEF Key
  <2>2. CASE q # p
    <3>1. disk'[q] = disk[q]  BY <1>2, <1>5, <2>2
    <3> QED BY <3>1 DEF Key
  <2> QED BY <2>1, <2>2
<1>7. ASSUME NEW q \in Paths \ aliased PROVE Bound(session, q)' = Bound(session, q)
  BY <1>2, <1>6 DEF Bound
<1>8. UniqueNow'  BY <1>2, <1>4, <1>7 DEF UniqueNow, Unique
<1>9. WrittenNow'  BY <1>2, <1>4 DEF WrittenNow
<1> QED BY <1>8, <1>9

LEMMA GrowingIsNoWrite ==
  ASSUME TypeInv, (\E r \in Requests : Fmt(r) \/ Load(r)) \/ BindSiblings
  PROVE  job'.pc # "write"
<1>1. CASE BindSiblings
  <2>1. job.pc = "read" /\ ReadOK  BY <1>1 DEF BindSiblings, TypeInv, JobOK
  <2> QED BY <1>1, <2>1 DEF BindSiblings, ReadOK
<1>2. ASSUME NEW r \in Requests, Fmt(r) PROVE job'.pc # "write"
  BY <1>2, AnswersAnswer DEF Fmt, Ends
<1>3. ASSUME NEW r \in Requests, Load(r) PROVE job'.pc # "write"
  <2>1. PICK s, left : job' = IF Bound(s, r.path) = 0 THEN Answer("io", s)
                              ELSE [pc |-> "read", request |-> r, root |-> Bound(s, r.path),
                                    left |-> left, found |-> <<>>]
    BY <1>3 DEF Load, Ends
  <2> QED BY <2>1, AnswersAnswer
<1> QED BY <1>1, <1>2, <1>3

LEMMA ClientStep ==
  TypeInv /\ UniqueNow /\ WrittenNow /\ [Next]_vars => UniqueNow' /\ WrittenNow'
<1> SUFFICES ASSUME TypeInv, UniqueNow, WrittenNow, [Next]_vars PROVE UniqueNow' /\ WrittenNow'
  OBVIOUS
<1>1. CASE \/ \E r \in Requests : RefusePoisoned(r) \/ Diff(r)
           \/ RefuseStale \/ Check \/ RefuseEdit \/ Preview \/ Apply \/ ReadSibling
  <2>1. Still /\ job.pc \in {"idle", "read"}  BY <1>1, StillSteps
  <2>2. job'.pc = "write" => job'.left = DOMAIN job'.wrote
    <3>1. CASE Apply  BY <3>1 DEF Apply, Ends
    <3>2. CASE ReadSibling
      <4>1. job.pc = "read" /\ ReadOK  BY <3>2 DEF ReadSibling, TypeInv, JobOK
      <4>2. job'.pc = "read"  BY <3>2, <4>1 DEF ReadSibling, ReadOK
      <4> QED BY <4>2
    <3>3. ASSUME NEW r \in Requests, RefusePoisoned(r) \/ Diff(r) PROVE job'.pc = "answer"
      BY <3>3, AnswersAnswer DEF RefusePoisoned, Diff, Ends
    <3>4. CASE RefuseStale  BY <3>4, AnswersAnswer DEF RefuseStale, Ends
    <3>5. CASE Check \/ RefuseEdit \/ Preview  BY <3>5, ScopeReads
    <3> QED BY <1>1, <3>1, <3>2, <3>3, <3>4, <3>5
  <2> QED BY <2>1, <2>2, ClientStill
<1>2. CASE (\E r \in Requests : Fmt(r) \/ Load(r)) \/ BindSiblings
  <2>1. job'.pc # "write"  BY <1>2, GrowingIsNoWrite
  <2>2. /\ Grows(session, session') /\ ghost' = Grown(session') /\ UNCHANGED disk
        /\ job.pc \in {"idle", "read"} /\ ~session.poisoned
    BY <1>2, GrowingSteps
  <2> QED BY <2>1, <2>2, ClientGrown
<1>3. ASSUME NEW r \in Requests, OpenOrSet(r) \/ Close(r) PROVE UniqueNow' /\ WrittenNow'
  BY <1>3, ClientOpenOrSet, ClientClose
<1>4. CASE Write  BY <1>4, ClientWrite
<1>5. CASE Applied  BY <1>5, ClientApplied
<1>6. CASE Deliver
  <2>1. /\ UNCHANGED <<session, disk>> /\ job.pc = "answer" /\ job'.pc = "idle"
        /\ ghost' = [ghost EXCEPT !.requests = @ + 1]
    BY <1>6 DEF Deliver, Idle
  <2>2. ghost'.written = ghost.written /\ ghost'.aliased = ghost.aliased
    BY <2>1 DEF TypeInv, GhostOK
  <2> QED BY <2>1, <2>2 DEF UniqueNow, WrittenNow, Unique, Bound, Key
<1>7. CASE Panic
  <2>1. /\ session' = [session EXCEPT !.poisoned = TRUE] /\ UNCHANGED disk
        /\ ghost' = [ghost EXCEPT !.panics = @ + 1]
    BY <1>7 DEF Panic, Panics, Ends
  <2>2. /\ session'.poisoned /\ session'.slots = session.slots /\ session'.files = session.files
        /\ ghost'.written = ghost.written /\ ghost'.aliased = ghost.aliased
    BY <2>1 DEF TypeInv, SessionOK, GhostOK
  <2> QED BY <2>1, <2>2 DEF UniqueNow, WrittenNow, Unique, Bound, Key
<1>8. CASE Save  BY <1>8, ClientSave
<1>9. CASE UNCHANGED vars
  BY <1>9 DEF vars, UniqueNow, WrittenNow, Unique, Bound, Key
<1> QED BY <1>1, <1>2, <1>3, <1>4, <1>5, <1>6, <1>7, <1>8, <1>9 DEF Next, Handle

\* An answer is computed from the text the client last gave a path, never from what an
\* editor has saved since, while the path keeps its slot (ensure_workspace, bind_named,
\* set_sources).
THEOREM ClientWins == Spec => []ClientTextsWin
<1>1. Init => ClientInv
  <2> SUFFICES ASSUME Init PROVE ClientInv
    OBVIOUS
  <2>1. ReadsNow  BY DEF Init, ReadsNow, Idle
  <2>2. session = NewSession(1) /\ ghost.written = Forgotten /\ ghost.aliased = {} /\ job.pc = "idle"
    BY DEF Init, Idle
  <2>3. UniqueNow  BY <2>2, NewIsUnique DEF UniqueNow
  <2>4. WrittenNow  BY <2>2, NewIsUnique DEF WrittenNow, Written
  <2> QED BY <2>1, <2>3, <2>4 DEF ClientInv
<1>2. TypeInv /\ ClientInv /\ [Next]_vars => ClientInv'
  BY ReadsStep, ClientStep DEF ClientInv
<1>3. ClientInv => ClientTextsWin
  <2> SUFFICES ASSUME ClientInv, job.pc = "answer", NEW f \in DOMAIN job.reads,
                      session.slots[f].path \notin ghost.aliased
               PROVE  ghost.written[session.slots[f].path] \in {NoFile, job.reads[f]}
    BY DEF ClientTextsWin
  <2> QED BY DEF ClientInv, ReadsNow, WrittenNow
<1>4. TypeInv /\ [Next]_vars => TypeInv'  BY TypesStep
<1> QED BY <1>1, <1>2, <1>3, <1>4, TypesInit, PTL DEF Spec

-----------------------------------------------------------------------------
(* What was shown is what is applied. *)

\* A scope that would not be evaluated again, and the steps that leave it so.
Fresh(s, f) ==
  /\ s.memos[f] # NotEvaluated
  /\ \A g \in s.memos[f].reads : s.slots[g].changed <= s.memos[f].at
Keeps(s, t) ==
  /\ t.id = s.id /\ t.revision = s.revision /\ t.slots = s.slots
  /\ \A f \in 1 .. Len(s.slots) :
       Fresh(s, f) => Fresh(t, f) /\ t.memos[f].reads = s.memos[f].reads

PreviewCurrent == preview.id = session.id /\ preview.revision = session.revision
\* While the revision is the preview's, the scope of its path is the one it was planned
\* for, and would be planned for again.
PreviewNow ==
  /\ preview.id \in Nat /\ preview.id <= session.id
  /\ preview.id = session.id =>
       preview.revision <= session.revision /\ preview.request.revision = preview.revision
  /\ PreviewCurrent =>
       /\ job.pc # "write"
       /\ \A f \in 1 .. Len(session.slots) :
            session.slots[f].path = preview.request.path /\ OneSlot(session, preview.request.path) =>
              /\ Fresh(session, f)
              /\ Plan(session, session.memos[f].reads, preview.request) = preview.wrote
\* An apply that is being written, or is done, has the texts its preview showed.
AppliedNow ==
  /\ job.pc = "answer" /\ job.kind = "applied" => job.id = session.id
  /\ (/\ job.pc = "write" \/ (job.pc = "answer" /\ job.kind = "applied")
      /\ preview.id = session.id /\ preview.request = job.request
      /\ OneSlot(session, job.request.path)) => job.wrote = preview.wrote

\* A plan is about the slots, their texts and the two names.
LEMMA PlanSame ==
  ASSUME NEW s, NEW t, t.slots = s.slots, NEW fs, NEW r, NEW q, q.name = r.name, q.to = r.to
  PROVE  Plan(t, fs, q) = Plan(s, fs, r)
BY DEF Plan, Clean

\* Whether a path has one slot is about the paths of the slots.
LEMMA OneSlotSame ==
  ASSUME NEW s, SessionOK(s), NEW t, SessionOK(t), Len(t.slots) = Len(s.slots),
         \A f \in 1 .. Len(s.slots) : t.slots[f].path = s.slots[f].path,
         NEW p
  PROVE  OneSlot(t, p) <=> OneSlot(s, p)
<1>1. DOMAIN s.slots = 1 .. Len(s.slots) /\ DOMAIN t.slots = 1 .. Len(s.slots)
  BY LenProperties DEF SessionOK
<1> QED BY <1>1 DEF OneSlot, Providers

\* Where there is a slot there has been a revision.
LEMMA RevisionOfSlots ==
  ASSUME NEW s, SessionOK(s), NEW f \in 1 .. Len(s.slots)
  PROVE  s.revision > 0 /\ s.slots[f].changed <= s.revision
BY DEF SessionOK, SlotsOK

\* A scope that was just evaluated is fresh.
LEMMA EvaluatedIsFresh ==
  ASSUME NEW s, SessionOK(s), NEW root \in 1 .. Len(s.slots), NEW t, Evaluates(s, root, t)
  PROVE  Fresh(t, root) /\ Keeps(s, t)
<1>1. /\ SessionOK(t) /\ t.slots = s.slots /\ t.memos[root].at = s.revision
      /\ Len(t.memos) = Len(t.slots) /\ Len(s.memos) = Len(s.slots)
      /\ t.revision = s.revision
  BY DEF Evaluates, SessionOK, MemosOK
<1>2. t.memos[root].reads \subseteq 1 .. Len(s.slots)
  BY <1>1 DEF SessionOK, MemosOK
<1>3. t.memos[root] # NotEvaluated
  BY <1>1, RevisionOfSlots DEF NotEvaluated
<1>4. Fresh(t, root)  BY <1>1, <1>2, <1>3, RevisionOfSlots DEF Fresh
<1>5. ASSUME NEW f \in 1 .. Len(s.slots), Fresh(s, f)
      PROVE  Fresh(t, f) /\ t.memos[f].reads = s.memos[f].reads
  <2>1. CASE f = root
    <3>1. t.memos[root].reads = s.memos[root].reads  BY <1>5, <2>1 DEF Fresh, Evaluates
    <3> QED BY <1>4, <2>1, <3>1
  <2>2. CASE f # root
    <3>1. t.memos[f] = s.memos[f]  BY <1>1, <2>2 DEF Evaluates
    <3> QED BY <1>1, <1>5, <3>1 DEF Fresh
  <2> QED BY <2>1, <2>2
<1> QED BY <1>1, <1>4, <1>5 DEF Evaluates, Keeps

\* A preview stays what it is while the session keeps its scopes ...
LEMMA PreviewKept ==
  ASSUME TypeInv, PreviewNow, Keeps(session, session'), preview' = preview,
         job'.pc = "write" => job.pc = "write"
  PROVE  PreviewNow'
<1>1. /\ session'.id = session.id /\ session'.revision = session.revision
      /\ session'.slots = session.slots
  BY DEF Keeps
<1>2. PreviewCurrent' <=> PreviewCurrent  BY <1>1 DEF PreviewCurrent
<1>3. ASSUME PreviewCurrent, NEW f \in 1 .. Len(session.slots),
             session.slots[f].path = preview.request.path, OneSlot(session', preview.request.path)
      PROVE  /\ Fresh(session', f)
             /\ Plan(session', session'.memos[f].reads, preview.request) = preview.wrote
  <2>1. OneSlot(session, preview.request.path)  BY <1>1, <1>3 DEF OneSlot, Providers
  <2>2. /\ Fresh(session, f)
        /\ Plan(session, session.memos[f].reads, preview.request) = preview.wrote
    BY <1>3, <2>1 DEF PreviewNow
  <2>3. Fresh(session', f) /\ session'.memos[f].reads = session.memos[f].reads
    BY <2>2 DEF Keeps
  <2>4. Plan(session', session.memos[f].reads, preview.request)
          = Plan(session, session.memos[f].reads, preview.request)
    BY <1>1, PlanSame
  <2> QED BY <2>2, <2>3, <2>4
<1> QED BY <1>1, <1>2, <1>3 DEF PreviewNow

\* ... and is of the past once the revision, or the session, is another.
LEMMA PreviewPast ==
  ASSUME TypeInv, PreviewNow, preview' = preview, session'.id \in Nat, session'.revision \in Nat,
         \/ session'.id > session.id
         \/ session'.id = session.id /\ session'.revision > session.revision
  PROVE  PreviewNow'
<1>1. /\ session.id \in Nat /\ session.revision \in Nat /\ preview.revision \in Nat
      /\ preview.id \in Nat /\ preview.id <= session.id
      /\ preview.id = session.id => preview.revision <= session.revision
  BY DEF TypeInv, SessionOK, PreviewNow
<1>2. ~PreviewCurrent'  BY <1>1 DEF PreviewCurrent
<1>3. /\ preview.id <= session'.id
      /\ preview.id = session'.id => preview.id = session.id /\ session'.revision > session.revision
  BY <1>1
<1>4. preview.id = session'.id =>
        preview.revision <= session'.revision /\ preview.request.revision = preview.revision
  BY <1>1, <1>3 DEF PreviewNow
<1> QED BY <1>1, <1>2, <1>3, <1>4 DEF PreviewNow

\* The steps that bind nothing and write nothing keep every scope.
LEMMA KeepingSteps ==
  ASSUME TypeInv,
         \/ \E r \in Requests : RefusePoisoned(r) \/ Diff(r) \/ Close(r)
         \/ RefuseStale \/ ReadSibling \/ Check \/ RefuseEdit
         \/ Applied \/ Deliver \/ Panic \/ Save \/ UNCHANGED vars
  PROVE  /\ Keeps(session, session') /\ preview' = preview
         /\ job'.pc = "write" => job.pc = "write"
<1>1. CASE \/ \E r \in Requests : RefusePoisoned(r) \/ Diff(r)
           \/ RefuseStale \/ Applied \/ Deliver \/ Save \/ UNCHANGED vars
  <2>1. session' = session /\ preview' = preview
    BY <1>1 DEF RefusePoisoned, Diff, RefuseStale, Applied, Deliver, Save, vars, Ends
  <2>2. CASE \/ \E r \in Requests : RefusePoisoned(r) \/ Diff(r)
             \/ RefuseStale
    <3>1. job'.pc = "answer"  BY SMTT(60), <2>2, AnswersAnswer DEF RefusePoisoned, Diff, RefuseStale, Ends
    <3> QED BY <2>1, <3>1 DEF Keeps
  <2>3. CASE Applied \/ Deliver
    <3>1. job'.pc # "write"  BY <2>3 DEF Applied, Deliver, Ends, Idle
    <3> QED BY <2>1, <3>1 DEF Keeps
  <2>4. CASE Save \/ UNCHANGED vars
    <3>1. job' = job  BY <2>4 DEF Save, vars
    <3> QED BY <2>1, <3>1 DEF Keeps
  <2> QED BY <1>1, <2>2, <2>3, <2>4
<1>2. CASE ReadSibling
  <2>1. job.pc = "read" /\ ReadOK  BY <1>2 DEF ReadSibling, TypeInv, JobOK
  <2> QED BY <1>2, <2>1 DEF ReadSibling, ReadOK, Keeps
<1>3. CASE (\E r \in Requests : Close(r)) \/ Panic
  <2>1. /\ \/ session' = [session EXCEPT !.poisoned = TRUE]
           \/ \E r \in Requests : session' = [session EXCEPT !.files[Key(r.path)] = 0]
        /\ preview' = preview /\ job'.pc = "answer"
    BY <1>3, AnswersAnswer DEF Close, Panic, Panics, Ends
  <2>2. /\ session'.id = session.id /\ session'.revision = session.revision
        /\ session'.slots = session.slots /\ session'.memos = session.memos
    BY <2>1 DEF TypeInv, SessionOK
  <2> QED BY <2>1, <2>2 DEF Keeps, Fresh
<1>4. CASE Check \/ RefuseEdit
  <2>1. job.pc = "read" /\ session' = Seen /\ preview' = preview /\ job'.pc = "answer"
    BY <1>4, ScopeReads DEF Check, RefuseEdit, Ends, Serving
  <2>2. Evaluates(session, job.root, session')  BY <2>1, SeenIs
  <2>3. SessionOK(session) /\ job.root \in 1 .. Len(session.slots)
    BY <2>1 DEF TypeInv, JobOK, ReadOK
  <2> QED BY <2>1, <2>2, <2>3, EvaluatedIsFresh
<1> QED BY <1>1, <1>2, <1>3, <1>4

\* A preview is planned for the scope its path has.
LEMMA PreviewPlanned ==
  ASSUME TypeInv, Preview PROVE PreviewNow'
<1>1. /\ job.pc = "read" /\ ReadOK /\ Serving("edit") /\ session' = Seen /\ job'.pc = "answer"
  BY ScopeReads DEF Preview, Ends, Serving, TypeInv, JobOK
<1>2. PICK seen : seen = Seen  OBVIOUS
<1>3. preview' = [id |-> seen.id, revision |-> seen.revision, wrote |-> Planned,
                  request |-> [job.request EXCEPT !.apply = TRUE, !.revision = seen.revision]]
  BY <1>2 DEF Preview
<1>4. PICK q : q = [job.request EXCEPT !.apply = TRUE, !.revision = seen.revision]  OBVIOUS
<1>5. job.request \in EditRequest  BY <1>1, PlannedIs
<1>6. q.path = job.request.path /\ q.name = job.request.name /\ q.to = job.request.to
      /\ q.revision = seen.revision
  BY <1>4, <1>5 DEF EditRequest
<1>7. /\ preview'.id = seen.id /\ preview'.revision = seen.revision
      /\ preview'.wrote = Planned /\ preview'.request = q
  BY <1>3, <1>4
<1>8. /\ SessionOK(session) /\ job.root \in 1 .. Len(session.slots)
      /\ session.slots[job.root].path = job.request.path
  BY <1>1 DEF ReadOK, TypeInv
<1>9. Evaluates(session, job.root, seen) /\ SessionOK(seen) /\ seen.slots = session.slots
  BY <1>1, <1>2, SeenIs
<1>10. Fresh(seen, job.root)  BY <1>8, <1>9, EvaluatedIsFresh
<1>11. Plan(seen, seen.memos[job.root].reads, q) = Planned
  <2>1. Planned = Plan(seen, seen.memos[job.root].reads, job.request)
    BY <1>2 DEF Planned, InScope
  <2> QED BY <1>6, <2>1, PlanSame
<1>12. seen.id \in Nat /\ seen.revision \in Nat /\ seen.id <= seen.id /\ seen.revision <= seen.revision
  BY <1>9 DEF SessionOK
<1>13. ASSUME NEW f \in 1 .. Len(seen.slots), seen.slots[f].path = q.path, OneSlot(seen, q.path)
       PROVE  Fresh(seen, f) /\ Plan(seen, seen.memos[f].reads, q) = Planned
  <2>1. DOMAIN seen.slots = 1 .. Len(seen.slots)  BY <1>9, LenProperties DEF SessionOK
  <2>2. f \in Providers(seen, q.path) /\ job.root \in Providers(seen, q.path)
    BY <1>6, <1>8, <1>9, <1>13, <2>1 DEF Providers
  <2>3. f = job.root  BY <1>13, <2>2 DEF OneSlot
  <2> QED BY <1>10, <1>11, <2>3
<1> QED BY <1>1, <1>2, <1>6, <1>7, <1>12, <1>13 DEF PreviewNow, PreviewCurrent

\* bind and set move the revision on, or the session.
LEMMA SetIsLater ==
  ASSUME TypeInv, NEW r \in Requests, OpenOrSet(r)
  PROVE  /\ preview' = preview
         /\ \/ session' = session
            \/ /\ session'.id \in Nat /\ session'.revision \in Nat
               /\ \/ session'.id > session.id
                  \/ session'.id = session.id /\ session'.revision > session.revision
<1>1. PICK s : s = IF session.poisoned THEN NewSession(session.id + 1) ELSE session
  OBVIOUS
<1>2. r.path \in Paths /\ (r.op = "set" => r.text \in Text)
  BY RequestIs DEF OpenOrSet, Admitted, Received, TypeInv, SessionOK
<1>3. PICK t : t = IF r.op = "set" THEN BindText(s, r.path, r.text) ELSE OpenPath(s, r.path)
  OBVIOUS
<1>4. session' = t /\ preview' = preview  BY <1>1, <1>3 DEF OpenOrSet, Ends
<1>5. session.id \in Nat /\ session.revision \in Nat  BY DEF TypeInv, SessionOK
<1>6. SessionOK(s) /\ (session.poisoned => s.id = session.id + 1)
  <2>1. NewSession(session.id + 1).id = session.id + 1  BY DEF NewSession
  <2> QED BY <1>1, <1>5, <2>1, NewIsOK DEF TypeInv
<1>7. SessionOK(t) /\ t.id = s.id /\ (t = s \/ t.revision = s.revision + 1)
  <2>1. CASE r.op = "set"
    <3>1. t = BindText(s, r.path, r.text)  BY <1>3, <2>1
    <3>2. Bound(s, r.path) = 0 => Binds(s, r.path, r.text, t)
      BY <1>2, <1>6, <2>1, <3>1, BindTextIs
    <3>3. Bound(s, r.path) > 0 => Rewrites(s, Bound(s, r.path), r.text, s.revision + 1, t)
      BY <1>2, <1>6, <2>1, <3>1, BindTextIs
    <3>4. Bound(s, r.path) = 0 \/ Bound(s, r.path) > 0  BY <1>2, <1>6, BoundIs
    <3> QED BY <3>2, <3>3, <3>4 DEF Binds, Rewrites
  <2>2. CASE r.op # "set"
    <3>1. Grows(s, t)  BY <1>2, <1>3, <1>6, <2>2, OpenPathGrows DEF TypeInv
    <3> QED BY <1>6, <3>1, GrownKeeps
  <2> QED BY <2>1, <2>2
<1>8. t.id \in Nat /\ t.revision \in Nat  BY <1>7 DEF SessionOK
<1>9. CASE session.poisoned
  <2>1. t.id = session.id + 1  BY <1>6, <1>7, <1>9
  <2> QED BY <1>4, <1>5, <1>8, <2>1
<1>10. CASE ~session.poisoned
  <2>1. s = session  BY <1>1, <1>10
  <2> QED BY <1>4, <1>5, <1>7, <1>8, <2>1
<1> QED BY <1>9, <1>10

LEMMA PreviewStep == TypeInv /\ PreviewNow /\ [Next]_vars => PreviewNow'
<1> SUFFICES ASSUME TypeInv, PreviewNow, [Next]_vars PROVE PreviewNow'
  OBVIOUS
<1>1. CASE \/ \E r \in Requests : RefusePoisoned(r) \/ Diff(r) \/ Close(r)
           \/ RefuseStale \/ ReadSibling \/ Check \/ RefuseEdit
           \/ Applied \/ Deliver \/ Panic \/ Save \/ UNCHANGED vars
  BY <1>1, KeepingSteps, PreviewKept
<1>2. CASE (\E r \in Requests : Fmt(r) \/ Load(r)) \/ BindSiblings
  <2>1. Grows(session, session') /\ preview' = preview  BY <1>2, GrowingSteps
  <2>2. /\ SessionOK(session) /\ SessionOK(session') /\ session'.id = session.id
        /\ session' = session \/ session'.revision = session.revision + 1
    BY <2>1, GrownKeeps DEF TypeInv
  <2>3. session.revision \in Nat /\ session'.id \in Nat /\ session'.revision \in Nat
    BY <2>2 DEF SessionOK
  <2>4. CASE session' = session
    <3>1. job'.pc # "write"  BY <1>2, GrowingIsNoWrite
    <3>2. Keeps(session, session')  BY <2>4 DEF Keeps
    <3> QED BY <2>1, <3>1, <3>2, PreviewKept
  <2>5. CASE session'.revision = session.revision + 1
    <3>1. session'.revision > session.revision  BY <2>3, <2>5
    <3> QED BY <2>1, <2>2, <2>3, <3>1, PreviewPast
  <2> QED BY <2>2, <2>4, <2>5
<1>3. ASSUME NEW r \in Requests, OpenOrSet(r) PROVE PreviewNow'
  <2>1. job'.pc = "answer"  BY <1>3, AnswersAnswer DEF OpenOrSet, Ends
  <2>2. preview' = preview  BY <1>3, SetIsLater
  <2>3. CASE session' = session
    <3>1. Keeps(session, session')  BY <2>3 DEF Keeps
    <3> QED BY <2>1, <2>2, <3>1, PreviewKept
  <2>4. CASE session' # session  BY <1>3, <2>2, <2>4, SetIsLater, PreviewPast
  <2> QED BY <2>3, <2>4
<1>4. CASE Preview  BY <1>4, PreviewPlanned
<1>5. CASE Apply
  <2>1. PICK seen : seen = Seen  OBVIOUS
  <2>2. job.pc = "read" /\ preview' = preview /\ session' = [seen EXCEPT !.revision = @ + 1]
    BY <1>5, <2>1 DEF Apply, Ends, Serving
  <2>3. Evaluates(session, job.root, seen)  BY <2>1, <2>2, SeenIs
  <2>4. session'.id = session.id /\ session'.revision = session.revision + 1
    BY <2>2, <2>3 DEF Evaluates, SessionOK
  <2>5. session.id \in Nat /\ session.revision \in Nat  BY DEF TypeInv, SessionOK
  <2> QED BY <2>2, <2>4, <2>5, PreviewPast
<1>6. CASE Write
  <2>1. preview' = preview /\ job.pc = "write"  BY <1>6 DEF Write
  <2>2. PICK f : Rewrites(session, f, job.wrote[f], session.revision, session')
    BY <1>6, WriteRewrites
  <2>3. session'.id = session.id /\ session'.revision = session.revision  BY <2>2 DEF Rewrites
  <2>4. ~PreviewCurrent  BY <2>1 DEF PreviewNow
  <2>5. ~PreviewCurrent'  BY <2>1, <2>3, <2>4 DEF PreviewCurrent
  <2> QED BY <2>1, <2>3, <2>5 DEF PreviewNow
<1> QED BY <1>1, <1>2, <1>3, <1>4, <1>5, <1>6 DEF Next, Handle

\* The steps after which no apply is being written or done.
LEMMA OtherSteps ==
  ASSUME TypeInv,
         \/ \E r \in Requests : Handle(r)
         \/ ReadSibling \/ BindSiblings
         \/ Check \/ RefuseStale \/ RefuseEdit \/ Preview \/ Deliver \/ Panic
  PROVE  job'.pc # "write" /\ (job'.pc = "answer" => job'.kind # "applied")
<1>0. \A kind, s, t, fs : /\ Answer(kind, s).kind = kind
                          /\ Reading(Answer(kind, s), t, fs).kind = kind
  BY DEF Answer, Reading
<1>1. ASSUME NEW r \in Requests, RefusePoisoned(r) \/ Diff(r) \/ OpenOrSet(r) \/ Close(r)
      PROVE  job'.pc # "write" /\ job'.kind # "applied"
  <2>1. CASE RefusePoisoned(r)  BY <1>0, <2>1, AnswersAnswer DEF RefusePoisoned, Ends
  <2>2. CASE Diff(r) \/ Close(r)  BY <1>0, <2>2, AnswersAnswer DEF Diff, Close, Ends
  <2>3. CASE OpenOrSet(r)  BY <1>0, <2>3, AnswersAnswer DEF OpenOrSet, Ends
  <2> QED BY <1>1, <2>1, <2>2, <2>3
<1>2. ASSUME NEW r \in Requests, Fmt(r) PROVE job'.pc # "write" /\ job'.kind # "applied"
  BY <1>0, <1>2, AnswersAnswer DEF Fmt, Ends
<1>3. ASSUME NEW r \in Requests, Load(r)
      PROVE  job'.pc # "write" /\ (job'.pc = "answer" => job'.kind # "applied")
  <2>1. PICK s, left : job' = IF Bound(s, r.path) = 0 THEN Answer("io", s)
                              ELSE [pc |-> "read", request |-> r, root |-> Bound(s, r.path),
                                    left |-> left, found |-> <<>>]
    BY <1>3 DEF Load, Ends
  <2> QED BY <1>0, <2>1, AnswersAnswer
<1>4. CASE ReadSibling \/ BindSiblings
  <2>1. job.pc = "read" /\ ReadOK  BY <1>4 DEF ReadSibling, BindSiblings, TypeInv, JobOK
  <2>2. job'.pc = "read"  BY <1>4, <2>1 DEF ReadSibling, BindSiblings, ReadOK
  <2> QED BY <2>2
<1>5. CASE Check \/ RefuseStale
  BY <1>0, <1>5, AnswersAnswer DEF Check, RefuseStale, Ends
<1>6. CASE RefuseEdit \/ Preview
  <2>1. PICK kind \in {"refused", "planned"} : job' = PlannedAnswer(kind)
    BY <1>6 DEF RefuseEdit, Preview, Ends
  <2>2. job'.pc = "answer" /\ job'.kind = kind  BY <2>1 DEF PlannedAnswer, Reading, Answer
  <2> QED BY <2>2
<1>7. CASE Deliver  BY <1>7 DEF Deliver, Idle
<1>8. CASE Panic  BY <1>0, <1>8, AnswersAnswer DEF Panic, Panics, Ends
<1> QED BY <1>1, <1>2, <1>3, <1>4, <1>5, <1>6, <1>7, <1>8 DEF Handle

\* An apply that names its preview's revision plans what the preview planned.
LEMMA ApplyPlansThePreview ==
  ASSUME TypeInv, PreviewNow, Apply PROVE AppliedNow'
<1>1. PICK seen : seen = Seen  OBVIOUS
<1>2. /\ Serving("edit") /\ job.pc = "read" /\ ReadOK /\ preview' = preview
      /\ session' = [seen EXCEPT !.revision = @ + 1]
      /\ job' = [pc |-> "write", request |-> job.request, wrote |-> Planned, left |-> DOMAIN Planned]
  BY <1>1 DEF Apply, Ends, Serving, TypeInv, JobOK
<1>3. job.request.revision = session.revision  BY DEF Apply, Stale
<1>4. Evaluates(session, job.root, seen) /\ SessionOK(session) /\ session.id >= 1
  BY <1>1, <1>2, SeenIs DEF TypeInv, ResetsOK
<1>5. session'.id = session.id /\ session'.slots = session.slots
  BY <1>2, <1>4 DEF Evaluates, SessionOK
<1>6. ASSUME preview.id = session.id, preview.request = job.request,
             OneSlot(session', job.request.path)
      PROVE  Planned = preview.wrote
  <2>1. PreviewCurrent  BY <1>3, <1>6 DEF PreviewNow, PreviewCurrent
  <2>2. OneSlot(session, job.request.path)  BY <1>5, <1>6 DEF OneSlot, Providers
  <2>3. job.root \in 1 .. Len(session.slots) /\ session.slots[job.root].path = preview.request.path
    BY <1>2, <1>6 DEF ReadOK
  <2>4. /\ Fresh(session, job.root)
        /\ Plan(session, session.memos[job.root].reads, preview.request) = preview.wrote
    BY <1>6, <2>1, <2>2, <2>3 DEF PreviewNow
  <2>5. seen.memos[job.root].reads = session.memos[job.root].reads /\ seen.slots = session.slots
    BY <1>4, <2>4 DEF Fresh, Evaluates
  <2>6. Planned = Plan(seen, seen.memos[job.root].reads, job.request)
    BY <1>1 DEF Planned, InScope
  <2> QED BY <1>6, <2>4, <2>5, <2>6, PlanSame
<1> QED BY <1>2, <1>5, <1>6 DEF AppliedNow

LEMMA AppliedStep == TypeInv /\ PreviewNow /\ AppliedNow /\ [Next]_vars => AppliedNow'
<1> SUFFICES ASSUME TypeInv, PreviewNow, AppliedNow, [Next]_vars PROVE AppliedNow'
  OBVIOUS
<1>1. CASE \/ \E r \in Requests : Handle(r)
           \/ ReadSibling \/ BindSiblings
           \/ Check \/ RefuseStale \/ RefuseEdit \/ Preview \/ Deliver \/ Panic
  BY <1>1, OtherSteps DEF AppliedNow
<1>2. CASE Apply  BY <1>2, ApplyPlansThePreview
<1>3. CASE Write
  <2>1. PICK f \in job.left :
          /\ Rewrites(session, f, job.wrote[f], session.revision, session')
          /\ job' = [pc |-> "write", request |-> job.request, wrote |-> job.wrote,
                     left |-> job.left \ {f}]
          /\ UNCHANGED <<disk, preview, ghost>>
    BY <1>3, WriteRewrites
  <2>2. /\ SessionOK(session') /\ session'.id = session.id
        /\ Len(session'.slots) = Len(session.slots)
        /\ \A g \in 1 .. Len(session.slots) : session'.slots[g].path = session.slots[g].path
    BY <2>1 DEF Rewrites
  <2>3. OneSlot(session', job.request.path) <=> OneSlot(session, job.request.path)
    BY <2>2, OneSlotSame DEF TypeInv
  <2>4. job.pc = "write"  BY <1>3 DEF Write
  <2> QED BY <2>1, <2>2, <2>3, <2>4 DEF AppliedNow
<1>4. CASE Applied
  <2>1. /\ session' = session /\ preview' = preview /\ job.pc = "write"
        /\ job' = [pc |-> "answer", kind |-> "applied", id |-> session.id, reads |-> <<>>,
                   request |-> job.request, wrote |-> job.wrote]
    BY <1>4 DEF Applied, Ends
  <2> QED BY <2>1 DEF AppliedNow
<1>5. CASE Save \/ UNCHANGED vars
  BY <1>5 DEF Save, vars, AppliedNow
<1> QED BY <1>1, <1>2, <1>3, <1>4, <1>5 DEF Next

\* An apply that names the revision of its preview gives the files the texts the preview
\* showed, whatever was asked, saved or loaded in between, where the path has one slot
\* (rename, patch: expected_revision; Session::set_sources).
THEOREM PreviewApplies == Spec => []PreviewIsWhatApplies
<1>1. Init => PreviewNow /\ AppliedNow
  BY DEF Init, PreviewNow, PreviewCurrent, AppliedNow, NewSession, NoPreview, Idle
<1>2. TypeInv /\ (PreviewNow /\ AppliedNow) /\ [Next]_vars => (PreviewNow /\ AppliedNow)'
  BY PreviewStep, AppliedStep
<1>3. AppliedNow => PreviewIsWhatApplies
  BY DEF AppliedNow, PreviewIsWhatApplies, AppliesThePreview
<1>4. TypeInv /\ [Next]_vars => TypeInv'  BY TypesStep
<1> QED BY <1>1, <1>2, <1>3, <1>4, TypesInit, PTL DEF Spec
=============================================================================
