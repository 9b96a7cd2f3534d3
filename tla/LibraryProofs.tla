--------------------------- MODULE LibraryProofs ---------------------------
(***************************************************************************)
(* What Library promises for every number of configurations and tasks, for  *)
(* all names and texts, and under every setting.                            *)
(***************************************************************************)
EXTENDS Library, PlacesProofs

-----------------------------------------------------------------------------
(* The writer of state.json.                                                *)

(* What state.json is about to list, the order and the names included.       *)
Listed == [k \in DOMAIN configs |-> [id |-> configs[k].id, name |-> configs[k].name]]

(* Before the start-up load nothing runs and nothing has changed.            *)
AsleepBeforeLoad ==
  ~loaded => writer.step = "idle" /\ \A t \in Slots : task[t].kind = "none"
(* What is being written is the library, unless a later change is queued.    *)
SnapshotCurrent ==
  writer.step \in {"write", "ok"} /\ ~queued => writer.snapshot.configs = Listed
(* A successful write leaves what it was given.                             *)
WriteTook == writer.step = "ok" => stored = writer.snapshot

(* The writer is a record of the two.                                       *)
WriterForm == writer = [step |-> writer.step, snapshot |-> writer.snapshot]

WriterInv == WriterForm /\ AsleepBeforeLoad /\ SnapshotCurrent /\ WriteTook

(* The snapshot lists the library.                                           *)
LEMMA SnapshotLists == Snapshot.configs = Listed
BY DEF Snapshot, Listed

(* A text that has been read changes none.                                  *)
LEMMA CachedLists ==
  ASSUME NEW t, configs' = Cached(configs, t)
  PROVE  Listed' = Listed
<1>1. CASE configs' = configs
  BY <1>1 DEF Listed
<1>2. ASSUME NEW w, NEW x,
             configs' = [configs EXCEPT ![w] = [id |-> @.id, name |-> @.name, text |-> x]]
      PROVE  Listed' = Listed
  <2>1. DOMAIN configs' = DOMAIN configs
    BY <1>2
  <2>2. \A k \in DOMAIN configs : /\ configs'[k].id = configs[k].id
                                  /\ configs'[k].name = configs[k].name
    BY <1>2
  <2> QED
    BY <2>1, <2>2 DEF Listed
<1> QED
  BY <1>1, <1>2 DEF Cached

(* A step of the library, as the writer sees it.                             *)
Recorded == Persist /\ loaded' /\ UNCHANGED stored
Unlisted == NoPersist /\ loaded' /\ UNCHANGED <<stored, Listed>>

(* Every update of the UI thread and every step of a task records what it    *)
(* changes in the list.                                                     *)
LEMMA LibrarySteps ==
  ASSUME AsleepBeforeLoad, Next
  PROVE  Recorded \/ Unlisted \/ Writer \/ LoadState \/ LoadStateFailed \/ Restart
<1>0. /\ Persist /\ loaded' /\ stored' = stored => Recorded
      /\ NoPersist /\ loaded' /\ stored' = stored /\ configs' = configs => Unlisted
  BY DEF Recorded, Unlisted, Listed
<1>1. CASE User
  <2>1. \A i \in Ids : Select(i) => Recorded
    BY <1>0 DEF Select
  <2>2. Discard \/ NewDraft \/ Paste \/ ImportClick \/ Export \/ Copy => Unlisted
    BY <1>0 DEF Discard, NewDraft, Paste, ImportClick, Export, Copy
  <2>3. ASSUME NEW asNew \in BOOLEAN, NEW name \in setting.names,
               NEW text \in setting.texts, NEW action \in Actions,
               SaveClick(asNew, name, text, action)
        PROVE  Unlisted
    BY <1>0, <2>3 DEF SaveClick
  <2>4. \A action \in Actions : SaveRefused(action) => Unlisted
    BY <1>0 DEF SaveRefused
  <2>5. \A name \in setting.names : Rename(name) => Recorded
    BY <1>0 DEF Rename
  <2>6. \A gone \in (SUBSET IdsOf(configs)) \ {{}} : Delete(gone) => Recorded
    BY <1>0 DEF Delete
  <2>7. ASSUME NEW t \in Slots,
               \/ ImportCancel(t) \/ \E n \in 1..MaxId : ImportStart(t, n)
               \/ ExportFolder(t) \/ (task[t].step = "pick" /\ ExportDone(t))
        PROVE  Unlisted
    <3>1. task[t].kind # "none"
      BY <2>7 DEF ImportCancel, ImportStart, ExportFolder, ExportDone
    <3>2. loaded
      BY <3>1 DEF AsleepBeforeLoad
    <3> QED
      BY <1>0, <2>7, <3>2 DEF ImportCancel, ImportStart, ExportFolder, ExportDone
  <2> QED
    BY <1>1, <2>1, <2>2, <2>3, <2>4, <2>5, <2>6, <2>7 DEF User
<1>2. ASSUME NEW t \in Slots, TaskStep(t)
      PROVE  Recorded \/ Unlisted
  <2>1. task[t].kind # "none"
    BY <1>2 DEF TaskStep, SaveWrite, SaveDone, SaveFailed, LoadRead, LoadDone, Remove,
       ExportCache, ExportDone, CopyDone, ImportBegin, ImportDone, ImportWrite
  <2>2. loaded
    BY <2>1 DEF AsleepBeforeLoad
  <2>3. CASE LoadDone(t) \/ ExportCache(t) \/ CopyDone(t)
    <3>1. configs' = configs \/ configs' = Cached(configs, t)
      BY <2>3 DEF LoadDone, ExportCache, CopyDone
    <3>2. Listed' = Listed
      BY <3>1, CachedLists DEF Listed
    <3> QED
      BY <2>2, <2>3, <3>2 DEF LoadDone, ExportCache, CopyDone, Unlisted
  <2>4. CASE ImportDone(t)
    <3>1. CASE task[t].done = <<>>
      BY <1>0, <2>2, <2>4, <3>1 DEF ImportDone
    <3>2. CASE task[t].done # <<>>
      BY <1>0, <2>2, <2>4, <3>2 DEF ImportDone
    <3> QED
      BY <3>1, <3>2
  <2>5. \A i \in Ids : ImportWrite(t, i) => Unlisted
    BY <1>0, <2>2 DEF ImportWrite
  <2>6. SaveWrite(t) \/ SaveDone(t) \/ SaveFailed(t) => Recorded \/ Unlisted
    BY <1>0, <2>2 DEF SaveWrite, SaveDone, SaveFailed
  <2>7. LoadRead(t) \/ Remove(t) \/ ExportDone(t) \/ ImportBegin(t) => Unlisted
    BY <1>0, <2>2 DEF LoadRead, Remove, ExportDone, ImportBegin
  <2> QED
    BY <1>2, <2>3, <2>4, <2>5, <2>6, <2>7 DEF TaskStep
<1> QED
  BY <1>1, <1>2 DEF Next

(* Every step keeps the writer's invariant.                                  *)
LEMMA WriterStep ==
  ASSUME WriterInv, [Next]_vars
  PROVE  WriterInv'
<1> USE DEF WriterInv, WriterForm, AsleepBeforeLoad, SnapshotCurrent, WriteTook
<1>1. CASE Recorded
  BY <1>1 DEF Recorded, Persist
<1>2. CASE Unlisted
  BY <1>2 DEF Unlisted, NoPersist
<1>3. CASE WriterTake
  BY <1>3, SnapshotLists DEF WriterTake, Listed
<1>4. CASE WriterWrite
  BY <1>4 DEF WriterWrite, Outcomes, Listed
<1>5. CASE WriterDone
  BY <1>5 DEF WriterDone, IdleWriter, Listed
<1>6. CASE LoadState
  <2>1. writer.step = "idle" /\ loaded' /\ stored' = stored /\ (Persist \/ NoPersist)
    BY <1>6 DEF LoadState
  <2> QED
    BY <2>1 DEF Persist, NoPersist
<1>7. CASE LoadStateFailed
  BY <1>7 DEF LoadStateFailed, Listed
<1>8. CASE Restart
  BY <1>8 DEF Restart, IdleWriter, NoTask, TaskOn
<1>9. CASE UNCHANGED vars
  BY <1>9 DEF vars, Listed
<1> QED
  BY <1>1, <1>2, <1>3, <1>4, <1>5, <1>6, <1>7, <1>8, <1>9, LibrarySteps DEF Writer

(* A writer that has written moves on by itself, unless the process ends.    *)
LEMMA WriterMovesItself ==
  ASSUME WriterInv, writer.step = "ok", Next
  PROVE  writer' = writer \/ WriterDone \/ Restart
BY LibrarySteps DEF WriterInv, AsleepBeforeLoad, Recorded, Unlisted, Persist, NoPersist,
   Writer, WriterTake, WriterWrite, LoadState, LoadStateFailed

(* Whatever is saved, renamed, deleted or imported while the writer writes   *)
(* or waits, and whatever write fails: it comes to rest after a successful   *)
(* write only when state.json lists what the library lists.                  *)
THEOREM NoChangeLost == Spec => RestsWritten
<1>1. Init => WriterInv
  BY DEF Init, IdleWriter, NoTask, TaskOn, WriterInv, WriterForm, AsleepBeforeLoad,
     SnapshotCurrent, WriteTook
<1>2. ASSUME WriterInv, [Next]_vars
      PROVE  [writer.step = "ok" /\ writer'.step = "idle" /\ loaded' =>
                stored.configs = Snapshot.configs]_vars
  <2> SUFFICES ASSUME writer.step = "ok", writer'.step = "idle", loaded', ~UNCHANGED vars
               PROVE  stored.configs = Snapshot.configs
    OBVIOUS
  <2>1. ~queued => stored.configs = Listed
    BY <1>2 DEF WriterInv, SnapshotCurrent, WriteTook
  <2>2. WriterDone
    BY <1>2, WriterMovesItself DEF vars, Restart
  <2>3. ~queued
    BY <2>2 DEF WriterDone, IdleWriter
  <2> QED
    BY <2>1, <2>3, SnapshotLists
<1> QED
  BY <1>1, <1>2, WriterStep, PTL DEF Spec, RestsWritten

-----------------------------------------------------------------------------
(* Lists: places, and what retain leaves.                                    *)

(* A configuration that is in the list has a place.                          *)
LEMMA WherePlace ==
  ASSUME NEW S, NEW cs \in Seq(S), NEW i \in IdsOf(cs)
  PROVE  Where(cs, i) \in DOMAIN cs /\ cs[Where(cs, i)].id = i
<1>. DEFINE Places == {k \in DOMAIN cs : cs[k].id = i}
<1>1. DOMAIN cs = 1..Len(cs) /\ Len(cs) \in Nat
  OBVIOUS
<1>2. PICK k \in Places : \A m \in Places : k <= m
  <2>1. Places \subseteq Nat /\ Places # {}
    BY <1>1 DEF IdsOf
  <2>. HIDE DEF Places
  <2>. QED
    BY <2>1, Least
<1>3. \A j \in 1..(k - 1) : cs[j].id # i
  BY <1>1, <1>2
<1>. QED
  BY <1>2, <1>3, Zenon DEF Where

-----------------------------------------------------------------------------
(* Types.                                                                    *)

Entries == [id : Ids, name : Names, text : Texts \cup {NoText}]
Keys == [id : Ids, name : Names]
News == [id : Ids, name : Names, text : {NoText}]
Editors == [op : {"none", "loading", "saving", "importing", "exporting"},
            loading : Ids \cup {NoId}, source : Ids \cup {NoId}]
Steps == {"none", "write", "ok", "failed", "read", "remove", "pick", "begin"}

(* What a task of each kind works on: a save and a read have their            *)
(* configuration, a removal has a file left.                                *)
ShapedTasks ==
  {k \in Tasks : /\ k.kind \in {"save", "load", "export", "copy"} => k.id \in Ids
                 /\ k.kind = "save" => k.name \in Names
                 /\ k.kind = "remove" => k.ids # <<>>}

Pendings == [kind : {"none", "other", "new", "import", "select"}, id : Ids \cup {NoId}]
Writers == [step : {"idle", "debounce", "write", "ok", "failed"}, snapshot : States]

TypeInv ==
  /\ configs \in Seq(Entries) /\ nextId \in 1..(MaxId + 1) /\ selected \in Ids \cup {NoId}
  /\ editor \in Editors /\ pending \in Pendings /\ task \in [Slots -> ShapedTasks]
  /\ files \in [Ids -> Texts \cup {NoText}] /\ stored \in States /\ setting \in Settings
  /\ queued \in BOOLEAN /\ loaded \in BOOLEAN /\ writer \in Writers

(* A task starts with a type.                                                *)
LEMMA NewTasks ==
  /\ NoTask \in ShapedTasks /\ Pick \in ShapedTasks /\ NoEditor \in Editors
  /\ \A i \in Ids : /\ TaskOn("load", "read", i) \in ShapedTasks
                    /\ TaskOn("copy", "read", i) \in ShapedTasks
<1>1. ASSUME NEW kind \in {"none", "import", "load", "copy"}, NEW step \in {"none", "pick", "read"},
             NEW i \in Ids \cup {NoId}, kind \in {"load", "copy"} => i \in Ids
      PROVE  TaskOn(kind, step, i) \in ShapedTasks
  BY <1>1 DEF TaskOn, ShapedTasks, Tasks
<1>2. NoEditor \in Editors
  BY DEF NoEditor, NoId, Editors
<1>. QED
  BY <1>1, <1>2 DEF NoTask, Pick

SaveTask(i, name, text, new) ==
  [TaskOn("save", "write", i) EXCEPT !.name = name, !.text = text, !.new = new]

(* What a save is spawned with.                                              *)
LEMMA SaveTasks ==
  ASSUME NEW i \in Ids, NEW name \in Names, NEW text \in Texts, NEW new \in BOOLEAN
  PROVE  LET k == SaveTask(i, name, text, new)
         IN  /\ k \in ShapedTasks /\ k.kind = "save" /\ k.step = "write" /\ k.id = i
             /\ k.name = name /\ k.text = text
<1>. DEFINE base == TaskOn("save", "write", i)
            k == SaveTask(i, name, text, new)
<1>1. base \in Tasks /\ base.kind = "save" /\ base.step = "write" /\ base.id = i
  BY DEF TaskOn, Tasks
<1>2. k = [base EXCEPT !.name = name, !.text = text, !.new = new]
  BY Zenon DEF SaveTask
<1>. HIDE DEF base, k
<1>3. /\ k \in Tasks /\ k.kind = base.kind /\ k.step = base.step /\ k.id = base.id
      /\ k.name = name /\ k.text = text /\ k.new = new
  BY <1>1, <1>2 DEF Tasks
<1>4. k \in ShapedTasks
  BY <1>1, <1>3 DEF ShapedTasks
<1>. QED
  BY <1>1, <1>3, <1>4 DEF k

(* What an export is spawned with.                                           *)
LEMMA ExportTasks ==
  ASSUME NEW i \in Ids, NEW new \in BOOLEAN,
         NEW k, k = [TaskOn("export", "pick", i) EXCEPT !.new = new]
  PROVE  k \in ShapedTasks
<1>. DEFINE base == TaskOn("export", "pick", i)
<1>1. base \in Tasks /\ base.kind = "export" /\ base.id = i
  BY DEF TaskOn, Tasks
<1>2. k = [base EXCEPT !.new = new]
  OBVIOUS
<1>. HIDE DEF base
<1>. QED
  BY <1>1, <1>2 DEF ShapedTasks, Tasks

(* What a removal is spawned with.                                           *)
LEMMA RemoveTasks ==
  ASSUME NEW ids \in Seq(Ids), ids # <<>>,
         NEW k, k = [TaskOn("remove", "remove", NoId) EXCEPT !.ids = ids]
  PROVE  k \in ShapedTasks /\ k.kind = "remove" /\ k.ids = ids
<1>. DEFINE base == TaskOn("remove", "remove", NoId)
<1>1. base \in Tasks /\ base.kind = "remove"
  BY DEF TaskOn, Tasks
<1>2. k = [base EXCEPT !.ids = ids]
  OBVIOUS
<1>. HIDE DEF base
<1>. QED
  BY <1>1, <1>2 DEF ShapedTasks, Tasks

(* The steps of a task leave it a task of its kind.                          *)
LEMMA StepTask ==
  ASSUME NEW k \in ShapedTasks, NEW x \in Steps
  PROVE  [k EXCEPT !.step = x] \in ShapedTasks
<1>1. [k EXCEPT !.step = x] \in Tasks
  BY DEF ShapedTasks, Tasks, Steps
<1>. QED
  BY <1>1 DEF ShapedTasks, Tasks

(* A text that was read is kept by the task.                                 *)
LEMMA TextTask ==
  ASSUME NEW k \in ShapedTasks, NEW x \in Steps, NEW y \in Texts \cup {NoText}
  PROVE  [k EXCEPT !.step = x, !.text = y] \in ShapedTasks
<1>1. [k EXCEPT !.step = x, !.text = y] \in Tasks
  BY DEF ShapedTasks, Tasks, Steps
<1>. QED
  BY <1>1 DEF ShapedTasks, Tasks

(* An import is given its ids.                                               *)
LEMMA BeginTask ==
  ASSUME NEW k \in ShapedTasks, k.kind = "import", NEW ids \in Seq(Ids)
  PROVE  [k EXCEPT !.step = "begin", !.ids = ids] \in ShapedTasks
<1>1. [k EXCEPT !.step = "begin", !.ids = ids] \in Tasks
  BY DEF ShapedTasks, Tasks
<1>. QED
  BY <1>1 DEF ShapedTasks, Tasks

(* Tasks that are spawned, and tasks that end.                               *)
LEMMA SpawnTypes ==
  ASSUME NEW ts \in [Slots -> ShapedTasks], NEW k \in ShapedTasks
  PROVE  Spawn(ts, k) \in [Slots -> ShapedTasks]
BY Zenon DEF Spawn

LEMMA EndTypes ==
  ASSUME TypeInv, NEW t \in Slots
  PROVE  End(t) \in [Slots -> ShapedTasks]
BY NewTasks DEF End, TypeInv

(* load_config_into_inputs keeps the types of the editor and the tasks.      *)
LEMMA ShowTypes ==
  ASSUME NEW ts \in [Slots -> ShapedTasks], NEW cs, NEW ed \in Editors,
         NEW op \in {"none", "loading"}, NEW i \in Ids,
         Show(ts, cs, ed, op, i)
  PROVE  editor' \in Editors /\ task' \in [Slots -> ShapedTasks]
<1>1. CASE editor' = ed /\ task' = ts
  BY <1>1
<1>2. CASE editor' = [NoEditor EXCEPT !.source = i] /\ task' = ts
  BY <1>2 DEF NoEditor, Editors, NoId
<1>3. CASE /\ editor' = [ed EXCEPT !.op = op, !.loading = i]
           /\ task' = Spawn(ts, TaskOn("load", "read", i))
  <2>1. editor' \in Editors
    BY <1>3 DEF Editors
  <2>. QED
    BY <1>3, <2>1, NewTasks, SpawnTypes
<1>. QED
  BY <1>1, <1>2, <1>3, Zenon DEF Show

(* Whether or not a change is recorded, the writer keeps its type.           *)
LEMMA PersistTypes ==
  ASSUME TypeInv, Persist \/ NoPersist
  PROVE  queued' \in BOOLEAN /\ writer' \in Writers
<1>1. CASE Persist
  BY <1>1 DEF TypeInv, Writers, Persist
<1>2. CASE NoPersist
  BY <1>2 DEF TypeInv, NoPersist
<1>. QED
  BY <1>1, <1>2

(* The list after a change of one of its entries.                            *)
LEMMA EntrySet ==
  ASSUME NEW S, NEW cs \in Seq(S), NEW w \in DOMAIN cs, NEW c \in S
  PROVE  /\ [cs EXCEPT ![w] = c] \in Seq(S)
         /\ DOMAIN [cs EXCEPT ![w] = c] = DOMAIN cs
         /\ [cs EXCEPT ![w] = c][w] = c
         /\ \A k \in DOMAIN cs \ {w} : [cs EXCEPT ![w] = c][k] = cs[k]
<1>1. w \in 1..Len(cs)
  OBVIOUS
<1>. QED
  BY <1>1, ExceptSeq

(* A save and a text that was read keep the list a list.                     *)
LEMMA InsertTypes ==
  ASSUME NEW cs \in Seq(Entries), NEW c \in Entries
  PROVE  InsertOrUpdate(cs, c) \in Seq(Entries)
<1>1. CASE c.id \in IdsOf(cs)
  <2>1. Where(cs, c.id) \in DOMAIN cs
    BY <1>1, WherePlace
  <2>. QED
    BY <1>1, <2>1, EntrySet DEF InsertOrUpdate
<1>2. CASE c.id \notin IdsOf(cs)
  BY <1>2 DEF InsertOrUpdate
<1>. QED
  BY <1>1, <1>2

LEMMA CachedTypes ==
  ASSUME TypeInv, NEW t \in Slots
  PROVE  Cached(configs, t) \in Seq(Entries)
<1>1. configs \in Seq(Entries) /\ task[t].text \in Texts \cup {NoText}
  BY DEF TypeInv, ShapedTasks, Tasks
<1>2. CASE task[t].id \in IdsOf(configs)
  <2>. DEFINE w == Where(configs, task[t].id)
  <2>1. w \in DOMAIN configs
    BY <1>1, <1>2, WherePlace
  <2>2. configs[w] \in Entries
    BY <1>1, <2>1
  <2>3. [id |-> configs[w].id, name |-> configs[w].name, text |-> task[t].text] \in Entries
    BY <1>1, <2>2 DEF Entries
  <2>4. [configs EXCEPT ![w] = [id |-> configs[w].id, name |-> configs[w].name,
                                text |-> task[t].text]] \in Seq(Entries)
    BY <1>1, <2>1, <2>3, EntrySet
  <2>. QED
    BY <1>1, <1>2, <2>4 DEF Cached
<1>3. CASE task[t].id \notin IdsOf(configs)
  BY <1>1, <1>3 DEF Cached
<1>. QED
  BY <1>2, <1>3

(* The types of the tasks by kind are types of tasks.                        *)
LEMMA TypesSound == TypeInv => TypeOK
BY DEF TypeInv, TypeOK, Entries, Editors, Pendings, Writers, ShapedTasks

(* What an import has made are configurations whose text is not known.       *)
LEMMA NewsTyped ==
  ASSUME NEW new \in Seq(News)
  PROVE  /\ new \in Seq(Entries)
         /\ \A j \in DOMAIN new : /\ new[j] \in News /\ new[j].id \in Ids
                                  /\ new[j].id \in IdsOf(new) /\ new[j].text = NoText
<1>1. News \subseteq Entries
  BY DEF News, Entries
<1>2. new \in Seq(Entries)
  BY <1>1, SeqMonotonic
<1>3. \A j \in DOMAIN new : new[j] \in News
  OBVIOUS
<1>. QED
  BY <1>2, <1>3 DEF News, IdsOf

(* What the assumptions say of the constants.                                *)
LEMMA ConstantsTyped ==
  /\ MaxId \in Nat /\ MaxId >= 1 /\ Slots \subseteq Nat
  /\ TypeInv => /\ setting.ids \subseteq Ids /\ setting.names \subseteq Names
                /\ setting.texts \subseteq Texts
BY MaxIdAssumption, SettingsAssumption, MaxTasksAssumption DEF TypeInv, Slots

(* The parts of the entries of a list.                                       *)
LEMMA EntriesTyped ==
  ASSUME NEW cs \in Seq(Entries)
  PROVE  /\ IdsOf(cs) \subseteq Ids /\ DOMAIN cs = 1..Len(cs) /\ Len(cs) \in Nat
         /\ \A k \in DOMAIN cs : /\ cs[k] \in Entries /\ cs[k].id \in Ids
                                 /\ cs[k].name \in Names /\ cs[k].text \in Texts \cup {NoText}
<1>1. DOMAIN cs = 1..Len(cs) /\ Len(cs) \in Nat
  OBVIOUS
<1>2. \A k \in DOMAIN cs : cs[k] \in Entries
  OBVIOUS
<1>. QED
  BY <1>1, <1>2 DEF Entries, IdsOf

(* What may be pending after a click is an action.                           *)
LEMMA ActionsTyped ==
  ASSUME TypeInv, NEW action \in Actions
  PROVE  action \in Pendings
<1>1. IdsOf(configs) \subseteq Ids /\ pending \in Pendings
  BY EntriesTyped DEF TypeInv
<1>. QED
  BY <1>1 DEF Actions, Pendings

(* A deletion leaves a list, a selection and one task more.                  *)
LEMMA DeleteTypes ==
  ASSUME TypeInv, NEW gone \in (SUBSET IdsOf(configs)) \ {{}}, Delete(gone)
  PROVE  TypeInv'
<1>. USE DEF TypeInv
<1>. DEFINE rest == Without(configs, gone)
            next == SelectedAfter(rest)
            rows == [k \in DOMAIN configs |-> configs[k].id]
            places == {k \in DOMAIN configs : configs[k].id \in gone}
            paths == KeptAt(rows, places)
            job == [TaskOn("remove", "remove", NoId) EXCEPT !.ids = paths]
            ts == Spawn(task, job)
            ed == [editor EXCEPT !.op = "none", !.loading = NoId]
<1>1. /\ configs' = rest /\ selected' = next /\ Persist
      /\ IF next = NoId THEN editor' = NoEditor /\ task' = ts
         ELSE IF next = selected THEN editor' = ed /\ task' = ts
         ELSE Show(ts, rest, ed, "none", next)
      /\ UNCHANGED <<nextId, pending, files, setting, stored, loaded>>
  BY Zenon DEF Delete
<1>2. rest \in Seq(Entries)
  BY KeptSeq DEF Without
<1>3. next \in Ids \cup {NoId}
  <2>1. DOMAIN configs = 1..Len(configs) /\ Len(configs) \in Nat
    OBVIOUS
  <2>2. selected \in IdsOf(configs) => Where(configs, selected) \in 1..Len(configs)
    BY <2>1, WherePlace
  <2>3. rest # <<>> => Len(rest) \in Nat \ {0}
    BY <1>2, EmptySeq
  <2>4. \A m \in 1..Len(rest) : rest[m].id \in Ids
    <3>. HIDE DEF rest
    <3>. QED
      BY <1>2, EntriesTyped
  <2>. HIDE DEF rest
  <2>5. rest # <<>> /\ selected \in IdsOf(configs) =>
          (IF Where(configs, selected) <= Len(rest) THEN Where(configs, selected) ELSE Len(rest))
            \in 1..Len(rest)
    BY <2>1, <2>2, <2>3
  <2>. QED
    BY <2>4, <2>5 DEF SelectedAfter
<1>4. paths \in Seq(Ids) /\ paths # <<>>
  <2>1. rows \in Seq(Ids) /\ DOMAIN rows = DOMAIN configs
    <3>1. DOMAIN configs = 1..Len(configs) /\ Len(configs) \in Nat
      OBVIOUS
    <3>2. rows \in [1..Len(configs) -> Ids]
      BY <3>1, EntriesTyped
    <3>. QED
      BY <3>1, <3>2, SeqDef
  <2>2. places \in SUBSET DOMAIN rows /\ places # {}
    BY <2>1 DEF IdsOf
  <2>. HIDE DEF rows, places
  <2>3. paths \in Seq(Ids) /\ \E m \in DOMAIN paths : TRUE
    BY <2>1, <2>2, KeptSeq
  <2>. HIDE DEF paths
  <2>. QED
    BY <2>3
<1>5. ts \in [Slots -> ShapedTasks]
  <2>. HIDE DEF paths
  <2>1. job \in ShapedTasks
    BY <1>4, RemoveTasks
  <2>. HIDE DEF job
  <2>. QED
    BY <2>1, SpawnTypes
<1>6. ed \in Editors
  BY DEF Editors
<1>. HIDE DEF ts, ed, next, rest
<1>7. editor' \in Editors /\ task' \in [Slots -> ShapedTasks]
  BY <1>1, <1>3, <1>5, <1>6, ShowTypes, NewTasks
<1>. QED
  BY <1>1, <1>2, <1>3, <1>7, PersistTypes

(* What the user does.                                                      *)
LEMMA UserTypes ==
  ASSUME TypeInv, User
  PROVE  TypeInv'
<1>. USE DEF TypeInv
<1>1. ASSUME NEW i \in Ids, Select(i)
      PROVE  TypeInv'
  <2>1. Persist /\ Show(task, configs, editor, "loading", i)
    BY <1>1 DEF Select
  <2>2. editor' \in Editors /\ task' \in [Slots -> ShapedTasks]
    BY <2>1, ShowTypes
  <2>. QED
    BY <1>1, <2>1, <2>2, PersistTypes DEF Select
<1>2. CASE Discard
  <2>. DEFINE i == IF editor.source # NoId THEN editor.source ELSE selected
  <2>1. /\ NoPersist /\ i \in Ids \cup {NoId} /\ selected' = i
        /\ IF i = NoId THEN editor' = NoEditor /\ task' = task
                       ELSE Show(task, configs, editor, "loading", i)
    BY <1>2 DEF Discard, Editors
  <2>2. editor' \in Editors /\ task' \in [Slots -> ShapedTasks]
    BY <2>1, ShowTypes, NewTasks
  <2>3. pending' \in Pendings
    BY <1>2 DEF Discard, NoAction, Pendings, NoId
  <2>. QED
    BY <1>2, <2>1, <2>2, <2>3, PersistTypes DEF Discard
<1>3. CASE NewDraft \/ Paste
  <2>1. editor' \in Editors
    BY <1>3, NewTasks DEF NewDraft, Paste, Editors
  <2>. QED
    BY <1>3, <2>1, PersistTypes DEF NewDraft, Paste
<1>4. CASE ImportClick
  BY <1>4, PersistTypes, SpawnTypes, NewTasks DEF ImportClick
<1>5. CASE Export
  <2>. DEFINE k == [TaskOn("export", "pick", selected) EXCEPT !.new = ~Known(configs, selected)]
  <2>1. selected \in Ids
    BY <1>5, EntriesTyped DEF Export
  <2>2. k \in ShapedTasks
    BY <2>1, ExportTasks, Zenon DEF Known
  <2>3. editor' \in Editors /\ NoPersist /\ task' = Spawn(task, k)
    BY <1>5 DEF Export, Editors
  <2>. HIDE DEF k
  <2>. QED
    BY <1>5, <2>2, <2>3, PersistTypes, SpawnTypes DEF Export
<1>6. CASE Copy
  <2>1. selected \in Ids
    BY <1>6, EntriesTyped DEF Copy
  <2>. QED
    BY <1>6, <2>1, PersistTypes, SpawnTypes, NewTasks DEF Copy
<1>7. ASSUME NEW asNew \in BOOLEAN, NEW name \in setting.names, NEW text \in setting.texts,
             NEW action \in Actions, SaveClick(asNew, name, text, action)
      PROVE  TypeInv'
  <2>. DEFINE i == SaveTarget(asNew)
              new == SavesNew(asNew)
              k == SaveTask(i, name, text, new)
  <2>1. i \in Ids /\ name \in Names /\ text \in Texts
    BY <1>7, ConstantsTyped DEF SaveClick
  <2>2. new \in BOOLEAN
    BY DEF SavesNew
  <2>3. k \in ShapedTasks
    <3>. HIDE DEF i, new
    <3>. QED
      BY <2>1, <2>2, SaveTasks
  <2>4. task' = Spawn(task, k) /\ pending' = action /\ NoPersist
        /\ editor' = [editor EXCEPT !.op = "saving"]
    BY <1>7, Zenon DEF SaveClick, SaveTask
  <2>5. action \in Pendings
    BY ActionsTyped
  <2>. HIDE DEF k
  <2>6. task' \in [Slots -> ShapedTasks] /\ editor' \in Editors
    BY <2>3, <2>4, SpawnTypes DEF Editors
  <2>. QED
    BY <1>7, <2>4, <2>5, <2>6, PersistTypes DEF SaveClick
<1>8. ASSUME NEW action \in Actions, SaveRefused(action)
      PROVE  TypeInv'
  <2>1. action \in Pendings
    BY ActionsTyped
  <2>. QED
    BY <1>8, <2>1, PersistTypes DEF SaveRefused
<1>9. ASSUME NEW name \in setting.names, Rename(name)
      PROVE  TypeInv'
  <2>. DEFINE i == IF editor.source # NoId THEN editor.source ELSE selected
              w == Where(configs, i)
  <2>1. i \in IdsOf(configs) /\ configs' = [configs EXCEPT ![w].name = name] /\ Persist
    BY <1>9 DEF Rename
  <2>2. w \in DOMAIN configs /\ name \in Names
    <3>. HIDE DEF i
    <3>. QED
      BY <2>1, WherePlace, ConstantsTyped
  <2>. HIDE DEF w
  <2>3. [configs[w] EXCEPT !.name = name] \in Entries
    <3>1. configs[w] \in Entries
      BY <2>2
    <3>. QED
      BY <2>2, <3>1 DEF Entries
  <2>4. configs' = [configs EXCEPT ![w] = [configs[w] EXCEPT !.name = name]]
    BY <2>1
  <2>5. configs' \in Seq(Entries)
    BY <2>2, <2>3, <2>4, EntrySet
  <2>. QED
    BY <1>9, <2>1, <2>5, PersistTypes DEF Rename
<1>10. ASSUME NEW gone \in (SUBSET IdsOf(configs)) \ {{}}, Delete(gone)
       PROVE  TypeInv'
  BY <1>10, DeleteTypes
<1>11. ASSUME NEW t \in Slots, ImportCancel(t) \/ ExportDone(t)
       PROVE  TypeInv'
  <2>1. editor' \in Editors
    BY <1>11 DEF ImportCancel, ExportDone, Editors
  <2>. QED
    BY <1>11, <2>1, PersistTypes, EndTypes DEF ImportCancel, ExportDone
<1>12. ASSUME NEW t \in Slots, NEW n \in 1..MaxId, ImportStart(t, n)
       PROVE  TypeInv'
  <2>. DEFINE ids == [k \in 1..n |-> nextId + k - 1]
              k == [task[t] EXCEPT !.step = "begin", !.ids = ids]
  <2>1. nextId + n - 1 \in 1..MaxId
    BY <1>12, ConstantsTyped DEF ImportStart, Ids
  <2>2. ids \in Seq(Ids)
    <3>1. ids \in [1..n -> Ids] /\ n \in Nat
      BY <2>1, ConstantsTyped DEF Ids
    <3>. HIDE DEF ids
    <3>. QED
      BY <3>1, SeqDef
  <2>3. k \in ShapedTasks
    <3>1. task[t].kind = "import" /\ task[t] \in ShapedTasks
      BY <1>12 DEF ImportStart
    <3>2. \A b \in ShapedTasks : b.kind = "import" =>
            [b EXCEPT !.step = "begin", !.ids = ids] \in ShapedTasks
      <4>. HIDE DEF ids
      <4>. QED
        BY <2>2, BeginTask, Zenon
    <3>. HIDE DEF ids
    <3>. QED
      BY <3>1, <3>2, Zenon
  <2>4. nextId' \in 1..(MaxId + 1)
    BY <1>12, <2>1, ConstantsTyped DEF ImportStart
  <2>5. editor' \in Editors /\ NoPersist /\ task' = [task EXCEPT ![t] = k]
    BY <1>12 DEF ImportStart, Editors
  <2>. HIDE DEF k
  <2>. QED
    BY <1>12, <2>3, <2>4, <2>5, PersistTypes DEF ImportStart
<1>13. ASSUME NEW t \in Slots, ExportFolder(t)
       PROVE  TypeInv'
  <2>1. PICK x \in Steps : task' = [task EXCEPT ![t].step = x]
    BY <1>13 DEF ExportFolder, Steps
  <2>2. task' = [task EXCEPT ![t] = [task[t] EXCEPT !.step = x]]
    BY <2>1
  <2>3. task' \in [Slots -> ShapedTasks]
    BY <2>2, StepTask
  <2>. QED
    BY <1>13, <2>3, PersistTypes DEF ExportFolder
<1>. QED
  BY <1>1, <1>2, <1>3, <1>4, <1>5, <1>6, <1>7, <1>8, <1>9, <1>10, <1>11, <1>12,
     <1>13 DEF User

(* What a job of an import leaves of it.                                     *)
LEMMA LeftTask ==
  ASSUME NEW k \in ShapedTasks, k.kind = "import", NEW ids \in Seq(Ids)
  PROVE  [k EXCEPT !.ids = ids] \in ShapedTasks /\ [k EXCEPT !.ids = ids].kind = "import"
BY DEF ShapedTasks, Tasks

(* What a job of an import adds to it.                                       *)
LEMMA DoneTask ==
  ASSUME NEW k \in ShapedTasks, k.kind = "import", NEW used \in SUBSET Names,
         NEW done \in Seq([id : Ids, name : Names, text : {NoText}])
  PROVE  [k EXCEPT !.used = used, !.done = done] \in ShapedTasks
<1>1. [k EXCEPT !.used = used, !.done = done] \in Tasks
  BY DEF ShapedTasks, Tasks
<1>. QED
  BY <1>1 DEF ShapedTasks, Tasks

(* An import begins with the names in use.                                   *)
LEMMA UsedTask ==
  ASSUME NEW k \in ShapedTasks, k.kind = "import", NEW used \in SUBSET Names
  PROVE  [k EXCEPT !.step = "write", !.used = used] \in ShapedTasks
<1>1. PICK j : j = [k EXCEPT !.step = "write", !.used = used]
  OBVIOUS
<1>2. j \in Tasks
  BY <1>1 DEF ShapedTasks, Tasks
<1>3. j.kind = k.kind
  BY <1>1 DEF ShapedTasks, Tasks
<1>. QED
  BY <1>1, <1>2, <1>3 DEF ShapedTasks

(* A removal that has files left.                                            *)
LEMMA RestTask ==
  ASSUME NEW k \in ShapedTasks, NEW ids \in Seq(Ids), ids # <<>>
  PROVE  [k EXCEPT !.ids = ids] \in ShapedTasks
BY DEF ShapedTasks, Tasks

(* A write ends well or not, with the old or the new contents.               *)
LEMMA OutcomeTypes ==
  ASSUME NEW old, NEW new, NEW o \in Outcomes(old, new)
  PROVE  o[1] \in {"ok", "failed"} /\ o[2] \in {old, new}
BY DEF Outcomes

(* The end of a save.                                                        *)
LEMMA SaveDoneTypes ==
  ASSUME TypeInv, NEW t \in Slots, SaveDone(t)
  PROVE  TypeInv'
<1>. USE DEF TypeInv
<1>. DEFINE i == task[t].id
            c == [id |-> i, name |-> task[t].name, text |-> task[t].text]
<1>1. /\ task[t].kind = "save" /\ configs' = InsertOrUpdate(configs, c)
      /\ AfterSave(t, i) /\ pending' = NoAction /\ Persist
      /\ UNCHANGED <<nextId, files, setting, stored, loaded>>
  BY DEF SaveDone
<1>2. i \in Ids /\ c \in Entries
  BY <1>1 DEF ShapedTasks, Tasks, Entries
<1>3. configs' \in Seq(Entries) /\ pending' \in Pendings
  <2>1. pending' \in Pendings
    BY <1>1 DEF NoAction, NoId, Pendings
  <2>. HIDE DEF c
  <2>. QED
    BY <1>1, <1>2, <2>1, InsertTypes
<1>4. End(t) \in [Slots -> ShapedTasks]
  BY EndTypes
<1>5. [editor EXCEPT !.op = "none"] \in Editors /\ [NoEditor EXCEPT !.source = i] \in Editors
  BY <1>2, NewTasks DEF Editors
<1>. HIDE DEF i, c
<1>6. CASE selected' = i /\ Show(End(t), configs', [editor EXCEPT !.op = "none"], "loading", i)
  BY <1>1, <1>2, <1>3, <1>4, <1>5, <1>6, ShowTypes, PersistTypes
<1>7. CASE /\ pending.kind = "select" /\ pending.id # i /\ selected' = pending.id
           /\ Show(End(t), configs', [NoEditor EXCEPT !.source = i], "loading", pending.id)
  <2>1. CASE pending.id \in Ids
    BY <1>1, <1>2, <1>3, <1>4, <1>5, <1>7, <2>1, ShowTypes, PersistTypes
  <2>2. CASE pending.id = NoId
    <3>1. NoId \notin IdsOf(configs')
      BY <1>3, EntriesTyped DEF Ids, NoId
    <3>2. editor' = [NoEditor EXCEPT !.source = i] /\ task' = End(t)
      BY <1>7, <2>2, <3>1 DEF Show
    <3>. QED
      BY <1>1, <1>2, <1>3, <1>4, <1>5, <1>7, <2>2, <3>2, PersistTypes
  <2>. QED
    BY <2>1, <2>2 DEF Pendings
<1>8. CASE /\ selected' = i /\ editor' = [NoEditor EXCEPT !.source = i]
           /\ task' = Spawn(End(t), Pick)
  BY <1>1, <1>2, <1>3, <1>4, <1>5, <1>8, SpawnTypes, NewTasks, PersistTypes
<1>9. CASE selected' = NoId /\ editor' = NoEditor /\ task' = End(t)
  BY <1>1, <1>2, <1>3, <1>4, <1>9, NewTasks, PersistTypes
<1>. QED
  BY <1>1, <1>6, <1>7, <1>8, <1>9 DEF AfterSave, i

(* A job of an import.                                                       *)
LEMMA ImportWriteTypes ==
  ASSUME TypeInv, NEW t \in Slots, NEW i \in Ids, ImportWrite(t, i)
  PROVE  TypeInv'
<1>. USE DEF TypeInv
<1>. DEFINE rest == KeptAt(task[t].ids, {k \in DOMAIN task[t].ids : task[t].ids[k] # i})
            left == [task[t] EXCEPT !.ids = rest]
<1>1. task[t].kind = "import" /\ task[t] \in ShapedTasks
  BY DEF ImportWrite
<1>2. rest \in Seq(Ids)
  <2>1. task[t].ids \in Seq(Ids)
    BY <1>1 DEF ShapedTasks, Tasks
  <2>. QED
    BY <2>1, KeptSeq
<1>3. left \in ShapedTasks /\ left.kind = "import"
  <2>. HIDE DEF rest
  <2>. QED
    BY <1>1, <1>2, LeftTask
<1>4. NoPersist /\ UNCHANGED <<configs, nextId, selected, editor, pending, setting, stored, loaded>>
  BY DEF ImportWrite
<1>5. CASE \E text \in setting.texts, base \in setting.names :
             \E name \in AvailableNames(task[t].used, base) :
                /\ files' = [files EXCEPT ![i] = text]
                /\ task' = [task EXCEPT ![t] =
                     [left EXCEPT !.used = @ \cup {name},
                                  !.done = Append(@, [id |-> i, name |-> name, text |-> NoText])]]
  <2>. PICK text \in setting.texts, base \in setting.names :
             \E name \in AvailableNames(task[t].used, base) :
                /\ files' = [files EXCEPT ![i] = text]
                /\ task' = [task EXCEPT ![t] =
                     [left EXCEPT !.used = @ \cup {name},
                                  !.done = Append(@, [id |-> i, name |-> name, text |-> NoText])]]
    BY <1>5
  <2>. PICK name \in AvailableNames(task[t].used, base) :
                /\ files' = [files EXCEPT ![i] = text]
                /\ task' = [task EXCEPT ![t] =
                     [left EXCEPT !.used = @ \cup {name},
                                  !.done = Append(@, [id |-> i, name |-> name, text |-> NoText])]]
    OBVIOUS
  <2>. HIDE DEF left
  <2>. DEFINE used == left.used \cup {name}
              done == Append(left.done, [id |-> i, name |-> name, text |-> NoText])
  <2>1. name \in Names /\ text \in Texts
    BY ConstantsTyped DEF AvailableNames
  <2>2. used \in SUBSET Names /\ done \in Seq([id : Ids, name : Names, text : {NoText}])
    BY <1>3, <2>1 DEF ShapedTasks, Tasks
  <2>3. task' = [task EXCEPT ![t] = [left EXCEPT !.used = used, !.done = done]]
    OBVIOUS
  <2>4. files' \in [Ids -> Texts \cup {NoText}]
    BY <2>1
  <2>. HIDE DEF used, done
  <2>5. [left EXCEPT !.used = used, !.done = done] \in ShapedTasks
    BY <1>3, <2>2, DoneTask, Zenon
  <2>6. task' \in [Slots -> ShapedTasks]
    BY <2>3, <2>5, Zenon
  <2>. QED
    BY <1>4, <2>4, <2>6, PersistTypes
<1>6. CASE /\ task' = [task EXCEPT ![t] = left]
           /\ \/ UNCHANGED files
              \/ \E text \in setting.texts : files' = [files EXCEPT ![i] = text]
  <2>. HIDE DEF left
  <2>1. files' \in [Ids -> Texts \cup {NoText}]
    BY <1>6, ConstantsTyped
  <2>. QED
    BY <1>3, <1>4, <1>6, <2>1, PersistTypes
<1>. QED
  BY <1>5, <1>6, Zenon DEF ImportWrite

(* The end of an import.                                                     *)
LEMMA ImportDoneTypes ==
  ASSUME TypeInv, NEW t \in Slots, ImportDone(t)
  PROVE  TypeInv'
<1>. USE DEF TypeInv
<1>. DEFINE done == task[t].done
            ed == [editor EXCEPT !.op = "none"]
<1>1. ed \in Editors /\ End(t) \in [Slots -> ShapedTasks]
  BY EndTypes DEF Editors
<1>2. UNCHANGED <<nextId, pending, files, setting, stored, loaded>>
  BY DEF ImportDone
<1>3. CASE done = <<>>
  BY <1>1, <1>2, <1>3, PersistTypes DEF ImportDone
<1>4. CASE done # <<>>
  <2>1. /\ configs' = configs \o done /\ selected' = done[Len(done)].id /\ Persist
        /\ Show(End(t), configs', ed, "loading", selected')
    BY <1>4 DEF ImportDone
  <2>2. done \in Seq(Entries)
    <3>1. done \in Seq([id : Ids, name : Names, text : {NoText}])
      BY DEF ShapedTasks, Tasks
    <3>2. [id : Ids, name : Names, text : {NoText}] \subseteq Entries
      BY DEF Entries
    <3>. HIDE DEF done
    <3>. QED
      BY <3>1, <3>2, SeqMonotonic
  <2>. HIDE DEF done, ed
  <2>3. selected' \in Ids
    BY <1>4, <2>1, <2>2, EntriesTyped, EmptySeq
  <2>4. configs' \in Seq(Entries)
    BY <2>1, <2>2
  <2>5. editor' \in Editors /\ task' \in [Slots -> ShapedTasks]
    BY <1>1, <2>1, <2>3, ShowTypes
  <2>. QED
    BY <1>2, <2>1, <2>3, <2>4, <2>5, PersistTypes
<1>. QED
  BY <1>3, <1>4

(* What the tasks do.                                                       *)
LEMMA TaskTypes ==
  ASSUME TypeInv, NEW t \in Slots, TaskStep(t)
  PROVE  TypeInv'
<1>. USE DEF TypeInv
<1>1. ASSUME NEW x \in Steps, task' = [task EXCEPT ![t].step = x]
      PROVE  task' \in [Slots -> ShapedTasks]
  <2>1. task' = [task EXCEPT ![t] = [task[t] EXCEPT !.step = x]]
    BY <1>1
  <2>. QED
    BY <2>1, StepTask
<1>2. CASE SaveWrite(t)
  <2>1. PICK o \in Outcomes(files[task[t].id], task[t].text) :
             /\ files' = [files EXCEPT ![task[t].id] = o[2]]
             /\ task' = [task EXCEPT ![t].step = o[1]]
    BY <1>2 DEF SaveWrite
  <2>2. o[1] \in Steps /\ o[2] \in {files[task[t].id], task[t].text}
    BY OutcomeTypes DEF Steps
  <2>3. task[t].id \in Ids /\ task[t].text \in Texts \cup {NoText}
    BY <1>2 DEF SaveWrite, ShapedTasks, Tasks
  <2>4. task' \in [Slots -> ShapedTasks] /\ files' \in [Ids -> Texts \cup {NoText}]
    BY <1>1, <2>1, <2>2, <2>3
  <2>. QED
    BY <1>2, <2>4, PersistTypes DEF SaveWrite
<1>3. CASE SaveFailed(t)
  <2>1. editor' \in Editors
    BY <1>3 DEF SaveFailed, Editors
  <2>. QED
    BY <1>3, <2>1, PersistTypes, EndTypes DEF SaveFailed
<1>4. CASE LoadRead(t)
  <2>1. task[t].id \in Ids
    BY <1>4 DEF LoadRead, ShapedTasks
  <2>2. \/ task' = [task EXCEPT ![t].step = "ok", ![t].text = files[task[t].id]]
        \/ task' = [task EXCEPT ![t].step = "failed"]
    BY <1>4 DEF LoadRead
  <2>3. task' \in [Slots -> ShapedTasks]
    <3>1. CASE task' = [task EXCEPT ![t].step = "ok", ![t].text = files[task[t].id]]
      <4>. DEFINE text == files[task[t].id]
      <4>1. text \in Texts \cup {NoText}
        BY <2>1
      <4>2. task' = [task EXCEPT ![t] = [task[t] EXCEPT !.step = "ok", !.text = text]]
        BY <3>1
      <4>. HIDE DEF text
      <4>3. [task[t] EXCEPT !.step = "ok", !.text = text] \in ShapedTasks
        BY <4>1, TextTask, Zenon DEF Steps
      <4>. QED
        BY <4>2, <4>3, Zenon
    <3>2. CASE task' = [task EXCEPT ![t].step = "failed"]
      BY <1>1, <3>2 DEF Steps
    <3>. QED
      BY <2>2, <3>1, <3>2
  <2>. QED
    BY <1>4, <2>3, PersistTypes DEF LoadRead
<1>5. CASE LoadDone(t)
  <2>1. configs' \in Seq(Entries)
    BY <1>5, CachedTypes DEF LoadDone
  <2>2. editor' \in Editors
    <3>1. task[t].id \in Ids
      BY <1>5 DEF LoadDone, ShapedTasks
    <3>2. \/ editor' = editor \/ editor' = [editor EXCEPT !.loading = NoId]
          \/ editor' = [NoEditor EXCEPT !.source = task[t].id]
          \/ editor' = [NoEditor EXCEPT !.source = editor.source]
      BY <1>5 DEF LoadDone
    <3>. QED
      BY <3>1, <3>2, NewTasks DEF Editors
  <2>. QED
    BY <1>5, <2>1, <2>2, PersistTypes, EndTypes DEF LoadDone
<1>6. CASE Remove(t)
  <2>1. task[t].ids \in Seq(Ids) /\ task[t].ids # <<>>
    BY <1>6 DEF Remove, ShapedTasks, Tasks
  <2>2. files' \in [Ids -> Texts \cup {NoText}]
    BY <1>6 DEF Remove
  <2>3. task' \in [Slots -> ShapedTasks]
    <3>1. CASE task' = End(t)
      BY <3>1, EndTypes
    <3>2. CASE task' = [task EXCEPT ![t].ids = Tail(task[t].ids)] /\ Len(task[t].ids) # 1
      <4>1. Tail(task[t].ids) \in Seq(Ids) /\ Tail(task[t].ids) # <<>>
        <5>1. Len(task[t].ids) \in Nat /\ Len(task[t].ids) # 0 /\ Tail(task[t].ids) \in Seq(Ids)
              /\ Len(Tail(task[t].ids)) = Len(task[t].ids) - 1
          BY <2>1, HeadTailProperties, EmptySeq
        <5>. DEFINE tail == Tail(task[t].ids)
        <5>2. Len(tail) # 0 /\ tail \in Seq(Ids)
          BY <3>2, <5>1
        <5>. HIDE DEF tail
        <5>3. tail # <<>>
          BY <5>2, EmptySeq
        <5>. QED
          BY <5>1, <5>3 DEF tail
      <4>2. task' = [task EXCEPT ![t] = [task[t] EXCEPT !.ids = Tail(task[t].ids)]]
        BY <3>2
      <4>3. [task[t] EXCEPT !.ids = Tail(task[t].ids)] \in ShapedTasks
        BY <4>1, RestTask
      <4>. QED
        BY <4>2, <4>3
    <3>. QED
      BY <1>6, <3>1, <3>2 DEF Remove
  <2>. QED
    BY <1>6, <2>2, <2>3, PersistTypes DEF Remove
<1>7. CASE ExportCache(t)
  <2>1. configs' \in Seq(Entries)
    BY <1>7, CachedTypes DEF ExportCache
  <2>2. task' \in [Slots -> ShapedTasks]
    BY <1>1, <1>7 DEF ExportCache, Steps
  <2>. QED
    BY <1>7, <2>1, <2>2, PersistTypes DEF ExportCache
<1>8. CASE ExportDone(t)
  <2>1. editor' \in Editors
    BY <1>8 DEF ExportDone, Editors
  <2>. QED
    BY <1>8, <2>1, PersistTypes, EndTypes DEF ExportDone
<1>9. CASE CopyDone(t)
  <2>1. configs' \in Seq(Entries)
    BY <1>9, CachedTypes DEF CopyDone
  <2>. QED
    BY <1>9, <2>1, PersistTypes, EndTypes DEF CopyDone
<1>10. CASE ImportBegin(t)
  <2>. DEFINE used == NamesOf(configs)
  <2>1. used \in SUBSET Names /\ task[t].kind = "import" /\ task[t] \in ShapedTasks
    BY <1>10, EntriesTyped DEF ImportBegin, NamesOf
  <2>2. task' = [task EXCEPT ![t] = [task[t] EXCEPT !.step = "write", !.used = used]]
    BY <1>10 DEF ImportBegin
  <2>. HIDE DEF used
  <2>3. [task[t] EXCEPT !.step = "write", !.used = used] \in ShapedTasks
    BY <2>1, UsedTask, Zenon
  <2>4. task' \in [Slots -> ShapedTasks]
    BY <2>2, <2>3, Zenon
  <2>. QED
    BY <1>10, <2>4, PersistTypes DEF ImportBegin
<1>. QED
  BY <1>2, <1>3, <1>4, <1>5, <1>6, <1>7, <1>8, <1>9, <1>10, SaveDoneTypes,
     ImportWriteTypes, ImportDoneTypes
    DEF TaskStep

(* What the writer takes can be in state.json.                               *)
LEMMA SnapshotTypes == TypeInv => Snapshot \in States
<1>. SUFFICES ASSUME TypeInv PROVE Snapshot \in States
  OBVIOUS
<1>. DEFINE rows == [k \in DOMAIN configs |-> [id |-> configs[k].id, name |-> configs[k].name]]
<1>1. DOMAIN configs = 1..Len(configs) /\ Len(configs) \in Nat
      /\ \A k \in DOMAIN configs : configs[k].id \in Ids /\ configs[k].name \in Names
  BY EntriesTyped DEF TypeInv
<1>2. rows \in [1..Len(configs) -> Keys]
  BY <1>1 DEF Keys
<1>3. rows \in Seq(Keys)
  <2>. HIDE DEF rows
  <2>. QED
    BY <1>1, <1>2, SeqDef
<1>4. Snapshot = [configs |-> rows, nextId |-> nextId]
  BY DEF Snapshot
<1>. HIDE DEF rows
<1>. QED
  BY <1>3, <1>4 DEF States, Keys, TypeInv

(* No state.json is one as well.                                             *)
LEMMA NoStateTypes == NoState \in States /\ IdleWriter \in Writers
BY ConstantsTyped DEF NoState, States, IdleWriter, Writers

(* What the start of the process reads.                                     *)
LEMMA LoadStateTypes ==
  ASSUME TypeInv, LoadState
  PROVE  TypeInv'
<1>. USE DEF TypeInv
<1>. DEFINE entries == KeptAt(stored.configs, {k \in DOMAIN stored.configs :
                                               files[stored.configs[k].id] # NoText})
            cs == [k \in DOMAIN entries |-> [id |-> entries[k].id, name |-> entries[k].name,
                                            text |-> NoText]]
            beyond == {n \in 1..(MaxId + 1) : \A i \in IdsOf(stored.configs) : i < n}
            free == CHOOSE n \in beyond : \A m \in beyond : n <= m
            ed == [editor EXCEPT !.loading = NoId]
<1>1. /\ configs' = cs /\ nextId' = IF stored.nextId >= free THEN stored.nextId ELSE free
      /\ selected' \in IdsOf(cs) \cup {NoId}
      /\ IF selected' = NoId THEN UNCHANGED <<editor, task>>
         ELSE Show(task, cs, ed, "loading", selected')
      /\ Persist \/ NoPersist
      /\ loaded' = TRUE /\ UNCHANGED <<pending, files, setting, stored>>
  BY Zenon DEF LoadState
<1>2. stored.configs \in Seq(Keys) /\ stored.nextId \in 1..(MaxId + 1)
  BY DEF States, Keys
<1>3. entries \in Seq(Keys)
  BY <1>2, KeptSeq
<1>4. cs \in Seq(Entries)
  <2>. HIDE DEF entries
  <2>1. DOMAIN entries = 1..Len(entries) /\ Len(entries) \in Nat
        /\ \A k \in DOMAIN entries : entries[k] \in Keys
    BY <1>3
  <2>2. cs \in [1..Len(entries) -> Entries]
    BY <2>1 DEF Keys, Entries
  <2>. HIDE DEF cs
  <2>. QED
    BY <2>1, <2>2, SeqDef
<1>5. free \in 1..(MaxId + 1)
  <2>1. beyond \subseteq Nat /\ beyond \subseteq 1..(MaxId + 1)
    BY ConstantsTyped
  <2>2. MaxId + 1 \in beyond
    <3>. DEFINE sc == stored.configs
    <3>1. \A k \in DOMAIN sc : sc[k].id \in Ids
      <4>1. \A k \in DOMAIN sc : sc[k] \in Keys
        <5>1. sc \in Seq(Keys)
          BY <1>2
        <5>. HIDE DEF sc
        <5>. QED
          BY <5>1
      <4>. HIDE DEF sc
      <4>. QED
        BY <4>1 DEF Keys
    <3>. QED
      BY <3>1, ConstantsTyped DEF IdsOf, Ids
  <2>. HIDE DEF beyond
  <2>3. \E n \in beyond : \A m \in beyond : n <= m
    BY <2>1, <2>2, Least
  <2>. QED
    BY <2>1, <2>3
<1>6. ed \in Editors
  BY DEF Editors
<1>. HIDE DEF cs, free, ed
<1>7. selected' \in Ids \cup {NoId}
  BY <1>1, <1>4, EntriesTyped
<1>8. editor' \in Editors /\ task' \in [Slots -> ShapedTasks]
  BY <1>1, <1>6, <1>7, ShowTypes
<1>9. configs' \in Seq(Entries) /\ nextId' \in 1..(MaxId + 1)
  BY <1>1, <1>2, <1>4, <1>5
<1>10. queued' \in BOOLEAN /\ writer' \in Writers
  BY <1>1, PersistTypes
<1>11. loaded' \in BOOLEAN /\ UNCHANGED <<pending, files, setting, stored>>
  BY <1>1
<1>. QED
  BY <1>7, <1>8, <1>9, <1>10, <1>11

(* The types hold when the process starts for the first time.                *)
LEMMA TypesInitially == Init => TypeInv
<1>. SUFFICES ASSUME Init PROVE TypeInv
  OBVIOUS
<1>1. configs \in Seq(Entries) /\ nextId \in 1..(MaxId + 1) /\ selected \in Ids \cup {NoId}
  BY ConstantsTyped DEF Init
<1>2. editor \in Editors /\ pending \in Pendings /\ task \in [Slots -> ShapedTasks]
  BY NewTasks DEF Init, NoAction, Pendings, NoId
<1>3. files \in [Ids -> Texts \cup {NoText}] /\ stored \in States /\ writer \in Writers
  BY NoStateTypes DEF Init
<1>. QED
  BY <1>1, <1>2, <1>3 DEF Init, TypeInv

(* Every step keeps the types.                                               *)
LEMMA TypesStep == TypeInv /\ [Next]_vars => TypeInv'
<1>. SUFFICES ASSUME TypeInv, [Next]_vars PROVE TypeInv'
  OBVIOUS
<1>1. CASE WriterTake
  BY <1>1, SnapshotTypes DEF WriterTake, TypeInv, Writers
<1>2. CASE WriterWrite
  <2>1. PICK o \in Outcomes(stored, writer.snapshot) :
             stored' = o[2] /\ writer' = [writer EXCEPT !.step = o[1]]
    BY <1>2 DEF WriterWrite
  <2>2. stored' \in States /\ writer' \in Writers
    BY <2>1, OutcomeTypes DEF TypeInv, Writers
  <2>. QED
    BY <1>2, <2>2 DEF WriterWrite, TypeInv
<1>3. CASE WriterDone
  <2>1. writer' \in Writers
    BY <1>3, NoStateTypes DEF WriterDone, Writers
  <2>. QED
    BY <1>3, <2>1 DEF WriterDone, TypeInv
<1>4. CASE LoadStateFailed
  BY <1>4 DEF LoadStateFailed, TypeInv
<1>5. CASE Restart
  <2>1. configs' \in Seq(Entries) /\ nextId' \in 1..(MaxId + 1) /\ selected' \in Ids \cup {NoId}
    BY <1>5, ConstantsTyped DEF Restart
  <2>2. editor' \in Editors /\ pending' \in Pendings /\ task' \in [Slots -> ShapedTasks]
    BY <1>5, NewTasks DEF Restart, NoAction, Pendings, NoId
  <2>. QED
    BY <1>5, <2>1, <2>2, NoStateTypes DEF Restart, TypeInv
<1>6. CASE UNCHANGED vars
  BY <1>6 DEF vars, TypeInv
<1>. QED
  BY <1>1, <1>2, <1>3, <1>4, <1>5, <1>6, UserTypes, TaskTypes, LoadStateTypes DEF Next,
     Writer

(* The types hold always.                                                    *)
LEMMA TypeInvariant == Spec => []TypeInv
BY TypesInitially, TypesStep, PTL DEF Spec

(* The library keeps its types: what is saved, imported or read back is a     *)
(* configuration, whatever fails and whenever the process ends.              *)
THEOREM TypesHold == Spec => []TypeOK
BY TypeInvariant, TypesSound, PTL

-----------------------------------------------------------------------------
(* What holds together where pages ask whether the editor is busy, no id is   *)
(* used twice and no file access fails.                                      *)

In(s) == {s[k] : k \in DOMAIN s}
UniqueKeys(cs) ==
  \A j, k \in DOMAIN cs : j # k => cs[j].id # cs[k].id /\ cs[j].name # cs[k].name

(* What is in state.json, and about to be, is a library as well.             *)
StoresUnique == UniqueKeys(stored.configs) /\ UniqueKeys(writer.snapshot.configs)
(* Before the start-up load there is nothing.                               *)
Fresh == ~loaded => /\ configs = <<>> /\ selected = NoId /\ editor = NoEditor
                    /\ pending = NoAction /\ \A t \in Slots : task[t].kind = "none"

(* One task at most acts on the editor, and the editor knows it; the others   *)
(* remove files.                                                            *)
Background == {"none", "remove"}
Only(t) == \A u \in Slots \ {t} : task[u].kind \in Background
Resting ==
  /\ \A u \in Slots : task[u].kind \in Background
  /\ editor.op = "none" /\ editor.loading = NoId /\ editor.source = selected
  /\ pending = NoAction
SaveRuns(t) ==
  /\ Only(t) /\ task[t].kind = "save" /\ task[t].step \in {"write", "ok"}
  /\ task[t].text \in Texts
  /\ editor.op = "saving" /\ editor.loading = NoId /\ editor.source = selected
  /\ \A k \in DOMAIN configs : configs[k].name = task[t].name => configs[k].id = task[t].id
  /\ task[t].step = "ok" => files[task[t].id] = task[t].text
  /\ pending.kind = "select" => pending.id \in IdsOf(configs)
LoadRuns(t) ==
  /\ Only(t) /\ task[t].kind = "load" /\ task[t].step \in {"read", "ok"}
  /\ editor.op \in {"none", "loading"} /\ editor.loading = task[t].id
  /\ selected = task[t].id /\ task[t].id \in IdsOf(configs)
  /\ task[t].step = "ok" => task[t].text = files[task[t].id]
  /\ pending = NoAction
ImportRuns(t) ==
  LET new == task[t].done
  IN /\ Only(t) /\ task[t].kind = "import" /\ task[t].step \in {"pick", "begin", "write"}
     /\ editor.op = IF task[t].step = "pick" THEN "none" ELSE "importing"
     /\ editor.loading = NoId /\ editor.source = selected /\ pending = NoAction
     /\ task[t].step = "pick" => task[t].ids = <<>>
     /\ task[t].step # "write" => new = <<>>
     /\ \A i \in In(task[t].ids) : i \notin IdsOf(configs) /\ i \notin IdsOf(new)
     /\ \A j \in DOMAIN new :
          /\ new[j].id \notin IdsOf(configs) /\ files[new[j].id] # NoText
          /\ new[j].name \notin NamesOf(configs)
          /\ new[j].name \in task[t].used
     /\ task[t].step = "write" => NamesOf(configs) \subseteq task[t].used
     /\ UniqueKeys(new)
Mode == Resting \/ \E t \in Slots : SaveRuns(t) \/ LoadRuns(t) \/ ImportRuns(t)

(* No file is removed that belongs to a configuration, or is about to.        *)
Held(k) == IF k.kind = "save" THEN {k.id}
           ELSE IF k.kind = "import" THEN In(k.ids) \cup IdsOf(k.done) ELSE {}
RemovesApart ==
  \A t \in Slots : task[t].kind = "remove" =>
    \A i \in In(task[t].ids) : i \notin IdsOf(configs) /\ \A u \in Slots : i \notin Held(task[u])

Agreement == UniqueKeys(configs) /\ Mode /\ RemovesApart /\ SelectedExists /\ FilesAgree
AgreeInv == setting.features = {} => Agreement /\ StoresUnique /\ Fresh

-----------------------------------------------------------------------------
(* Lists of configurations.                                                  *)

LEMMA PlacesInIds ==
  ASSUME NEW cs, NEW k \in DOMAIN cs
  PROVE  cs[k].id \in IdsOf(cs) /\ cs[k].name \in NamesOf(cs)
BY DEF IdsOf, NamesOf

(* Whoever changes neither ids nor names leaves the keys unique.             *)
LEMMA SameKeys ==
  ASSUME NEW cs, NEW ds, DOMAIN ds = DOMAIN cs,
         \A k \in DOMAIN cs : ds[k].id = cs[k].id /\ ds[k].name = cs[k].name
  PROVE  /\ UniqueKeys(cs) => UniqueKeys(ds)
         /\ IdsOf(ds) = IdsOf(cs) /\ NamesOf(ds) = NamesOf(cs)
<1>1. UniqueKeys(cs) => UniqueKeys(ds)
  BY DEF UniqueKeys
<1>2. IdsOf(ds) = IdsOf(cs)
  BY DEF IdsOf
<1>3. NamesOf(ds) = NamesOf(cs)
  BY DEF NamesOf
<1>. QED
  BY <1>1, <1>2, <1>3

(* Keys are unique in the empty list, and where something is left out.       *)
LEMMA EmptyUnique == UniqueKeys(<<>>)
BY DEF UniqueKeys

LEMMA WithoutKeys ==
  ASSUME NEW S, NEW cs \in Seq(S), NEW keep \in SUBSET (DOMAIN cs), UniqueKeys(cs)
  PROVE  UniqueKeys(KeptAt(cs, keep))
<1>. DEFINE rest == KeptAt(cs, keep)
<1>1. \A l, m \in DOMAIN rest : l # m =>
        \E j, k \in keep : j # k /\ rest[l] = cs[j] /\ rest[m] = cs[k]
  BY KeptSeq
<1>. HIDE DEF rest
<1>2. UniqueKeys(rest)
  BY <1>1 DEF UniqueKeys
<1>. QED
  BY <1>2 DEF rest

(* A deletion takes the deleted ids from the list, and nothing else.         *)
LEMMA WithoutIds ==
  ASSUME NEW S, NEW cs \in Seq(S), NEW gone
  PROVE  /\ IdsOf(Without(cs, gone)) = IdsOf(cs) \ gone
         /\ \A m \in DOMAIN Without(cs, gone) :
              \E k \in DOMAIN cs : Without(cs, gone)[m] = cs[k] /\ cs[k].id \notin gone
<1>. DEFINE keep == {k \in DOMAIN cs : cs[k].id \notin gone}
            rest == KeptAt(cs, keep)
<1>1. /\ \A m \in DOMAIN rest : \E k \in keep : rest[m] = cs[k]
      /\ \A k \in keep : \E m \in DOMAIN rest : rest[m] = cs[k]
  <2>1. PICK ks \in SUBSET (DOMAIN cs) : ks = keep
    OBVIOUS
  <2>2. \A m \in DOMAIN KeptAt(cs, ks) : \E k \in ks : KeptAt(cs, ks)[m] = cs[k]
    BY KeptSeq
  <2>3. \A k \in ks : \E m \in DOMAIN KeptAt(cs, ks) : KeptAt(cs, ks)[m] = cs[k]
    BY KeptSeq
  <2>. QED
    BY <2>1, <2>2, <2>3
<1>2. Without(cs, gone) = rest
  BY DEF Without
<1>. HIDE DEF rest
<1>3. IdsOf(rest) = IdsOf(cs) \ gone
  <2>1. \A i \in IdsOf(rest) : i \in IdsOf(cs) /\ i \notin gone
    BY <1>1 DEF IdsOf
  <2>2. \A i \in IdsOf(cs) \ gone : i \in IdsOf(rest)
    <3>. SUFFICES ASSUME NEW i \in IdsOf(cs) \ gone PROVE i \in IdsOf(rest)
      OBVIOUS
    <3>1. PICK k \in DOMAIN cs : cs[k].id = i
      BY DEF IdsOf
    <3>2. PICK m \in DOMAIN rest : rest[m] = cs[k]
      BY <1>1, <3>1
    <3>. QED
      BY <3>1, <3>2, PlacesInIds
  <2>. QED
    BY <2>1, <2>2
<1>. QED
  BY <1>1, <1>2, <1>3

(* A configuration that is saved takes its place, or a new one.              *)
LEMMA InsertKeys ==
  ASSUME NEW cs \in Seq(Entries), UniqueKeys(cs), NEW c \in Entries,
         \A k \in DOMAIN cs : cs[k].name = c.name => cs[k].id = c.id,
         NEW ds, ds = InsertOrUpdate(cs, c)
  PROVE  /\ UniqueKeys(ds) /\ IdsOf(ds) = IdsOf(cs) \cup {c.id}
         /\ \A k \in DOMAIN ds : ds[k] = c \/ (k \in DOMAIN cs /\ ds[k] = cs[k] /\ cs[k].id # c.id)
<1>1. CASE c.id \in IdsOf(cs)
  <2>. DEFINE w == Where(cs, c.id)
  <2>1. w \in DOMAIN cs /\ cs[w].id = c.id
    BY <1>1, WherePlace
  <2>2. ds = [cs EXCEPT ![w] = c]
    BY <1>1 DEF InsertOrUpdate
  <2>. HIDE DEF w
  <2>3. /\ DOMAIN ds = DOMAIN cs /\ ds[w] = c
        /\ \A k \in DOMAIN cs \ {w} : ds[k] = cs[k] /\ cs[k].id # c.id
    BY <2>1, <2>2, EntrySet DEF UniqueKeys
  <2>4. UniqueKeys(ds)
    BY <2>1, <2>3 DEF UniqueKeys
  <2>5. IdsOf(ds) = IdsOf(cs) \cup {c.id}
    <3>1. \A i \in IdsOf(ds) : i \in IdsOf(cs) \cup {c.id}
      BY <2>3 DEF IdsOf
    <3>2. \A i \in IdsOf(cs) \cup {c.id} : i \in IdsOf(ds)
      BY <2>1, <2>3 DEF IdsOf
    <3>. QED
      BY <3>1, <3>2
  <2>. QED
    BY <2>3, <2>4, <2>5
<1>2. CASE c.id \notin IdsOf(cs)
  <2>1. ds = Append(cs, c) /\ DOMAIN cs = 1..Len(cs) /\ Len(cs) \in Nat
    BY <1>2 DEF InsertOrUpdate
  <2>2. /\ DOMAIN ds = 1..(Len(cs) + 1) /\ ds[Len(cs) + 1] = c
        /\ \A k \in DOMAIN cs : ds[k] = cs[k]
    BY <2>1
  <2>3. \A k \in DOMAIN ds : (k = Len(cs) + 1 /\ ds[k] = c) \/ (k \in DOMAIN cs /\ ds[k] = cs[k])
    BY <2>1, <2>2
  <2>4. \A k \in DOMAIN cs : cs[k].id # c.id /\ cs[k].name # c.name
    BY <1>2 DEF IdsOf
  <2>5. UniqueKeys(ds)
    BY <2>3, <2>4 DEF UniqueKeys
  <2>6. IdsOf(ds) = IdsOf(cs) \cup {c.id}
    <3>1. \A i \in IdsOf(ds) : i \in IdsOf(cs) \cup {c.id}
      BY <2>3 DEF IdsOf
    <3>2. \A k \in DOMAIN cs : k \in DOMAIN ds
      BY <2>1, <2>2
    <3>3. \A i \in IdsOf(cs) \cup {c.id} : i \in IdsOf(ds)
      <4>1. Len(cs) + 1 \in DOMAIN ds
        BY <2>1, <2>2
      <4>. QED
        BY <2>2, <3>2, <4>1 DEF IdsOf
    <3>. QED
      BY <3>1, <3>3
  <2>. QED
    BY <2>3, <2>4, <2>5, <2>6
<1>. QED
  BY <1>1, <1>2

(* Lists without common keys stay unique when one follows the other.         *)
LEMMA ConcatKeys ==
  ASSUME NEW cs \in Seq(Entries), NEW ds \in Seq(Entries), UniqueKeys(cs), UniqueKeys(ds),
         \A k \in DOMAIN ds : ds[k].id \notin IdsOf(cs) /\ ds[k].name \notin NamesOf(cs)
  PROVE  LET es == cs \o ds
         IN  /\ UniqueKeys(es) /\ IdsOf(es) = IdsOf(cs) \cup IdsOf(ds)
             /\ \A k \in DOMAIN es : \/ \E j \in DOMAIN cs : es[k] = cs[j]
                                     \/ \E j \in DOMAIN ds : es[k] = ds[j]
<1>. DEFINE es == cs \o ds
<1>1. /\ DOMAIN cs = 1..Len(cs) /\ DOMAIN ds = 1..Len(ds) /\ Len(cs) \in Nat /\ Len(ds) \in Nat
      /\ DOMAIN es = 1..(Len(cs) + Len(ds))
      /\ \A k \in 1..(Len(cs) + Len(ds)) : es[k] = IF k <= Len(cs) THEN cs[k] ELSE ds[k - Len(cs)]
  OBVIOUS
<1>. HIDE DEF es
<1>2. \A k \in DOMAIN es : \/ k \in DOMAIN cs /\ es[k] = cs[k]
                           \/ k - Len(cs) \in DOMAIN ds /\ es[k] = ds[k - Len(cs)]
  BY <1>1
<1>3. \A j \in DOMAIN cs : j \in DOMAIN es /\ es[j] = cs[j]
  BY <1>1
<1>4. \A j \in DOMAIN ds : Len(cs) + j \in DOMAIN es /\ es[Len(cs) + j] = ds[j]
  BY <1>1
<1>5. UniqueKeys(es)
  <2>. SUFFICES ASSUME NEW j \in DOMAIN es, NEW k \in DOMAIN es, j # k
                PROVE  es[j].id # es[k].id /\ es[j].name # es[k].name
    BY DEF UniqueKeys
  <2>1. CASE j \in DOMAIN cs /\ es[j] = cs[j] /\ k \in DOMAIN cs /\ es[k] = cs[k]
    BY <2>1 DEF UniqueKeys
  <2>2. CASE /\ j - Len(cs) \in DOMAIN ds /\ es[j] = ds[j - Len(cs)]
             /\ k - Len(cs) \in DOMAIN ds /\ es[k] = ds[k - Len(cs)]
    <3>1. j - Len(cs) # k - Len(cs)
      BY <1>1
    <3>. QED
      BY <2>2, <3>1 DEF UniqueKeys
  <2>3. ASSUME NEW x \in DOMAIN cs, NEW y \in DOMAIN ds
        PROVE  cs[x].id # ds[y].id /\ cs[x].name # ds[y].name
    BY PlacesInIds
  <2>. QED
    BY <1>2, <2>1, <2>2, <2>3
<1>6. IdsOf(es) = IdsOf(cs) \cup IdsOf(ds)
  <2>1. \A i \in IdsOf(es) : i \in IdsOf(cs) \cup IdsOf(ds)
    BY <1>2 DEF IdsOf
  <2>2. \A i \in IdsOf(cs) \cup IdsOf(ds) : i \in IdsOf(es)
    BY <1>3, <1>4 DEF IdsOf
  <2>. QED
    BY <2>1, <2>2
<1>. QED
  BY <1>2, <1>5, <1>6 DEF es

-----------------------------------------------------------------------------
(* Tasks that come and go.                                                   *)

LEMMA Freed ==
  ASSUME NEW ts \in [Slots -> ShapedTasks], FreeSlots(ts) # {}, NEW k \in ShapedTasks
  PROVE  \E p \in Slots : /\ ts[p].kind = "none" /\ Spawn(ts, k)[p] = k
                          /\ \A u \in Slots \ {p} : Spawn(ts, k)[u] = ts[u]
<1>. DEFINE p == CHOOSE t \in FreeSlots(ts) : \A u \in FreeSlots(ts) : t <= u
<1>1. FreeSlots(ts) \subseteq Nat
  BY ConstantsTyped DEF FreeSlots
<1>2. p \in FreeSlots(ts)
  BY <1>1, Least
<1>3. Spawn(ts, k) = [ts EXCEPT ![p] = k]
  BY DEF Spawn
<1>. HIDE DEF p
<1>. QED
  BY <1>2, <1>3 DEF FreeSlots

(* A task that ends leaves its slot free and the others alone.               *)
LEMMA Ended ==
  ASSUME TypeInv, NEW t \in Slots
  PROVE  /\ End(t)[t].kind = "none" /\ \A u \in Slots \ {t} : End(t)[u] = task[u]
         /\ FreeSlots(End(t)) # {}
<1>1. NoTask.kind = "none"
  BY DEF NoTask, TaskOn
<1>. QED
  BY <1>1 DEF TypeInv, End, FreeSlots

(* A load that starts is a task for its configuration, and no other.         *)
LEMMA Loading ==
  ASSUME NEW i, NEW k, k = TaskOn("load", "read", i)
  PROVE  k.kind = "load" /\ k.step = "read" /\ k.id = i
BY DEF TaskOn

(* load_config_into_inputs, while nothing acts on the editor, shows the      *)
(* selected configuration at once or starts one load for it.                 *)
LEMMA ShowMode ==
  ASSUME NEW ts \in [Slots -> ShapedTasks], \A u \in Slots : ts[u].kind \in Background,
         NEW cs, cs = configs', NEW i \in IdsOf(cs), i \in Ids, NEW op \in {"none", "loading"},
         NEW ed \in Editors, Show(ts, cs, ed, op, i), selected' = i, pending' = NoAction
  PROVE  /\ Mode'
         /\ \A u \in Slots : /\ task'[u].kind \in {"none", "remove", "load"}
                             /\ task'[u].kind = "remove" => task'[u] = ts[u]
<1>1. CASE editor' = [NoEditor EXCEPT !.source = i] /\ task' = ts
  <2>1. editor'.op = "none" /\ editor'.loading = NoId /\ editor'.source = i
    BY <1>1 DEF NoEditor
  <2>. QED
    BY <1>1, <2>1 DEF Mode, Resting, Background
<1>2. CASE /\ editor' = [ed EXCEPT !.op = op, !.loading = i] /\ FreeSlots(ts) # {}
           /\ task' = Spawn(ts, TaskOn("load", "read", i))
  <2>. DEFINE k == TaskOn("load", "read", i)
  <2>1. k \in ShapedTasks /\ k.kind = "load" /\ k.step = "read" /\ k.id = i
    BY NewTasks, Loading
  <2>2. task' = Spawn(ts, k)
    BY <1>2
  <2>. HIDE DEF k
  <2>3. PICK p \in Slots : /\ ts[p].kind = "none" /\ task'[p] = k
                           /\ \A u \in Slots \ {p} : task'[u] = ts[u]
    BY <1>2, <2>1, <2>2, Freed
  <2>4. editor'.op = op /\ editor'.loading = i
    BY <1>2 DEF Editors
  <2>5. LoadRuns(p)'
    BY <2>1, <2>3, <2>4 DEF LoadRuns, Only
  <2>. QED
    BY <2>1, <2>3, <2>5 DEF Mode, Background
<1>. QED
  BY <1>1, <1>2, Zenon DEF Show

(* Where only files are removed and a text is loaded, a removal is apart if   *)
(* its files are no configuration's.                                        *)
LEMMA RemovesStayApart ==
  ASSUME \A u \in Slots : task'[u].kind \in {"none", "remove", "load"},
         \A t \in Slots : task'[t].kind = "remove" =>
           \A i \in In(task'[t].ids) : i \notin IdsOf(configs')
  PROVE  RemovesApart'
<1>1. \A u \in Slots : Held(task'[u]) = {}
  BY DEF Held
<1>. QED
  BY <1>1 DEF RemovesApart

(* The steps of the UI thread leave what is stored to the writer.            *)
LEMMA StoresStay ==
  ASSUME TypeInv, StoresUnique, Persist \/ NoPersist, stored' = stored
  PROVE  StoresUnique'
<1>1. writer'.snapshot = writer.snapshot
  BY DEF TypeInv, Writers, Persist, NoPersist
<1>. QED
  BY <1>1 DEF StoresUnique, UniqueKeys

(* What the pages ask: nothing else is at work on the editor.                *)
LEMMA Free ==
  ASSUME TypeInv, setting.features = {}, Mode, Idle
  PROVE  Resting
<1>1. editor.op = "none" /\ ~Picking /\ editor.loading = NoId
  BY DEF Idle, NotBusy
<1>2. \A t \in Slots : ~SaveRuns(t)
  BY <1>1 DEF SaveRuns
<1>3. \A t \in Slots : ~LoadRuns(t)
  BY <1>1 DEF LoadRuns, TypeInv, ShapedTasks, Ids, NoId
<1>4. \A t \in Slots : ~ImportRuns(t)
  BY <1>1 DEF ImportRuns, Picking
<1>. QED
  BY <1>2, <1>3, <1>4 DEF Mode

(* The ids in the list are ids, and none is the id of no configuration.      *)
LEMMA IdsOfEntries ==
  ASSUME TypeInv
  PROVE  IdsOf(configs) \subseteq Ids /\ NoId \notin Ids
BY EntriesTyped DEF TypeInv, Ids, NoId

(* The files agree with a list of which no more is known than before.         *)
LEMMA FilesStayAgreed ==
  ASSUME FilesAgree, files' = files, \A i \in Ids : Saving(i) => FALSE,
         IdsOf(configs') \subseteq Ids, IdsOf(configs) \subseteq Ids,
         \A m \in DOMAIN configs' : \E k \in DOMAIN configs :
           configs'[m].id = configs[k].id /\ configs'[m].text = configs[k].text
  PROVE  FilesAgree'
<1>. SUFFICES ASSUME NEW m \in DOMAIN configs'
              PROVE  /\ files[configs'[m].id] # NoText
                     /\ configs'[m].text = NoText \/ configs'[m].text = files[configs'[m].id]
  BY DEF FilesAgree
<1>1. PICK k \in DOMAIN configs :
        configs'[m].id = configs[k].id /\ configs'[m].text = configs[k].text
  OBVIOUS
<1>2. configs[k].id \in Ids
  BY PlacesInIds
<1>. QED
  BY <1>1, <1>2 DEF FilesAgree

-----------------------------------------------------------------------------
(* What the user does to an editor that is free.                             *)

LEMMA SelectAgrees ==
  ASSUME TypeInv, TypeInv', setting.features = {}, Agreement, NEW i \in Ids, Select(i)
  PROVE  Agreement'
<1>. USE DEF Agreement
<1>1. /\ i \in IdsOf(configs) /\ selected' = i /\ UNCHANGED <<configs, pending, files>>
      /\ Show(task, configs, editor, "loading", i) /\ Resting
  BY Free DEF Select
<1>2. /\ Mode'
      /\ \A u \in Slots : /\ task'[u].kind \in {"none", "remove", "load"}
                          /\ task'[u].kind = "remove" => task'[u] = task[u]
  BY <1>1, ShowMode DEF Resting, TypeInv
<1>3. RemovesApart'
  BY <1>1, <1>2, RemovesStayApart DEF RemovesApart
<1>4. FilesAgree'
  <2>1. \A j \in Ids : ~Saving(j)
    BY <1>1 DEF Resting, Background, Saving, Running
  <2>. QED
    BY <1>1, <2>1, FilesStayAgreed, IdsOfEntries
<1>. QED
  BY <1>1, <1>2, <1>3, <1>4 DEF SelectedExists, UniqueKeys

(* Discarding, with nothing at work, shows what is selected.                 *)
LEMMA DiscardAgrees ==
  ASSUME TypeInv, TypeInv', setting.features = {}, Agreement, Discard
  PROVE  Agreement'
<1>. USE DEF Agreement
<1>. DEFINE i == IF editor.source # NoId THEN editor.source ELSE selected
<1>1. /\ pending' = NoAction /\ selected' = i /\ UNCHANGED <<configs, files>>
      /\ IF i = NoId THEN editor' = NoEditor /\ task' = task
                     ELSE Show(task, configs, editor, "loading", i)
      /\ Resting
  BY Free DEF Discard
<1>2. i = selected
  BY <1>1 DEF Resting
<1>. HIDE DEF i
<1>3. FilesAgree'
  <2>1. \A j \in Ids : ~Saving(j)
    BY <1>1 DEF Resting, Background, Saving, Running
  <2>. QED
    BY <1>1, <2>1, FilesStayAgreed, IdsOfEntries
<1>4. SelectedExists' /\ UniqueKeys(configs)'
  BY <1>1, <1>2 DEF SelectedExists, UniqueKeys
<1>5. CASE i = NoId
  <2>1. Mode'
    BY <1>1, <1>5 DEF Mode, Resting, NoEditor
  <2>2. RemovesApart'
    BY <1>1, <1>5 DEF RemovesApart
  <2>. QED
    BY <1>3, <1>4, <2>1, <2>2
<1>6. CASE i # NoId
  <2>1. i \in IdsOf(configs) /\ i \in Ids
    BY <1>2, <1>6, IdsOfEntries DEF SelectedExists
  <2>2. /\ Mode'
        /\ \A u \in Slots : /\ task'[u].kind \in {"none", "remove", "load"}
                            /\ task'[u].kind = "remove" => task'[u] = task[u]
    BY <1>1, <1>6, <2>1, ShowMode DEF Resting, TypeInv
  <2>3. RemovesApart'
    BY <1>1, <2>2, RemovesStayApart DEF RemovesApart
  <2>. QED
    BY <1>3, <1>4, <2>2, <2>3
<1>. QED
  BY <1>5, <1>6

(* A new draft and a paste belong to no configuration.                       *)
LEMMA DraftAgrees ==
  ASSUME TypeInv, setting.features = {}, Agreement, NewDraft \/ Paste
  PROVE  Agreement'
<1>. USE DEF Agreement
<1>1. /\ selected' = NoId /\ editor'.op = "none" /\ editor'.loading = NoId /\ editor'.source = NoId
      /\ UNCHANGED <<configs, pending, task, files>> /\ Resting
  <2>1. Resting /\ selected' = NoId /\ UNCHANGED <<configs, pending, task, files>>
    BY Free DEF NewDraft, Paste
  <2>2. \/ editor' = NoEditor \/ editor' = [editor EXCEPT !.loading = NoId, !.source = NoId]
    BY DEF NewDraft, Paste
  <2>3. editor \in Editors /\ editor.op = "none"
    BY <2>1 DEF TypeInv, Resting
  <2>4. ASSUME editor' = [editor EXCEPT !.loading = NoId, !.source = NoId]
        PROVE  editor'.op = "none" /\ editor'.loading = NoId /\ editor'.source = NoId
    BY <2>3, <2>4 DEF Editors
  <2>. QED
    BY <2>1, <2>2, <2>4 DEF NoEditor
<1>2. Mode'
  BY <1>1 DEF Mode, Resting
<1>. QED
  BY <1>1, <1>2 DEF UniqueKeys, RemovesApart, SelectedExists, FilesAgree, Saving, Running

(* An import dialog opens.                                                   *)
LEMMA ImportClickAgrees ==
  ASSUME TypeInv, setting.features = {}, Agreement, ImportClick
  PROVE  Agreement'
<1>. USE DEF Agreement
<1>1. /\ FreeSlots(task) # {} /\ task' = Spawn(task, Pick)
      /\ UNCHANGED <<configs, selected, editor, pending, files>> /\ Resting
  BY Free DEF ImportClick, Idle
<1>2. PICK p \in Slots : /\ task[p].kind = "none" /\ task'[p] = Pick
                         /\ \A u \in Slots \ {p} : task'[u] = task[u]
  <2>. DEFINE k == Pick
  <2>1. k \in ShapedTasks /\ task \in [Slots -> ShapedTasks] /\ task' = Spawn(task, k)
    BY <1>1, NewTasks DEF TypeInv
  <2>. HIDE DEF k
  <2>2. \E p \in Slots : /\ task[p].kind = "none" /\ task'[p] = k
                         /\ \A u \in Slots \ {p} : task'[u] = task[u]
    BY <1>1, <2>1, Freed
  <2>. QED
    BY <2>2, Zenon DEF k
<1>3. Pick.kind = "import" /\ Pick.step = "pick" /\ Pick.ids = <<>> /\ Pick.done = <<>>
  BY DEF Pick, TaskOn
<1>4. ImportRuns(p)'
  BY <1>1, <1>2, <1>3 DEF ImportRuns, Only, Resting, In, UniqueKeys
<1>5. Held(Pick) = {}
  BY <1>3 DEF Held, In, IdsOf
<1>6. RemovesApart'
  BY <1>1, <1>2, <1>3, <1>5 DEF RemovesApart
<1>7. FilesAgree'
  <2>1. \A j \in Ids : ~Saving(j)
    BY <1>1 DEF Resting, Background, Saving, Running
  <2>. QED
    BY <1>1, <2>1, FilesStayAgreed, IdsOfEntries
<1>. QED
  BY <1>1, <1>4, <1>6, <1>7 DEF Mode, UniqueKeys, SelectedExists

(* A save starts: its id is the configuration of the draft, or new, so that  *)
(* no removal holds it, and its name is free.                                *)
LEMMA SaveClickAgrees ==
  ASSUME TypeInv, setting.features = {}, Agreement,
         NEW asNew \in BOOLEAN, NEW name \in setting.names, NEW text \in setting.texts,
         NEW action \in Actions, SaveClick(asNew, name, text, action)
  PROVE  Agreement'
<1>. USE DEF Agreement
<1>. DEFINE i == SaveTarget(asNew)
            own == IF asNew THEN NoId ELSE editor.source
            new == SavesNew(asNew)
            k == SaveTask(i, name, text, new)
<1>1. /\ pending' = action /\ i \in setting.ids /\ ~NameTaken(configs, own, name)
      /\ SavesNew(asNew) => NextIsNew
      /\ FreeSlots(task) # {} /\ editor' = [editor EXCEPT !.op = "saving"]
      /\ task' = Spawn(task, k) /\ UNCHANGED <<configs, selected, files>> /\ Resting
  BY Free, Zenon DEF SaveClick, NewIdsAllowed, SaveTask, Idle
<1>2. i \in Ids /\ name \in Names /\ text \in Texts
  BY <1>1, ConstantsTyped
<1>3. i \notin IdsOf(configs) => SavesNew(asNew) /\ i = nextId
  BY DEF SavesNew, SaveTarget
<1>4. \A j \in DOMAIN configs : configs[j].name = name => configs[j].id = i
  <2>. SUFFICES ASSUME NEW j \in DOMAIN configs, configs[j].name = name
                PROVE  configs[j].id = i
    OBVIOUS
  <2>1. configs[j].id = own /\ configs[j].id \in IdsOf(configs)
    BY <1>1, PlacesInIds DEF NameTaken
  <2>2. own # NoId /\ own \in IdsOf(configs)
    BY <2>1, IdsOfEntries
  <2>3. ~asNew /\ own = editor.source
    BY <2>2
  <2>4. i = editor.source
    <3>1. ~SavesNew(asNew)
      BY <2>2, <2>3, Zenon DEF SavesNew
    <3>. QED
      BY <3>1, Zenon DEF SaveTarget
  <2>. HIDE DEF i, own
  <2>. QED
    BY <2>1, <2>3, <2>4
<1>5. /\ k \in ShapedTasks /\ k.kind = "save" /\ k.step = "write" /\ k.id = i
      /\ k.name = name /\ k.text = text
  <2>1. new \in BOOLEAN
    BY DEF SavesNew
  <2>. HIDE DEF i, new
  <2>. QED
    BY <1>2, <2>1, SaveTasks
<1>. HIDE DEF k
<1>6. PICK p \in Slots : /\ task[p].kind = "none" /\ task'[p] = k
                         /\ \A u \in Slots \ {p} : task'[u] = task[u]
  BY <1>1, <1>5, Freed DEF TypeInv
<1>7. editor'.op = "saving" /\ editor'.loading = editor.loading /\ editor'.source = editor.source
  BY <1>1 DEF TypeInv, Editors
<1>8. action.kind = "select" => action.id \in IdsOf(configs)
  BY <1>1 DEF Actions, Resting, NoAction
<1>. HIDE DEF i
<1>9. SaveRuns(p)'
  BY <1>1, <1>2, <1>4, <1>5, <1>6, <1>7, <1>8 DEF SaveRuns, Only, Resting
<1>10. RemovesApart'
  <2>1. Held(k) = {i}
    BY <1>5 DEF Held
  <2>2. \A t \in Slots : task[t].kind = "remove" => i \notin In(task[t].ids)
    BY <1>2, <1>1, <1>3 DEF RemovesApart, NextIsNew, In, TypeInv, Ids
  <2>. QED
    BY <1>1, <1>5, <1>6, <2>1, <2>2 DEF RemovesApart
<1>11. FilesAgree'
  <2>1. \A j \in Ids : ~Saving(j)
    BY <1>1 DEF Resting, Background, Saving, Running
  <2>. QED
    BY <1>1, <2>1, FilesStayAgreed, IdsOfEntries
<1>. QED
  BY <1>1, <1>9, <1>10, <1>11 DEF Mode, UniqueKeys, SelectedExists

(* A rename takes a free name.                                               *)
LEMMA RenameAgrees ==
  ASSUME TypeInv, setting.features = {}, Agreement, NEW name \in setting.names, Rename(name)
  PROVE  Agreement'
<1>. USE DEF Agreement
<1>. DEFINE i == IF editor.source # NoId THEN editor.source ELSE selected
            w == Where(configs, i)
<1>1. /\ i \in IdsOf(configs) /\ name \notin NamesOf(configs)
      /\ configs' = [configs EXCEPT ![w].name = name]
      /\ UNCHANGED <<selected, editor, pending, task, files>> /\ Resting
  BY Free DEF Rename, Idle
<1>2. w \in DOMAIN configs /\ name \in Names /\ configs \in Seq(Entries)
  <2>. HIDE DEF i
  <2>. QED
    BY <1>1, WherePlace, ConstantsTyped DEF TypeInv
<1>. HIDE DEF w
<1>3. /\ DOMAIN configs' = DOMAIN configs
      /\ configs'[w].id = configs[w].id /\ configs'[w].text = configs[w].text
      /\ configs'[w].name = name
      /\ \A k \in DOMAIN configs \ {w} : configs'[k] = configs[k]
  <2>1. configs[w] \in Entries
    BY <1>2
  <2>. DEFINE c == [configs[w] EXCEPT !.name = name]
  <2>2. c \in Entries /\ c.id = configs[w].id /\ c.text = configs[w].text /\ c.name = name
    BY <1>2, <2>1 DEF Entries
  <2>3. configs' = [configs EXCEPT ![w] = c]
    BY <1>1
  <2>. HIDE DEF c
  <2>. QED
    BY <1>2, <2>2, <2>3, EntrySet
<1>4. UniqueKeys(configs)'
  BY <1>1, <1>2, <1>3 DEF UniqueKeys, NamesOf
<1>5. IdsOf(configs') = IdsOf(configs)
  BY <1>2, <1>3 DEF IdsOf
<1>6. Mode'
  BY <1>1 DEF Mode, Resting
<1>7. RemovesApart' /\ SelectedExists'
  BY <1>1, <1>5 DEF RemovesApart, SelectedExists
<1>8. FilesAgree'
  <2>1. \A j \in Ids : ~Saving(j)
    BY <1>1 DEF Resting, Background, Saving, Running
  <2>. QED
    BY <1>1, <1>2, <1>3, <1>5, <2>1, FilesStayAgreed, IdsOfEntries
<1>. QED
  BY <1>4, <1>6, <1>7, <1>8

(* What is selected after a deletion is in the list that is left.            *)
LEMMA AfterDeletion ==
  ASSUME TypeInv, NEW rest \in Seq(Entries), NEW next, next = SelectedAfter(rest)
  PROVE  next \in IdsOf(rest) \cup {NoId}
<1>1. DOMAIN configs = 1..Len(configs) /\ Len(configs) \in Nat
  BY DEF TypeInv
<1>2. selected \in IdsOf(configs) => Where(configs, selected) \in 1..Len(configs)
  BY <1>1, WherePlace DEF TypeInv
<1>3. DOMAIN rest = 1..Len(rest) /\ Len(rest) \in Nat /\ (rest # <<>> => Len(rest) # 0)
  BY EmptySeq
<1>4. CASE rest # <<>> /\ selected \in IdsOf(configs)
  <2>. DEFINE n == IF Where(configs, selected) <= Len(rest) THEN Where(configs, selected)
                                                          ELSE Len(rest)
  <2>1. n \in DOMAIN rest
    BY <1>1, <1>2, <1>3, <1>4
  <2>2. (next = selected /\ selected \in IdsOf(rest)) \/ next = rest[n].id
    BY <1>4 DEF SelectedAfter
  <2>. HIDE DEF n
  <2>. QED
    BY <2>1, <2>2, PlacesInIds
<1>5. CASE ~(rest # <<>> /\ selected \in IdsOf(configs))
  BY <1>5 DEF SelectedAfter
<1>. QED
  BY <1>4, <1>5

(* A deletion gives its files to a removal, whose ids are then in no list.   *)
LEMMA DeleteAgrees ==
  ASSUME TypeInv, TypeInv', setting.features = {}, Agreement,
         NEW gone \in (SUBSET IdsOf(configs)) \ {{}}, Delete(gone)
  PROVE  Agreement'
<1>. USE DEF Agreement
<1>. DEFINE rest == Without(configs, gone)
            next == SelectedAfter(rest)
            rows == [k \in DOMAIN configs |-> configs[k].id]
            places == {k \in DOMAIN configs : configs[k].id \in gone}
            paths == KeptAt(rows, places)
            job == [TaskOn("remove", "remove", NoId) EXCEPT !.ids = paths]
            ts == Spawn(task, job)
            ed == [editor EXCEPT !.op = "none", !.loading = NoId]
<1>1. /\ configs' = rest /\ selected' = next /\ FreeSlots(task) # {} /\ Resting
      /\ IF next = NoId THEN editor' = NoEditor /\ task' = ts
         ELSE IF next = selected THEN editor' = ed /\ task' = ts
         ELSE Show(ts, rest, ed, "none", next)
      /\ UNCHANGED <<pending, files>>
  BY Free, Zenon DEF Delete
<1>2. /\ rest \in Seq(Entries) /\ UniqueKeys(rest) /\ IdsOf(rest) = IdsOf(configs) \ gone
      /\ \A m \in DOMAIN rest : \E k \in DOMAIN configs : rest[m] = configs[k]
  <2>1. UniqueKeys(rest)
    BY WithoutKeys DEF Without, TypeInv
  <2>. QED
    BY <1>1, <2>1, WithoutIds DEF TypeInv
<1>3. paths \in Seq(Ids) /\ paths # <<>> /\ In(paths) \subseteq gone
  <2>1. rows \in Seq(Ids) /\ DOMAIN rows = DOMAIN configs
    <3>1. DOMAIN configs = 1..Len(configs) /\ Len(configs) \in Nat
      BY DEF TypeInv
    <3>2. rows \in [1..Len(configs) -> Ids]
      BY <3>1, EntriesTyped DEF TypeInv
    <3>. QED
      BY <3>1, <3>2, SeqDef
  <2>2. places \in SUBSET DOMAIN rows /\ places # {} /\ \A k \in places : rows[k] \in gone
    BY <2>1 DEF IdsOf
  <2>. HIDE DEF rows, places
  <2>3. /\ paths \in Seq(Ids) /\ \E m \in DOMAIN paths : TRUE
        /\ \A m \in DOMAIN paths : \E k \in places : paths[m] = rows[k]
    BY <2>1, <2>2, KeptSeq
  <2>. HIDE DEF paths
  <2>. QED
    BY <2>2, <2>3 DEF In
<1>. HIDE DEF paths
<1>4. job \in ShapedTasks /\ job.kind = "remove" /\ job.ids = paths
  BY <1>3, RemoveTasks
<1>. HIDE DEF job
<1>5. PICK p \in Slots : /\ task[p].kind = "none" /\ ts[p] = job
                         /\ \A u \in Slots \ {p} : ts[u] = task[u]
  <2>1. task \in [Slots -> ShapedTasks]
    BY DEF TypeInv
  <2>. QED
    BY <1>1, <1>4, <2>1, Freed
<1>6. ts \in [Slots -> ShapedTasks] /\ \A u \in Slots : ts[u].kind \in Background
  BY <1>1, <1>4, <1>5, SpawnTypes DEF Resting, Background, TypeInv
<1>7. ed \in Editors /\ ed.op = "none" /\ ed.loading = NoId /\ ed.source = editor.source
  BY DEF TypeInv, Editors
<1>8. next \in IdsOf(rest) \cup {NoId}
  <2>. HIDE DEF rest
  <2>. QED
    BY <1>2, AfterDeletion
<1>. HIDE DEF rest, ts, ed, next
<1>9. /\ Mode'
      /\ \A u \in Slots : /\ task'[u].kind \in {"none", "remove", "load"}
                          /\ task'[u].kind = "remove" => task'[u] = ts[u]
  <2>1. CASE next = NoId \/ next = selected
    <3>1. task' = ts /\ editor'.op = "none" /\ editor'.loading = NoId /\ editor'.source = selected'
      BY <1>1, <1>7, <2>1 DEF NoEditor, Resting
    <3>2. Resting'
      BY <1>1, <1>6, <3>1 DEF Resting
    <3>. QED
      BY <1>6, <3>1, <3>2 DEF Mode, Background
  <2>2. CASE next # NoId /\ next # selected
    <3>1. Show(ts, rest, ed, "none", next) /\ next \in IdsOf(rest) /\ next \in Ids
      BY <1>1, <1>2, <1>8, <2>2, EntriesTyped
    <3>. QED
      BY <1>1, <1>6, <1>7, <3>1, ShowMode DEF Resting
  <2>. QED
    BY <2>1, <2>2
<1>10. \A u \in Slots : ts[u].kind = "remove" =>
         \A i \in In(ts[u].ids) : i \notin IdsOf(configs')
  BY <1>1, <1>2, <1>3, <1>4, <1>5 DEF RemovesApart
<1>11. RemovesApart'
  BY <1>9, <1>10, RemovesStayApart
<1>12. SelectedExists' /\ UniqueKeys(configs)'
  BY <1>1, <1>2, <1>8 DEF SelectedExists, UniqueKeys
<1>13. FilesAgree'
  <2>1. \A j \in Ids : ~Saving(j)
    BY <1>1 DEF Resting, Background, Saving, Running
  <2>. QED
    BY <1>1, <1>2, <2>1, FilesStayAgreed, IdsOfEntries
<1>. QED
  BY <1>9, <1>11, <1>12, <1>13

-----------------------------------------------------------------------------
(* What the tasks and the file dialog do.                                    *)

LEMMA ModeOf ==
  ASSUME Mode, NEW t \in Slots
  PROVE  /\ task[t].kind \in {"none", "remove", "save", "load", "import"}
         /\ task[t].kind = "save" => SaveRuns(t)
         /\ task[t].kind = "load" => LoadRuns(t)
         /\ task[t].kind = "import" => ImportRuns(t)
<1>1. CASE Resting
  BY <1>1 DEF Resting, Background
<1>2. ASSUME NEW u \in Slots, SaveRuns(u) \/ LoadRuns(u) \/ ImportRuns(u)
      PROVE  /\ Only(u) /\ task[u].kind \in {"save", "load", "import"}
             /\ task[u].kind = "save" => SaveRuns(u)
             /\ task[u].kind = "load" => LoadRuns(u)
             /\ task[u].kind = "import" => ImportRuns(u)
  <2>1. CASE SaveRuns(u)
    <3>1. Only(u) /\ task[u].kind = "save"
      BY <2>1 DEF SaveRuns
    <3>. QED
      BY <2>1, <3>1
  <2>2. CASE LoadRuns(u)
    <3>1. Only(u) /\ task[u].kind = "load"
      BY <2>2 DEF LoadRuns
    <3>. QED
      BY <2>2, <3>1
  <2>3. CASE ImportRuns(u)
    <3>1. Only(u) /\ task[u].kind = "import"
      BY <2>3 DEF ImportRuns
    <3>. QED
      BY <2>3, <3>1
  <2>. QED
    BY <1>2, <2>1, <2>2, <2>3
<1>3. ASSUME NEW u \in Slots, SaveRuns(u) \/ LoadRuns(u) \/ ImportRuns(u), u # t
      PROVE  task[t].kind \in Background
  BY <1>2, <1>3 DEF Only
<1>. QED
  BY <1>1, <1>2, <1>3 DEF Mode, Background

(* The fields of a task after its steps.                                     *)
LEMMA Stepped ==
  ASSUME NEW b \in ShapedTasks, NEW x, NEW c, c = [b EXCEPT !.step = x]
  PROVE  /\ c.step = x /\ c.kind = b.kind /\ c.id = b.id /\ c.name = b.name /\ c.text = b.text
         /\ c.ids = b.ids /\ c.done = b.done /\ c.used = b.used
BY DEF ShapedTasks, Tasks

TextRead(b, y) == [b EXCEPT !.step = "ok", !.text = y]
LEMMA Texted ==
  ASSUME NEW b \in ShapedTasks, NEW y
  PROVE  LET c == TextRead(b, y)
         IN  c.step = "ok" /\ c.text = y /\ c.kind = b.kind /\ c.id = b.id
BY DEF TextRead, ShapedTasks, Tasks

Numbering(b, y) == [b EXCEPT !.step = "begin", !.ids = y]
LEMMA Numbered ==
  ASSUME NEW b \in ShapedTasks, NEW y
  PROVE  LET c == Numbering(b, y)
         IN  /\ c.step = "begin" /\ c.ids = y /\ c.kind = b.kind /\ c.done = b.done
             /\ c.used = b.used
BY DEF Numbering, ShapedTasks, Tasks

Writing(b, y) == [b EXCEPT !.step = "write", !.used = y]
LEMMA Begun ==
  ASSUME NEW b \in ShapedTasks, NEW y
  PROVE  LET c == Writing(b, y)
         IN  /\ c.step = "write" /\ c.used = y /\ c.kind = b.kind /\ c.done = b.done
             /\ c.ids = b.ids
BY DEF Writing, ShapedTasks, Tasks

LEMMA Shortened ==
  ASSUME NEW b \in ShapedTasks, NEW y, NEW c, c = [b EXCEPT !.ids = y]
  PROVE  /\ c.ids = y /\ c.kind = b.kind /\ c.step = b.step /\ c.done = b.done /\ c.used = b.used
         /\ c.id = b.id
BY DEF ShapedTasks, Tasks

Recording(b, y, z) == [b EXCEPT !.used = y, !.done = z]
LEMMA NameRecorded ==
  ASSUME NEW b \in ShapedTasks, NEW y, NEW z
  PROVE  LET c == Recording(b, y, z)
         IN  /\ c.used = y /\ c.done = z /\ c.kind = b.kind /\ c.step = b.step
             /\ c.ids = b.ids
BY DEF Recording, ShapedTasks, Tasks

(* The save that runs is the one task that acts on the editor.               *)
LEMMA OneTaskSaves ==
  ASSUME NEW t \in Slots, Only(t), NEW i, Saving(i)
  PROVE  task[t].kind = "save" /\ task[t].id = i
BY DEF Only, Background, Saving, Running

(* The file of a save is written: the list is behind until the save ends.    *)
LEMMA SaveWriteAgrees ==
  ASSUME TypeInv, setting.features = {}, Agreement, NEW t \in Slots, SaveWrite(t)
  PROVE  Agreement'
<1>. USE DEF Agreement
<1>. DEFINE i == task[t].id
            text == task[t].text
<1>1. SaveRuns(t) /\ i \in Ids /\ task[t] \in ShapedTasks /\ text \in Texts
  BY ModeOf DEF SaveWrite, TypeInv, ShapedTasks, SaveRuns
<1>2. /\ files' = [files EXCEPT ![i] = text] /\ task' = [task EXCEPT ![t].step = "ok"]
      /\ UNCHANGED <<configs, selected, editor, pending>>
  <2>1. Outcomes(files[i], text) = {<<"ok", text>>}
    BY DEF Outcomes
  <2>2. PICK o \in Outcomes(files[i], text) :
             files' = [files EXCEPT ![i] = o[2]] /\ task' = [task EXCEPT ![t].step = o[1]]
    BY DEF SaveWrite
  <2>3. o[1] = "ok" /\ o[2] = text
    BY <2>1
  <2>. QED
    BY <2>2, <2>3 DEF SaveWrite
<1>3. /\ task'[t].kind = "save" /\ task'[t].step = "ok" /\ task'[t].id = i
      /\ task'[t].name = task[t].name /\ task'[t].text = text
      /\ \A u \in Slots \ {t} : task'[u] = task[u]
  <2>1. task'[t] = [task[t] EXCEPT !.step = "ok"] /\ \A u \in Slots \ {t} : task'[u] = task[u]
    BY <1>2 DEF TypeInv
  <2>. QED
    BY <1>1, <2>1, Stepped DEF SaveRuns
<1>4. files'[i] = text /\ \A j \in Ids \ {i} : files'[j] = files[j]
  BY <1>1, <1>2 DEF TypeInv
<1>5. SaveRuns(t)'
  BY <1>1, <1>2, <1>3, <1>4 DEF SaveRuns, Only
<1>6. RemovesApart'
  <2>1. Held(task'[t]) = Held(task[t])
    BY <1>1, <1>3 DEF Held, SaveRuns
  <2>. QED
    BY <1>1, <1>2, <1>3, <2>1 DEF RemovesApart, SaveRuns
<1>7. FilesAgree'
  <2>. SUFFICES ASSUME NEW k \in DOMAIN configs
                PROVE  /\ files'[configs[k].id] # NoText
                       /\ \/ configs[k].text = NoText \/ configs[k].text = files'[configs[k].id]
                          \/ Saving(configs[k].id)'
    BY <1>2 DEF FilesAgree
  <2>1. configs[k].id \in Ids
    BY IdsOfEntries, PlacesInIds
  <2>2. CASE configs[k].id = i
    BY <1>1, <1>2, <1>3, <1>4, <2>2, NoneAssumption DEF Saving, Running
  <2>3. CASE configs[k].id # i
    BY <1>1, <1>4, <2>1, <2>3, OneTaskSaves DEF FilesAgree, SaveRuns
  <2>. QED
    BY <2>2, <2>3
<1>. QED
  BY <1>2, <1>5, <1>6, <1>7 DEF Mode, UniqueKeys, SelectedExists

(* A save ends: the list has what the file holds, and the pending action     *)
(* follows.                                                                  *)
LEMMA SaveDoneAgrees ==
  ASSUME TypeInv, TypeInv', setting.features = {}, Agreement, NEW t \in Slots, SaveDone(t)
  PROVE  Agreement'
<1>. USE DEF Agreement
<1>. DEFINE i == task[t].id
            c == [id |-> i, name |-> task[t].name, text |-> task[t].text]
<1>1. /\ SaveRuns(t) /\ i \in Ids /\ c \in Entries /\ files[i] = task[t].text
      /\ configs' = InsertOrUpdate(configs, c) /\ AfterSave(t, i)
      /\ pending' = NoAction /\ files' = files
  BY ModeOf DEF SaveDone, TypeInv, ShapedTasks, Tasks, SaveRuns, Entries
<1>2. c.id = i /\ c.name = task[t].name /\ c.text = task[t].text
  OBVIOUS
<1>. HIDE DEF c
<1>3. /\ UniqueKeys(configs') /\ IdsOf(configs') = IdsOf(configs) \cup {i}
      /\ \A k \in DOMAIN configs' : \/ configs'[k] = c
                                    \/ /\ k \in DOMAIN configs /\ configs'[k] = configs[k]
                                       /\ configs[k].id # i
  BY <1>1, <1>2, InsertKeys DEF SaveRuns, TypeInv
<1>4. /\ End(t) \in [Slots -> ShapedTasks]
      /\ \A u \in Slots : /\ End(t)[u].kind \in Background
                          /\ End(t)[u].kind = "remove" => u # t /\ End(t)[u] = task[u]
      /\ FreeSlots(End(t)) # {}
  BY <1>1, EndTypes, Ended DEF SaveRuns, Only, Background
<1>5. \A u \in Slots : End(t)[u].kind = "remove" =>
        \A j \in In(End(t)[u].ids) : j \notin IdsOf(configs')
  <2>1. Held(task[t]) = {i}
    BY <1>1 DEF Held, SaveRuns
  <2>. QED
    BY <1>3, <1>4, <2>1 DEF RemovesApart
<1>6. FilesAgree'
  <2>. SUFFICES ASSUME NEW k \in DOMAIN configs'
                PROVE  /\ files[configs'[k].id] # NoText
                       /\ configs'[k].text = NoText \/ configs'[k].text = files[configs'[k].id]
    BY <1>1 DEF FilesAgree
  <2>1. CASE configs'[k] = c
    BY <1>1, <1>2, <2>1, NoneAssumption DEF SaveRuns
  <2>2. CASE k \in DOMAIN configs /\ configs'[k] = configs[k] /\ configs[k].id # i
    BY <1>1, <2>2, OneTaskSaves DEF FilesAgree, SaveRuns
  <2>. QED
    BY <1>3, <2>1, <2>2
<1>7. UniqueKeys(configs)'
  BY <1>3 DEF UniqueKeys
<1>8. [editor EXCEPT !.op = "none"] \in Editors /\ [NoEditor EXCEPT !.source = i] \in Editors
  BY <1>1, NewTasks DEF Editors, TypeInv
<1>. HIDE DEF i
<1>9. ASSUME NEW n \in IdsOf(configs'), n \in Ids, selected' = n, NEW ed \in Editors,
             Show(End(t), configs', ed, "loading", n)
      PROVE  Agreement'
  <2>1. /\ Mode'
        /\ \A u \in Slots : /\ task'[u].kind \in {"none", "remove", "load"}
                            /\ task'[u].kind = "remove" => task'[u] = End(t)[u]
    BY <1>1, <1>4, <1>9, ShowMode
  <2>2. RemovesApart'
    BY <1>5, <2>1, RemovesStayApart
  <2>. QED
    BY <1>6, <1>7, <1>9, <2>1, <2>2 DEF SelectedExists
<1>10. CASE selected' = i /\ Show(End(t), configs', [editor EXCEPT !.op = "none"], "loading", i)
  BY <1>1, <1>3, <1>8, <1>9, <1>10
<1>11. CASE /\ pending.kind = "select" /\ selected' = pending.id
            /\ Show(End(t), configs', [NoEditor EXCEPT !.source = i], "loading", pending.id)
  <2>1. pending.id \in IdsOf(configs') /\ pending.id \in Ids
    BY <1>1, <1>3, <1>11, IdsOfEntries DEF SaveRuns
  <2>. QED
    BY <1>8, <1>9, <1>11, <2>1
<1>12. CASE /\ selected' = i /\ editor' = [NoEditor EXCEPT !.source = i]
            /\ task' = Spawn(End(t), Pick)
  <2>. DEFINE k == Pick
  <2>1. k \in ShapedTasks /\ task' = Spawn(End(t), k)
    BY <1>12, NewTasks
  <2>2. /\ k.kind = "import" /\ k.step = "pick" /\ k.ids = <<>> /\ k.done = <<>>
    BY DEF Pick, TaskOn
  <2>. HIDE DEF k
  <2>3. PICK p \in Slots : /\ End(t)[p].kind = "none" /\ task'[p] = k
                           /\ \A u \in Slots \ {p} : task'[u] = End(t)[u]
    BY <1>4, <2>1, Freed
  <2>4. editor'.op = "none" /\ editor'.loading = NoId /\ editor'.source = i
    BY <1>12 DEF NoEditor
  <2>5. ImportRuns(p)'
    BY <1>1, <1>4, <1>12, <2>2, <2>3, <2>4 DEF ImportRuns, Only, In, UniqueKeys
  <2>6. \A u \in Slots : Held(task'[u]) = {}
    BY <1>4, <2>2, <2>3 DEF Held, In, IdsOf, Background
  <2>7. RemovesApart'
    BY <1>5, <2>2, <2>3, <2>6 DEF RemovesApart
  <2>. QED
    BY <1>3, <1>6, <1>7, <1>12, <2>5, <2>7 DEF Mode, SelectedExists
<1>13. CASE selected' = NoId /\ editor' = NoEditor /\ task' = End(t)
  <2>1. Mode'
    BY <1>1, <1>4, <1>13 DEF Mode, Resting, NoEditor
  <2>2. RemovesApart'
    BY <1>4, <1>5, <1>13, RemovesStayApart DEF Background
  <2>. QED
    BY <1>6, <1>7, <1>13, <2>1, <2>2 DEF SelectedExists
<1>. QED
  BY <1>1, <1>10, <1>11, <1>12, <1>13, Zenon DEF AfterSave

(* What has been read becomes known.                                        *)
LEMMA CachedKeys ==
  ASSUME TypeInv, NEW t \in Slots, NEW cs, cs = Cached(configs, t)
  PROVE  /\ DOMAIN cs = DOMAIN configs
         /\ \A k \in DOMAIN cs : /\ cs[k].id = configs[k].id /\ cs[k].name = configs[k].name
                                 /\ \/ cs[k].text = configs[k].text
                                    \/ cs[k].id = task[t].id /\ cs[k].text = task[t].text
<1>. DEFINE i == task[t].id
            w == Where(configs, i)
            c == [id |-> configs[w].id, name |-> configs[w].name, text |-> task[t].text]
<1>1. CASE i \in IdsOf(configs) /\ ~Known(configs, i)
  <2>1. w \in DOMAIN configs /\ configs[w].id = i /\ configs \in Seq(Entries)
    BY <1>1, WherePlace DEF TypeInv
  <2>2. c \in Entries /\ c.id = i /\ c.name = configs[w].name /\ c.text = task[t].text
    BY <2>1, EntriesTyped DEF TypeInv, ShapedTasks, Tasks, Entries
  <2>3. cs = [configs EXCEPT ![w] = c]
    BY <1>1 DEF Cached
  <2>. HIDE DEF w, c
  <2>4. DOMAIN cs = DOMAIN configs /\ cs[w] = c /\ \A k \in DOMAIN configs \ {w} : cs[k] = configs[k]
    BY <2>1, <2>2, <2>3, EntrySet
  <2>. QED
    BY <2>1, <2>2, <2>4
<1>2. CASE ~(i \in IdsOf(configs) /\ ~Known(configs, i))
  <2>1. cs = configs
    BY <1>2 DEF Cached
  <2>. QED
    BY <2>1
<1>. QED
  BY <1>1, <1>2

(* A load reads the text of its file.                                        *)
LEMMA LoadReadAgrees ==
  ASSUME TypeInv, setting.features = {}, Agreement, NEW t \in Slots, LoadRead(t)
  PROVE  Agreement'
<1>. USE DEF Agreement
<1>. DEFINE text == files[task[t].id]
<1>1. task[t].kind = "load" /\ LoadRuns(t) /\ task[t] \in ShapedTasks
  BY ModeOf DEF LoadRead, TypeInv
<1>2. text # NoText
  BY <1>1 DEF LoadRuns, FilesAgree, IdsOf
<1>3. /\ task' = [task EXCEPT ![t].step = "ok", ![t].text = text]
      /\ UNCHANGED <<configs, selected, editor, pending, files>>
  BY <1>2 DEF LoadRead
<1>4. /\ task'[t].kind = "load" /\ task'[t].step = "ok" /\ task'[t].id = task[t].id
      /\ task'[t].text = text
      /\ \A u \in Slots \ {t} : task'[u] = task[u]
  <2>1. task' = [task EXCEPT ![t] = TextRead(task[t], text)]
    BY <1>3 DEF TextRead
  <2>. HIDE DEF text
  <2>2. task'[t] = TextRead(task[t], text) /\ \A u \in Slots \ {t} : task'[u] = task[u]
    BY <2>1 DEF TypeInv
  <2>. QED
    BY <1>1, <2>2, Texted
<1>5. LoadRuns(t)'
  BY <1>1, <1>3, <1>4 DEF LoadRuns, Only
<1>6. RemovesApart'
  <2>1. Held(task'[t]) = {}
    BY <1>4 DEF Held
  <2>. QED
    BY <1>3, <1>4, <2>1 DEF RemovesApart
<1>7. FilesAgree'
  <2>1. \A j \in Ids : ~Saving(j)
    BY <1>1, OneTaskSaves DEF LoadRuns
  <2>. QED
    BY <1>3, <2>1, FilesStayAgreed, IdsOfEntries
<1>. QED
  BY <1>3, <1>5, <1>6, <1>7 DEF Mode, UniqueKeys, SelectedExists

(* A load ends: its configuration is still selected, and is shown.           *)
LEMMA LoadDoneAgrees ==
  ASSUME TypeInv, setting.features = {}, Agreement, NEW t \in Slots, LoadDone(t)
  PROVE  Agreement'
<1>. USE DEF Agreement
<1>. DEFINE i == task[t].id
<1>1. /\ LoadRuns(t) /\ task[t].step = "ok" /\ i \in IdsOf(configs) /\ i \in Ids
      /\ task[t].text = files[i] /\ selected = i /\ editor.loading = i
      /\ pending' = NoAction /\ selected' = selected /\ files' = files
      /\ configs' = Cached(configs, t) /\ task' = End(t)
      /\ editor' = [NoEditor EXCEPT !.source = i]
  BY ModeOf, IdsOfEntries DEF LoadDone, LoadRuns
<1>. HIDE DEF i
<1>2. /\ DOMAIN configs' = DOMAIN configs
      /\ \A k \in DOMAIN configs' :
           /\ configs'[k].id = configs[k].id /\ configs'[k].name = configs[k].name
           /\ \/ configs'[k].text = configs[k].text
              \/ configs'[k].id = task[t].id /\ configs'[k].text = task[t].text
  BY <1>1, CachedKeys
<1>3. UniqueKeys(configs)' /\ IdsOf(configs') = IdsOf(configs)
  BY <1>2, SameKeys DEF UniqueKeys
<1>4. \A u \in Slots : /\ task'[u].kind \in Background
                       /\ task'[u].kind = "remove" => task'[u] = task[u]
  BY <1>1, Ended DEF LoadRuns, Only, Background
<1>5. Mode'
  BY <1>1, <1>4 DEF Mode, Resting, NoEditor
<1>6. RemovesApart'
  BY <1>3, <1>4, RemovesStayApart DEF RemovesApart, Background
<1>7. FilesAgree'
  <2>. SUFFICES ASSUME NEW k \in DOMAIN configs'
                PROVE  /\ files[configs'[k].id] # NoText
                       /\ configs'[k].text = NoText \/ configs'[k].text = files[configs'[k].id]
    BY <1>1 DEF FilesAgree
  <2>1. ~Saving(configs[k].id)
    BY <1>1, OneTaskSaves DEF LoadRuns
  <2>. QED
    BY <1>1, <1>2, <2>1 DEF FilesAgree, i
<1>. QED
  BY <1>1, <1>3, <1>5, <1>6, <1>7 DEF SelectedExists

(* Without a save, what is known of a text is what its file holds.           *)
LEMMA NothingSaved ==
  ASSUME TypeInv, FilesAgree, NEW t \in Slots, Only(t), task[t].kind # "save",
         NEW k \in DOMAIN configs
  PROVE  /\ configs[k].id \in Ids /\ configs[k].id \in IdsOf(configs)
         /\ files[configs[k].id] # NoText
         /\ configs[k].text = NoText \/ configs[k].text = files[configs[k].id]
BY OneTaskSaves, PlacesInIds, IdsOfEntries DEF FilesAgree

(* The import dialog is cancelled.                                           *)
LEMMA ImportCancelAgrees ==
  ASSUME TypeInv, Agreement, NEW t \in Slots, ImportCancel(t)
  PROVE  Agreement'
<1>. USE DEF Agreement
<1>1. /\ ImportRuns(t) /\ task[t].step = "pick" /\ task' = End(t)
      /\ UNCHANGED <<configs, selected, pending, files>>
  BY ModeOf DEF ImportCancel
<1>2. editor'.op = "none" /\ editor'.loading = NoId /\ editor'.source = selected
  BY <1>1 DEF ImportCancel, ImportRuns, TypeInv, Editors
<1>3. \A u \in Slots : /\ task'[u].kind \in Background
                       /\ task'[u].kind = "remove" => task'[u] = task[u]
  BY <1>1, Ended DEF ImportRuns, Only, Background
<1>4. Mode'
  BY <1>1, <1>2, <1>3 DEF Mode, Resting, ImportRuns
<1>5. RemovesApart'
  BY <1>1, <1>3, RemovesStayApart DEF RemovesApart, Background
<1>6. FilesAgree'
  BY <1>1, NothingSaved DEF FilesAgree, ImportRuns
<1>. QED
  BY <1>1, <1>4, <1>5, <1>6 DEF UniqueKeys, SelectedExists

(* A step of an import that changes nothing but its task.                    *)
LEMMA ImportStepAgrees ==
  ASSUME TypeInv, Agreement, NEW t \in Slots, ImportRuns(t), ImportRuns(t)',
         UNCHANGED <<configs, selected, files>>, \A u \in Slots \ {t} : task'[u] = task[u],
         \A u \in Slots : task[u].kind = "remove" =>
           \A i \in In(task[u].ids) : i \notin Held(task'[t])
  PROVE  Agreement'
<1>. USE DEF Agreement
<1>1. task'[t].kind = "import" /\ task[t].kind = "import"
  BY DEF ImportRuns
<1>2. RemovesApart'
  BY <1>1 DEF RemovesApart
<1>3. FilesAgree'
  BY <1>1, NothingSaved DEF FilesAgree, ImportRuns
<1>. QED
  BY <1>2, <1>3 DEF Mode, UniqueKeys, SelectedExists

(* An import takes ids that neither the list nor a removal has.              *)
LEMMA ImportStartAgrees ==
  ASSUME TypeInv, setting.features = {}, Agreement, NEW t \in Slots, NEW n \in 1..MaxId,
         ImportStart(t, n)
  PROVE  Agreement'
<1>. USE DEF Agreement
<1>. DEFINE ids == [k \in 1..n |-> nextId + k - 1]
<1>1. /\ ImportRuns(t) /\ task[t].step = "pick" /\ nextId + n - 1 \in setting.ids /\ NextIsNew
      /\ task' = [task EXCEPT ![t].step = "begin", ![t].ids = ids]
      /\ editor' = [editor EXCEPT !.op = "importing"]
      /\ UNCHANGED <<configs, selected, pending, files>>
  BY ModeOf DEF ImportStart, NewIdsAllowed
<1>2. \A i \in In(ids) : i \in Ids /\ i >= nextId
  BY <1>1, ConstantsTyped DEF In, Ids, TypeInv
<1>3. /\ task'[t].kind = "import" /\ task'[t].step = "begin" /\ task'[t].ids = ids
      /\ task'[t].done = <<>> /\ \A u \in Slots \ {t} : task'[u] = task[u]
  <2>1. task' = [task EXCEPT ![t] = Numbering(task[t], ids)]
    BY <1>1 DEF Numbering
  <2>. HIDE DEF ids
  <2>2. /\ task'[t] = Numbering(task[t], ids) /\ \A u \in Slots \ {t} : task'[u] = task[u]
        /\ task[t] \in ShapedTasks
    BY <2>1 DEF TypeInv
  <2>3. task[t].kind = "import" /\ task[t].done = <<>>
    BY <1>1 DEF ImportRuns
  <2>. QED
    BY <2>2, <2>3, Numbered
<1>4. editor'.op = "importing" /\ editor'.loading = editor.loading
      /\ editor'.source = editor.source
  BY <1>1 DEF TypeInv, Editors
<1>. HIDE DEF ids
<1>5. \A i \in In(ids) : i \notin IdsOf(configs) /\ \A u \in Slots : i \notin In(task[u].ids)
  BY <1>1, <1>2 DEF NextIsNew, In
<1>6. IdsOf(<<>>) = {} /\ DOMAIN <<>> = {} /\ UniqueKeys(<<>>)
  BY EmptyUnique DEF IdsOf
<1>7. ImportRuns(t)'
  <2>1. /\ editor.loading = NoId /\ editor.source = selected /\ pending = NoAction
        /\ \A u \in Slots \ {t} : task[u].kind \in Background
    BY <1>1 DEF ImportRuns, Only
  <2>2. Only(t)'
    BY <1>3, <2>1 DEF Only
  <2>3. UniqueKeys(task[t].done)'
    BY <1>3, <1>6
  <2>. QED
    BY <1>1, <1>3, <1>4, <1>5, <1>6, <2>1, <2>2, <2>3 DEF ImportRuns
<1>8. Held(task'[t]) = In(ids)
  BY <1>3, <1>6 DEF Held
<1>. QED
  BY <1>1, <1>3, <1>5, <1>7, <1>8, ImportStepAgrees

(* An import begins with the names in the list.                              *)
LEMMA ImportBeginAgrees ==
  ASSUME TypeInv, setting.features = {}, Agreement, NEW t \in Slots, ImportBegin(t)
  PROVE  Agreement'
<1>. USE DEF Agreement
<1>. DEFINE used == NamesOf(configs)
<1>1. /\ ImportRuns(t) /\ task[t].step = "begin"
      /\ task' = [task EXCEPT ![t].step = "write", ![t].used = used]
      /\ UNCHANGED <<configs, selected, editor, pending, files>>
  BY ModeOf DEF ImportBegin
<1>2. /\ task'[t].kind = "import" /\ task'[t].step = "write" /\ task'[t].ids = task[t].ids
      /\ task'[t].done = <<>> /\ task'[t].used = used
      /\ \A u \in Slots \ {t} : task'[u] = task[u]
  <2>1. task' = [task EXCEPT ![t] = Writing(task[t], used)]
    BY <1>1 DEF Writing
  <2>. HIDE DEF used
  <2>2. /\ task'[t] = Writing(task[t], used) /\ \A u \in Slots \ {t} : task'[u] = task[u]
        /\ task[t] \in ShapedTasks
    BY <2>1 DEF TypeInv
  <2>3. task[t].kind = "import" /\ task[t].done = <<>>
    BY <1>1 DEF ImportRuns
  <2>. QED
    BY <2>2, <2>3, Begun
<1>3. ImportRuns(t)'
  <2>1. /\ editor.loading = NoId /\ editor.source = selected /\ pending = NoAction
        /\ editor.op = "importing" /\ task[t].done = <<>>
        /\ \A u \in Slots \ {t} : task[u].kind \in Background
        /\ \A i \in In(task[t].ids) : i \notin IdsOf(configs)
    BY <1>1 DEF ImportRuns, Only
  <2>2. Only(t)'
    BY <1>2, <2>1 DEF Only
  <2>3. IdsOf(<<>>) = {} /\ DOMAIN <<>> = {} /\ UniqueKeys(<<>>)
    BY EmptyUnique DEF IdsOf
  <2>4. UniqueKeys(task[t].done)'
    BY <1>2, <2>3
  <2>. QED
    BY <1>1, <1>2, <2>1, <2>2, <2>3, <2>4 DEF ImportRuns
<1>4. Held(task'[t]) = Held(task[t])
  BY <1>1, <1>2 DEF Held, ImportRuns
<1>. QED
  BY <1>1, <1>2, <1>3, <1>4, ImportStepAgrees DEF RemovesApart

(* A job of an import: its name is new to the list and to the other jobs.    *)
LEMMA ImportWriteAgrees ==
  ASSUME TypeInv, setting.features = {}, Agreement, NEW t \in Slots, NEW i \in Ids,
         ImportWrite(t, i)
  PROVE  Agreement'
<1>. USE DEF Agreement
<1>. DEFINE rest == KeptAt(task[t].ids, {k \in DOMAIN task[t].ids : task[t].ids[k] # i})
            left == [task[t] EXCEPT !.ids = rest]
            new == task[t].done
<1>1. /\ ImportRuns(t) /\ task[t].kind = "import" /\ task[t].step = "write"
      /\ task[t] \in ShapedTasks /\ i \in In(task[t].ids)
      /\ UNCHANGED <<configs, selected, editor, pending>>
  BY ModeOf DEF ImportWrite, TypeInv, In
<1>2. In(rest) \subseteq In(task[t].ids) \ {i}
  <2>. DEFINE keep == {k \in DOMAIN task[t].ids : task[t].ids[k] # i}
  <2>1. task[t].ids \in Seq(Ids) /\ keep \in SUBSET (DOMAIN task[t].ids)
        /\ \A k \in keep : task[t].ids[k] \in In(task[t].ids) \ {i}
    BY <1>1 DEF ShapedTasks, Tasks, In
  <2>. HIDE DEF keep
  <2>2. \A m \in DOMAIN rest : \E k \in keep : rest[m] = task[t].ids[k]
    <3>1. rest = KeptAt(task[t].ids, keep)
      BY DEF keep
    <3>. HIDE DEF rest
    <3>. QED
      BY <2>1, <3>1, KeptSeq
  <2>. HIDE DEF rest
  <2>. QED
    BY <2>1, <2>2 DEF In
<1>. HIDE DEF rest
<1>3. /\ left.kind = "import" /\ left.step = "write" /\ left.ids = rest
      /\ left.done = new /\ left.used = task[t].used
  BY <1>1, Shortened
<1>4. i \notin IdsOf(configs) /\ i \notin IdsOf(new) /\ i \in Held(task[t])
  BY <1>1 DEF ImportRuns, Held
<1>5. \A k \in DOMAIN configs :
        /\ configs[k].id \in Ids /\ configs[k].id # i /\ files[configs[k].id] # NoText
        /\ configs[k].text = NoText \/ configs[k].text = files[configs[k].id]
  BY <1>1, <1>4, NothingSaved DEF ImportRuns
<1>6. ASSUME ImportRuns(t)', \A j \in Ids \ {i} : files'[j] = files[j],
             \A u \in Slots \ {t} : task'[u] = task[u],
             Held(task'[t]) \subseteq Held(task[t])
      PROVE  Agreement'
  <2>1. RemovesApart'
    <3>1. task'[t].kind = "import"
      BY <1>6 DEF ImportRuns
    <3>. QED
      BY <1>1, <1>6, <3>1 DEF RemovesApart
  <2>2. FilesAgree'
    BY <1>1, <1>5, <1>6 DEF FilesAgree
  <2>. QED
    BY <1>1, <1>6, <2>1, <2>2 DEF Mode, UniqueKeys, SelectedExists
<1>7. CASE \E text \in setting.texts, base \in setting.names :
             \E name \in AvailableNames(task[t].used, base) :
                /\ files' = [files EXCEPT ![i] = text]
                /\ task' = [task EXCEPT ![t] =
                     [left EXCEPT !.used = @ \cup {name},
                                  !.done = Append(@, [id |-> i, name |-> name, text |-> NoText])]]
  <2>a. PICK text \in setting.texts, base \in setting.names :
             \E name \in AvailableNames(task[t].used, base) :
                /\ files' = [files EXCEPT ![i] = text]
                /\ task' = [task EXCEPT ![t] =
                     [left EXCEPT !.used = @ \cup {name},
                                  !.done = Append(@, [id |-> i, name |-> name, text |-> NoText])]]
    BY <1>7
  <2>b. PICK name \in AvailableNames(task[t].used, base) :
                /\ files' = [files EXCEPT ![i] = text]
                /\ task' = [task EXCEPT ![t] =
                     [left EXCEPT !.used = @ \cup {name},
                                  !.done = Append(@, [id |-> i, name |-> name, text |-> NoText])]]
    BY <2>a
  <2>0. left \in ShapedTasks
    BY <1>1, LeftTask, KeptSeq DEF rest, ShapedTasks, Tasks
  <2>. DEFINE c == [id |-> i, name |-> name, text |-> NoText]
              used == left.used \cup {name}
              done == Append(left.done, c)
  <2>1. /\ files'[i] # NoText /\ \A j \in Ids \ {i} : files'[j] = files[j]
        /\ name \notin task[t].used
    BY <2>b, ConstantsTyped, NoneAssumption DEF AvailableNames, TypeInv
  <2>. HIDE DEF left
  <2>2. /\ task'[t] = Recording(left, used, done) /\ \A u \in Slots \ {t} : task'[u] = task[u]
    BY <2>b DEF Recording, TypeInv
  <2>. HIDE DEF used, done
  <2>3. /\ task'[t].kind = "import" /\ task'[t].step = "write" /\ task'[t].ids = rest
        /\ task'[t].done = done /\ task'[t].used = used
    BY <1>3, <2>0, <2>2, NameRecorded
  <2>4. c.id = i /\ c.name = name
    OBVIOUS
  <2>. HIDE DEF c
  <2>5. /\ \A j \in DOMAIN done : \/ j \in DOMAIN new /\ done[j] = new[j]
                                  \/ j = Len(new) + 1 /\ done[j] = c
        /\ new \in Seq(News)
    <3>1. new \in Seq(News)
      BY <1>1 DEF ShapedTasks, Tasks, News
    <3>2. done = Append(new, c)
      BY <1>3 DEF done
    <3>. HIDE DEF new
    <3>. QED
      BY <3>1, <3>2
  <2>6. \A j \in DOMAIN new : new[j].id \in IdsOf(new) /\ new[j].id \in Ids
    <3>. HIDE DEF new
    <3>. QED
      BY <2>5, NewsTyped
  <2>7. IdsOf(done) \subseteq IdsOf(new) \cup {i}
    BY <2>4, <2>5 DEF IdsOf
  <2>8. used = task[t].used \cup {name}
    BY <1>3 DEF used
  <2>9. UniqueKeys(done)
    <3>. SUFFICES ASSUME NEW j \in DOMAIN done, NEW k \in DOMAIN done, j # k
                  PROVE  done[j].id # done[k].id /\ done[j].name # done[k].name
      BY DEF UniqueKeys
    <3>1. \A x \in DOMAIN new : new[x].id # i /\ new[x].name # name
      BY <1>1, <1>4, <2>1, <2>6 DEF ImportRuns
    <3>2. UniqueKeys(new)
      BY <1>1 DEF ImportRuns
    <3>. HIDE DEF new
    <3>. QED
      BY <2>4, <2>5, <3>1, <3>2 DEF UniqueKeys
  <2>10. \A j \in DOMAIN done :
           /\ done[j].id \notin IdsOf(configs) /\ files'[done[j].id] # NoText
           /\ done[j].name \notin NamesOf(configs) /\ done[j].name \in used
    <3>. SUFFICES ASSUME NEW j \in DOMAIN done
                  PROVE  /\ done[j].id \notin IdsOf(configs) /\ files'[done[j].id] # NoText
                         /\ done[j].name \notin NamesOf(configs) /\ done[j].name \in used
      OBVIOUS
    <3>1. CASE j \in DOMAIN new /\ done[j] = new[j]
      BY <1>1, <1>4, <2>1, <2>6, <2>8, <3>1 DEF ImportRuns
    <3>2. CASE done[j] = c
      BY <1>1, <1>4, <2>1, <2>4, <2>8, <3>2 DEF ImportRuns
    <3>. QED
      BY <2>5, <3>1, <3>2
  <2>11. \A j \in In(rest) : j \notin IdsOf(configs) /\ j \notin IdsOf(done)
    BY <1>1, <1>2, <2>7 DEF ImportRuns
  <2>12. ImportRuns(t)'
    BY <1>1, <2>2, <2>3, <2>8, <2>9, <2>10, <2>11 DEF ImportRuns, Only
  <2>13. Held(task'[t]) \subseteq Held(task[t])
    BY <1>1, <1>2, <1>4, <2>3, <2>7 DEF Held
  <2>. QED
    BY <1>6, <2>1, <2>2, <2>12, <2>13
<1>8. CASE task' = [task EXCEPT ![t] = left] /\ UNCHANGED files
  <2>. HIDE DEF left
  <2>1. task'[t] = left /\ \A u \in Slots \ {t} : task'[u] = task[u]
    BY <1>8 DEF TypeInv
  <2>2. ImportRuns(t)'
    BY <1>1, <1>2, <1>3, <1>8, <2>1 DEF ImportRuns, Only
  <2>3. Held(task'[t]) \subseteq Held(task[t])
    BY <1>1, <1>2, <1>3, <2>1 DEF Held
  <2>. QED
    BY <1>6, <1>8, <2>1, <2>2, <2>3
<1>9. "writeFails" \notin setting.features
  OBVIOUS
<1>. QED
  BY <1>7, <1>8, <1>9, Zenon DEF ImportWrite, rest

(* An import ends: what it made joins the list, with its files in place.     *)
LEMMA ImportDoneAgrees ==
  ASSUME TypeInv, TypeInv', setting.features = {}, Agreement, NEW t \in Slots, ImportDone(t)
  PROVE  Agreement'
<1>. USE DEF Agreement
<1>. DEFINE done == task[t].done
            ed == [editor EXCEPT !.op = "none"]
<1>1. /\ ImportRuns(t) /\ UNCHANGED <<pending, files>>
      /\ done \in Seq(News)
  BY ModeOf DEF ImportDone, TypeInv, ShapedTasks, Tasks, News
<1>2. /\ ed \in Editors /\ ed.op = "none" /\ ed.loading = NoId /\ ed.source = selected
      /\ pending' = NoAction
  BY <1>1 DEF ImportRuns, TypeInv, Editors
<1>3. /\ End(t) \in [Slots -> ShapedTasks]
      /\ \A u \in Slots : /\ End(t)[u].kind \in Background
                          /\ End(t)[u].kind = "remove" => u # t /\ End(t)[u] = task[u]
  BY <1>1, EndTypes, Ended DEF ImportRuns, Only, Background
<1>4. CASE done = <<>>
  <2>1. editor' = ed /\ task' = End(t) /\ UNCHANGED <<configs, selected>>
    BY <1>4 DEF ImportDone
  <2>. HIDE DEF ed
  <2>2. Mode'
    BY <1>2, <1>3, <2>1 DEF Mode, Resting
  <2>3. RemovesApart'
    BY <1>3, <2>1, RemovesStayApart DEF RemovesApart, Background
  <2>4. FilesAgree'
    BY <1>1, <2>1, NothingSaved DEF FilesAgree, ImportRuns
  <2>. QED
    BY <2>1, <2>2, <2>3, <2>4 DEF UniqueKeys, SelectedExists
<1>5. CASE done # <<>>
  <2>1. /\ configs' = configs \o done /\ selected' = done[Len(done)].id
        /\ Show(End(t), configs', ed, "loading", selected')
    BY <1>5 DEF ImportDone
  <2>2. done \in Seq(Entries) /\ \A k \in DOMAIN done : done[k].text = NoText /\ done[k].id \in Ids
    <3>. HIDE DEF done
    <3>. QED
      BY <1>1, NewsTyped
  <2>3. /\ UniqueKeys(configs') /\ IdsOf(configs') = IdsOf(configs) \cup IdsOf(done)
        /\ \A k \in DOMAIN configs' : \/ \E j \in DOMAIN configs : configs'[k] = configs[j]
                                      \/ \E j \in DOMAIN done : configs'[k] = done[j]
    <3>1. UniqueKeys(done) /\ \A k \in DOMAIN done : /\ done[k].id \notin IdsOf(configs)
                                                     /\ done[k].name \notin NamesOf(configs)
      BY <1>1 DEF ImportRuns
    <3>2. configs \in Seq(Entries) /\ UniqueKeys(configs)
      BY DEF TypeInv
    <3>. DEFINE es == configs \o done
    <3>. HIDE DEF done
    <3>4. /\ UniqueKeys(es) /\ IdsOf(es) = IdsOf(configs) \cup IdsOf(done)
          /\ \A k \in DOMAIN es : \/ \E j \in DOMAIN configs : es[k] = configs[j]
                                  \/ \E j \in DOMAIN done : es[k] = done[j]
      BY <2>2, <3>1, <3>2, ConcatKeys
    <3>. QED
      BY <2>1, <3>4
  <2>4. selected' \in IdsOf(configs') /\ selected' \in Ids
    <3>. HIDE DEF done
    <3>1. Len(done) \in DOMAIN done
      BY <1>5, <2>2, EmptySeq
    <3>. QED
      BY <2>1, <2>2, <2>3, <3>1, PlacesInIds
  <2>. HIDE DEF ed
  <2>5. /\ Mode'
        /\ \A u \in Slots : /\ task'[u].kind \in {"none", "remove", "load"}
                            /\ task'[u].kind = "remove" => task'[u] = End(t)[u]
    BY <1>2, <1>3, <2>1, <2>4, ShowMode
  <2>6. RemovesApart'
    <3>1. IdsOf(done) \subseteq Held(task[t])
      BY <1>1 DEF Held, ImportRuns
    <3>2. \A u \in Slots : End(t)[u].kind = "remove" =>
            \A i \in In(End(t)[u].ids) : i \notin IdsOf(configs')
      BY <1>3, <2>3, <3>1 DEF RemovesApart
    <3>. QED
      BY <2>5, <3>2, RemovesStayApart
  <2>7. FilesAgree'
    <3>. SUFFICES ASSUME NEW k \in DOMAIN configs'
                  PROVE  /\ files[configs'[k].id] # NoText
                         /\ configs'[k].text = NoText \/ configs'[k].text = files[configs'[k].id]
      BY <1>1 DEF FilesAgree
    <3>1. ASSUME NEW j \in DOMAIN configs, configs'[k] = configs[j]
          PROVE  /\ files[configs'[k].id] # NoText
                 /\ configs'[k].text = NoText \/ configs'[k].text = files[configs'[k].id]
      BY <1>1, <3>1, NothingSaved DEF ImportRuns
    <3>2. ASSUME NEW j \in DOMAIN done, configs'[k] = done[j]
          PROVE  /\ files[configs'[k].id] # NoText
                 /\ configs'[k].text = NoText \/ configs'[k].text = files[configs'[k].id]
      BY <1>1, <2>2, <3>2 DEF ImportRuns
    <3>. QED
      BY <2>3, <3>1, <3>2
  <2>. QED
    BY <2>3, <2>4, <2>5, <2>6, <2>7 DEF SelectedExists, UniqueKeys
<1>. QED
  BY <1>4, <1>5

(* A file is removed that nothing in the list, a save or an import holds.    *)
LEMMA RemoveAgrees ==
  ASSUME TypeInv, setting.features = {}, Agreement, NEW t \in Slots, Remove(t)
  PROVE  Agreement'
<1>. USE DEF Agreement
<1>. DEFINE ids == task[t].ids
            h == Head(ids)
<1>1. /\ task[t].kind = "remove" /\ task[t] \in ShapedTasks /\ ids \in Seq(Ids) /\ ids # <<>>
      /\ files' = [files EXCEPT ![h] = NoText]
      /\ task' = (IF Len(ids) = 1 THEN End(t) ELSE [task EXCEPT ![t].ids = Tail(ids)])
      /\ UNCHANGED <<configs, selected, editor, pending>>
  BY DEF Remove, TypeInv, ShapedTasks, Tasks
<1>2. h \in In(ids) /\ In(Tail(ids)) \subseteq In(ids)
  <2>1. ids \in Seq(Ids) /\ ids # <<>>
    BY <1>1
  <2>. HIDE DEF ids
  <2>2. /\ 1 \in DOMAIN ids /\ h = ids[1]
        /\ \A k \in DOMAIN Tail(ids) : k + 1 \in DOMAIN ids /\ Tail(ids)[k] = ids[k + 1]
    BY <2>1, EmptySeq
  <2>. QED
    BY <2>2 DEF In
<1>3. /\ \A u \in Slots \ {t} : task'[u] = task[u]
      /\ \/ task'[t].kind = "none"
         \/ task'[t].kind = "remove" /\ In(task'[t].ids) \subseteq In(ids)
  <2>1. CASE Len(ids) = 1
    BY <1>1, <2>1, Ended
  <2>2. CASE Len(ids) # 1
    <3>1. task'[t] = [task[t] EXCEPT !.ids = Tail(ids)] /\ \A u \in Slots \ {t} : task'[u] = task[u]
      BY <1>1, <2>2 DEF TypeInv
    <3>. DEFINE rest == Tail(ids)
                k == task[t]
    <3>2. k \in ShapedTasks /\ k.kind = "remove" /\ task'[t] = [k EXCEPT !.ids = rest]
      BY <1>1, <3>1
    <3>. HIDE DEF ids, rest, k
    <3>3. task'[t].kind = "remove" /\ task'[t].ids = rest
      BY <3>2, Shortened
    <3>. QED
      BY <1>2, <3>1, <3>3 DEF rest
  <2>. QED
    BY <2>1, <2>2
<1>4. h \notin IdsOf(configs) /\ \A u \in Slots : h \notin Held(task[u])
  BY <1>1, <1>2 DEF RemovesApart
<1>5. \A j \in Ids : j # h => files'[j] = files[j]
  BY <1>1 DEF TypeInv
<1>. HIDE DEF h
<1>6. Mode'
  <2>1. CASE Resting
    BY <1>1, <1>3, <2>1 DEF Mode, Resting, Background
  <2>2. ASSUME NEW u \in Slots, SaveRuns(u) \/ LoadRuns(u) \/ ImportRuns(u)
        PROVE  u # t /\ task'[u] = task[u] /\ Only(u)'
    <3>1. u # t /\ Only(u)
      BY <1>1, <2>2 DEF SaveRuns, LoadRuns, ImportRuns
    <3>. QED
      BY <1>3, <3>1 DEF Only, Background
  <2>3. ASSUME NEW u \in Slots, SaveRuns(u)
        PROVE  SaveRuns(u)'
    <3>1. task'[u] = task[u] /\ Only(u)' /\ task[u].id \in Ids /\ task[u].id # h
      BY <1>4, <2>2, <2>3 DEF SaveRuns, Held, TypeInv, ShapedTasks
    <3>. QED
      BY <1>1, <1>5, <2>3, <3>1 DEF SaveRuns
  <2>4. ASSUME NEW u \in Slots, LoadRuns(u)
        PROVE  LoadRuns(u)'
    <3>1. task'[u] = task[u] /\ Only(u)' /\ task[u].id \in Ids /\ task[u].id # h
      BY <1>4, <2>2, <2>4, IdsOfEntries DEF LoadRuns
    <3>. QED
      BY <1>1, <1>5, <2>4, <3>1 DEF LoadRuns
  <2>5. ASSUME NEW u \in Slots, ImportRuns(u)
        PROVE  ImportRuns(u)'
    <3>. DEFINE new == task[u].done
    <3>1. task'[u] = task[u] /\ Only(u)' /\ new \in Seq(News) /\ task[u].kind = "import"
      BY <2>2, <2>5 DEF ImportRuns, TypeInv, ShapedTasks, Tasks, News
    <3>2. \A j \in DOMAIN new : new[j].id \in Ids /\ new[j].id # h
      <4>1. IdsOf(new) \subseteq Held(task[u])
        BY <3>1 DEF Held
      <4>2. new \in Seq(News)
        BY <3>1
      <4>. HIDE DEF new
      <4>. QED
        BY <1>4, <4>1, <4>2, NewsTyped
    <3>3. \A j \in DOMAIN new : files'[new[j].id] # NoText
      BY <1>5, <2>5, <3>2 DEF ImportRuns
    <3>4. UNCHANGED <<configs, editor, pending>>
      BY <1>1
    <3>5. \A j \in DOMAIN new :
            /\ new[j].id \notin IdsOf(configs)' /\ files'[new[j].id] # NoText
            /\ new[j].name \notin NamesOf(configs)' /\ new[j].name \in task[u].used
      BY <2>5, <3>3, <3>4 DEF ImportRuns
    <3>6. UniqueKeys(new)' /\ UniqueKeys(new)
      BY <2>5, <3>1 DEF ImportRuns
    <3>7. /\ task[u].step \in {"pick", "begin", "write"}
          /\ editor.op = IF task[u].step = "pick" THEN "none" ELSE "importing"
          /\ editor.loading = NoId /\ editor.source = selected /\ pending = NoAction
          /\ task[u].step = "pick" => task[u].ids = <<>>
          /\ task[u].step # "write" => new = <<>>
      BY <2>5 DEF ImportRuns
    <3>8. /\ \A i \in In(task[u].ids) : i \notin IdsOf(configs) /\ i \notin IdsOf(new)
          /\ task[u].step = "write" => NamesOf(configs) \subseteq task[u].used
      BY <2>5 DEF ImportRuns
    <3>9. UNCHANGED selected /\ IdsOf(configs)' = IdsOf(configs) /\ NamesOf(configs)' = NamesOf(configs)
      BY <1>1 DEF IdsOf, NamesOf
    <3>. QED
      BY <3>1, <3>4, <3>5, <3>6, <3>7, <3>8, <3>9 DEF ImportRuns
  <2>. QED
    BY <2>1, <2>3, <2>4, <2>5 DEF Mode
<1>7. RemovesApart'
  <2>1. Held(task[t]) = {} /\ Held(task'[t]) = {}
    BY <1>1, <1>3 DEF Held
  <2>. QED
    BY <1>1, <1>3, <2>1 DEF RemovesApart
<1>8. FilesAgree'
  <2>. SUFFICES ASSUME NEW k \in DOMAIN configs
                PROVE  /\ files'[configs[k].id] # NoText
                       /\ \/ configs[k].text = NoText \/ configs[k].text = files'[configs[k].id]
                          \/ Saving(configs[k].id)'
    BY <1>1 DEF FilesAgree
  <2>1. configs[k].id \in Ids /\ configs[k].id # h
    BY <1>4, IdsOfEntries, PlacesInIds
  <2>2. Saving(configs[k].id) => Saving(configs[k].id)'
    BY <1>1, <1>3 DEF Saving, Running
  <2>. QED
    BY <1>5, <2>1, <2>2 DEF FilesAgree
<1>. QED
  BY <1>1, <1>6, <1>7, <1>8 DEF UniqueKeys, SelectedExists

(* The start-up load lists what has its file.                                *)
LEMMA LoadStateAgrees ==
  ASSUME TypeInv, TypeInv', setting.features = {}, Fresh, StoresUnique, ~loaded, LoadState
  PROVE  Agreement'
<1>. USE DEF Agreement
<1>. DEFINE keep == {k \in DOMAIN stored.configs : files[stored.configs[k].id] # NoText}
            entries == KeptAt(stored.configs, keep)
            cs == [k \in DOMAIN entries |-> [id |-> entries[k].id, name |-> entries[k].name,
                                            text |-> NoText]]
            ed == [editor EXCEPT !.loading = NoId]
<1>1. /\ configs' = cs /\ selected' \in IdsOf(cs) \cup {NoId}
      /\ IF selected' = NoId THEN UNCHANGED <<editor, task>>
         ELSE Show(task, cs, ed, "loading", selected')
      /\ UNCHANGED <<pending, files>>
  BY Zenon DEF LoadState
<1>2. stored.configs \in Seq(Keys) /\ UniqueKeys(stored.configs)
  BY DEF TypeInv, States, Keys, StoresUnique
<1>3. /\ UniqueKeys(entries) /\ entries \in Seq(Keys)
      /\ \A m \in DOMAIN entries : files[entries[m].id] # NoText
  <2>1. keep \in SUBSET (DOMAIN stored.configs)
        /\ \A k \in keep : files[stored.configs[k].id] # NoText
    OBVIOUS
  <2>. DEFINE sc == stored.configs
  <2>2. entries = KeptAt(sc, keep) /\ sc \in Seq(Keys) /\ UniqueKeys(sc) /\ keep \in SUBSET (DOMAIN sc)
        /\ \A k \in keep : files[sc[k].id] # NoText
    BY <1>2, <2>1
  <2>. HIDE DEF sc, keep, entries
  <2>3. UniqueKeys(KeptAt(sc, keep)) /\ KeptAt(sc, keep) \in Seq(Keys)
        /\ \A m \in DOMAIN KeptAt(sc, keep) : \E k \in keep : KeptAt(sc, keep)[m] = sc[k]
    BY <2>2, WithoutKeys, KeptSeq
  <2>. QED
    BY <2>2, <2>3
<1>. HIDE DEF entries
<1>4. /\ DOMAIN cs = DOMAIN entries
      /\ \A k \in DOMAIN cs : /\ cs[k].id = entries[k].id /\ cs[k].name = entries[k].name
                              /\ cs[k].text = NoText
  OBVIOUS
<1>. HIDE DEF cs
<1>5. UniqueKeys(cs)
  BY <1>3, <1>4, SameKeys
<1>6. FilesAgree'
  BY <1>1, <1>3, <1>4 DEF FilesAgree
<1>7. /\ \A u \in Slots : task[u].kind = "none"
      /\ pending' = NoAction /\ editor = NoEditor
  BY <1>1 DEF Fresh
<1>8. SelectedExists'
  BY <1>1 DEF SelectedExists
<1>9. CASE selected' = NoId
  <2>1. Mode'
    BY <1>1, <1>7, <1>9 DEF Mode, Resting, NoEditor, Background
  <2>2. RemovesApart'
    BY <1>1, <1>7, <1>9, RemovesStayApart
  <2>. QED
    BY <1>1, <1>5, <1>6, <1>8, <2>1, <2>2 DEF UniqueKeys
<1>10. CASE selected' # NoId
  <2>1. selected' \in IdsOf(cs) /\ selected' \in Ids /\ Show(task, cs, ed, "loading", selected')
        /\ ed \in Editors /\ task \in [Slots -> ShapedTasks]
    BY <1>1, <1>10 DEF TypeInv, Editors
  <2>. HIDE DEF ed
  <2>2. /\ Mode'
        /\ \A u \in Slots : /\ task'[u].kind \in {"none", "remove", "load"}
                            /\ task'[u].kind = "remove" => task'[u] = task[u]
    BY <1>1, <1>7, <2>1, ShowMode DEF Background
  <2>3. RemovesApart'
    BY <1>7, <2>2, RemovesStayApart
  <2>. QED
    BY <1>1, <1>5, <1>6, <1>8, <2>2, <2>3 DEF UniqueKeys
<1>. QED
  BY <1>9, <1>10

-----------------------------------------------------------------------------
(* Every step keeps the agreement.                                           *)

Settled == loaded' /\ (Persist \/ NoPersist) /\ stored' = stored

(* What a behaviour runs under does not change.                              *)
LEMMA SettingStays == [Next]_vars => setting' = setting
<1>. SUFFICES ASSUME [Next]_vars PROVE setting' = setting
  OBVIOUS
<1>1. ASSUME NEW t \in Slots, ImportCancel(t) \/ (\E n \in 1..MaxId : ImportStart(t, n))
                             \/ ExportFolder(t) \/ ExportDone(t)
      PROVE  setting' = setting
  BY <1>1, Zenon DEF ImportCancel, ImportStart, ExportFolder, ExportDone
<1>2. CASE Discard \/ NewDraft \/ Paste \/ ImportClick \/ Export \/ Copy
  BY <1>2, Zenon DEF Discard, NewDraft, Paste, ImportClick, Export, Copy
<1>3. ASSUME NEW asNew \in BOOLEAN, NEW name \in setting.names, NEW text \in setting.texts,
             NEW action \in Actions, SaveClick(asNew, name, text, action)
      PROVE  setting' = setting
  BY <1>3, Zenon DEF SaveClick
<1>4. ASSUME NEW x, Select(x) \/ SaveRefused(x) \/ Rename(x) \/ Delete(x)
      PROVE  setting' = setting
  BY <1>4, Zenon DEF Select, SaveRefused, Rename, Delete
<1>5. CASE User
  BY <1>1, <1>2, <1>3, <1>4, <1>5, Zenon DEF User
<1>6. ASSUME NEW t \in Slots, TaskStep(t)
      PROVE  setting' = setting
  BY <1>6, Zenon DEF TaskStep, SaveWrite, SaveDone, SaveFailed, LoadRead, LoadDone,
     Remove, ExportCache, ExportDone, CopyDone, ImportBegin, ImportDone, ImportWrite
<1>7. CASE Writer \/ LoadState \/ LoadStateFailed \/ Restart
  BY <1>7, Zenon DEF Writer, WriterTake, WriterWrite, WriterDone, LoadState,
     LoadStateFailed, Restart
<1>8. CASE UNCHANGED vars
  BY <1>8 DEF vars
<1>. QED
  BY <1>5, <1>6, <1>7, <1>8 DEF Next

(* What the user and the tasks do happens after the start-up load, is        *)
(* recorded or changes nothing that is, and leaves state.json to the         *)
(* writer.                                                                   *)
LEMMA UserSettles ==
  ASSUME Fresh, User
  PROVE  Settled
<1>1. ASSUME NEW t \in Slots, task[t].kind # "none"
      PROVE  loaded
  BY <1>1 DEF Fresh
<1>2. ASSUME NEW t \in Slots, ImportCancel(t) \/ (\E n \in 1..MaxId : ImportStart(t, n))
                             \/ ExportFolder(t) \/ ExportDone(t)
      PROVE  Settled
  BY <1>1, <1>2 DEF Settled, ImportCancel, ImportStart, ExportFolder, ExportDone
<1>3. CASE Discard \/ NewDraft \/ Paste \/ ImportClick \/ Export \/ Copy
  <2>1. CASE Discard
    BY <2>1 DEF Settled, Discard
  <2>2. CASE NewDraft \/ Paste
    BY <2>2 DEF Settled, NewDraft, Paste
  <2>3. CASE ImportClick \/ Copy
    BY <2>3 DEF Settled, ImportClick, Copy
  <2>4. CASE Export
    BY <2>4 DEF Settled, Export
  <2>. QED
    BY <1>3, <2>1, <2>2, <2>3, <2>4
<1>4. ASSUME NEW i \in Ids, Select(i)
      PROVE  Settled
  BY <1>4, Zenon DEF Settled, Select
<1>5. ASSUME NEW asNew \in BOOLEAN, NEW name \in setting.names, NEW text \in setting.texts,
             NEW action \in Actions, SaveClick(asNew, name, text, action)
      PROVE  Settled
  <2>1. loaded /\ NoPersist /\ UNCHANGED <<stored, loaded>>
    BY <1>5, Zenon DEF SaveClick
  <2>. QED
    BY <2>1 DEF Settled
<1>6. ASSUME NEW action \in Actions, SaveRefused(action)
      PROVE  Settled
  BY <1>6, Zenon DEF Settled, SaveRefused
<1>7. ASSUME NEW name \in setting.names, Rename(name)
      PROVE  Settled
  BY <1>7, Zenon DEF Settled, Rename
<1>8. ASSUME NEW gone, Delete(gone)
      PROVE  Settled
  BY <1>8, Zenon DEF Settled, Delete
<1>. QED
  BY <1>2, <1>3, <1>4, <1>5, <1>6, <1>7, <1>8, Zenon DEF User

LEMMA TaskSettles ==
  ASSUME Fresh, NEW t \in Slots, TaskStep(t)
  PROVE  Settled
<1>1. task[t].kind # "none" => loaded
  BY DEF Fresh
<1>2. CASE SaveWrite(t) \/ SaveFailed(t) \/ LoadRead(t) \/ LoadDone(t) \/ Remove(t)
  BY <1>1, <1>2 DEF Settled, SaveWrite, SaveFailed, LoadRead, LoadDone, Remove
<1>3. CASE ExportCache(t) \/ ExportDone(t) \/ CopyDone(t) \/ ImportBegin(t)
  BY <1>1, <1>3 DEF Settled, ExportCache, ExportDone, CopyDone, ImportBegin
<1>4. CASE SaveDone(t)
  <2>1. task[t].kind = "save" /\ Persist /\ UNCHANGED <<stored, loaded>>
    BY <1>4 DEF SaveDone
  <2>. QED
    BY <1>1, <2>1 DEF Settled
<1>5. CASE ImportDone(t)
  <2>1. task[t].kind = "import" /\ (Persist \/ NoPersist) /\ UNCHANGED <<stored, loaded>>
    BY <1>5 DEF ImportDone
  <2>. QED
    BY <1>1, <2>1 DEF Settled
<1>6. ASSUME NEW i \in Ids, ImportWrite(t, i)
      PROVE  Settled
  <2>1. task[t].kind = "import" /\ NoPersist /\ UNCHANGED <<stored, loaded>>
    BY <1>6, Zenon DEF ImportWrite
  <2>. QED
    BY <1>1, <2>1 DEF Settled
<1>. QED
  BY <1>2, <1>3, <1>4, <1>5, <1>6 DEF TaskStep

(* What the user does keeps the agreement.                                   *)
LEMMA UserAgrees ==
  ASSUME TypeInv, TypeInv', setting.features = {}, Agreement, User
  PROVE  Agreement'
<1>1. ~Export /\ ~Copy /\ \A action \in Actions : ~SaveRefused(action)
  BY DEF Export, Copy, SaveRefused
<1>2. \A t \in Slots : ~ExportFolder(t) /\ ~ExportDone(t)
  BY ModeOf DEF ExportFolder, ExportDone, Agreement
<1>. QED
  BY <1>1, <1>2, SelectAgrees, DiscardAgrees, DraftAgrees, ImportClickAgrees,
     SaveClickAgrees, RenameAgrees, DeleteAgrees, ImportCancelAgrees,
     ImportStartAgrees DEF User

(* What the tasks do keeps the agreement.                                    *)
LEMMA TaskAgrees ==
  ASSUME TypeInv, TypeInv', setting.features = {}, Agreement, NEW t \in Slots, TaskStep(t)
  PROVE  Agreement'
<1>1. ~SaveFailed(t)
  BY ModeOf DEF SaveFailed, SaveRuns, Agreement
<1>2. ~ExportCache(t) /\ ~ExportDone(t) /\ ~CopyDone(t)
  BY ModeOf DEF ExportCache, ExportDone, CopyDone, Agreement
<1>. QED
  BY <1>1, <1>2, SaveWriteAgrees, SaveDoneAgrees, LoadReadAgrees, LoadDoneAgrees,
     RemoveAgrees, ImportBeginAgrees, ImportDoneAgrees, ImportWriteAgrees DEF TaskStep

Nothing == /\ configs = <<>> /\ selected = NoId /\ editor = NoEditor /\ pending = NoAction
           /\ \A t \in Slots : task[t].kind = "none"

(* The empty library agrees.                                                 *)
LEMMA NothingAgrees == Nothing => Agreement
<1>. SUFFICES ASSUME Nothing PROVE Agreement
  OBVIOUS
<1>. USE DEF Nothing
<1>1. Mode
  BY DEF Mode, Resting, NoEditor, Background
<1>2. DOMAIN configs = {} /\ UniqueKeys(configs)
  BY EmptyUnique
<1>. QED
  BY <1>1, <1>2 DEF Agreement, RemovesApart, SelectedExists, FilesAgree

(* The agreement holds when the process starts for the first time.           *)
LEMMA AgreeInitially == Init => AgreeInv
<1>. SUFFICES ASSUME Init PROVE Agreement /\ StoresUnique /\ Fresh
  BY DEF AgreeInv
<1>1. \A t \in Slots : task[t].kind = "none"
  BY DEF Init, NoTask, TaskOn
<1>2. Agreement /\ Fresh
  BY <1>1, NothingAgrees DEF Init, Fresh, Nothing
<1>3. StoresUnique
  BY EmptyUnique DEF Init, StoresUnique, NoState, IdleWriter
<1>. QED
  BY <1>2, <1>3

(* Every step keeps the agreement.                                           *)
LEMMA AgreeStep == TypeInv /\ TypeInv' /\ AgreeInv /\ [Next]_vars => AgreeInv'
<1>. SUFFICES ASSUME TypeInv, TypeInv', AgreeInv, [Next]_vars, setting'.features = {}
              PROVE  Agreement' /\ StoresUnique' /\ Fresh'
  BY DEF AgreeInv
<1>. USE DEF AgreeInv
<1>1. ASSUME Settled, Agreement', setting.features = {}
      PROVE  Agreement' /\ StoresUnique' /\ Fresh'
  BY <1>1, StoresStay DEF Settled, Fresh
<1>2. ASSUME StoresUnique', UNCHANGED <<setting, configs, selected, editor, pending, task, files, loaded>>
      PROVE  Agreement' /\ StoresUnique' /\ Fresh'
  <2>1. Agreement /\ Fresh
    BY <1>2
  <2>2. Fresh'
    BY <1>2, <2>1 DEF Fresh
  <2>3. Mode'
    <3>1. CASE Resting
      BY <1>2, <3>1 DEF Mode, Resting
    <3>2. ASSUME NEW t \in Slots, SaveRuns(t)
          PROVE  SaveRuns(t)'
      BY <1>2, <3>2 DEF SaveRuns, Only
    <3>3. ASSUME NEW t \in Slots, LoadRuns(t)
          PROVE  LoadRuns(t)'
      BY <1>2, <3>3 DEF LoadRuns, Only
    <3>4. ASSUME NEW t \in Slots, ImportRuns(t)
          PROVE  ImportRuns(t)'
      <4>1. Only(t)'
        BY <1>2, <3>4 DEF ImportRuns, Only
      <4>. QED
        BY <1>2, <3>4, <4>1 DEF ImportRuns, UniqueKeys
    <3>. QED
      BY <2>1, <3>1, <3>2, <3>3, <3>4 DEF Mode, Agreement
  <2>4. RemovesApart' /\ SelectedExists' /\ UniqueKeys(configs)'
    BY <1>2, <2>1 DEF Agreement, RemovesApart, SelectedExists, UniqueKeys
  <2>5. FilesAgree'
    BY <1>2, <2>1 DEF Agreement, FilesAgree, Saving, Running
  <2>. QED
    BY <1>2, <2>2, <2>3, <2>4, <2>5 DEF Agreement
<1>3. setting.features = {} /\ Agreement /\ StoresUnique /\ Fresh
  BY SettingStays
<1>4. CASE User
  BY <1>1, <1>3, <1>4, UserSettles, UserAgrees
<1>5. ASSUME NEW t \in Slots, TaskStep(t)
      PROVE  Agreement' /\ StoresUnique' /\ Fresh'
  BY <1>1, <1>3, <1>5, TaskSettles, TaskAgrees
<1>6. CASE LoadState
  <2>1. Settled /\ ~loaded
    BY <1>6, Zenon DEF LoadState, Settled
  <2>. QED
    BY <1>1, <1>3, <1>6, <2>1, LoadStateAgrees
<1>7. CASE LoadStateFailed
  BY <1>3, <1>7 DEF LoadStateFailed
<1>8. CASE Restart
  <2>1. Nothing'
    BY <1>8 DEF Restart, Nothing, NoTask, TaskOn
  <2>2. Agreement'
    BY <2>1, NothingAgrees, PTL
  <2>3. StoresUnique'
    BY <1>3, <1>8, EmptyUnique DEF Restart, StoresUnique, UniqueKeys, IdleWriter, NoState
  <2>. QED
    BY <2>1, <2>2, <2>3 DEF Fresh, Nothing
<1>9. CASE WriterTake
  <2>1. writer'.snapshot = Snapshot /\ UniqueKeys(configs) /\ stored' = stored
    BY <1>3, <1>9 DEF WriterTake, Agreement
  <2>2. UniqueKeys(Snapshot.configs)
    <3>. DEFINE rows == Snapshot.configs
    <3>1. /\ DOMAIN rows = DOMAIN configs
          /\ \A k \in DOMAIN configs : rows[k].id = configs[k].id /\ rows[k].name = configs[k].name
      BY DEF Snapshot
    <3>. HIDE DEF rows
    <3>. QED
      BY <2>1, <3>1, SameKeys DEF rows
  <2>3. StoresUnique'
    BY <1>3, <2>1, <2>2 DEF StoresUnique, UniqueKeys
  <2>. QED
    BY <1>2, <1>9, <2>3, SettingStays DEF WriterTake
<1>10. CASE WriterWrite
  <2>1. Outcomes(stored, writer.snapshot) = {<<"ok", writer.snapshot>>}
    BY <1>3 DEF Outcomes
  <2>2. stored' = writer.snapshot /\ writer'.snapshot = writer.snapshot
    BY <1>10, <2>1 DEF WriterWrite, TypeInv, Writers
  <2>3. StoresUnique'
    BY <1>3, <2>2 DEF StoresUnique, UniqueKeys
  <2>. QED
    BY <1>2, <1>10, <2>3 DEF WriterWrite
<1>11. CASE WriterDone
  <2>1. writer'.snapshot.configs = <<>> /\ stored' = stored
    BY <1>11 DEF WriterDone, IdleWriter, NoState
  <2>2. StoresUnique'
    BY <1>3, <2>1, EmptyUnique DEF StoresUnique, UniqueKeys
  <2>. QED
    BY <1>2, <1>11, <2>2 DEF WriterDone
<1>12. CASE UNCHANGED vars
  <2>1. StoresUnique'
    BY <1>3, <1>12 DEF vars, StoresUnique, UniqueKeys
  <2>. QED
    BY <1>2, <1>12, <2>1 DEF vars
<1>. QED
  BY <1>4, <1>5, <1>6, <1>7, <1>8, <1>9, <1>10, <1>11, <1>12 DEF Next, Writer

(* The agreement holds always.                                               *)
LEMMA Agrees == Spec => []AgreeInv
BY TypeInvariant, AgreeInitially, AgreeStep, PTL DEF Spec

(* An editor that is free shows what is selected.                            *)
LEMMA ModeShows == TypeInv /\ Mode => EditorShows
<1>1. ASSUME TypeInv, NEW t \in Slots, LoadRuns(t)
      PROVE  editor.loading # NoId
  BY <1>1, IdsOfEntries DEF LoadRuns
<1>. QED
  BY <1>1 DEF Mode, EditorShows, Resting, SaveRuns, ImportRuns

(* Ids and names are unique, every configuration has its file and is known   *)
(* by what the file holds, and an editor that is free shows the selected     *)
(* one, for every interleaving of updates, tasks, writes and restarts.       *)
THEOREM LibrarySound == Spec => []LibraryAgrees
<1>1. TypeInv /\ AgreeInv => LibraryAgrees
  BY TypesSound, ModeShows DEF AgreeInv, Agreement, LibraryAgrees, KeysUnique, UniqueKeys,
     EditorAgrees
<1>. QED
  BY <1>1, TypeInvariant, Agrees, PTL
=============================================================================
