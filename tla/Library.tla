------------------------------- MODULE Library -------------------------------
(***************************************************************************)
(* The library of configurations of the GUI process: saving, renaming,      *)
(* deleting, importing and selecting configurations                         *)
(* (application/config_library.rs, ui/features/configs), one file for each, *)
(* and state.json, which one background writer keeps up to date             *)
(* (ui/actions/persistence.rs) and a start of the process reads back.       *)
(*                                                                         *)
(* The UI thread runs one update at a time; an update is one action.  What  *)
(* is spawned in it (a write, a read, an import) is a task whose file       *)
(* accesses are steps of a background thread and whose end is an update.    *)
(* Names and texts are values; the draft is the configuration it was loaded *)
(* from, and what the user has typed is chosen when it is used.  What is    *)
(* known of a text (TunnelConfig.text or config_text_cache, whose limit of  *)
(* 32 is not reached) is one field of the entry.                            *)
(***************************************************************************)
EXTENDS Naturals, Sequences, FiniteSets, Places

CONSTANTS MaxId,           \* bounds the ids of configurations; 0 is none
          Names, Texts, NoName, NoText,
          MaxTasks,        \* bounds the tasks that run at once
          Settings         \* what the user and the environment may do, with bounds

AllFeatures == {"idInUse",     \* save as new or import while next_config_id is in use
                "whileBusy",   \* select, delete, save by pages and dialogs that do not ask
                "badState",    \* state.json cannot be read
                "readFails", "writeFails",
                "export",      \* exporting a configuration, copying it to the clipboard
                "refused"}     \* a save is refused whose draft is not valid

ASSUME MaxIdAssumption == MaxId \in Nat \ {0}
ASSUME NoneAssumption == NoName \notin Names /\ NoText \notin Texts
ASSUME MaxTasksAssumption == MaxTasks \in Nat \ {0}

Ids == 1..MaxId
ASSUME SettingsAssumption ==
  \A s \in Settings : /\ s.features \subseteq AllFeatures /\ s.ids \subseteq Ids
                      /\ s.names \subseteq Names /\ s.texts \subseteq Texts

NoId == 0
Slots == 1..MaxTasks

VARIABLES
  setting,    \* the member of Settings this behaviour runs under
  configs,    \* ConfigsState.configs, in the order of the list
  nextId,     \* next_config_id
  selected,   \* selection.selected_id
  editor,     \* operation, loading_config_id and draft.source_id
  pending,    \* pending_action, as far as it acts on the library
  task,       \* what each slot is doing
  files,      \* the text in <id>.conf
  stored,     \* the contents of state.json
  queued,     \* PersistenceState.queued_revision is set
  writer,     \* the loop of persist_state_async and the snapshot it writes
  loaded      \* the start-up load has ended

vars == <<setting, configs, nextId, selected, editor, pending, task, files, stored,
          queued, writer, loaded>>

TaskOn(kind, step, i) == [kind |-> kind, step |-> step, id |-> i, name |-> NoName,
                          text |-> NoText, new |-> FALSE, ids |-> <<>>, done |-> <<>>, used |-> {}]
NoTask == TaskOn("none", "none", NoId)
NoEditor == [op |-> "none", loading |-> NoId, source |-> NoId]
NoAction == [kind |-> "none", id |-> NoId]
NoState == [configs |-> <<>>, nextId |-> 1]   \* no file: the same start
IdleWriter == [step |-> "idle", snapshot |-> NoState]

Init ==
  /\ setting \in Settings
  /\ configs = <<>> /\ nextId = 1 /\ selected = NoId
  /\ editor = NoEditor /\ pending = NoAction
  /\ task = [t \in Slots |-> NoTask]
  /\ files = [i \in Ids |-> NoText]
  /\ stored = NoState /\ queued = FALSE /\ writer = IdleWriter
  /\ loaded = FALSE

-----------------------------------------------------------------------------
(* The list of configurations.                                              *)

IdsOf(cs) == {cs[k].id : k \in DOMAIN cs}
NamesOf(cs) == {cs[k].name : k \in DOMAIN cs}
Where(cs, i) == CHOOSE k \in DOMAIN cs :
                  cs[k].id = i /\ \A j \in 1..(k - 1) : cs[j].id # i

(* next_available_name, whose suffixes do not run out.                       *)
AvailableNames(used, base) == IF base \notin used THEN {base} ELSE setting.names \ used

(* mutant *)
NameNeverTaken(cs, i, n) == FALSE
NameTaken(cs, i, n) == \E k \in DOMAIN cs : cs[k].name = n /\ cs[k].id # i

(* What retain leaves of the list.                                         *)
Without(cs, gone) == KeptAt(cs, {k \in DOMAIN cs : cs[k].id \notin gone})
(* mutant: the text the list has for a configuration survives a save.         *)
InsertOrRename(cs, c) ==
  IF c.id \in IdsOf(cs) THEN [cs EXCEPT ![Where(cs, c.id)].name = c.name]
                        ELSE Append(cs, c)
InsertOrUpdate(cs, c) ==
  IF c.id \in IdsOf(cs) THEN [cs EXCEPT ![Where(cs, c.id)] = c] ELSE Append(cs, c)

(* Tasks: a free slot is taken for what an update spawns.                    *)
FreeSlots(ts) == {t \in Slots : ts[t].kind = "none"}
Spawn(ts, k) == [ts EXCEPT ![CHOOSE t \in FreeSlots(ts) :
                               \A u \in FreeSlots(ts) : t <= u] = k]
End(t) == [task EXCEPT ![t] = NoTask]
Running(kinds) == {t \in Slots : task[t].kind \in kinds}

(* load_config_into_inputs: a text that is known is shown at once, any other *)
(* is read by a task while op is shown.  It follows changes to the editor, ed.*)
Known(cs, i) == cs[Where(cs, i)].text # NoText
Show(ts, cs, ed, op, i) ==
  IF i \notin IdsOf(cs) THEN editor' = ed /\ task' = ts
  ELSE IF Known(cs, i) THEN editor' = [NoEditor EXCEPT !.source = i] /\ task' = ts
  ELSE /\ FreeSlots(ts) # {}
       /\ editor' = [ed EXCEPT !.op = op, !.loading = i]
       /\ task' = Spawn(ts, TaskOn("load", "read", i))

(* persist_state_async: one writer, which a change starts or finds at work.  *)
Persist == /\ queued' = TRUE
           /\ writer' = IF writer.step = "idle" THEN [writer EXCEPT !.step = "debounce"]
                                                ELSE writer
NoPersist == UNCHANGED <<queued, writer>>

(* The code asks whether the editor is busy.  What goes on behind an editor   *)
(* that is not, a file dialog or the load that follows a deletion, is left    *)
(* to end unless a run allows more, and so are pages that do not ask.         *)
Picking == \E t \in Slots : task[t].kind = "import" /\ task[t].step = "pick"
NotBusy == /\ editor.op = "none"
           /\ Picking \/ editor.loading # NoId => "whileBusy" \in setting.features
Idle == NotBusy \/ "whileBusy" \in setting.features

(* The ids from next_config_id on are new: not so once one was saved as new. *)
NextIsNew ==
  \A i \in {j \in Ids : j >= nextId} :
    /\ i \notin IdsOf(configs)
    /\ \A t \in Slots : task[t].id # i /\ \A k \in DOMAIN task[t].ids : task[t].ids[k] # i
NewIdsAllowed == NextIsNew \/ "idInUse" \in setting.features

-----------------------------------------------------------------------------
(* Selecting and saving.                                                    *)

Select(i) ==
  /\ loaded /\ Idle /\ i \in IdsOf(configs) \ {selected}
  /\ selected' = i
  /\ Show(task, configs, editor, "loading", i) /\ Persist
  /\ UNCHANGED <<configs, nextId, pending, files, setting, stored, loaded>>

(* discard_current_draft: the draft goes back to what it was loaded from.      *)
Discard ==
  LET i == IF editor.source # NoId THEN editor.source ELSE selected
  IN /\ loaded /\ Idle
     /\ pending' = NoAction /\ selected' = i
     /\ IF i = NoId THEN editor' = NoEditor /\ task' = task
                    ELSE Show(task, configs, editor, "loading", i)
     /\ NoPersist /\ UNCHANGED <<configs, nextId, files, setting, stored, loaded>>

NewDraft ==
  /\ loaded /\ Idle
  /\ selected' = NoId /\ editor' = NoEditor
  /\ NoPersist /\ UNCHANGED <<configs, nextId, pending, task, files, setting, stored, loaded>>

(* Pasting replaces the draft, and forgets a load without ending it.         *)
Paste ==
  /\ loaded /\ Idle
  /\ selected' = NoId /\ editor' = [editor EXCEPT !.loading = NoId, !.source = NoId]
  /\ NoPersist /\ UNCHANGED <<configs, nextId, pending, task, files, setting, stored, loaded>>

(* plan_save_target: the draft's own configuration, if it is still there.    *)
SavesNew(asNew) == asNew \/ editor.source \notin IdsOf(configs)
SaveTarget(asNew) == IF SavesNew(asNew) THEN nextId ELSE editor.source

(* What a dialog has asked to be done after the save; only some of it acts   *)
(* here, and a paste as a new draft does.  The buttons leave what is there.  *)
Actions == {pending} \cup [kind : {"other", "new", "import"}, id : {NoId}]
                     \cup [kind : {"select"}, id : IdsOf(configs) \ {selected}]

SaveClick(asNew, name, text, action) ==
  LET i == SaveTarget(asNew)
      own == IF asNew THEN NoId ELSE editor.source
  IN /\ loaded /\ Idle
     /\ pending' = action /\ (asNew => action = pending)
     /\ i \in setting.ids /\ ~NameTaken(configs, own, name)
     /\ SavesNew(asNew) => NewIdsAllowed
     /\ FreeSlots(task) # {}
     /\ editor' = [editor EXCEPT !.op = "saving"]
     /\ task' = Spawn(task, [TaskOn("save", "write", i) EXCEPT
                               !.name = name, !.text = text, !.new = SavesNew(asNew)])
     /\ NoPersist /\ UNCHANGED <<configs, nextId, selected, files, setting, stored, loaded>>

SaveRefused(action) ==
  /\ loaded /\ Idle /\ "refused" \in setting.features
  /\ pending' = action
  /\ NoPersist
  /\ UNCHANGED <<configs, nextId, selected, editor, task, files, setting, stored, loaded>>

(* write_atomic: an error may come after the new file is in place.           *)
Outcomes(old, new) == {<<"ok", new>>}
  \cup (IF "writeFails" \in setting.features THEN {<<"failed", old>>, <<"failed", new>>} ELSE {})

SaveWrite(t) ==
  /\ task[t].kind = "save" /\ task[t].step = "write"
  /\ \E o \in Outcomes(files[task[t].id], task[t].text) :
       /\ files' = [files EXCEPT ![task[t].id] = o[2]]
       /\ task' = [task EXCEPT ![t].step = o[1]]
  /\ NoPersist
  /\ UNCHANGED <<configs, nextId, selected, editor, pending, setting, stored, loaded>>

(* The file dialog of handle_import_click.                                  *)
Pick == TaskOn("import", "pick", NoId)

(* run_pending_draft_action, once configuration i is saved and shown.        *)
AfterSave(t, i) ==
  \/ /\ pending.kind \in {"none", "other"} \/ pending = [kind |-> "select", id |-> i]
     /\ selected' = i /\ Show(End(t), configs', [editor EXCEPT !.op = "none"], "loading", i)
  \/ /\ pending.kind = "select" /\ pending.id # i
     /\ selected' = pending.id
     /\ Show(End(t), configs', [NoEditor EXCEPT !.source = i], "loading", pending.id)
  \/ /\ pending.kind = "import"
     /\ selected' = i /\ editor' = [NoEditor EXCEPT !.source = i]
     /\ task' = Spawn(End(t), Pick)
  \/ /\ pending.kind = "new"
     /\ selected' = NoId /\ editor' = NoEditor /\ task' = End(t)

SaveDone(t) ==
  LET i == task[t].id
  IN /\ task[t].kind = "save" /\ task[t].step = "ok"
     /\ configs' = InsertOrUpdate(configs, [id |-> i, name |-> task[t].name,
                                            text |-> task[t].text])
     /\ AfterSave(t, i) /\ pending' = NoAction
     /\ Persist /\ UNCHANGED <<nextId, files, setting, stored, loaded>>

SaveFailed(t) ==
  /\ task[t].kind = "save" /\ task[t].step = "failed"
  /\ editor' = [editor EXCEPT !.op = "none"] /\ task' = End(t)
  /\ NoPersist
  /\ UNCHANGED <<configs, nextId, selected, pending, files, setting, stored, loaded>>

-----------------------------------------------------------------------------
(* The end of load_config_into_inputs; an export and a copy read a text, too. *)

LoadRead(t) ==
  LET text == files[task[t].id]
  IN /\ task[t].kind \in {"load", "export", "copy"} /\ task[t].step = "read"
     /\ \/ text # NoText /\ task' = [task EXCEPT ![t].step = "ok", ![t].text = text]
        \/ /\ text = NoText \/ "readFails" \in setting.features
           /\ task' = [task EXCEPT ![t].step = "failed"]
     /\ NoPersist
     /\ UNCHANGED <<configs, nextId, selected, editor, pending, files, setting, stored, loaded>>

(* cache_config_text: a text that was saved in the meantime comes first.     *)
Cached(cs, t) ==
  LET i == task[t].id
  IN IF i \in IdsOf(cs) /\ ~Known(cs, i)
       THEN [cs EXCEPT ![Where(cs, i)] = [id |-> @.id, name |-> @.name,
                                          text |-> task[t].text]]
       ELSE cs

(* A text that came too late is kept, but the editor is left alone.          *)
LoadDone(t) ==
  LET i == task[t].id
      exists == i \in IdsOf(configs)
      current == selected = i /\ editor.loading = i
  IN /\ task[t].kind = "load" /\ task[t].step # "read"
     /\ configs' = IF task[t].step = "ok" THEN Cached(configs, t) ELSE configs
     /\ editor' = IF ~exists /\ editor.loading = i THEN [editor EXCEPT !.loading = NoId]
                  ELSE IF exists /\ current
                    THEN [NoEditor EXCEPT !.source = IF task[t].step = "ok" THEN i
                                                     ELSE editor.source]
                  ELSE editor
     /\ task' = End(t)
     /\ NoPersist
     /\ UNCHANGED <<nextId, selected, pending, files, setting, stored, loaded>>

(* Exporting keeps the editor busy, its folder dialog included; copying does  *)
(* not.  Where the text goes is outside the library.                        *)
Export ==
  /\ loaded /\ NotBusy /\ "export" \in setting.features
  /\ selected \in IdsOf(configs) /\ FreeSlots(task) # {}
  /\ editor' = [editor EXCEPT !.op = "exporting"]
  /\ task' = Spawn(task, [TaskOn("export", "pick", selected) EXCEPT
                               !.new = ~Known(configs, selected)])
  /\ NoPersist /\ UNCHANGED <<configs, nextId, selected, pending, files, setting, stored, loaded>>

ExportFolder(t) ==
  /\ task[t].kind = "export" /\ task[t].step = "pick"
  /\ task' = [task EXCEPT ![t].step = IF task[t].new THEN "read" ELSE "write"]
  /\ NoPersist
  /\ UNCHANGED <<configs, nextId, selected, editor, pending, files, setting, stored, loaded>>

ExportCache(t) ==
  /\ task[t].kind = "export" /\ task[t].step = "ok"
  /\ configs' = Cached(configs, t)
  /\ task' = [task EXCEPT ![t].step = "write"]
  /\ NoPersist /\ UNCHANGED <<nextId, selected, editor, pending, files, setting, stored, loaded>>

ExportDone(t) ==   \* or the dialog was cancelled
  /\ task[t].kind = "export" /\ task[t].step \in {"pick", "write", "failed"}
  /\ editor' = [editor EXCEPT !.op = "none"] /\ task' = End(t)
  /\ NoPersist
  /\ UNCHANGED <<configs, nextId, selected, pending, files, setting, stored, loaded>>

Copy ==
  /\ loaded /\ "export" \in setting.features
  /\ selected \in IdsOf(configs) /\ ~Known(configs, selected) /\ FreeSlots(task) # {}
  /\ task' = Spawn(task, TaskOn("copy", "read", selected))
  /\ NoPersist
  /\ UNCHANGED <<configs, nextId, selected, editor, pending, files, setting, stored, loaded>>

CopyDone(t) ==
  /\ task[t].kind = "copy" /\ task[t].step # "read"
  /\ configs' = IF selected = task[t].id /\ task[t].step = "ok" THEN Cached(configs, t)
                                                                ELSE configs
  /\ task' = End(t)
  /\ NoPersist /\ UNCHANGED <<nextId, selected, editor, pending, files, setting, stored, loaded>>

-----------------------------------------------------------------------------
(* Renaming and deleting.                                                   *)

Rename(name) ==
  LET i == IF editor.source # NoId THEN editor.source ELSE selected
  IN /\ loaded /\ NotBusy /\ selected # NoId
     /\ i \in IdsOf(configs) /\ name \notin NamesOf(configs)
     /\ configs' = [configs EXCEPT ![Where(configs, i)].name = name]
     /\ Persist
     /\ UNCHANGED <<nextId, selected, editor, pending, task, files, setting, stored, loaded>>

(* mutant: the selection is left to the next click.                         *)
SelectedStays(rest) == selected
(* plan_post_delete_selection.                                              *)
SelectedAfter(rest) ==
  IF selected \in IdsOf(rest) THEN selected
  ELSE IF rest # <<>> /\ selected \in IdsOf(configs)
    THEN rest[IF Where(configs, selected) <= Len(rest) THEN Where(configs, selected)
                                                       ELSE Len(rest)].id
  ELSE NoId

(* The pages delete any configurations that are not running, the editor the  *)
(* selected one.                                                            *)
Delete(gone) ==
  LET rest == Without(configs, gone)
      next == SelectedAfter(rest)
      paths == KeptAt([k \in DOMAIN configs |-> configs[k].id],
                    {k \in DOMAIN configs : configs[k].id \in gone})
      ts == Spawn(task, [TaskOn("remove", "remove", NoId) EXCEPT !.ids = paths])
      ed == [editor EXCEPT !.op = "none", !.loading = NoId]
  IN /\ loaded /\ Idle /\ FreeSlots(task) # {}
     /\ configs' = rest /\ selected' = next
     /\ IF next = NoId THEN editor' = NoEditor /\ task' = ts
        ELSE IF next = selected THEN editor' = ed /\ task' = ts
        ELSE Show(ts, rest, ed, "none", next)
     /\ Persist /\ UNCHANGED <<nextId, pending, files, setting, stored, loaded>>

(* delete_files ends with the first error; a missing file is none.           *)
Remove(t) ==
  LET ids == task[t].ids
  IN /\ task[t].kind = "remove"
     /\ \/ /\ files' = [files EXCEPT ![Head(ids)] = NoText]
           /\ task' = IF Len(ids) = 1 THEN End(t)
                                      ELSE [task EXCEPT ![t].ids = Tail(ids)]
        \/ "writeFails" \in setting.features /\ task' = End(t) /\ UNCHANGED files
     /\ NoPersist
     /\ UNCHANGED <<configs, nextId, selected, editor, pending, setting, stored, loaded>>

-----------------------------------------------------------------------------
(* Importing.                                                               *)

(* While the file dialog is open, the editor does not count as busy.         *)
ImportClick ==
  /\ loaded /\ NotBusy /\ FreeSlots(task) # {}
  /\ task' = Spawn(task, Pick)
  /\ NoPersist
  /\ UNCHANGED <<configs, nextId, selected, editor, pending, files, setting, stored, loaded>>

ImportCancel(t) ==
  /\ task[t].kind = "import" /\ task[t].step = "pick"
  /\ editor' \in {editor, [editor EXCEPT !.op = "none"]} /\ task' = End(t)
  /\ NoPersist
  /\ UNCHANGED <<configs, nextId, selected, pending, files, setting, stored, loaded>>

(* mutant: the ids are taken after the counter has moved.                   *)
ImportStartLate(t, n) ==
  /\ task[t].kind = "import" /\ task[t].step = "pick"
  /\ nextId + n - 1 \in setting.ids /\ NewIdsAllowed
  /\ nextId' = nextId + n
  /\ task' = [task EXCEPT ![t].step = "begin",
                          ![t].ids = [k \in 1..n |-> nextId + k]]
  /\ editor' = [editor EXCEPT !.op = "importing"]
  /\ NoPersist
  /\ UNCHANGED <<configs, selected, pending, files, setting, stored, loaded>>
(* start_import_from_paths: one id for each of n paths.                     *)
ImportStart(t, n) ==
  /\ task[t].kind = "import" /\ task[t].step = "pick"
  /\ nextId + n - 1 \in setting.ids /\ NewIdsAllowed
  /\ nextId' = nextId + n
  /\ task' = [task EXCEPT ![t].step = "begin",
                          ![t].ids = [k \in 1..n |-> nextId + k - 1]]
  /\ editor' = [editor EXCEPT !.op = "importing"]
  /\ NoPersist
  /\ UNCHANGED <<configs, selected, pending, files, setting, stored, loaded>>

ImportBegin(t) ==
  /\ task[t].kind = "import" /\ task[t].step = "begin"
  /\ task' = [task EXCEPT ![t].step = "write", ![t].used = NamesOf(configs)]
  /\ NoPersist
  /\ UNCHANGED <<configs, nextId, selected, editor, pending, files, setting, stored, loaded>>

(* import_config_job and its record; the jobs end in any order.              *)
ImportWrite(t, i) ==
  LET job == task[t]
      left == [job EXCEPT !.ids = KeptAt(job.ids, {k \in DOMAIN job.ids : job.ids[k] # i})]
  IN /\ job.kind = "import" /\ job.step = "write" /\ i \in {job.ids[k] : k \in DOMAIN job.ids}
     /\ \/ \E text \in setting.texts, base \in setting.names : \E name \in AvailableNames(job.used, base) :
             /\ files' = [files EXCEPT ![i] = text]
             /\ task' = [task EXCEPT ![t] =
                  [left EXCEPT !.used = @ \cup {name},
                               !.done = Append(@, [id |-> i, name |-> name, text |-> NoText])]]
        \/ /\ task' = [task EXCEPT ![t] = left]   \* the source is not valid
           /\ \/ UNCHANGED files
              \/ /\ "writeFails" \in setting.features
                 /\ \E text \in setting.texts : files' = [files EXCEPT ![i] = text]
     /\ NoPersist
     /\ UNCHANGED <<configs, nextId, selected, editor, pending, setting, stored, loaded>>

(* mutant: an import without a result returns before it frees the editor.    *)
ImportDoneStuck(t) ==
  LET done == task[t].done
      ed == [editor EXCEPT !.op = "none"]
  IN /\ task[t].kind = "import" /\ task[t].step = "write" /\ task[t].ids = <<>>
     /\ IF done = <<>>
          THEN /\ task' = End(t)
               /\ NoPersist /\ UNCHANGED <<configs, editor, selected>>
          ELSE /\ configs' = configs \o done
               /\ selected' = done[Len(done)].id
               /\ Show(End(t), configs', ed, "loading", selected') /\ Persist
     /\ UNCHANGED <<nextId, pending, files, setting, stored, loaded>>
(* What was imported joins the list, and its last configuration is shown.    *)
ImportDone(t) ==
  LET done == task[t].done
      ed == [editor EXCEPT !.op = "none"]
  IN /\ task[t].kind = "import" /\ task[t].step = "write" /\ task[t].ids = <<>>
     /\ IF done = <<>>
          THEN /\ editor' = ed /\ task' = End(t)
               /\ NoPersist /\ UNCHANGED <<configs, selected>>
          ELSE /\ configs' = configs \o done
               /\ selected' = done[Len(done)].id
               /\ Show(End(t), configs', ed, "loading", selected') /\ Persist
     /\ UNCHANGED <<nextId, pending, files, setting, stored, loaded>>

-----------------------------------------------------------------------------
(* The writer of state.json, and the start of the process.                  *)

Snapshot == [configs |-> [k \in DOMAIN configs |-> [id |-> configs[k].id,
                                                    name |-> configs[k].name]],
             nextId |-> nextId]

WriterTake ==
  /\ writer.step = "debounce" /\ queued
  /\ queued' = FALSE
  /\ writer' = [step |-> "write", snapshot |-> Snapshot]
  /\ UNCHANGED <<configs, nextId, selected, editor, pending, task, files, setting, stored, loaded>>

WriterWrite ==
  /\ writer.step = "write"
  /\ \E o \in Outcomes(stored, writer.snapshot) :
       stored' = o[2] /\ writer' = [writer EXCEPT !.step = o[1]]
  /\ UNCHANGED <<setting, configs, nextId, selected, editor, pending, task, files, queued, loaded>>

(* mutant: what was queued during the write waits for the next change.       *)
WriterRests ==
  /\ writer.step \in {"ok", "failed"}
  /\ writer' = IdleWriter
  /\ UNCHANGED <<configs, nextId, selected, editor, pending, task, files, setting, stored, queued,
                 loaded>>
(* The loop goes on while a revision is queued.                             *)
WriterDone ==
  /\ writer.step \in {"ok", "failed"}
  /\ writer' = IF queued THEN [IdleWriter EXCEPT !.step = "debounce"] ELSE IdleWriter
  /\ UNCHANGED <<configs, nextId, selected, editor, pending, task, files, setting, stored, queued,
                 loaded>>

(* restore_configs: an entry whose file is missing is dropped.               *)
LoadState ==
  LET entries == KeptAt(stored.configs, {k \in DOMAIN stored.configs :
                                           files[stored.configs[k].id] # NoText})
      cs == [k \in DOMAIN entries |-> [id |-> entries[k].id, name |-> entries[k].name,
                                       text |-> NoText]]
      beyond == {n \in 1..(MaxId + 1) : \A i \in IdsOf(stored.configs) : i < n}
      free == CHOOSE n \in beyond : \A m \in beyond : n <= m
  IN /\ ~loaded
     /\ configs' = cs
     /\ nextId' = IF stored.nextId >= free THEN stored.nextId ELSE free
     /\ selected' \in IdsOf(cs) \cup {NoId}
     /\ IF selected' = NoId THEN UNCHANGED <<editor, task>>
        ELSE Show(task, cs, [editor EXCEPT !.loading = NoId], "loading", selected')
     /\ IF Len(entries) < Len(stored.configs) THEN Persist ELSE NoPersist
     /\ loaded' = TRUE
     /\ UNCHANGED <<pending, files, setting, stored>>

LoadStateFailed ==
  /\ ~loaded /\ "badState" \in setting.features
  /\ loaded' = TRUE
  /\ UNCHANGED <<configs, nextId, selected, editor, pending, task, files, setting, stored, queued,
                 writer>>

(* The process quits or dies, and is started again.                         *)
Restart ==
  /\ configs' = <<>> /\ nextId' = 1 /\ selected' = NoId
  /\ editor' = NoEditor /\ pending' = NoAction
  /\ task' = [t \in Slots |-> NoTask]
  /\ queued' = FALSE /\ writer' = IdleWriter /\ loaded' = FALSE
  /\ UNCHANGED <<files, setting, stored>>

-----------------------------------------------------------------------------
User ==
  \/ Discard \/ NewDraft \/ Paste \/ ImportClick \/ Export \/ Copy
  \/ \E i \in Ids : Select(i)
  \/ \E asNew \in BOOLEAN, name \in setting.names, text \in setting.texts, action \in Actions :
       SaveClick(asNew, name, text, action)
  \/ \E action \in Actions : SaveRefused(action)
  \/ \E name \in setting.names : Rename(name)
  \/ \E gone \in (SUBSET IdsOf(configs)) \ {{}} : Delete(gone)
  \/ \E t \in Slots : \/ ImportCancel(t) \/ \E n \in 1..MaxId : ImportStart(t, n)
                      \/ ExportFolder(t) \/ (task[t].step = "pick" /\ ExportDone(t))

TaskStep(t) ==
  \/ SaveWrite(t) \/ SaveDone(t) \/ SaveFailed(t)
  \/ LoadRead(t) \/ LoadDone(t) \/ Remove(t)
  \/ ExportCache(t) \/ (task[t].step # "pick" /\ ExportDone(t)) \/ CopyDone(t)
  \/ ImportBegin(t) \/ ImportDone(t) \/ \E i \in Ids : ImportWrite(t, i)

Writer == WriterTake \/ WriterWrite \/ WriterDone

Next ==
  \/ User \/ Writer \/ LoadState \/ LoadStateFailed \/ Restart
  \/ \E t \in Slots : TaskStep(t)

Spec == Init /\ [][Next]_vars
FairSpec ==
  /\ Spec
  /\ WF_vars(Writer) /\ WF_vars(LoadState)
  /\ \A t \in Slots : WF_vars(TaskStep(t))
-----------------------------------------------------------------------------
(* Properties.                                                              *)

States == [configs : Seq([id : Ids, name : Names]), nextId : 1..(MaxId + 1)]
Tasks == [kind : {"none", "save", "load", "remove", "import", "export", "copy"},
          step : {"none", "write", "ok", "failed", "read", "remove", "pick", "begin"},
          id : Ids \cup {NoId}, name : Names \cup {NoName}, text : Texts \cup {NoText},
          new : BOOLEAN, ids : Seq(Ids),
          done : Seq([id : Ids, name : Names, text : {NoText}]), used : SUBSET Names]

(* Every variable keeps the type of its Rust counterpart.                   *)
TypeOK ==
  /\ configs \in Seq([id : Ids, name : Names, text : Texts \cup {NoText}])
  /\ nextId \in 1..(MaxId + 1)
  /\ selected \in Ids \cup {NoId}
  /\ editor \in [op : {"none", "loading", "saving", "importing", "exporting"},
                 loading : Ids \cup {NoId}, source : Ids \cup {NoId}]
  /\ pending \in [kind : {"none", "other", "new", "import", "select"}, id : Ids \cup {NoId}]
  /\ task \in [Slots -> Tasks]
  /\ files \in [Ids -> Texts \cup {NoText}]
  /\ stored \in States
  /\ setting \in Settings /\ queued \in BOOLEAN /\ loaded \in BOOLEAN
  /\ writer \in [step : {"idle", "debounce", "write", "ok", "failed"}, snapshot : States]

(* No two configurations share an id or a name, although names are checked   *)
(* when a save or an import begins and used when it ends.                    *)
KeysUnique ==
  \A j, k \in DOMAIN configs : j # k =>
    configs[j].id # configs[k].id /\ configs[j].name # configs[k].name

(* Every configuration of the list has its file, and what the list knows of  *)
(* its text is what the file holds, unless a save is about to tell it.       *)
Saving(i) == \E t \in Running({"save"}) : task[t].id = i
FilesAgree ==
  \A k \in DOMAIN configs :
    LET c == configs[k] IN
      /\ files[c.id] # NoText
      /\ c.text = NoText \/ c.text = files[c.id] \/ Saving(c.id)

(* The selected configuration exists, and an editor that is not busy shows    *)
(* it: a click on Save never writes to another one.                          *)
SelectedExists == selected # NoId => selected \in IdsOf(configs)
EditorShows == editor.op = "none" /\ editor.loading = NoId => editor.source = selected
EditorAgrees == SelectedExists /\ EditorShows

(* The library keeps its types, and the three hold together where pages ask   *)
(* whether the editor is busy and no id is used twice.                       *)
LibraryAgrees ==
  /\ TypeOK
  /\ setting.features = {} => KeysUnique /\ FilesAgree /\ EditorAgrees

(* state/configs.rs:12, storage.rs (Saved as a new config): a save as new     *)
(* writes a file of its own, which is no other configuration's.              *)
NewFilesAreNew ==
  \A t \in Slots : task[t].kind = "save" /\ task[t].new => task[t].id \notin IdsOf(configs)

(* persistence.rs:121, no older snapshot covers a newer one:                  *)
(* the writer comes to rest after a successful write only when state.json     *)
(* lists what the library lists: a change made during the write, or during   *)
(* the debounce, is never left for the next one to save.                     *)
RestsWritten ==
  [][writer.step = "ok" /\ writer'.step = "idle" /\ loaded' =>
       stored.configs = Snapshot.configs]_vars

(* A busy editor becomes free again, whatever it was busy with.              *)
BusyEnds == setting.features = {} => (editor.op # "none" ~> editor.op = "none")
=============================================================================
