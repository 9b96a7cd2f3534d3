------------------------------- MODULE Themes -------------------------------
(***************************************************************************)
(* Theme files and the theme preference (ui/features/themes): imports and  *)
(* templates written by background jobs, the catalogue read from the       *)
(* directory, and the palette chosen from it, which is kept as a key and   *)
(* a name and looked up again at every start.                              *)
(*                                                                         *)
(* A theme's name is a base, the mode that may have been appended and the  *)
(* number in "(Custom n)", 0 for none.  Only the light palette is chosen   *)
(* here; the dark one goes through the same code.                          *)
(***************************************************************************)
EXTENDS Naturals, FiniteSets, Sequences

CONSTANTS
    ThemeJobs,      \* background jobs; each runs once, a bound
    Sources,        \* the files a user imports: [stem, themes]
    BuiltinBase,    \* the base of the built-in theme's name
    CuratedBases,   \* names of the bundled light themes
    KeyOf,          \* sanitize_key of a base; several may have one key
    MaxFiles        \* bound: files of one stem

VARIABLES
    themeFiles,     \* the custom files: [stem, index] to its themes, <<>> if absent
    job,            \* see TypeOK
    preference,     \* theme_light_key and theme_light_name
    savedTheme,     \* the same in state.json
    applied,        \* the catalogue entry in use
    raced           \* history: a job began while another was under way

vars == <<themeFiles, job, preference, savedTheme, applied, raced>>

Legacy == "r-wg-curated"
Stems == {s.stem : s \in Sources} \union {"template"}
FileNames == [stem : Stems, index : 1..MaxFiles]
NoKey == [collection |-> "none"]
NoName == [base |-> "none", mode |-> "none", custom |-> 0]
NoFile == [stem |-> "none", index |-> 0]
Plain(base) == [base |-> base, mode |-> "none", custom |-> 0]

(***************************************************************************)
(* The catalogue                                                           *)
(***************************************************************************)
Entry(collection, file, name) == [collection |-> collection, file |-> file, name |-> name]
DefaultEntry == Entry("builtin", NoFile, Plain(BuiltinBase))
Curated == {Entry("curated", NoFile, Plain(b)) : b \in CuratedBases}
Custom(files, mode) ==
    UNION {{Entry("custom", f, files[f][i].name) :
              i \in {k \in DOMAIN files[f] : files[f][k].mode = mode}} : f \in DOMAIN files}
\* available_themes of the light mode
Available(files) == {DefaultEntry} \union Curated \union Custom(files, "Light")
\* theme_name_inventory has the names of both modes
Names(files) == {e.name : e \in Available(files) \union Custom(files, "Dark")}

SanitizedName(n) == [base |-> KeyOf[n.base], mode |-> n.mode, custom |-> n.custom]
\* a mutant: the file is not part of the key
KeyWithoutFile(e) == [collection |-> e.collection, file |-> NoFile, name |-> SanitizedName(e.name)]
\* builtin_theme_key, file_theme_key
EntryKey(e) == [collection |-> e.collection, file |-> e.file, name |-> SanitizedName(e.name)]

\* ThemeCatalogEntry::sort_rank
Rank(e) == CASE e.collection = "builtin" -> 0 [] e.collection = "curated" -> 1
             [] e.collection = "custom" -> 2
First(entries) == {e \in entries : \A g \in entries : Rank(e) <= Rank(g)}
ByKey(files, pref) == {e \in Available(files) : EntryKey(e) = pref.key}
ByName(files, pref) == First({e \in Available(files) : e.name = pref.name})
\* a mutant: the name comes first
ResolveNameFirst(files, pref) ==
    IF ByName(files, pref) # {} THEN ByName(files, pref)
    ELSE IF ByKey(files, pref) # {} THEN First(ByKey(files, pref)) ELSE {DefaultEntry}
\* resolve_theme_preference: any of these, as the directory happens to be read
Resolve(files, pref) ==
    LET keyed == ByKey(files, pref)
        named == ByName(files, pref)
    IN  IF keyed # {} THEN First(keyed) ELSE IF named # {} THEN named ELSE {DefaultEntry}

(***************************************************************************)
(* Names of imported themes                                                *)
(***************************************************************************)
\* a mutant: an imported name is kept as it is
UniqueNameKeep(theme, preferMode, used) == Plain(theme.base)
\* unique_theme_name; no base of the instances ends with the name of a mode
UniqueName(theme, preferMode, used) ==
    LET withMode == [Plain(theme.base) EXCEPT !.mode = theme.mode]
        stems == IF preferMode THEN <<withMode, Plain(theme.base)>>
                 ELSE <<Plain(theme.base), withMode>>
        At(i, n) == [stems[i] EXCEPT !.custom = n]
        Free(n) == {i \in 1..2 : At(i, n) \notin used}
    IN  IF Free(0) # {} THEN At(IF 1 \in Free(0) THEN 1 ELSE 2, 0)
        ELSE IF Free(1) # {} THEN At(IF 1 \in Free(1) THEN 1 ELSE 2, 1)
        ELSE At(1, CHOOSE n \in 2..(2 + Cardinality(used)) :
                     1 \in Free(n) /\ \A m \in 2..(n - 1) : 1 \notin Free(m))

\* of one base, two of them: their modes tell them apart
PrefersMode(themes, theme) ==
    \E i, k \in DOMAIN themes : i # k /\ themes[i].base = theme.base /\ themes[k].base = theme.base

(***************************************************************************)
(* The directory                                                           *)
(***************************************************************************)
\* a mutant: everything that is not bundled goes
EnsureDirAll(files) == [f \in FileNames |-> <<>>]
\* ensure_themes_dir; the bundled files are not in themeFiles
EnsureDir(files) == [f \in FileNames |-> IF f.stem = Legacy /\ f.index = 1 THEN <<>> ELSE files[f]]

\* a mutant: an existing file of the name is replaced
TargetSame(files, stem) == [stem |-> stem, index |-> 1]
\* unique_theme_file_path
Target(files, stem) ==
    [stem |-> stem,
     index |-> CHOOSE i \in 1..MaxFiles : /\ files[[stem |-> stem, index |-> i]] = <<>>
                                          /\ \A k \in 1..(i - 1) :
                                               files[[stem |-> stem, index |-> k]] # <<>>]
HasRoom(stem) == themeFiles[[stem |-> stem, index |-> MaxFiles]] = <<>>

(***************************************************************************)
(* Jobs                                                                    *)
(***************************************************************************)
Job(at, used, queue) ==
    [at |-> at, used |-> used, queue |-> queue, target |-> NoFile, named |-> <<>>]
Idle == Job("idle", {}, <<>>)
Over == Job("over", {}, <<>>)
Becomes(j, to) == job' = [job EXCEPT ![j] = to]
Active == {j \in ThemeJobs : job[j].at \notin {"idle", "over"}}
Begins == raced' = (raced \/ Active # {})

\* handle_theme_import_click: the names are collected before the dialog answers
ClickImport(j) ==
    /\ job[j] = Idle
    /\ Becomes(j, Job("dialog", Names(themeFiles), <<>>))
    /\ Begins
    /\ UNCHANGED <<themeFiles, preference, savedTheme, applied>>

\* no file chosen, or no dialog to be had
Cancel(j) ==
    /\ job[j].at = "dialog"
    /\ Becomes(j, Over)
    /\ UNCHANGED <<themeFiles, preference, savedTheme, applied, raced>>

Pick(j, queue) ==
    /\ job[j].at = "dialog"
    /\ Becomes(j, [job[j] EXCEPT !.at = "importing", !.queue = queue])
    /\ UNCHANGED <<themeFiles, preference, savedTheme, applied, raced>>

\* duplicate_current_theme_template names its two themes at the click
Template == [stem |-> "template",
             themes |-> <<[base |-> "Custom", mode |-> "Light"], [base |-> "Custom", mode |-> "Dark"]>>]
ClickTemplate(j) ==
    /\ job[j] = Idle /\ HasRoom("template")
    /\ Becomes(j, Job("naming", Names(themeFiles), <<Template>>))
    /\ Begins
    /\ UNCHANGED <<themeFiles, preference, savedTheme, applied>>

\* import_theme_file: a file that cannot be read or has no themes is only counted
Unreadable(j) ==
    /\ job[j].at = "importing"
    /\ Becomes(j, [job[j] EXCEPT !.queue = Tail(@), !.at = IF Len(job[j].queue) = 1 THEN "done" ELSE @])
    /\ UNCHANGED <<themeFiles, preference, savedTheme, applied, raced>>

\* a file that can be read
NameFile(j) ==
    /\ job[j].at = "importing"
    /\ Becomes(j, [job[j] EXCEPT !.at = "naming"])
    /\ UNCHANGED <<themeFiles, preference, savedTheme, applied, raced>>

\* sanitize_theme_set_with_inventory, a theme at a time
Named(j) == Len(job[j].named) = Len(Head(job[j].queue).themes)
NextTheme(j) == Head(job[j].queue).themes[Len(job[j].named) + 1]
NameOf(j) ==
    UniqueName(NextTheme(j), PrefersMode(Head(job[j].queue).themes, NextTheme(j)), job[j].used)
NamedNext(j) == Append(job[j].named, [name |-> NameOf(j), mode |-> NextTheme(j).mode])
\* a mutant: the inventory does not learn the names given
NameThemeForgets(j) ==
    /\ job[j].at = "naming" /\ ~Named(j)
    /\ Becomes(j, [job[j] EXCEPT !.named = NamedNext(j)])
    /\ UNCHANGED <<themeFiles, preference, savedTheme, applied, raced>>
NameTheme(j) ==
    /\ job[j].at = "naming" /\ ~Named(j)
    /\ Becomes(j, [job[j] EXCEPT !.named = NamedNext(j), !.used = @ \union {NameOf(j)}])
    /\ UNCHANGED <<themeFiles, preference, savedTheme, applied, raced>>

\* write_theme_set up to the choice of the path
ChoosePath(j) ==
    /\ job[j].at = "naming" /\ Named(j) /\ HasRoom(Head(job[j].queue).stem)
    /\ themeFiles' = EnsureDir(themeFiles)
    /\ Becomes(j, [job[j] EXCEPT !.target = Target(themeFiles', Head(job[j].queue).stem),
                                 !.at = "writing"])
    /\ UNCHANGED <<preference, savedTheme, applied, raced>>

\* write_atomic, which may fail; the bound of the files ends a queue early
Write(j, ok) ==
    /\ \/ job[j].at = "writing"
       \/ job[j].at = "naming" /\ Named(j) /\ ~HasRoom(Head(job[j].queue).stem) /\ ~ok
    /\ themeFiles' = IF ok THEN [themeFiles EXCEPT ![job[j].target] = job[j].named] ELSE themeFiles
    /\ Becomes(j, [job[j] EXCEPT !.queue = Tail(@), !.target = NoFile, !.named = <<>>,
                                 !.at = IF Len(job[j].queue) = 1 THEN "done" ELSE "importing"])
    /\ UNCHANGED <<preference, savedTheme, applied, raced>>

\* finish_theme_import
Finish(j) ==
    /\ job[j].at = "done"
    /\ Becomes(j, Over)
    /\ UNCHANGED <<themeFiles, preference, savedTheme, applied, raced>>

\* restore_curated_theme_files, open_themes_folder
RestoreCurated ==
    /\ themeFiles' = EnsureDir(themeFiles)
    /\ UNCHANGED <<job, preference, savedTheme, applied, raced>>

\* the user removes a file of the directory
Delete(f) ==
    /\ themeFiles[f] # <<>>
    /\ themeFiles' = [themeFiles EXCEPT ![f] = <<>>]
    /\ UNCHANGED <<job, preference, savedTheme, applied, raced>>

(***************************************************************************)
(* The preference                                                          *)
(***************************************************************************)
\* apply_theme_prefs and the save that follows it
Apply(pref) ==
    \E e \in Resolve(themeFiles, pref) :
        /\ applied' = e
        /\ preference' = [key |-> EntryKey(e), name |-> e.name]
        /\ savedTheme' = preference'

\* set_theme_palette_pref
Choose(e) ==
    /\ EntryKey(e) # preference.key
    /\ Apply([key |-> EntryKey(e), name |-> NoName])
    /\ UNCHANGED <<themeFiles, job, raced>>

\* reset_theme_prefs
Reset ==
    /\ Apply([key |-> NoKey, name |-> NoName])
    /\ UNCHANGED <<themeFiles, job, raced>>

\* the program ends, its jobs with it, and starts again: run, restore_prefs
Restart ==
    /\ themeFiles' = EnsureDir(themeFiles)
    /\ job' = [j \in ThemeJobs |-> IF job[j] = Idle THEN Idle ELSE Over]
    /\ \E e \in Resolve(themeFiles', savedTheme) :
          /\ applied' = e
          /\ preference' = [key |-> EntryKey(e), name |-> e.name]
          /\ savedTheme' = preference'
    /\ UNCHANGED raced

Init ==
    /\ themeFiles = [f \in FileNames |-> <<>>]
    /\ job = [j \in ThemeJobs |-> Idle]
    /\ preference = [key |-> EntryKey(DefaultEntry), name |-> DefaultEntry.name]
    /\ savedTheme = preference
    /\ applied = DefaultEntry
    /\ raced = FALSE

Queues == {<<s>> : s \in Sources} \union {<<s, t>> : s \in Sources, t \in Sources}
Next ==
    \/ \E j \in ThemeJobs :
         \/ ClickImport(j) \/ Cancel(j) \/ ClickTemplate(j) \/ Unreadable(j) \/ NameFile(j)
         \/ NameTheme(j) \/ ChoosePath(j) \/ Finish(j)
         \/ \E q \in Queues : Pick(j, q)
         \/ \E ok \in BOOLEAN : Write(j, ok)
    \/ RestoreCurated \/ Reset \/ Restart
    \/ \E f \in FileNames : Delete(f)
    \/ \E e \in Available(themeFiles) : Choose(e)

Spec == Init /\ [][Next]_vars

----------------------------------------------------------------------------
(***************************************************************************)
(* Properties                                                              *)
(***************************************************************************)
TypeOK ==
    /\ \A f \in FileNames : \A i \in DOMAIN themeFiles[f] : themeFiles[f][i].mode \in {"Light", "Dark"}
    /\ \A j \in ThemeJobs :
         /\ job[j].at \in {"idle", "over", "dialog", "importing", "naming", "writing", "done"}
         /\ job[j].at = "writing" => job[j].target \in FileNames
    /\ applied.collection \in {"builtin", "curated", "custom"}
    /\ preference.name = applied.name
    /\ raced \in BOOLEAN

Entries(files) == Available(files) \union Custom(files, "Dark")
(* No two themes of the catalogue have one name, whatever names the        *)
(* imported files give theirs, as long as no jobs overlapped.              *)
NamesDistinct ==
    raced \/ /\ \A e, g \in Entries(themeFiles) : e.name = g.name => e = g
             /\ \A f \in FileNames : \A i, k \in DOMAIN themeFiles[f] :
                  themeFiles[f][i].name = themeFiles[f][k].name => i = k

(* A custom file keeps its themes until the user removes it: no import     *)
(* replaces an earlier one, unless two jobs overlapped, and                *)
(* except a file with the name of the old curated set.                     *)
FilesKept ==
    \A f \in FileNames :
      themeFiles[f] # <<>> /\ themeFiles'[f] # themeFiles[f] =>
         Delete(f) \/ f.stem = Legacy \/ raced

\* the key forgets letters: of one file, names that differ in these only
Alike(files, e) ==
    {g \in Available(files) : /\ g.collection = e.collection /\ g.file = e.file
                              /\ SanitizedName(g.name) = SanitizedName(e.name)}
(* A choice and a start lead to the palette that was asked for, of the     *)
(* file it was chosen from, although another file or the bundled set has   *)
(* one of its name: a choice to the one clicked, a start to the one in use *)
(* before, as long as the file holds it.  The key decides, so of one file  *)
(* it may be another palette whose name sanitize_key turns into the same.  *)
PreferenceKept ==
    /\ UNCHANGED <<themeFiles, job>> =>
          \A e \in Available(themeFiles) : Choose(e) => applied' \in Alike(themeFiles, e)
    /\ Restart /\ applied \in Available(themeFiles') => applied' \in Alike(themeFiles', applied)
=============================================================================
