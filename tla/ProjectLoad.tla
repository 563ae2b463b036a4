---------------------------- MODULE ProjectLoad ----------------------------
(***************************************************************************)
(* From moonswift.toml to the navigator: the project file is read by       *)
(* reload Tasks, its sources by the Tasks of SourceStore.swift, their      *)
(* highlighting by the serial queue of Highlighter.swift; the picker and   *)
(* the init form write it (AppDriver.swift, ProjectStore.swift), and every *)
(* result comes back through the channel to the reducer (Reducer.swift).   *)
(*                                                                         *)
(* A project file is the set of sources it lists; a source is a whole file *)
(* or one designated field of it.  Texts are versions, 0 for a source that *)
(* could not be loaded.  A turn of the UI thread (an event, its reduction  *)
(* and the effects) is one action; keys are pressed between turns.         *)
(***************************************************************************)
EXTENDS Naturals, Sequences, SequencesExt

CONSTANTS Path,         \* the files of the project directory
          Field,        \* the fields that can be designated in a file
          Whole,        \* stands for the file as a whole
          Projects,     \* the contents moonswift.toml can be given by hand
          Fails,        \* the sources that are not in a text: <<source, text>>
          NoPicker,     \* AppState.pickerState == nil
          MaxMoves      \* bound on keys, `:w`s and edits by others

ASSUME ProjectLoadAssumption ==
  /\ IsFiniteSet(Path) /\ IsFiniteSet(Field) /\ Whole \notin Field
  /\ {"loading", "error"} \cap Path = {}
  /\ \A lists \in Projects : lists \subseteq Path \X (Field \cup {Whole})
  /\ MaxMoves \in Nat

Id == Path \X (Field \cup {Whole})
Text == 0..(MaxMoves + 1)

VARIABLES
  disk,       \* the texts of the files; 0: missing or unreadable
  toml,       \* moonswift.toml on disk
  launch,     \* AppState.launch
  project,    \* AppState.project
  sources,    \* AppState.sources (its domain is navigatorOrder)
  spans,      \* AppState.highlight: the text the spans were made from
  focus,      \* AppState.focus: "pane", "picker" or "form"
  picker,     \* AppState.pickerState
  form,       \* AppState.initFormState # nil
  loads,      \* the running Tasks of SourceStore
  jobs,       \* the other Tasks: reload, save, picker tree, init form
  parses,     \* the queue of the highlighter
  channel,    \* the event channel
  moves       \* number of moves so far

ui == <<launch, project, sources, spans, focus, picker, form>>
vars == <<disk, toml, ui, loads, jobs, parses, channel, moves>>

(* What ProjectStore.load makes of the file, and what AppState.project is. *)
File(state, lists) == [state |-> state, lists |-> lists]
Unreadable  == {File("malformed", {}), File("unsupported", {})}
ProjectFile == {File("loaded", l) : l \in SUBSET Id} \cup Unreadable
NoProject   == File("none", {})

Entry(lists, p) == {id \in lists : id[1] = p}
Listed(lists)   == {id[1] : id \in lists}
Marks(lists, p) == {id[2] : id \in Entry(lists, p)} \ {Whole}

Picker == [id : Id, marks : SUBSET Field, before : SUBSET Field,
           tree : {"loading", "error"} \cup Path, asking : BOOLEAN]
(* A Task of a batch: whether activeTasks has its handle, and what it is   *)
(* about to report, nothing while it has not read the file.                *)
Load == [batch : Nat \ {0}, path : Path, entry : SUBSET Id, held : BOOLEAN, out : Seq(Id \X Text)]
Job == [kind : {"reload"}, n : Nat, pc : {"read", "post"}, got : ProjectFile \cup {NoProject}]
       \cup [kind : {"save", "form"}, n : Nat, pc : {"read", "write", "saved", "failed"}, lists : SUBSET Id]
       \cup [kind : {"tree"}, n : Nat, id : Id]
Event == [type : {"appStarted", "designationsSaved", "saveFailed"}]
         \cup [type : {"source", "highlightReady"}, id : Id, text : Text]
         \cup [type : {"project"}, got : ProjectFile]
         \cup [type : {"treeReady"}, id : Id, tree : {"error"} \cup Path]
         \cup [type : {"writeBackSucceeded"}, id : Id]
         \cup [type : {"projectFileWritten"}, ok : BOOLEAN]

(* Every state component has its type.                                     *)
TypeOK ==
  /\ disk \in [Path -> Text] /\ toml \in ProjectFile \cup {NoProject}
  /\ launch \in {"project", "quickFile", "empty"}
  /\ project \in ProjectFile \cup {NoProject}
  /\ \A map \in {sources, spans} : DOMAIN map \subseteq Id /\ \A id \in DOMAIN map : map[id] \in Text
  /\ focus \in {"pane", "picker", "form"}
  /\ picker = NoPicker \/ picker \in Picker
  /\ form \in BOOLEAN
  /\ \A t \in loads : t \in Load
  /\ \A j \in jobs : j \in Job
  /\ parses \in Seq(Id \X Text) /\ channel \in Seq(Event)
  /\ moves \in 0..MaxMoves

(* Main.swift reads the project file before the terminal is opened; a      *)
(* directory without one gives the empty state, a .lua file quick mode.    *)
Init ==
  /\ disk = [p \in Path |-> 1]
  /\ toml \in {File("loaded", l) : l \in Projects} \cup Unreadable \cup {NoProject}
  /\ launch \in IF toml = NoProject THEN {"empty", "quickFile"} ELSE {"project", "quickFile"}
  /\ project = IF launch = "project" THEN toml ELSE NoProject
  /\ sources = <<>> /\ spans = <<>>
  /\ focus = "pane" /\ picker = NoPicker /\ form = FALSE
  /\ loads = {} /\ jobs = {} /\ parses = <<>>
  /\ channel = <<[type |-> "appStarted"]>>
  /\ moves = 0

-----------------------------------------------------------------------------
(* Helpers of the driver                                                   *)

Post(event) == channel' = Append(channel, event)
With(map, id, v) == [k \in DOMAIN map \cup {id} |-> IF k = id THEN v ELSE map[k]]

Fresh(used) == CHOOSE n \in 1..(Cardinality(used) + 1) : n \notin used

(* SourceStore.loadAll: a Task per entry.  The table of handles is         *)
(* replaced; what it held goes on running.                                 *)
LoadAll(lists) ==
  LET batch == Fresh({t.batch : t \in loads}) IN
    loads' = {[t EXCEPT !.held = FALSE] : t \in loads} \cup
             {[batch |-> batch, path |-> p, entry |-> Entry(lists, p), held |-> TRUE, out |-> <<>>] :
                p \in Listed(lists)}

(* executeLoadSources and executeLoadSource; both need a loaded project.   *)
ExecuteLoadSources(proj) ==
  IF launch # "empty" /\ proj.state = "loaded" THEN LoadAll(proj.lists) ELSE UNCHANGED loads
ExecuteLoadSource(id) ==
  IF launch # "empty" /\ project.state = "loaded" /\ id[1] \in Listed(project.lists)
  THEN LoadAll(Entry(project.lists, id[1])) ELSE UNCHANGED loads

(* SourceStore.cancelAll: a Task that finds itself cancelled reports       *)
(* nothing; one that has looked for the last time does.                    *)
CancelAll ==
  loads' = {t \in loads : t.held => t.out # <<>>}

Number     == Fresh({j.n : j \in jobs})
Start(job) == jobs' = jobs \cup {job}

(* executeLoadProject, executeReloadProject: cancel, then read in a Task.  *)
ExecuteReload ==
  CancelAll /\ Start([n |-> Number, kind |-> "reload", pc |-> "read", got |-> NoProject])

(* applyDesignations: the fields of the entry are replaced.                *)
Applied(marks, p, lists) ==
  (lists \ Entry(lists, p)) \cup
    (IF p \notin Listed(lists) THEN {}
     ELSE IF marks = {} THEN {<<p, Whole>>} ELSE {p} \X marks)

-----------------------------------------------------------------------------
(* Turns of the UI thread: the event at the head of the channel            *)

Receives(type) == channel # <<>> /\ Head(channel).type = type
Handled == channel' = Tail(channel)

OnAppStarted ==
  /\ Receives("appStarted") /\ Handled
  /\ ExecuteLoadSources(project)
  /\ UNCHANGED <<disk, toml, ui, jobs, parses, moves>>

(* .sourceLoaded asks for the highlighting of what was loaded,             *)
(* .sourceFailed does not.                                                 *)
OnSource ==
  /\ Receives("source") /\ Handled
  /\ LET e == Head(channel) IN
       /\ sources' = With(sources, e.id, e.text)
       /\ parses' = IF e.text = 0 THEN parses ELSE Append(parses, <<e.id, e.text>>)
  /\ UNCHANGED <<disk, toml, launch, project, spans, focus, picker, form, loads, jobs, moves>>

OnHighlightReady ==
  /\ Receives("highlightReady") /\ Handled
  /\ spans' = With(spans, Head(channel).id, Head(channel).text)
  /\ UNCHANGED <<disk, toml, launch, project, sources, focus, picker, form, loads, jobs, parses, moves>>

(* .projectLoaded forgets the sources of the project before and loads its  *)
(* own; without a usable project the sources stay.                         *)
OnProjectLoaded ==
  /\ Receives("project") /\ Head(channel).got.state = "loaded" /\ Handled
  /\ project' = Head(channel).got
  /\ sources' = <<>>
  /\ ExecuteLoadSources(Head(channel).got)
  /\ UNCHANGED <<disk, toml, launch, spans, focus, picker, form, jobs, parses, moves>>

(* Mutant: the last good project stays.                                    *)
OnProjectUnusable_KeepsProject ==
  /\ Receives("project") /\ Head(channel).got.state # "loaded" /\ Handled
  /\ project' = IF project.state = "loaded" THEN project ELSE Head(channel).got
  /\ UNCHANGED <<disk, toml, launch, sources, spans, focus, picker, form, loads, jobs, parses, moves>>

OnProjectUnusable ==
  /\ Receives("project") /\ Head(channel).got.state # "loaded" /\ Handled
  /\ project' = Head(channel).got
  /\ UNCHANGED <<disk, toml, launch, sources, spans, focus, picker, form, loads, jobs, parses, moves>>

(* The picker closes; the sources are those of state.project.              *)
OnDesignationsSaved ==
  /\ Receives("designationsSaved") /\ Handled
  /\ picker' = NoPicker /\ focus' = "pane"
  /\ ExecuteLoadSources(project)
  /\ UNCHANGED <<disk, toml, launch, project, sources, spans, form, jobs, parses, moves>>

(* A failed save is reported as a malformed project.                       *)
OnSaveFailed ==
  /\ Receives("saveFailed") /\ Handled
  /\ project' = File("malformed", {})
  /\ UNCHANGED <<disk, toml, launch, sources, spans, focus, picker, form, loads, jobs, parses, moves>>

(* Mutant: any tree is taken for the picker that is open.                  *)
OnTreeReady_AnyPicker ==
  /\ Receives("treeReady") /\ Handled
  /\ picker' = IF picker # NoPicker THEN [picker EXCEPT !.tree = Head(channel).tree] ELSE picker
  /\ UNCHANGED <<disk, toml, launch, project, sources, spans, focus, form, loads, jobs, parses, moves>>

OnTreeReady ==
  /\ Receives("treeReady") /\ Handled
  /\ LET e == Head(channel) IN
       picker' = IF picker # NoPicker /\ picker.id = e.id THEN [picker EXCEPT !.tree = e.tree]
                 ELSE picker
  /\ UNCHANGED <<disk, toml, launch, project, sources, spans, focus, form, loads, jobs, parses, moves>>

OnWriteBackSucceeded ==
  /\ Receives("writeBackSucceeded") /\ Handled
  /\ ExecuteLoadSource(Head(channel).id)
  /\ UNCHANGED <<disk, toml, ui, jobs, parses, moves>>

(* Ignored when the form was closed meanwhile; a failure leaves it open.   *)
OnProjectFileWritten ==
  /\ Receives("projectFileWritten") /\ Handled
  /\ IF form /\ Head(channel).ok
     THEN /\ form' = FALSE /\ focus' = "pane" /\ launch' = "project"
          /\ ExecuteReload
     ELSE UNCHANGED <<form, focus, launch, loads, jobs>>
  /\ UNCHANGED <<disk, toml, project, sources, spans, picker, parses, moves>>

-----------------------------------------------------------------------------
(* Keys                                                                    *)

Move == moves < MaxMoves /\ moves' = moves + 1

(* <C-r>; without a directory it does nothing.                             *)
PressReload ==
  /\ Move /\ focus = "pane" /\ launch # "empty"
  /\ ExecuteReload
  /\ UNCHANGED <<disk, toml, ui, parses, channel>>

(* Enter in the navigator: highlighting is asked for if there is none yet. *)
PressSelect(id) ==
  /\ Move /\ focus = "pane" /\ id \in DOMAIN sources
  /\ sources[id] # 0 /\ id \notin DOMAIN spans
  /\ parses' = Append(parses, <<id, sources[id]>>)
  /\ UNCHANGED <<disk, toml, ui, loads, jobs, channel>>

(* `m` in the navigator: openPickerOrTransient on a structured file        *)
PressPicker(id) ==
  /\ Move /\ focus = "pane" /\ id \in DOMAIN sources /\ launch = "project"
  /\ LET marks == Marks(project.lists, id[1]) IN
       picker' = [id |-> id, marks |-> marks, before |-> marks, tree |-> "loading", asking |-> FALSE]
  /\ focus' = "picker"
  /\ Start([n |-> Number, kind |-> "tree", id |-> id])
  /\ UNCHANGED <<disk, toml, launch, project, sources, spans, form, loads, parses, channel>>

(* The picker takes keys other than Esc only with a tree and no question.  *)
Browsing == focus = "picker" /\ picker # NoPicker /\ picker.tree \in Path /\ ~picker.asking

PressMark(f) ==
  /\ Browsing
  /\ picker' = [picker EXCEPT !.marks = IF f \in @ THEN @ \ {f} ELSE @ \cup {f}]
  /\ UNCHANGED <<disk, toml, launch, project, sources, spans, focus, form, loads, jobs, parses, channel, moves>>

(* `s`: executeSaveDesignations; without a loaded project it acknowledges  *)
(* at once.                                                                *)
PressSave ==
  /\ Move /\ Browsing
  /\ IF project.state = "loaded"
     THEN /\ Start([n |-> Number, kind |-> "save", pc |-> "read",
                    lists |-> Applied(picker.marks, picker.id[1], project.lists)])
          /\ UNCHANGED channel
     ELSE Post([type |-> "designationsSaved"]) /\ UNCHANGED jobs
  /\ UNCHANGED <<disk, toml, ui, loads, parses>>

(* Esc asks before it throws changed marks away, else it closes.           *)
PressEscape ==
  /\ focus = "picker" /\ picker # NoPicker /\ ~picker.asking
  /\ IF picker.tree \in Path /\ picker.marks # picker.before
     THEN picker' = [picker EXCEPT !.asking = TRUE] /\ UNCHANGED focus
     ELSE picker' = NoPicker /\ focus' = "pane"
  /\ UNCHANGED <<disk, toml, launch, project, sources, spans, form, loads, jobs, parses, channel, moves>>

AnswerDiscard ==
  /\ focus = "picker" /\ picker # NoPicker /\ picker.asking
  /\ \/ picker' = NoPicker /\ focus' = "pane"
     \/ picker' = [picker EXCEPT !.asking = FALSE] /\ UNCHANGED focus
  /\ UNCHANGED <<disk, toml, launch, project, sources, spans, form, loads, jobs, parses, channel, moves>>

(* `i`, Enter and Esc: the init form of the empty state                    *)
OpenForm ==
  /\ focus = "pane" /\ launch = "empty" /\ ~form
  /\ form' = TRUE /\ focus' = "form"
  /\ UNCHANGED <<disk, toml, launch, project, sources, spans, picker, loads, jobs, parses, channel, moves>>

SubmitForm ==
  /\ Move /\ focus = "form"
  /\ \E chosen \in SUBSET Path :
       Start([n |-> Number, kind |-> "form", pc |-> "read", lists |-> chosen \X {Whole}])
  /\ UNCHANGED <<disk, toml, ui, loads, parses, channel>>

CancelForm ==
  /\ focus = "form"
  /\ form' = FALSE /\ focus' = "pane"
  /\ UNCHANGED <<disk, toml, launch, project, sources, spans, picker, loads, jobs, parses, channel, moves>>

-----------------------------------------------------------------------------
(* Tasks                                                                   *)

(* loadLuaFile, loadStructuredFile: the file is read once for all fields   *)
(* of its entry.  A file that is missing or cannot be read is reported as  *)
(* one; a field fails for itself in a text that does not parse or has no   *)
(* such field, or an alias, a value that is no string, one not located.    *)
ReadSource(t) ==
  /\ t.out = <<>>
  /\ LET text  == disk[t.path]
         found == IF text = 0 THEN {<<t.path, Whole>>} ELSE t.entry
         told(id) == <<id, IF <<id, text>> \in Fails THEN 0 ELSE text>>
     IN loads' = (loads \ {t}) \cup {[t EXCEPT !.out = SetToSeq({told(id) : id \in found})]}
  /\ UNCHANGED <<disk, toml, ui, jobs, parses, channel, moves>>

(* One callback for each source; between them nobody asks whether the Task *)
(* was cancelled.                                                          *)
PostSource(t) ==
  /\ t.out # <<>>
  /\ Post([type |-> "source", id |-> Head(t.out)[1], text |-> Head(t.out)[2]])
  /\ loads' = (loads \ {t}) \cup
                (IF Len(t.out) = 1 THEN {} ELSE {[t EXCEPT !.out = Tail(@)]})
  /\ UNCHANGED <<disk, toml, ui, jobs, parses, moves>>

(* Mutant: a concurrent queue; the newest text may be parsed first.        *)
Parse_Concurrent ==
  \E i \in DOMAIN parses :
    /\ parses' = RemoveAt(parses, i)
    /\ Post([type |-> "highlightReady", id |-> parses[i][1], text |-> parses[i][2]])
    /\ UNCHANGED <<disk, toml, ui, loads, jobs, moves>>

(* The highlighter: one text at a time, in order.                          *)
Parse ==
  /\ parses # <<>>
  /\ parses' = Tail(parses)
  /\ Post([type |-> "highlightReady", id |-> Head(parses)[1], text |-> Head(parses)[2]])
  /\ UNCHANGED <<disk, toml, ui, loads, jobs, moves>>

Step(j, new) == jobs' = (jobs \ {j}) \cup new

(* A reload reads the file and posts what it found.                        *)
ReadProject(j) ==
  /\ j.kind = "reload" /\ j.pc = "read"
  /\ Step(j, {[j EXCEPT !.pc = "post",
                 !.got = IF toml = NoProject THEN File("malformed", {}) ELSE toml]})
  /\ UNCHANGED <<disk, toml, ui, loads, parses, channel, moves>>

PostProject(j) ==
  /\ j.kind = "reload" /\ j.pc = "post"
  /\ Post([type |-> "project", got |-> j.got])
  /\ Step(j, {})
  /\ UNCHANGED <<disk, toml, ui, loads, parses, moves>>

(* ProjectStore.save reads the file for the keys it does not know and then *)
(* replaces it.  A malformed file fails it, unless it could not be read as *)
(* text at all: then there are no keys to keep.                            *)
ReadForSave(j) ==
  /\ j.kind \in {"save", "form"} /\ j.pc = "read"
  /\ \E pc \in IF toml.state = "malformed" THEN {"failed", "write"} ELSE {"write"} :
       Step(j, {[j EXCEPT !.pc = pc]})
  /\ UNCHANGED <<disk, toml, ui, loads, parses, channel, moves>>

WriteProject(j) ==
  /\ j.kind \in {"save", "form"} /\ j.pc = "write"
  /\ \/ toml' = File("loaded", j.lists) /\ Step(j, {[j EXCEPT !.pc = "saved"]})
     \/ UNCHANGED toml /\ Step(j, {[j EXCEPT !.pc = "failed"]})
  /\ UNCHANGED <<disk, ui, loads, parses, channel, moves>>

(* Mutant: a failure is not reported.                                      *)
ReportSave_OnlySuccess(j) ==
  /\ j.kind \in {"save", "form"} /\ j.pc \in {"saved", "failed"}
  /\ IF j.kind = "form" THEN Post([type |-> "projectFileWritten", ok |-> j.pc = "saved"])
     ELSE IF j.pc = "saved" THEN Post([type |-> "designationsSaved"]) ELSE UNCHANGED channel
  /\ Step(j, {})
  /\ UNCHANGED <<disk, toml, ui, loads, parses, moves>>

ReportSave(j) ==
  /\ j.kind \in {"save", "form"} /\ j.pc \in {"saved", "failed"}
  /\ Post(IF j.kind = "form" THEN [type |-> "projectFileWritten", ok |-> j.pc = "saved"]
          ELSE [type |-> IF j.pc = "saved" THEN "designationsSaved" ELSE "saveFailed"])
  /\ Step(j, {})
  /\ UNCHANGED <<disk, toml, ui, loads, parses, moves>>

(* loadPickerTreeValue: the file may be missing or not parse.              *)
ReadTree(j) ==
  /\ j.kind = "tree"
  /\ \E tree \in IF disk[j.id[1]] = 0 THEN {"error"} ELSE {"error", j.id[1]} :
       Post([type |-> "treeReady", id |-> j.id, tree |-> tree])
  /\ Step(j, {})
  /\ UNCHANGED <<disk, toml, ui, loads, parses, moves>>

-----------------------------------------------------------------------------
(* Others: an editor, another program, a write-back that ended well        *)

EditText(p) ==
  /\ Move
  /\ disk' = [disk EXCEPT ![p] = IF @ = 0 THEN moves' + 1 ELSE 0]
  /\ UNCHANGED <<toml, ui, loads, jobs, parses, channel>>

EditProject ==
  /\ Move
  /\ toml' \in ({File("loaded", l) : l \in Projects} \cup Unreadable) \ {toml}
  /\ UNCHANGED <<disk, ui, loads, jobs, parses, channel>>

WriteBack(id) ==
  /\ Move /\ id \in DOMAIN sources /\ sources[id] # 0
  /\ disk' = [disk EXCEPT ![id[1]] = moves' + 1]
  /\ Post([type |-> "writeBackSucceeded", id |-> id])
  /\ UNCHANGED <<toml, ui, loads, jobs, parses>>

-----------------------------------------------------------------------------
Turn == \/ OnAppStarted \/ OnSource \/ OnHighlightReady \/ OnProjectLoaded
        \/ OnProjectUnusable \/ OnDesignationsSaved \/ OnSaveFailed \/ OnTreeReady
        \/ OnWriteBackSucceeded \/ OnProjectFileWritten

Key == \/ PressReload \/ PressSave \/ PressEscape \/ AnswerDiscard
       \/ OpenForm \/ SubmitForm \/ CancelForm
       \/ \E id \in Id : PressSelect(id) \/ PressPicker(id)
       \/ \E f \in Field : PressMark(f)

LoadStep(t) == ReadSource(t) \/ PostSource(t)
JobStep(j)  == \/ ReadProject(j) \/ PostProject(j) \/ ReadForSave(j)
               \/ WriteProject(j) \/ ReportSave(j) \/ ReadTree(j)

Work == Parse \/ (\E t \in loads : LoadStep(t)) \/ (\E j \in jobs : JobStep(j))

Other == EditProject \/ (\E p \in Path : EditText(p)) \/ (\E id \in Id : WriteBack(id))

Next == Turn \/ Key \/ Work \/ Other

(* The UI thread takes events, and Tasks and the highlighter go on.        *)
Fairness == WF_vars(Turn) /\ WF_vars(Work)

Spec == Init /\ [][Next]_vars /\ Fairness

-----------------------------------------------------------------------------
(* Properties                                                              *)

Quiet == channel = <<>> /\ loads = {} /\ jobs = {} /\ parses = <<>>

(* Whenever everything has been delivered, every source that the loaded    *)
(* project lists has got an entry, be it loaded, failed or (for its file)  *)
(* missing, however reloads, saves and write-backs cancelled or replaced   *)
(* each other's batches (SourceStore.swift, executeReloadProject).         *)
LoadedProjectIsComplete ==
  Quiet /\ project.state = "loaded" =>
    \A id \in project.lists : id \in DOMAIN sources \/ <<id[1], Whole>> \in DOMAIN sources

(* Whenever everything has been delivered, the spans that colour a loaded  *)
(* source were made from the text that is shown (Highlighter.swift: one    *)
(* serial queue, whatever order the loads came in).                        *)
SpansFitText ==
  Quiet => \A id \in DOMAIN sources :
             sources[id] # 0 => id \in DOMAIN spans /\ spans[id] = sources[id]

(* The tree in which the user marks fields is that of the file whose entry *)
(* a save will change, whatever pickers were opened and left before        *)
(* (reducePickerTreeReady).                                                *)
PickerShowsItsFile ==
  picker # NoPicker /\ picker.tree \in Path => picker.tree = picker.id[1]

(* A save of the picker's marks comes to an end: the reducer gets to know  *)
(* that it went well, or that the project is malformed                     *)
(* (executeSaveDesignations).                                              *)
Saving == \E j \in jobs : j.kind = "save"
SaveIsAnswered ==
  Saving ~> channel # <<>> /\ Head(channel).type \in {"designationsSaved", "saveFailed"}

-----------------------------------------------------------------------------
(* What the documents say and the code does not do                         *)

(* Reducer.swift:114: "reload sources so the navigator reflects the newly  *)
(* saved designations".  state.project is still the one before the save.   *)
SavedDesignationsAreLoaded ==
  [][OnDesignationsSaved /\ toml.state = "loaded" => project'.lists = toml.lists]_vars

(* docs/user/cli.md:20: in quick-file mode "the TUI loads that single      *)
(* file".  No project is loaded, so nothing is.                            *)
QuickFileIsLoaded == Quiet /\ launch = "quickFile" => sources # <<>>

(* REQUIREMENTS.md:102: with an unsupported Lua version "the project still *)
(* loads", "sources are browsable".                                        *)
UnsupportedIsBrowsable == Quiet /\ project.state = "unsupported" => sources # <<>>

(* SourceStore.swift:109: "the AppDriver ignores stale events for the      *)
(* superseded project".                                                    *)
NoGhosts ==
  Quiet /\ project.state = "loaded" => \A id \in DOMAIN sources : id[1] \in Listed(project.lists)

(* AppDriver.swift:539: "Persist updated field designations and post       *)
(* .designationsSaved": without a loaded project it posts and saves        *)
(* nothing.                                                                *)
SaveWrites == [][PressSave => jobs' # jobs]_vars
=============================================================================
