------------------------------ MODULE WriteBack ------------------------------
(***************************************************************************)
(* One source file between the disk, the workbench that loaded it, the     *)
(* nvim buffer in which its Lua text is edited and whoever else writes it: *)
(* `:w` (AppDriver+NvimEffects.swift), the write-back pipeline             *)
(* (WriteBackCoordinator.swift), the conflict modal (Reducer.swift) and    *)
(* the reload that follows a success (SourceStore.swift).                  *)
(*                                                                         *)
(* Every `:w` starts an unstructured Task and so does every reload.  A     *)
(* write-back reads the file and writes it as two items of a serial I/O    *)
(* queue, with the conflict check between them.  Contents are versions;    *)
(* the hash of a content is the content.                                   *)
(***************************************************************************)
EXTENDS Naturals, Sequences

CONSTANTS Files,       \* the source files, each with one designated field
          MaxVersions, \* bound on the texts typed and the external edits
          MaxWrites,   \* bound on the write-backs
          Structured   \* TRUE: fields of JSON, YAML or TOML files; FALSE: .lua files

ASSUME WriteBackAssumption ==
  /\ MaxVersions \in Nat \ {0} /\ MaxWrites \in Nat /\ Structured \in BOOLEAN

VARIABLES
  disk,      \* each file: the designated field and the rest of it
  loaded,    \* the fragments in AppState.sources: what each file was when read
  selection, \* AppState.selection
  buffer,    \* the text of the nvim buffer; Closed: no nvim; Gone: nvim has ended
  focus,     \* AppState.focus below the modal: the panes or nvim's
  modal,     \* the conflict modal, or NoModal
  writes,    \* the write-backs started so far
  loads,     \* the reloads started so far
  channel,   \* events on their way to the reducer
  version,   \* the newest version in the world (bounded by MaxVersions)
  adopted,   \* history: file contents the workbench has loaded
  external   \* history: file contents made by others

history == <<adopted, external>>
vars == <<disk, loaded, selection, buffer, focus, modal, writes, loads, channel, version, history>>

Version == 0..MaxVersions
Content == [rest : Version, field : Version]
Closed  == MaxVersions + 1   \* no nvim session
Gone    == MaxVersions + 2   \* nvim has ended, the reducer does not know yet
Blank   == 0     \* the text of an empty buffer
Origin  == 1     \* the first content of every file
NoModal == [of |-> 0, file |-> "none"]

(* A write-back: what Effect.writeBack carries and how far its Task is.    *)
Write == [file : Files, text : Version \cup {Closed}, base : Content, force : BOOLEAN,
          pc : {"fetch", "orphaned", "hung", "read", "write", "saved", "refused"},
          read : Content]
Load  == [file : Files, pc : {"start", "post", "done"}, got : Content]
Modal == [of : 1..MaxWrites, file : Files]   \* the write-back; the fragment's file
Event == [kind : {"written", "conflict", "loaded"}, of : Nat]

TypeOK ==
  /\ disk \in [Files -> Content] /\ loaded \in [Files -> Content]
  /\ selection \in Files
  /\ buffer \in Version \cup {Closed, Gone}
  /\ focus \in {"panes", "nvim"}
  /\ modal \in Modal \cup {NoModal}
  /\ writes \in Seq(Write) /\ loads \in Seq(Load)
  /\ channel \in Seq(Event)
  /\ version \in Version
  /\ adopted \subseteq Files \X Content /\ external \subseteq Files \X Content

First == [rest |-> Origin, field |-> Origin]

Init ==
  /\ disk = [f \in Files |-> First] /\ loaded = disk
  /\ selection \in Files
  /\ buffer = Closed /\ focus = "panes" /\ modal = NoModal
  /\ writes = <<>> /\ loads = <<>> /\ channel = <<>>
  /\ version = Origin
  /\ adopted = Files \X {First} /\ external = {}

Ev(k, n) == [kind |-> k, of |-> n]
Post(e)  == channel' = Append(channel, e)

-----------------------------------------------------------------------------
(* The user, nvim and the others.                                          *)

Select ==
  /\ focus = "panes" /\ modal = NoModal
  /\ selection' \in Files \ {selection}
  /\ UNCHANGED <<history, disk, loaded, buffer, focus, modal, writes, loads, channel, version>>

(* <C-e>: a structured fragment is injected line by line; a whole .lua     *)
(* file only gives the buffer its name (EditorBridge.spawn step 7).  Here  *)
(* sessions follow one another; EditSession has those that overlap.        *)
OpenBuffer ==
  /\ buffer = Closed /\ focus = "panes" /\ modal = NoModal
  /\ focus' = "nvim"
  /\ buffer' = IF Structured THEN loaded[selection].field ELSE Blank
  /\ UNCHANGED <<history, disk, loaded, selection, modal, writes, loads, channel, version>>

(* nvim is gone, by itself or after a detach: it no longer answers the     *)
(* fetches under way.  The report of its end comes later.                  *)
NvimEnds ==
  /\ buffer \in Version /\ buffer' = Gone
  /\ writes' = [w \in DOMAIN writes |->
                  IF writes[w].pc = "fetch" THEN [writes[w] EXCEPT !.pc = "orphaned"]
                  ELSE writes[w]]
  /\ UNCHANGED <<history, disk, loaded, selection, focus, modal, loads, channel, version>>

(* Until that report is reduced the user's keys go to the nvim that is     *)
(* gone.  Such a write fails and closes the send side of the client, and   *)
(* readerDidObserveEOF then returns early: nobody resumes the fetch.       *)
KeyWriteFails ==
  /\ buffer = Gone /\ focus = "nvim" /\ modal = NoModal
  /\ \E w \in DOMAIN writes : writes[w].pc = "orphaned"
  /\ writes' = [w \in DOMAIN writes |->
                  IF writes[w].pc = "orphaned" THEN [writes[w] EXCEPT !.pc = "hung"]
                  ELSE writes[w]]
  /\ UNCHANGED <<history, disk, loaded, selection, buffer, focus, modal, loads, channel, version>>

Type ==
  /\ buffer \in Version /\ focus = "nvim" /\ modal = NoModal
  /\ version < MaxVersions /\ version' = version + 1
  /\ buffer' = version'
  /\ UNCHANGED <<history, disk, loaded, selection, focus, modal, writes, loads, channel>>

(* Another program rewrites the field or the rest of a file.               *)
ExternalEdit(f) ==
  /\ version < MaxVersions /\ version' = version + 1
  /\ \/ disk' = [disk EXCEPT ![f].field = version']
     \/ Structured /\ disk' = [disk EXCEPT ![f].rest = version']
  /\ external' = external \cup {<<f, disk'[f]>>}
  /\ UNCHANGED <<loaded, selection, buffer, focus, modal, writes, loads, channel, adopted>>

StartWrite(f, pc, text, force) ==
  /\ Len(writes) < MaxWrites
  /\ writes' = Append(writes, [file |-> f, text |-> text, base |-> loaded[f], force |-> force,
                               pc |-> pc, read |-> loaded[f]])

(* `:w`: Effect.writeBack with the fragment the workbench holds now.  The  *)
(* text is fetched from nvim by the Task, later.  (executeWriteBack also   *)
(* returns without a project directory and reports success without a lint  *)
(* service; Main always passes one, and a fragment is never loaded without *)
(* the other.)                                                             *)
WriteRequested ==
  /\ buffer \in Version /\ focus = "nvim" /\ modal = NoModal
  /\ StartWrite(selection, "fetch", Closed, FALSE)
  /\ UNCHANGED <<history, disk, loaded, selection, buffer, focus, modal, loads, channel, version>>

StartLoad(f) == loads' = Append(loads, [file |-> f, pc |-> "start", got |-> loaded[f]])

(* [r]: the edit is given up and the selected source is loaded again; nvim *)
(* is detached in the background.                                          *)
ModalReload ==
  /\ modal # NoModal /\ modal' = NoModal /\ focus' = "panes"
  /\ StartLoad(selection)
  /\ UNCHANGED <<history, disk, loaded, selection, buffer, writes, channel, version>>

(* [o]: the same text again, without the conflict check, into the fragment *)
(* the modal holds.                                                        *)
ModalOverwrite ==
  /\ modal # NoModal /\ modal' = NoModal /\ focus' = "nvim"
  /\ StartWrite(modal.file, "read", writes[modal.of].text, TRUE)
  /\ UNCHANGED <<history, disk, loaded, selection, buffer, loads, channel, version>>

ModalCancel ==
  /\ modal # NoModal /\ modal' = NoModal /\ focus' = "nvim"
  /\ UNCHANGED <<history, disk, loaded, selection, buffer, writes, loads, channel, version>>

-----------------------------------------------------------------------------
(* The write-back Task.                                                    *)

(* The syntax check, the validation, the splice or the I/O may fail: that  *)
(* is only a notice on the status bar.                                     *)
Fail(w) ==
  /\ writes[w].pc \in {"fetch", "read", "write"}
  /\ writes' = [writes EXCEPT ![w].pc = "refused"]
  /\ UNCHANGED <<history, disk, loaded, selection, buffer, focus, modal, loads, channel, version>>

(* Mutant: a fetch that fails counts as an empty text.                     *)
FetchRefused_WritesNothing(w) ==
  /\ writes[w].pc = "orphaned"
  /\ writes' = [writes EXCEPT ![w].pc = "read"]
  /\ UNCHANGED <<history, disk, loaded, selection, buffer, focus, modal, loads, channel, version>>

(* Mutant: the end of the stream resumes nobody.                           *)
FetchRefused_LeavesPending(w) ==
  /\ writes[w].pc = "orphaned"
  /\ UNCHANGED vars

(* readerDidObserveEOF resumes the suspended fetch with connectionClosed.  *)
FetchRefused(w) ==
  /\ writes[w].pc = "orphaned"
  /\ writes' = [writes EXCEPT ![w].pc = "refused"]
  /\ UNCHANGED <<history, disk, loaded, selection, buffer, focus, modal, loads, channel, version>>

FetchText(w) ==
  /\ writes[w].pc = "fetch" /\ buffer \in Version
  /\ writes' = [writes EXCEPT ![w].pc = "read", ![w].text = buffer]
  /\ UNCHANGED <<history, disk, loaded, selection, buffer, focus, modal, loads, channel, version>>

(* Mutant: only the field is compared, not the bytes of the file.          *)
HasConflict_FieldOnly(current, expected) == current.field # expected.field

HasConflict(current, expected) == current # expected

(* Steps 3 to 5: the file is read on the I/O queue, then checked.          *)
ReadAndCheck(w) ==
  LET now == disk[writes[w].file]
      conflict == ~writes[w].force /\ HasConflict(now, writes[w].base)
  IN /\ writes[w].pc = "read"
     /\ writes' = [writes EXCEPT ![w].read = now,
                                 ![w].pc = IF conflict THEN "refused" ELSE "write"]
     /\ IF conflict THEN Post(Ev("conflict", w)) ELSE UNCHANGED channel
     /\ UNCHANGED <<history, disk, loaded, selection, buffer, focus, modal, loads, version>>

(* Step 6: the span is located again in the bytes that were read.  That it *)
(* is found there, and only there, is taken for granted.                   *)
Spliced(w) == [writes[w].read EXCEPT !.field = writes[w].text]

(* Steps 7 and 8: one atomic write; success is reported.                   *)
WriteFile(w) ==
  /\ writes[w].pc = "write"
  /\ disk' = [disk EXCEPT ![writes[w].file] = Spliced(w)]
  /\ writes' = [writes EXCEPT ![w].pc = "saved"]
  /\ Post(Ev("written", w))
  /\ UNCHANGED <<history, loaded, selection, buffer, focus, modal, loads, version>>

-----------------------------------------------------------------------------
(* The reload Task and the reducer.                                        *)

ReadSource(l) ==
  /\ loads[l].pc = "start"
  /\ loads' = [loads EXCEPT ![l].pc = "post", ![l].got = disk[loads[l].file]]
  /\ UNCHANGED <<history, disk, loaded, selection, buffer, focus, modal, writes, channel, version>>

PostSource(l) ==
  /\ loads[l].pc = "post"
  /\ loads' = [loads EXCEPT ![l].pc = "done"]
  /\ Post(Ev("loaded", l))
  /\ UNCHANGED <<history, disk, loaded, selection, buffer, focus, modal, writes, version>>

Reduce(kind) ==
  /\ channel # <<>> /\ Head(channel).kind = kind
  /\ channel' = Tail(channel)

(* Mutant: the workbench does not look at the file again.                  *)
OnWritten_NoReload ==
  /\ Reduce("written")
  /\ UNCHANGED <<history, disk, loaded, selection, buffer, focus, modal, writes, loads, version>>

OnWritten ==
  /\ Reduce("written")
  /\ StartLoad(writes[Head(channel).of].file)
  /\ UNCHANGED <<history, disk, loaded, selection, buffer, focus, modal, writes, version>>

(* The modal takes the text from the write-back that found the conflict,   *)
(* the fragment from what is selected now.                                 *)
OnConflict ==
  /\ Reduce("conflict")
  /\ modal' = [of |-> Head(channel).of, file |-> selection]
  /\ UNCHANGED <<history, disk, loaded, selection, buffer, focus, writes, loads, version>>

OnSourceLoaded ==
  /\ Reduce("loaded")
  /\ LET l == loads[Head(channel).of]
     IN /\ loaded' = [loaded EXCEPT ![l.file] = l.got]
        /\ adopted' = adopted \cup {<<l.file, l.got>>}
  /\ UNCHANGED <<disk, selection, buffer, focus, modal, writes, loads, version, external>>

(* The end of nvim brings the focus back to the code pane, and with it the *)
(* end of a modal.                                                         *)
OnNvimExited ==
  /\ buffer = Gone /\ buffer' = Closed
  /\ focus' = "panes" /\ modal' = NoModal
  /\ UNCHANGED <<history, disk, loaded, selection, writes, loads, channel, version>>

Pipeline(w) == FetchRefused(w) \/ ReadAndCheck(w) \/ WriteFile(w)
Reload(l)   == ReadSource(l) \/ PostSource(l)
Reducer     == OnWritten \/ OnConflict \/ OnSourceLoaded \/ OnNvimExited

Next ==
  \/ Select \/ OpenBuffer \/ NvimEnds \/ KeyWriteFails \/ Type \/ WriteRequested
  \/ \E f \in Files : ExternalEdit(f)
  \/ ModalReload \/ ModalOverwrite \/ ModalCancel
  \/ \E w \in DOMAIN writes : Fail(w) \/ FetchText(w) \/ Pipeline(w)
  \/ \E l \in DOMAIN loads : Reload(l)
  \/ Reducer

Spec == Init /\ [][Next]_vars

(* The Task of a write-back and the I/O queue run on, and the client sees  *)
(* the end of a dead nvim's output.  Nothing is assumed of an nvim that    *)
(* lives (nvim_buf_get_lines is awaited without a timeout), and no more is *)
(* needed for WriteIsAnswered.                                             *)
Fairness == \A w \in 1..MaxWrites : WF_vars(w \in DOMAIN writes /\ Pipeline(w))

LiveSpec == Spec /\ Fairness

-----------------------------------------------------------------------------
(* Properties.                                                             *)

Saves(w) == writes[w].pc = "write" /\ writes'[w].pc = "saved"

(* An edit by another program that the workbench has never loaded is not   *)
(* replaced by a write-back, unless the user chose [o]verwrite or the edit *)
(* was made after that write-back had read the file (steps 4 and 5).       *)
ExternalEditSurvives == [][\A w \in DOMAIN writes :
  LET f == writes[w].file
  IN Saves(w) /\ <<f, disk[f]>> \in external \ adopted
       => writes[w].force \/ writes[w].read # disk[f]]_vars

(* A write-back whose nvim is gone before its text was read writes nothing *)
(* (CR-002: zero bytes over the file is the worst silent data loss).       *)
OnlyFetchedTextIsWritten == \A w \in DOMAIN writes :
  writes[w].pc \in {"read", "write", "saved"} => writes[w].text # Closed

Quiet ==
  /\ channel = <<>>
  /\ \A w \in DOMAIN writes : writes[w].pc \in {"saved", "refused", "hung"}
  /\ \A l \in DOMAIN loads : loads[l].pc = "done"

(* When nothing is under way, every file is as the workbench once loaded   *)
(* it, or as another program left it: no write-back goes unobserved.       *)
SavedIsLoaded == Quiet => \A f \in Files : <<f, disk[f]>> \in adopted \cup external

At(w, pcs)  == w \in DOMAIN writes /\ writes[w].pc \in pcs
Answered(w) == At(w, {"saved", "refused"})
Silent(w)   == At(w, {"fetch"})   \* nvim lives and does not hand out the text

(* Every `:w` is saved or refused for a reason, even when nvim is gone     *)
(* before its text could be read, with two exceptions: an nvim that lives  *)
(* and never answers, and a key that was sent to the dead nvim before the  *)
(* end of its output was noticed (NvimRPCClient.swift:317).                *)
WriteIsAnswered == \A w \in 1..MaxWrites :
  w \in DOMAIN writes ~> Answered(w) \/ At(w, {"hung"}) \/ []Silent(w)

-----------------------------------------------------------------------------
(* What the documentation says and the code does not do.                   *)

(* "The file was modified externally between load and write-back": the     *)
(* modal is about another program's edit (WriteBackCoordinator.swift).     *)
ConflictIsExternal == modal # NoModal =>
  <<writes[modal.of].file, writes[modal.of].read>> \in external

(* [o] writes the edited text into its own file: the modal's fragment is   *)
(* the one of the write-back that met the conflict.                        *)
ModalKeepsItsFile == modal # NoModal => modal.file = writes[modal.of].file

(* "surfaces as NvimRPCError.connectionClosed at the call site rather than *)
(* silently hanging" (NvimRPCClient.swift:313): not after a failed write.  *)
DeadFetchIsRefused == \A w \in 1..MaxWrites :
  w \in DOMAIN writes ~> Answered(w) \/ []Silent(w)

(* While the focus is nvim's there is an nvim, or its end is still to be   *)
(* noticed: not after [o] or [c] in a modal that came when nvim was gone   *)
(* already.                                                                *)
NvimPaneHasNvim == focus = "nvim" /\ modal = NoModal => buffer # Closed

(* A file is left with the text of the last `:w` that succeeded.           *)
LastSaveWins == [][\A v, w \in DOMAIN writes :
  /\ v < w /\ Saves(v) /\ writes[w].pc = "saved"
  /\ writes[v].file = writes[w].file /\ ~writes[v].force
  => writes[v].text >= writes[w].text]_vars

(* Once everything is quiet and no other program interferes, the workbench *)
(* shows what is on disk.                                                  *)
ReloadShowsDisk == Quiet /\ external = {} =>
  \A f \in Files : writes # <<>> => loaded[f] = disk[f]

(* A `:w` of a whole .lua file that nobody typed in leaves its text alone: *)
(* nvim has read the file into the buffer.  (No text typed is Blank.)      *)
FileNeverBlanked == \A f \in Files : disk[f].field # Blank
=============================================================================
