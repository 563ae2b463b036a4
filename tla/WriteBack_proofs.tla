--------------------------- MODULE WriteBack_proofs ---------------------------
(***************************************************************************)
(* What a write-back may do to a file, proved for any files, any number of *)
(* overlapping write-backs and reloads and any edits by other programs.    *)
(***************************************************************************)
EXTENDS WriteBack, TLAPS

(* Events and the modal name write-backs and reloads that exist; those of  *)
(* a conflict have their text.                                             *)
EventsAreReal ==
  /\ \A i \in DOMAIN channel :
       LET e == channel[i] IN
       /\ e.kind = "loaded" => e.of \in DOMAIN loads
       /\ e.kind \in {"written", "conflict"} => e.of \in DOMAIN writes
       /\ e.kind = "conflict" => writes[e.of].text # Closed
  /\ modal # NoModal => modal.of \in DOMAIN writes /\ writes[modal.of].text # Closed

(* What a fragment was loaded from has been adopted, and a write-back that *)
(* is not forced writes only over what it started from.                    *)
BaseIsAdopted ==
  /\ \A f \in Files : <<f, loaded[f]>> \in adopted
  /\ \A w \in DOMAIN writes :
       /\ <<writes[w].file, writes[w].base>> \in adopted
       /\ writes[w].pc = "write" /\ ~writes[w].force => writes[w].read = writes[w].base

WriteInv ==
  /\ TypeOK /\ Len(writes) <= MaxWrites
  /\ OnlyFetchedTextIsWritten /\ EventsAreReal /\ BaseIsAdopted

(* The types, and what the properties rest on, hold in every state.        *)
THEOREM WriteBackInvariant == Spec => []WriteInv
<1>1. Init => WriteInv
  <2> SUFFICES ASSUME Init PROVE WriteInv
    OBVIOUS
  <2>1. First \in Content /\ Origin \in Version /\ Closed # Origin
    BY WriteBackAssumption DEF First, Content, Version, Origin, Closed, WriteBackAssumption
  <2>2. /\ writes = <<>> /\ loads = <<>> /\ channel = <<>> /\ modal = NoModal
        /\ Len(writes) = 0 /\ MaxWrites \in Nat
        /\ DOMAIN writes = {} /\ DOMAIN channel = {}
    BY WriteBackAssumption DEF Init, WriteBackAssumption
  <2>3. TypeOK
    BY <2>1, <2>2 DEF Init, TypeOK
  <2>4. EventsAreReal /\ OnlyFetchedTextIsWritten
    BY <2>2 DEF EventsAreReal, OnlyFetchedTextIsWritten
  <2>5. BaseIsAdopted
    BY <2>1, <2>2 DEF Init, BaseIsAdopted
  <2> QED
    BY <2>2, <2>3, <2>4, <2>5 DEF WriteInv
(* One more write-back, of a text that is there or still to be fetched.    *)
<1>3. ASSUME WriteInv, NEW f \in Files, NEW pc \in {"fetch", "read"},
             NEW text \in Version \cup {Closed}, NEW force \in BOOLEAN,
             pc = "read" => text # Closed,
             StartWrite(f, pc, text, force)
      PROVE  /\ writes' \in Seq(Write) /\ Len(writes') <= MaxWrites
             /\ DOMAIN writes \subseteq DOMAIN writes'
             /\ \A w \in DOMAIN writes : writes'[w] = writes[w]
             /\ \A w \in DOMAIN writes' \ DOMAIN writes :
                  /\ writes'[w].file = f /\ writes'[w].base = loaded[f]
                  /\ writes'[w].pc = pc /\ writes'[w].text = text
                  /\ writes'[w].read = loaded[f]
  <2> USE <1>3
  <2> DEFINE new == [file |-> f, text |-> text, base |-> loaded[f], force |-> force,
                     pc |-> pc, read |-> loaded[f]]
  <2>1. new \in Write
    BY DEF WriteInv, TypeOK, Write
  <2>2. writes' = Append(writes, new) /\ writes \in Seq(Write) /\ Len(writes) < MaxWrites
    BY DEF StartWrite, WriteInv, TypeOK
  <2>3. /\ writes' \in Seq(Write) /\ Len(writes') = Len(writes) + 1
        /\ \A w \in 1..Len(writes) : writes'[w] = writes[w]
        /\ writes'[Len(writes) + 1] = new
    <3> HIDE DEF new
    <3> QED BY <2>1, <2>2
  <2>4. Len(writes) \in Nat /\ MaxWrites \in Nat
    BY <2>2, WriteBackAssumption DEF WriteBackAssumption
  <2>5. DOMAIN writes = 1..Len(writes) /\ DOMAIN writes' = 1..Len(writes')
    BY <2>2, <2>3
  <2> QED
    BY <2>2, <2>3, <2>4, <2>5
<1>2. ASSUME WriteInv, [Next]_vars PROVE WriteInv'
  <2> USE <1>2
  <2>0. /\ MaxWrites \in Nat /\ MaxVersions \in Nat /\ Closed \notin Version
        /\ writes \in Seq(Write) /\ loads \in Seq(Load) /\ channel \in Seq(Event)
        /\ DOMAIN writes = 1..Len(writes) /\ DOMAIN channel = 1..Len(channel)
        /\ DOMAIN loads = 1..Len(loads)
    BY WriteBackAssumption DEF WriteInv, TypeOK, Version, Closed, WriteBackAssumption
  <2>00. /\ \A w \in DOMAIN writes : writes[w] \in Write
         /\ \A l \in DOMAIN loads : loads[l] \in Load
         /\ \A i \in DOMAIN channel : channel[i] \in Event
    BY <2>0
  <2>1. CASE Select \/ Type
    <3>1. TypeOK'
      BY <2>0, <2>1 DEF WriteInv, TypeOK, Select, Type, history, Version
    <3>2. OnlyFetchedTextIsWritten' /\ EventsAreReal' /\ BaseIsAdopted'
      BY <2>1 DEF WriteInv, Select, Type, history, OnlyFetchedTextIsWritten,
                  EventsAreReal, BaseIsAdopted
    <3> QED
      BY <2>1, <3>1, <3>2 DEF WriteInv, Select, Type
  <2>2. CASE OpenBuffer
    <3>1. buffer' \in Version \cup {Closed, Gone}
      BY <2>0, <2>2 DEF OpenBuffer, WriteInv, TypeOK, Content, Version, Blank
    <3>2. TypeOK'
      BY <2>2, <3>1 DEF WriteInv, TypeOK, OpenBuffer, history
    <3> QED
      BY <2>2, <3>2 DEF WriteInv, OpenBuffer, history, OnlyFetchedTextIsWritten,
                        EventsAreReal, BaseIsAdopted
  <2>3. CASE NvimEnds \/ KeyWriteFails
    <3> DEFINE Moved(w) ==
          IF NvimEnds
          THEN IF writes[w].pc = "fetch" THEN [writes[w] EXCEPT !.pc = "orphaned"] ELSE writes[w]
          ELSE IF writes[w].pc = "orphaned" THEN [writes[w] EXCEPT !.pc = "hung"] ELSE writes[w]
    <3>1. writes' = [w \in DOMAIN writes |-> Moved(w)]
      BY <2>3 DEF NvimEnds, KeyWriteFails
    <3>2. \A w \in DOMAIN writes :
            /\ Moved(w) \in Write
            /\ Moved(w).file = writes[w].file /\ Moved(w).base = writes[w].base
            /\ Moved(w).text = writes[w].text /\ Moved(w).read = writes[w].read
            /\ Moved(w).force = writes[w].force
            /\ Moved(w).pc = writes[w].pc \/ Moved(w).pc \in {"orphaned", "hung"}
      BY <2>00 DEF Write
    <3> HIDE DEF Moved
    <3>3. writes' \in [1..Len(writes) -> Write] /\ Len(writes) \in Nat
      BY <2>0, <3>1, <3>2
    <3>4. /\ writes' \in Seq(Write) /\ Len(writes') = Len(writes)
          /\ DOMAIN writes' = DOMAIN writes
      BY <2>0, <3>3
    <3>5. \A w \in DOMAIN writes' :
            /\ writes'[w].file = writes[w].file /\ writes'[w].base = writes[w].base
            /\ writes'[w].text = writes[w].text /\ writes'[w].read = writes[w].read
            /\ writes'[w].force = writes[w].force
            /\ writes'[w].pc = writes[w].pc \/ writes'[w].pc \in {"orphaned", "hung"}
      BY <3>1, <3>2, <3>4
    <3>6. /\ UNCHANGED <<history, disk, loaded, selection, focus, modal, loads, channel, version>>
          /\ buffer' \in {buffer, Gone}
      BY <2>3 DEF NvimEnds, KeyWriteFails
    <3>7. TypeOK'
      BY <3>4, <3>6 DEF WriteInv, TypeOK, history
    <3>8. OnlyFetchedTextIsWritten' /\ BaseIsAdopted'
      BY <3>4, <3>5, <3>6 DEF WriteInv, OnlyFetchedTextIsWritten, BaseIsAdopted, history
    <3>9. EventsAreReal'
      BY <3>4, <3>5, <3>6 DEF WriteInv, EventsAreReal
    <3> QED
      BY <3>4, <3>6, <3>7, <3>8, <3>9 DEF WriteInv
  <2>11. CASE ModalReload
    <3> DEFINE new == [file |-> selection, pc |-> "start", got |-> loaded[selection]]
    <3>1. new \in Load
      BY DEF WriteInv, TypeOK, Load
    <3>2. loads' = Append(loads, new)
      BY <2>11 DEF ModalReload, StartLoad
    <3> HIDE DEF new
    <3>3. /\ loads' \in Seq(Load) /\ Len(loads') = Len(loads) + 1
          /\ Len(loads) \in Nat /\ DOMAIN loads' = 1..(Len(loads) + 1)
      BY <2>0, <3>1, <3>2
    <3>4. DOMAIN loads \subseteq DOMAIN loads'
      BY <2>0, <3>3
    <3>5. /\ UNCHANGED <<history, disk, loaded, selection, buffer, writes, channel, version>>
          /\ modal' = NoModal /\ focus' = "panes"
      BY <2>11 DEF ModalReload
    <3>6. TypeOK'
      BY <3>3, <3>5 DEF WriteInv, TypeOK, history
    <3>7. EventsAreReal'
      BY <3>4, <3>5 DEF WriteInv, EventsAreReal
    <3> QED
      BY <3>5, <3>6, <3>7 DEF WriteInv, OnlyFetchedTextIsWritten, BaseIsAdopted, history
  <2>4. ASSUME NEW f \in Files, ExternalEdit(f) PROVE WriteInv'
    <3>0. version' \in Version
      BY <2>0, <2>4 DEF WriteInv, TypeOK, ExternalEdit, Version
    <3>1. disk' \in [Files -> Content]
      <4>1. disk \in [Files -> Content]
        BY DEF WriteInv, TypeOK
      <4>2. /\ [disk[f] EXCEPT !.field = version'] \in Content
            /\ [disk[f] EXCEPT !.rest = version'] \in Content
        BY <3>0, <4>1 DEF Content
      <4>3. \/ disk' = [disk EXCEPT ![f] = [disk[f] EXCEPT !.field = version']]
            \/ disk' = [disk EXCEPT ![f] = [disk[f] EXCEPT !.rest = version']]
        BY <2>4 DEF ExternalEdit
      <4> QED BY <4>1, <4>2, <4>3
    <3>2. external' \subseteq Files \X Content
      BY <2>4, <3>1 DEF WriteInv, TypeOK, ExternalEdit
    <3>3. TypeOK'
      BY <2>4, <3>0, <3>1, <3>2 DEF WriteInv, TypeOK, ExternalEdit
    <3> QED
      BY <2>4, <3>3 DEF WriteInv, ExternalEdit, OnlyFetchedTextIsWritten,
                        EventsAreReal, BaseIsAdopted
  <2>5. CASE WriteRequested \/ ModalOverwrite
    <3> DEFINE Kept ==
          /\ writes' \in Seq(Write) /\ Len(writes') <= MaxWrites
          /\ DOMAIN writes \subseteq DOMAIN writes'
          /\ \A w \in DOMAIN writes : writes'[w] = writes[w]
          /\ \A w \in DOMAIN writes' \ DOMAIN writes :
               /\ writes'[w].file \in Files /\ writes'[w].base = loaded[writes'[w].file]
               /\ writes'[w].pc # "write"
               /\ writes'[w].pc # "fetch" => writes'[w].text # Closed
               /\ writes'[w].read = loaded[writes'[w].file]
    <3>1. ASSUME WriteRequested PROVE Kept
      <4>1. selection \in Files /\ StartWrite(selection, "fetch", Closed, FALSE)
        BY <3>1 DEF WriteRequested, WriteInv, TypeOK
      <4>2. /\ writes' \in Seq(Write) /\ Len(writes') <= MaxWrites
            /\ DOMAIN writes \subseteq DOMAIN writes'
            /\ \A w \in DOMAIN writes : writes'[w] = writes[w]
            /\ \A w \in DOMAIN writes' \ DOMAIN writes :
                 /\ writes'[w].file = selection /\ writes'[w].base = loaded[selection]
                 /\ writes'[w].pc = "fetch" /\ writes'[w].text = Closed
                 /\ writes'[w].read = loaded[selection]
        BY <4>1, <1>3
      <4> QED BY <4>1, <4>2
    <3>2. ASSUME ModalOverwrite PROVE Kept
      <4> DEFINE f == modal.file
                 text == writes[modal.of].text
      <4>1. f \in Files /\ modal.of \in DOMAIN writes /\ text # Closed
        BY <3>2 DEF ModalOverwrite, WriteInv, TypeOK, EventsAreReal, Modal
      <4>2. text \in Version \cup {Closed}
        BY <2>00, <4>1 DEF Write
      <4>3. StartWrite(f, "read", text, TRUE)
        BY <3>2 DEF ModalOverwrite
      <4> HIDE DEF f, text
      <4>4. "read" \in {"fetch", "read"} /\ TRUE \in BOOLEAN
        OBVIOUS
      <4>5. /\ writes' \in Seq(Write) /\ Len(writes') <= MaxWrites
            /\ DOMAIN writes \subseteq DOMAIN writes'
            /\ \A w \in DOMAIN writes : writes'[w] = writes[w]
            /\ \A w \in DOMAIN writes' \ DOMAIN writes :
                 /\ writes'[w].file = f /\ writes'[w].base = loaded[f]
                 /\ writes'[w].pc = "read" /\ writes'[w].text = text
                 /\ writes'[w].read = loaded[f]
        BY <4>1, <4>2, <4>3, <4>4, <1>3
      <4> QED BY <4>1, <4>5
    <3>3. Kept
      BY <2>5, <3>1, <3>2
    <3>4. /\ UNCHANGED <<history, disk, loaded, selection, buffer, loads, channel, version>>
          /\ modal' = modal \/ modal' = NoModal
          /\ focus' \in {focus, "nvim"}
      BY <2>5 DEF WriteRequested, ModalOverwrite
    <3>5. TypeOK'
      BY <3>3, <3>4 DEF WriteInv, TypeOK, history
    <3>6. OnlyFetchedTextIsWritten'
      BY <3>3 DEF WriteInv, OnlyFetchedTextIsWritten
    <3>7. BaseIsAdopted'
      BY <3>3, <3>4 DEF WriteInv, BaseIsAdopted, history
    <3>8. EventsAreReal'
      BY <3>3, <3>4 DEF WriteInv, EventsAreReal
    <3> QED
      BY <3>3, <3>4, <3>5, <3>6, <3>7, <3>8 DEF WriteInv
  <2>6. CASE ModalCancel
    BY <2>6 DEF WriteInv, TypeOK, ModalCancel, history, OnlyFetchedTextIsWritten,
                EventsAreReal, BaseIsAdopted
  <2>7. ASSUME NEW w \in DOMAIN writes, Fail(w) \/ FetchText(w) \/ Pipeline(w) PROVE WriteInv'
    <3> DEFINE new == writes'[w]
    <3>0. writes[w] \in Write /\ writes[w].file \in Files /\ w \in Nat
          /\ disk \in [Files -> Content] /\ disk[writes[w].file] \in Content
      BY <2>0, <2>00 DEF WriteInv, TypeOK, Write
    <3>1. writes' = [writes EXCEPT ![w] = new]
      BY <2>0, <2>7 DEF Fail, Pipeline, FetchRefused, FetchText, ReadAndCheck, WriteFile
    <3>2. /\ new \in Write /\ new.file = writes[w].file /\ new.base = writes[w].base
          /\ new.force = writes[w].force
          /\ writes[w].text # Closed => new.text # Closed
          /\ new.pc \in {"read", "write", "saved"} => new.text # Closed
          /\ new.pc = "write" /\ ~new.force => new.read = new.base
      <4>1. CASE Fail(w) \/ FetchRefused(w)
        <5>1. new = [writes[w] EXCEPT !.pc = "refused"]
          BY <2>0, <4>1 DEF Fail, FetchRefused
        <5> QED BY <3>0, <5>1 DEF Write
      <4>2. CASE FetchText(w)
        <5>1. buffer \in Version /\ buffer # Closed
          BY <2>0, <4>2 DEF FetchText, WriteInv, TypeOK
        <5> QED BY <2>0, <3>0, <4>2, <5>1 DEF FetchText, Write
      <4>3. CASE ReadAndCheck(w)
        BY <2>0, <3>0, <4>3 DEF ReadAndCheck, HasConflict, Write, WriteInv, OnlyFetchedTextIsWritten
      <4>4. CASE WriteFile(w)
        BY <2>0, <3>0, <4>4 DEF WriteFile, Write, WriteInv, OnlyFetchedTextIsWritten
      <4> QED BY <2>7, <4>1, <4>2, <4>3, <4>4 DEF Pipeline
    <3>3. /\ writes' \in Seq(Write) /\ Len(writes') = Len(writes)
          /\ DOMAIN writes' = DOMAIN writes
          /\ \A v \in DOMAIN writes : v # w => writes'[v] = writes[v]
      <4> HIDE DEF new
      <4> QED BY <2>0, <3>1, <3>2
    <3>4. \/ channel' = channel
          \/ /\ channel' = Append(channel, Ev("conflict", w)) \/ channel' = Append(channel, Ev("written", w))
             /\ new.text # Closed
      <4>1. CASE channel' = channel
        BY <4>1
      <4>2. CASE ReadAndCheck(w) /\ channel' = Append(channel, Ev("conflict", w))
        <5>1. writes[w].text # Closed
          BY <4>2 DEF ReadAndCheck, WriteInv, OnlyFetchedTextIsWritten
        <5> QED BY <3>2, <4>2, <5>1
      <4>3. CASE WriteFile(w)
        <5>1. writes[w].text # Closed
          BY <4>3 DEF WriteFile, WriteInv, OnlyFetchedTextIsWritten
        <5>2. channel' = Append(channel, Ev("written", w))
          BY <4>3 DEF WriteFile, Post
        <5> QED BY <3>2, <5>1, <5>2
      <4> QED
        BY <2>7, <4>1, <4>2, <4>3 DEF Fail, Pipeline, FetchRefused, FetchText, ReadAndCheck, Post
    <3>5. /\ channel' \in Seq(Event)
          /\ \A i \in DOMAIN channel' :
               \/ i \in DOMAIN channel /\ channel'[i] = channel[i]
               \/ channel'[i].kind # "loaded" /\ channel'[i].of = w /\ new.text # Closed
      <4>1. CASE channel' = channel
        BY <2>0, <4>1
      <4>2. ASSUME NEW e \in {Ev("conflict", w), Ev("written", w)},
                   channel' = Append(channel, e), new.text # Closed
            PROVE  <3>5
        <5>1. e \in Event /\ e.kind # "loaded" /\ e.of = w
          BY <3>0, <4>2 DEF Ev, Event
        <5>2. /\ channel' \in Seq(Event) /\ Len(channel') = Len(channel) + 1
              /\ \A i \in 1..Len(channel) : channel'[i] = channel[i]
              /\ channel'[Len(channel) + 1] = e
          BY <2>0, <4>2, <5>1
        <5>3. DOMAIN channel' = 1..(Len(channel) + 1) /\ Len(channel) \in Nat
          BY <2>0, <5>2
        <5> QED BY <2>0, <4>2, <5>1, <5>2, <5>3
      <4> QED BY <3>4, <4>1, <4>2
    <3>6. disk' \in [Files -> Content]
      <4>1. CASE WriteFile(w)
        <5>1. writes[w].text \in Version
          BY <2>0, <3>0, <4>1 DEF WriteFile, Write, WriteInv, OnlyFetchedTextIsWritten
        <5>2. Spliced(w) \in Content
          BY <3>0, <5>1 DEF Spliced, Write, Content
        <5>3. disk' = [disk EXCEPT ![writes[w].file] = Spliced(w)]
          BY <4>1 DEF WriteFile
        <5> QED BY <3>0, <5>2, <5>3
      <4>2. CASE disk' = disk
        BY <3>0, <4>2
      <4> QED BY <2>7, <4>1, <4>2 DEF Fail, Pipeline, FetchRefused, FetchText, ReadAndCheck
    <3>7. UNCHANGED <<history, loaded, selection, buffer, focus, modal, loads, version>>
      BY <2>7 DEF Fail, Pipeline, FetchRefused, FetchText, ReadAndCheck, WriteFile
    <3>8. TypeOK'
      BY <3>3, <3>5, <3>6, <3>7 DEF WriteInv, TypeOK, history
    <3>9. OnlyFetchedTextIsWritten'
      BY <3>2, <3>3 DEF WriteInv, OnlyFetchedTextIsWritten
    <3>10. BaseIsAdopted'
      BY <3>2, <3>3, <3>7 DEF WriteInv, BaseIsAdopted, history
    <3>11. EventsAreReal'
      <4>1. /\ DOMAIN loads' = DOMAIN loads /\ DOMAIN writes' = DOMAIN writes
            /\ \A v \in DOMAIN writes : writes[v].text # Closed => writes'[v].text # Closed
        BY <3>2, <3>3, <3>7
      <4> QED BY <3>5, <3>7, <4>1 DEF WriteInv, EventsAreReal
    <3> QED
      BY <3>3, <3>8, <3>9, <3>10, <3>11 DEF WriteInv
  <2>8. ASSUME NEW l \in DOMAIN loads, Reload(l) PROVE WriteInv'
    <3> DEFINE new == loads'[l]
    <3>0. loads[l] \in Load /\ loads[l].file \in Files /\ l \in Nat
          /\ disk \in [Files -> Content] /\ disk[loads[l].file] \in Content
      BY <2>0, <2>00 DEF WriteInv, TypeOK, Load
    <3>1. loads' = [loads EXCEPT ![l] = new] /\ new \in Load
      <4>1. CASE ReadSource(l)
        <5>1. loads' = [loads EXCEPT ![l] = [loads[l] EXCEPT !.pc = "post", !.got = disk[loads[l].file]]]
          BY <4>1 DEF ReadSource
        <5>2. new = [loads[l] EXCEPT !.pc = "post", !.got = disk[loads[l].file]]
          BY <2>0, <2>8, <5>1
        <5> QED BY <3>0, <5>1, <5>2 DEF Load
      <4>2. CASE PostSource(l)
        <5>1. loads' = [loads EXCEPT ![l] = [loads[l] EXCEPT !.pc = "done"]]
          BY <4>2 DEF PostSource
        <5>2. new = [loads[l] EXCEPT !.pc = "done"]
          BY <2>0, <2>8, <5>1
        <5> QED BY <3>0, <5>1, <5>2 DEF Load
      <4> QED BY <2>8, <4>1, <4>2 DEF Reload
    <3>2. /\ loads' \in Seq(Load) /\ DOMAIN loads' = DOMAIN loads
          /\ \A k \in DOMAIN loads : k # l => loads'[k] = loads[k]
      <4> HIDE DEF new
      <4> QED BY <2>0, <3>1
    <3>3. /\ channel' \in Seq(Event)
          /\ \A i \in DOMAIN channel' :
               \/ i \in DOMAIN channel /\ channel'[i] = channel[i]
               \/ channel'[i].kind = "loaded" /\ channel'[i].of = l
      <4>1. CASE channel' = channel
        BY <2>0, <4>1
      <4>2. CASE channel' = Append(channel, Ev("loaded", l))
        <5> DEFINE e == Ev("loaded", l)
        <5>1. e \in Event /\ e.kind = "loaded" /\ e.of = l /\ channel' = Append(channel, e)
          BY <3>0, <4>2 DEF Ev, Event
        <5> HIDE DEF e
        <5>2. /\ channel' \in Seq(Event) /\ Len(channel') = Len(channel) + 1
              /\ \A i \in 1..Len(channel) : channel'[i] = channel[i]
              /\ channel'[Len(channel) + 1] = e
          BY <2>0, <5>1
        <5>3. DOMAIN channel' = 1..(Len(channel) + 1) /\ Len(channel) \in Nat
          BY <2>0, <5>2
        <5> QED BY <2>0, <5>1, <5>2, <5>3
      <4> QED BY <2>8, <4>1, <4>2 DEF Reload, ReadSource, PostSource, Post
    <3>4. UNCHANGED <<history, disk, loaded, selection, buffer, focus, modal, writes, version>>
      BY <2>8 DEF Reload, ReadSource, PostSource
    <3>5. TypeOK'
      BY <3>2, <3>3, <3>4 DEF WriteInv, TypeOK, history
    <3>6. EventsAreReal'
      BY <3>2, <3>3, <3>4 DEF WriteInv, EventsAreReal
    <3> QED
      BY <3>4, <3>5, <3>6 DEF WriteInv, OnlyFetchedTextIsWritten, BaseIsAdopted, history
  <2>12. CASE OnNvimExited
    BY <2>12 DEF WriteInv, TypeOK, OnNvimExited, history, OnlyFetchedTextIsWritten,
                 EventsAreReal, BaseIsAdopted
  <2>9. CASE OnWritten \/ OnConflict \/ OnSourceLoaded
    <3> DEFINE e == Head(channel)
    <3>1. channel # <<>> /\ channel' = Tail(channel)
      BY <2>9 DEF OnWritten, OnConflict, OnSourceLoaded, Reduce
    <3>2. /\ channel' \in Seq(Event) /\ e = channel[1] /\ 1 \in DOMAIN channel /\ e \in Event
          /\ \A i \in DOMAIN channel' : i + 1 \in DOMAIN channel /\ channel'[i] = channel[i + 1]
      <4>1. Len(channel) \in Nat /\ Len(channel) > 0 /\ channel' \in Seq(Event)
            /\ Len(channel') = Len(channel) - 1 /\ DOMAIN channel' = 1..Len(channel')
        BY <2>0, <3>1
      <4> QED BY <2>0, <3>1, <4>1
    <3> HIDE DEF e
    <3>3. CASE OnWritten
      <4> DEFINE file == writes[e.of].file
                 new  == [file |-> file, pc |-> "start", got |-> loaded[file]]
      <4>1. e.of \in DOMAIN writes
        BY <3>2, <3>3 DEF OnWritten, Reduce, WriteInv, EventsAreReal, e
      <4>2. file \in Files
        BY <2>00, <4>1 DEF Write
      <4>3. new \in Load /\ new.got = loaded[file]
        BY <4>2 DEF WriteInv, TypeOK, Load
      <4>4. loads' = Append(loads, new)
        BY <3>3 DEF OnWritten, StartLoad, e
      <4> HIDE DEF new
      <4>5. /\ loads' \in Seq(Load) /\ Len(loads') = Len(loads) + 1
            /\ \A l \in 1..Len(loads) : loads'[l] = loads[l]
            /\ loads'[Len(loads) + 1] = new
        BY <2>0, <4>3, <4>4
      <4>6. DOMAIN loads' = 1..(Len(loads) + 1) /\ Len(loads) \in Nat
        BY <2>0, <4>5
      <4>7. /\ DOMAIN loads \subseteq DOMAIN loads'
            /\ \A l \in DOMAIN loads' : (l \in DOMAIN loads /\ loads'[l] = loads[l]) \/ loads'[l] = new
        BY <2>0, <4>5, <4>6
      <4>8. UNCHANGED <<history, disk, loaded, selection, buffer, focus, modal, writes, version>>
        BY <3>3 DEF OnWritten
      <4>9. TypeOK' /\ EventsAreReal'
        <5>1. TypeOK'
          BY <3>2, <4>5, <4>8 DEF WriteInv, TypeOK, history
        <5>2. EventsAreReal'
          BY <3>2, <4>7, <4>8 DEF WriteInv, EventsAreReal
        <5> QED BY <5>1, <5>2
      <4> QED
        BY <4>8, <4>9 DEF WriteInv, OnlyFetchedTextIsWritten, BaseIsAdopted, history
    <3>4. CASE OnConflict
      <4>1. /\ e.of \in DOMAIN writes /\ writes[e.of].text # Closed
            /\ modal' = [of |-> e.of, file |-> selection]
        BY <3>2, <3>4 DEF OnConflict, Reduce, WriteInv, EventsAreReal, e
      <4>2. UNCHANGED <<history, disk, loaded, selection, buffer, focus, writes, loads, version>>
        BY <3>4 DEF OnConflict
      <4>3. modal' \in Modal
        BY <2>0, <4>1 DEF WriteInv, TypeOK, Modal
      <4>4. TypeOK'
        BY <3>2, <4>2, <4>3 DEF WriteInv, TypeOK, history
      <4>5. EventsAreReal'
        BY <3>2, <4>1, <4>2 DEF WriteInv, EventsAreReal
      <4> QED
        BY <4>2, <4>4, <4>5 DEF WriteInv, OnlyFetchedTextIsWritten, BaseIsAdopted, history
    <3>5. CASE OnSourceLoaded
      <4> DEFINE l == loads[e.of]
      <4>1. e.of \in DOMAIN loads
        BY <3>2, <3>5 DEF OnSourceLoaded, Reduce, WriteInv, EventsAreReal, e
      <4>2. l.file \in Files /\ l.got \in Content
        BY <2>00, <4>1 DEF Load
      <4>3. /\ loaded' = [loaded EXCEPT ![l.file] = l.got]
            /\ adopted' = adopted \cup {<<l.file, l.got>>}
        BY <3>5 DEF OnSourceLoaded, e
      <4>4. UNCHANGED <<disk, selection, buffer, focus, modal, writes, loads, version, external>>
        BY <3>5 DEF OnSourceLoaded
      <4> HIDE DEF l
      <4>5. TypeOK'
        BY <3>2, <4>2, <4>3, <4>4 DEF WriteInv, TypeOK
      <4>6. EventsAreReal'
        BY <3>2, <4>4 DEF WriteInv, EventsAreReal
      <4>7. BaseIsAdopted'
        BY <4>2, <4>3, <4>4 DEF WriteInv, TypeOK, BaseIsAdopted
      <4> QED
        BY <4>4, <4>5, <4>6, <4>7 DEF WriteInv, OnlyFetchedTextIsWritten
    <3> QED
      BY <2>9, <3>3, <3>4, <3>5
  <2>10. CASE UNCHANGED vars
    BY <2>10 DEF vars, history, WriteInv, TypeOK, OnlyFetchedTextIsWritten, EventsAreReal,
                 BaseIsAdopted
  <2> QED
    BY <2>1, <2>2, <2>3, <2>4, <2>5, <2>6, <2>7, <2>8, <2>9, <2>10, <2>11, <2>12
       DEF Next, Reducer
<1> QED
  BY <1>1, <1>2, PTL DEF Spec

(* Write-backs, reloads, their events and the modal stay well-formed: an   *)
(* event always names a task that exists.                                  *)
THEOREM WriteBackTypesAreKept == Spec => []TypeOK
<1>1. WriteInv => TypeOK
  BY DEF WriteInv
<1> QED
  BY <1>1, WriteBackInvariant, PTL

(* Text that was never read from nvim is never written (CR-002).           *)
THEOREM NoUnreadTextIsWritten == Spec => []OnlyFetchedTextIsWritten
<1>1. WriteInv => OnlyFetchedTextIsWritten
  BY DEF WriteInv
<1> QED
  BY <1>1, WriteBackInvariant, PTL

(* Only a write-back that was forced, or whose file changed after it had   *)
(* been read, replaces an external edit that was never loaded.             *)
THEOREM ExternalEditsSurvive == Spec => ExternalEditSurvives
<1>1. ASSUME WriteInv, NEW w \in DOMAIN writes, Saves(w),
             <<writes[w].file, disk[writes[w].file]>> \notin adopted
      PROVE  writes[w].force \/ writes[w].read # disk[writes[w].file]
  <2>1. <<writes[w].file, writes[w].base>> \in adopted
    BY <1>1 DEF WriteInv, BaseIsAdopted
  <2>2. writes[w].pc = "write" /\ ~writes[w].force => writes[w].read = writes[w].base
    BY <1>1 DEF WriteInv, BaseIsAdopted
  <2> QED
    BY <1>1, <2>1, <2>2 DEF Saves
<1>2. WriteInv => \A w \in DOMAIN writes :
        LET f == writes[w].file
        IN Saves(w) /\ <<f, disk[f]>> \in external \ adopted
             => writes[w].force \/ writes[w].read # disk[f]
  BY <1>1
<1> QED
  BY <1>2, WriteBackInvariant, PTL DEF ExternalEditSurvives

(* What a file holds has been loaded or was put there by another program,  *)
(* or whoever will load it is on the way: the event of the write-back, a   *)
(* reload that has not read yet, one that has read just that.              *)
Known(f) == <<f, disk[f]>> \in adopted \cup external
Announced(f) == \E i \in DOMAIN channel : channel[i].kind = "written" /\ writes[channel[i].of].file = f
Delivered(l) == \E i \in DOMAIN channel : channel[i] = Ev("loaded", l)
Loading(f) == \E l \in DOMAIN loads :
  /\ loads[l].file = f
  /\ loads[l].pc = "start" \/ (loads[l].got = disk[f] /\ (loads[l].pc = "post" \/ Delivered(l)))

FollowedUp(f) == Known(f) \/ Announced(f) \/ Loading(f)

SaveIsFollowed == \A f \in Files : FollowedUp(f)

(* Every write-back is followed by a reload that sees what it wrote, or by *)
(* an external edit over it, however the Tasks overlap: when all is quiet  *)
(* nothing on disk is unknown to the workbench.                            *)
THEOREM SavesAreLoaded == Spec => []SavedIsLoaded
<1>1. Init => SaveIsFollowed
  BY DEF Init, SaveIsFollowed, FollowedUp, Known
<1>2. ASSUME WriteInv, SaveIsFollowed, [Next]_vars PROVE SaveIsFollowed'
  <2> SUFFICES ASSUME NEW f \in Files PROVE FollowedUp(f)'
    BY DEF SaveIsFollowed
  <2>0. /\ writes \in Seq(Write) /\ loads \in Seq(Load) /\ channel \in Seq(Event)
        /\ Len(channel) \in Nat /\ DOMAIN channel = 1..Len(channel)
        /\ \A i \in DOMAIN channel : channel[i].kind = "written" => channel[i].of \in DOMAIN writes
        /\ disk \in [Files -> Content]
        /\ FollowedUp(f)
    BY <1>2 DEF WriteInv, TypeOK, EventsAreReal, SaveIsFollowed
  <2>00. /\ \A w \in DOMAIN writes : writes[w] \in Write
         /\ \A l \in DOMAIN loads : loads[l] \in Load
    BY <2>0
  <2> DEFINE FilesKept == /\ DOMAIN writes \subseteq DOMAIN writes'
                          /\ \A w \in DOMAIN writes : writes'[w].file = writes[w].file
             LoadsKept == /\ DOMAIN loads \subseteq DOMAIN loads'
                          /\ \A l \in DOMAIN loads : loads'[l] = loads[l]
             EventsKept == /\ DOMAIN channel \subseteq DOMAIN channel'
                           /\ \A i \in DOMAIN channel : channel'[i] = channel[i]
             KnownKept == adopted \subseteq adopted' /\ external \subseteq external'
  <2>1. ASSUME FilesKept, LoadsKept, EventsKept, KnownKept, disk'[f] = disk[f]
        PROVE  FollowedUp(f)'
    <3>1. Known(f) => Known(f)'
      BY <2>1 DEF Known
    <3>2. Announced(f) => Announced(f)'
      BY <2>0, <2>1 DEF Announced
    <3>3. \A l \in DOMAIN loads : Delivered(l) => Delivered(l)'
      BY <2>1 DEF Delivered, Ev
    <3>4. Loading(f) => Loading(f)'
      BY <2>1, <3>3 DEF Loading
    <3> QED
      BY <2>0, <3>1, <3>2, <3>4 DEF FollowedUp
  <2>2. ASSUME NEW e, channel' = Append(channel, e)
        PROVE  EventsKept /\ channel'[Len(channel) + 1] = e /\ Len(channel) + 1 \in DOMAIN channel'
    BY <2>0, <2>2
  <2>3. ASSUME NEW new, loads' = Append(loads, new)
        PROVE  LoadsKept /\ loads'[Len(loads) + 1] = new /\ Len(loads) + 1 \in DOMAIN loads'
    BY <2>0, <2>3
  <2>4. ASSUME \/ Select \/ OpenBuffer \/ NvimEnds \/ KeyWriteFails \/ Type \/ ModalReload
               \/ WriteRequested \/ ModalOverwrite \/ ModalCancel \/ OnNvimExited
        PROVE  FollowedUp(f)'
    <3>1. UNCHANGED <<history, disk, channel>>
      BY <2>4 DEF Select, OpenBuffer, NvimEnds, KeyWriteFails, Type, ModalReload,
                  WriteRequested, ModalOverwrite, ModalCancel, OnNvimExited
    <3>2. LoadsKept
      <4>1. CASE ModalReload
        BY <2>3, <4>1 DEF ModalReload, StartLoad
      <4> QED
        BY <2>4, <4>1 DEF Select, OpenBuffer, NvimEnds, KeyWriteFails, Type,
                          WriteRequested, ModalOverwrite, ModalCancel, OnNvimExited
    <3>3. FilesKept
      <4>1. ASSUME NEW new, writes' = Append(writes, new) PROVE FilesKept
        BY <2>0, <4>1
      <4>2. CASE WriteRequested \/ ModalOverwrite
        BY <4>1, <4>2 DEF WriteRequested, ModalOverwrite, StartWrite
      <4>3. CASE NvimEnds \/ KeyWriteFails
        BY <2>00, <4>3 DEF NvimEnds, KeyWriteFails, Write
      <4> QED
        BY <2>4, <4>2, <4>3 DEF Select, OpenBuffer, Type, ModalReload, ModalCancel,
                               OnNvimExited
    <3> QED
      BY <2>1, <3>1, <3>2, <3>3 DEF history
  <2>5. ASSUME NEW g \in Files, ExternalEdit(g) PROVE FollowedUp(f)'
    <3>1. CASE f = g
      BY <2>5, <3>1 DEF ExternalEdit, FollowedUp, Known
    <3>2. CASE f # g
      BY <2>0, <2>1, <2>5, <3>2 DEF ExternalEdit
    <3> QED BY <3>1, <3>2
  <2>6. ASSUME NEW w \in DOMAIN writes, Fail(w) \/ FetchRefused(w) \/ FetchText(w)
                                          \/ ReadAndCheck(w)
        PROVE  FollowedUp(f)'
    <3>1. FilesKept
      BY <2>00, <2>6 DEF Fail, FetchRefused, FetchText, ReadAndCheck, Write
    <3>2. EventsKept
      BY <2>2, <2>6 DEF Fail, FetchRefused, FetchText, ReadAndCheck, Post
    <3> QED
      BY <2>1, <2>6, <3>1, <3>2 DEF Fail, FetchRefused, FetchText, ReadAndCheck, history
  <2>7. ASSUME NEW w \in DOMAIN writes, WriteFile(w) PROVE FollowedUp(f)'
    <3>1. FilesKept
      BY <2>0, <2>7 DEF WriteFile, Write
    <3>2. EventsKept /\ \E i \in DOMAIN channel' : channel'[i] = Ev("written", w)
      BY <2>2, <2>7 DEF WriteFile, Post
    <3>3. CASE f = writes[w].file
      BY <3>1, <3>2, <3>3 DEF FollowedUp, Announced, Ev
    <3>4. CASE f # writes[w].file
      BY <2>0, <2>1, <2>7, <3>1, <3>2, <3>4 DEF WriteFile, history
    <3> QED BY <3>3, <3>4
  <2>8. ASSUME NEW l \in DOMAIN loads, ReadSource(l) PROVE FollowedUp(f)'
    <3>1. /\ DOMAIN loads' = DOMAIN loads
          /\ \A k \in DOMAIN loads : k # l => loads'[k] = loads[k]
          /\ loads'[l].file = loads[l].file /\ loads'[l].pc = "post"
          /\ loads'[l].got = disk[loads[l].file]
      BY <2>00, <2>8 DEF ReadSource, Load
    <3>2. UNCHANGED <<history, disk, channel, writes>>
      BY <2>8 DEF ReadSource
    <3> QED
      <4>1. Known(f) => Known(f)'
        BY <3>2 DEF Known, history
      <4>2. Announced(f) => Announced(f)'
        BY <3>2 DEF Announced
      <4>3. \A k \in DOMAIN loads : Delivered(k)' <=> Delivered(k)
        BY <3>2 DEF Delivered, Ev
      <4>4. Loading(f) => Loading(f)'
        BY <3>1, <3>2, <4>3 DEF Loading
      <4> QED
        BY <2>0, <4>1, <4>2, <4>4 DEF FollowedUp
  <2>9. ASSUME NEW l \in DOMAIN loads, PostSource(l) PROVE FollowedUp(f)'
    <3>1. /\ DOMAIN loads' = DOMAIN loads
          /\ \A k \in DOMAIN loads : k # l => loads'[k] = loads[k]
          /\ loads'[l].file = loads[l].file /\ loads'[l].got = loads[l].got
          /\ loads[l].pc = "post"
      BY <2>00, <2>9 DEF PostSource, Load
    <3>2. EventsKept /\ \E i \in DOMAIN channel' : channel'[i] = Ev("loaded", l)
      BY <2>2, <2>9 DEF PostSource, Post
    <3>3. UNCHANGED <<history, disk, writes>>
      BY <2>9 DEF PostSource
    <3> QED
      <4>1. Known(f) => Known(f)'
        BY <3>3 DEF Known, history
      <4>2. Announced(f) => Announced(f)'
        BY <3>2, <3>3 DEF Announced
      <4>3. Delivered(l)' /\ \A k \in DOMAIN loads : Delivered(k) => Delivered(k)'
        BY <3>2 DEF Delivered, Ev
      <4>4. Loading(f) => Loading(f)'
        BY <3>1, <3>3, <4>3 DEF Loading
      <4> QED
        BY <2>0, <4>1, <4>2, <4>4 DEF FollowedUp
  <2>10. ASSUME OnWritten \/ OnConflict \/ OnSourceLoaded PROVE FollowedUp(f)'
    <3> DEFINE e == Head(channel)
    <3>1. channel # <<>> /\ channel' = Tail(channel)
      BY <2>10 DEF OnWritten, OnConflict, OnSourceLoaded, Reduce
    <3>2. /\ channel[1] = e /\ 1 \in DOMAIN channel
          /\ \A i \in DOMAIN channel : i # 1 => i - 1 \in DOMAIN channel' /\ channel'[i - 1] = channel[i]
      BY <2>0, <3>1
    <3> HIDE DEF e
    <3>3. \A i \in DOMAIN channel :
            channel[i] = e \/ \E j \in DOMAIN channel' : channel'[j] = channel[i]
      BY <3>2
    <3>4. UNCHANGED <<disk, writes, external>> /\ adopted \subseteq adopted'
      BY <2>10 DEF OnWritten, OnConflict, OnSourceLoaded, history
    <3>5. Known(f) => Known(f)'
      BY <3>4 DEF Known
    <3>6. ASSUME e.kind # "written" PROVE Announced(f) => Announced(f)'
      BY <3>3, <3>4, <3>6 DEF Announced
    <3>7. ASSUME e.kind # "loaded", LoadsKept PROVE Loading(f) => Loading(f)'
      <4>1. \A l \in DOMAIN loads : Delivered(l) => Delivered(l)'
        BY <3>3, <3>7 DEF Delivered, Ev
      <4> QED
        BY <3>4, <3>7, <4>1 DEF Loading
    <3>8. CASE OnWritten
      <4>1. e.kind = "written" /\ loads' = Append(loads, [file |-> writes[e.of].file, pc |-> "start",
                                                          got |-> loaded[writes[e.of].file]])
        BY <3>8 DEF OnWritten, Reduce, StartLoad, e
      <4>2. LoadsKept /\ \E l \in DOMAIN loads' : loads'[l].file = writes[e.of].file /\ loads'[l].pc = "start"
        BY <2>3, <4>1
      <4>3. CASE f = writes[e.of].file
        BY <4>2, <4>3 DEF FollowedUp, Loading
      <4>4. CASE f # writes[e.of].file
        <5>1. Announced(f) => Announced(f)'
          BY <3>3, <3>4, <4>4 DEF Announced
        <5> QED
          BY <2>0, <3>5, <3>7, <4>1, <4>2, <5>1 DEF FollowedUp
      <4> QED
        BY <4>3, <4>4
    <3>9. CASE OnConflict
      <4>1. e.kind = "conflict" /\ LoadsKept
        BY <3>9 DEF OnConflict, Reduce, e
      <4> QED
        BY <2>0, <3>5, <3>6, <3>7, <4>1 DEF FollowedUp
    <3>10. CASE OnSourceLoaded
      <4>1. /\ e.kind = "loaded" /\ loads' = loads
            /\ <<loads[e.of].file, loads[e.of].got>> \in adopted'
        BY <3>10 DEF OnSourceLoaded, Reduce, e
      <4>2. ASSUME NEW l \in DOMAIN loads, Delivered(l), ~Delivered(l)' PROVE l = e.of
        <5>1. PICK i \in DOMAIN channel : channel[i] = Ev("loaded", l)
          BY <4>2 DEF Delivered
        <5>2. channel[i] = e
          BY <3>3, <4>2, <5>1 DEF Delivered, Ev
        <5> QED BY <5>1, <5>2 DEF Ev
      <4>3. Loading(f) => Loading(f)' \/ Known(f)'
        BY <3>4, <4>1, <4>2 DEF Loading, Known
      <4> QED
        BY <2>0, <3>5, <3>6, <4>1, <4>3 DEF FollowedUp
    <3> QED
      BY <2>10, <3>8, <3>9, <3>10
  <2>11. CASE UNCHANGED vars
    BY <2>1, <2>11 DEF vars, history
  <2> QED
    BY <1>2, <2>4, <2>5, <2>6, <2>7, <2>8, <2>9, <2>10, <2>11 
       DEF Next, Pipeline, Reload, Reducer
<1>3. WriteInv /\ SaveIsFollowed => SavedIsLoaded
  <2> SUFFICES ASSUME WriteInv, SaveIsFollowed, Quiet, NEW f \in Files PROVE Known(f)
    BY DEF SavedIsLoaded, Known
  <2>1. ~Announced(f) /\ \A l \in DOMAIN loads : ~Delivered(l) /\ loads[l].pc = "done"
    BY DEF Quiet, Announced, Delivered
  <2> QED
    BY <2>1 DEF SaveIsFollowed, FollowedUp, Loading
<1> QED
  BY <1>1, <1>2, <1>3, WriteBackInvariant, PTL DEF Spec
===============================================================================
