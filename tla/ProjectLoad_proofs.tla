-------------------------- MODULE ProjectLoad_proofs --------------------------
(***************************************************************************)
(* The project and its sources, proved for any files, fields, contents of  *)
(* moonswift.toml and number of moves.                                     *)
(*                                                                         *)
(* Two of the three properties speak of the moment when nothing is under   *)
(* way.  Their invariants say where, until then, the missing thing is:     *)
(* ColoursFollow follows a text through the highlighter's queue and back   *)
(* through the channel, SourcesComing the entries of a project from the    *)
(* Task that reads them, or the reload that will start such Tasks.         *)
(***************************************************************************)
EXTENDS ProjectLoad, FiniteSetTheorems, SequenceTheorems, TLAPS

(* The types, and that there are never infinitely many Tasks.              *)
TypeInv ==
  /\ TypeOK /\ IsFiniteSet(loads) /\ IsFiniteSet(jobs)
  /\ \A j \in jobs : j.kind = "reload" /\ j.pc = "post" => j.got \in ProjectFile

(* A tree on its way is that of the file it was asked for, and so is the   *)
(* one the picker shows.                                                   *)
RightTree(e) == e.type = "treeReady" => e.tree \in {"error", e.id[1]}
TreesKnown ==
  /\ \A i \in 1..Len(channel) : RightTree(channel[i])
  /\ picker # NoPicker => picker.tree \in {"loading", "error", picker.id[1]}

(* The text of a source is on its way to become its colours: it is the     *)
(* last of the source's texts to be parsed, or was the last to be parsed   *)
(* and is on its way back, or is what the spans were made from.            *)
LastParse(q, id, v) ==
  \E i \in 1..Len(q) : q[i][1] = id /\ q[i][2] = v /\ \A k \in i + 1 .. Len(q) : q[k][1] # id
NoParse(q, id) == \A i \in 1..Len(q) : q[i][1] # id

Colours(e, id) == e.type = "highlightReady" /\ e.id = id
LastColours(q, id, v) ==
  \E i \in 1..Len(q) :
    Colours(q[i], id) /\ q[i].text = v /\ \A k \in i + 1 .. Len(q) : ~Colours(q[k], id)
NoColours(q, id) == \A i \in 1..Len(q) : ~Colours(q[i], id)

ColoursComing(id) ==
  \/ LastParse(parses, id, sources[id])
  \/ NoParse(parses, id) /\ LastColours(channel, id, sources[id])
  \/ /\ NoParse(parses, id) /\ NoColours(channel, id)
     /\ id \in DOMAIN spans /\ spans[id] = sources[id]
ColoursFollow == \A id \in DOMAIN sources : sources[id] # 0 => ColoursComing(id)

(* What an entry of the navigator is waited for: the entry itself or that  *)
(* of its file, which stands for it when the file is missing.              *)
Speaks(id) == {id, <<id[1], Whole>>}

HasEvent(q, type) == \E i \in 1..Len(q) : q[i].type = type
Tells(e, id)      == e.type = "source" /\ e.id \in Speaks(id)
HasSource(q, id)  == \E i \in 1..Len(q) : Tells(q[i], id)
Reports(t, id) ==
  /\ id \in t.entry /\ t.path = id[1]
  /\ t.out = <<>> \/ \E i \in 1..Len(t.out) : t.out[i][1] \in Speaks(id)

Covered(id) == \/ Speaks(id) \cap DOMAIN sources # {}
               \/ HasSource(channel, id)
               \/ \E t \in loads : Reports(t, id)
AllCovered == \A id \in project.lists : Covered(id)

(* The Tasks that a reload cancels have its project to replace them; no    *)
(* project is read where there is none.                                    *)
ReloadRuns == \E j \in jobs : j.kind = "reload"
SourcesComing ==
  /\ launch = "empty" =>
       project.state # "loaded" /\ ~ReloadRuns /\ ~HasEvent(channel, "project")
  /\ project.state = "loaded" =>
       ReloadRuns \/ HasEvent(channel, "project") \/ HasEvent(channel, "appStarted") \/ AllCovered
-----------------------------------------------------------------------------
(* Numbers of Tasks, and what a Task reports.                              *)

(* What is made of the members of a finite set is finitely many things.    *)
LEMMA FiniteImage ==
  ASSUME NEW S, IsFiniteSet(S), NEW f
  PROVE  IsFiniteSet({f[x] : x \in S})
<1> DEFINE T == {f[x] : x \in S}
           g == [x \in S |-> f[x]]
<1>1. g \in Surjection(S, T)
  BY DEF Surjection
<1> QED BY <1>1, FS_Surjection

(* A Task reads its file once, and has then something to say of each       *)
(* source of its entry, be it only that the file is missing.               *)
LEMMA SourceIsRead ==
  ASSUME TypeInv, NEW t \in loads, ReadSource(t)
  PROVE  \E new \in Load :
           /\ loads' = (loads \ {t}) \cup {new}
           /\ new.entry = t.entry /\ new.path = t.path
           /\ \A id \in IF disk[t.path] = 0 THEN {<<t.path, Whole>>} ELSE t.entry :
                \E i \in 1..Len(new.out) : new.out[i][1] = id
<1>1. ASSUME NEW S, IsFiniteSet(S)
      PROVE  /\ SetToSeq(S) \in Seq(S)
             /\ \A x \in S : \E i \in 1..Len(SetToSeq(S)) : SetToSeq(S)[i] = x
  <2> DEFINE n == Cardinality(S)
             f == SetToSeq(S)
  <2>1. n \in Nat /\ ExistsBijection(1..n, S)
    BY <1>1, FS_CardinalityType
  <2>2. PICK g \in [1..n -> S] : \A i, j \in 1..n : g[i] = g[j] => i = j
    BY <2>1 DEF ExistsBijection, Bijection, Injection, IsInjective
  <2>3. IsInjective(g)
    BY <2>2 DEF IsInjective
  <2>4. f \in [1..n -> S] /\ IsInjective(f)
    BY <2>2, <2>3 DEF SetToSeq
  <2>5. f \in Injection(1..n, S)
    BY <2>4 DEF Injection
  <2>6. IsFiniteSet(1..n) /\ Cardinality(1..n) = Cardinality(S)
    BY <2>1, FS_Interval
  <2>7. f \in Surjection(1..n, S)
    BY <1>1, <2>5, <2>6, FS_Injection
  <2>8. f \in Seq(S) /\ Len(f) = n
    BY <2>1, <2>4, SeqDef, SMT
  <2> QED BY <2>7, <2>8 DEF Surjection
<1> DEFINE found == IF disk[t.path] = 0 THEN {<<t.path, Whole>>} ELSE t.entry
           told(id) == <<id, IF <<id, disk[t.path]>> \in Fails THEN 0 ELSE disk[t.path]>>
           textOf == [id \in found |-> told(id)]
           S == {told(id) : id \in found}
           new == [t EXCEPT !.out = SetToSeq(S)]
<1>2. IsFiniteSet(Id)
  <2>1. IsFiniteSet(Field \cup {Whole})
    BY ProjectLoadAssumption, FS_AddElement DEF ProjectLoadAssumption
  <2> QED BY <2>1, ProjectLoadAssumption, FS_Product DEF ProjectLoadAssumption, Id
<1>3. t \in Load /\ t.path \in Path /\ t.entry \in SUBSET Id /\ disk[t.path] \in Text
  BY DEF Load, TypeInv, TypeOK
<1>4. found \in SUBSET Id /\ IsFiniteSet(found)
  <2>1. found \in SUBSET Id
    BY <1>3 DEF Id
  <2> QED BY <1>2, <2>1, FS_Subset
<1>5. loads' = (loads \ {t}) \cup {new}
  BY DEF ReadSource
<1>6. \A id \in found : told(id) \in S
  OBVIOUS
<1> HIDE DEF found
<1>7. S \in SUBSET (Id \X Text) /\ IsFiniteSet(S)
  <2>1. IsFiniteSet({textOf[id] : id \in found})
    <3> HIDE DEF textOf
    <3> QED BY <1>4, FiniteImage
  <2>2. S = {textOf[id] : id \in found}
    OBVIOUS
  <2>3. S \in SUBSET (Id \X Text)
    <3>1. 0 \in Text
      BY ProjectLoadAssumption DEF Text, ProjectLoadAssumption
    <3>2. \A id \in found : told(id) \in Id \X Text
      BY <1>3, <1>4, <3>1
    <3> HIDE DEF told
    <3> QED BY <3>2
  <2> HIDE DEF S, textOf
  <2> QED BY <2>1, <2>2, <2>3, Zenon
<1> HIDE DEF S
<1>8. SetToSeq(S) \in Seq(Id \X Text)
  <2>1. SetToSeq(S) \in Seq(S)
    BY <1>1, <1>7
  <2> QED BY <1>7, <2>1
<1>9. new \in Load /\ new.entry = t.entry /\ new.path = t.path /\ new.out = SetToSeq(S)
  BY <1>3, <1>8 DEF Load
<1>10. \A id \in found : \E i \in 1..Len(new.out) : new.out[i][1] = id
  <2>1. ASSUME NEW id \in found PROVE \E i \in 1..Len(new.out) : new.out[i][1] = id
    <3>1. PICK i \in 1..Len(SetToSeq(S)) : SetToSeq(S)[i] = told(id)
      BY <1>1, <1>6, <1>7
    <3> QED BY <1>9, <3>1
  <2> QED BY <2>1
<1> QED BY <1>5, <1>9, <1>10 DEF found

(* The Task of an entry posts an event for the first source it has not     *)
(* told of yet, and keeps the others.                                      *)
LEMMA SourcePosted ==
  ASSUME TypeInv, NEW t \in loads, PostSource(t)
  PROVE  \E e \in Event :
           /\ channel' = Append(channel, e)
           /\ e.type = "source" /\ e.id = t.out[1][1] /\ e.text = t.out[1][2]
           /\ \/ Len(t.out) = 1 /\ loads' = loads \ {t}
              \/ \E new \in Load :
                   /\ loads' = (loads \ {t}) \cup {new}
                   /\ new.entry = t.entry /\ new.path = t.path
                   /\ \A i \in 1..Len(t.out) :
                        i # 1 => i - 1 \in 1..Len(new.out) /\ new.out[i - 1] = t.out[i]
<1> DEFINE e == [type |-> "source", id |-> Head(t.out)[1], text |-> Head(t.out)[2]]
           new == [t EXCEPT !.out = Tail(@)]
<1>1. t \in Load /\ t.out \in Seq(Id \X Text) /\ t.out # <<>>
  BY DEF TypeInv, TypeOK, Load, PostSource
<1>2. Head(t.out) = t.out[1] /\ Head(t.out) \in Id \X Text
  BY <1>1
<1>3. e \in Event
  BY <1>2 DEF Event
<1>4. channel' = Append(channel, e)
  BY DEF PostSource, Post
<1>5. CASE Len(t.out) = 1
  <2>1. loads' = loads \ {t}
    BY <1>5 DEF PostSource
  <2> QED BY <1>2, <1>3, <1>4, <1>5, <2>1
<1>6. CASE Len(t.out) # 1
  <2>1. loads' = (loads \ {t}) \cup {new}
    BY <1>6 DEF PostSource
  <2>2. Tail(t.out) \in Seq(Id \X Text)
    BY <1>1
  <2>3. new \in Load /\ new.entry = t.entry /\ new.path = t.path /\ new.out = Tail(t.out)
    BY <1>1, <2>2 DEF Load
  <2>4. \A i \in 1..Len(t.out) :
          i # 1 => i - 1 \in 1..Len(Tail(t.out)) /\ Tail(t.out)[i - 1] = t.out[i]
    BY <1>1
  <2> HIDE DEF new
  <2> QED BY <1>2, <1>3, <1>4, <2>1, <2>3, <2>4
<1> QED BY <1>5, <1>6
-----------------------------------------------------------------------------
(* Types.                                                                  *)

(* Every component of the state keeps its type, and the Tasks are finitely *)
(* many, so that each of them can be told from the others by its number.   *)
THEOREM LoadTypesAreKept == Spec => []TypeInv
(* There is always a number that no running Task has.                      *)
<1>f. ASSUME NEW used, IsFiniteSet(used)
      PROVE  Fresh(used) \in Nat \ {0} /\ Fresh(used) \notin used
  <2> USE <1>f
  <2> DEFINE n == Cardinality(used)
             T == 1..(n + 1)
  <2>1. n \in Nat
    BY FS_CardinalityType
  <2>2. IsFiniteSet(T) /\ Cardinality(T) = n + 1
    <3>1. 1 \in Int /\ n + 1 \in Int /\ ~(1 > n + 1) /\ (n + 1) - 1 + 1 = n + 1
      BY <2>1
    <3> QED BY <3>1, FS_Interval
  <2>3. \E i \in T : i \notin used
    <3>1. SUFFICES ASSUME T \in SUBSET used PROVE FALSE
      OBVIOUS
    <3>2. Cardinality(T) <= n
      BY <3>1, FS_Subset
    <3> QED BY <2>1, <2>2, <3>2
  <2>4. Fresh(used) \in T /\ Fresh(used) \notin used
    BY <2>3 DEF Fresh
  <2> QED BY <2>1, <2>4
<1>1. /\ IsFiniteSet(Path) /\ IsFiniteSet(Id) /\ MaxMoves \in Nat /\ Whole \notin Field
      /\ Text = 0..MaxMoves + 1 /\ \A l \in Projects : l \in SUBSET Id
  <2>1. IsFiniteSet(Field \cup {Whole})
    BY ProjectLoadAssumption, FS_AddElement DEF ProjectLoadAssumption
  <2>2. IsFiniteSet(Path) /\ IsFiniteSet(Id)
    BY <2>1, ProjectLoadAssumption, FS_Product DEF ProjectLoadAssumption, Id
  <2> QED BY <2>2, ProjectLoadAssumption DEF ProjectLoadAssumption, Id, Text
<1>2. Init => TypeInv
  <2> SUFFICES ASSUME Init PROVE TypeInv
    OBVIOUS
  <2>1. disk \in [Path -> Text] /\ toml \in ProjectFile \cup {NoProject} /\ project \in ProjectFile \cup {NoProject}
    BY <1>1 DEF Init, ProjectFile
  <2>2. DOMAIN sources = {} /\ DOMAIN spans = {}
    BY DEF Init
  <2>3. [type |-> "appStarted"] \in Event
    BY DEF Event
  <2>4. channel \in Seq(Event) /\ parses \in Seq(Id \X Text)
    BY <2>3 DEF Init
  <2>5. launch \in {"project", "quickFile", "empty"}
    BY DEF Init
  <2>6. /\ focus = "pane" /\ picker = NoPicker /\ form = FALSE /\ loads = {} /\ jobs = {}
        /\ moves \in 0..MaxMoves
    BY <1>1 DEF Init
  <2>7. TypeOK
    <3>1. \A map \in {sources, spans} : DOMAIN map \subseteq Id /\ \A id \in DOMAIN map : map[id] \in Text
      BY <2>2
    <3> QED BY <2>1, <2>4, <2>5, <2>6, <3>1 DEF TypeOK
  <2> QED BY <2>6, <2>7, FS_EmptySet DEF TypeInv
<1>3. ASSUME TypeInv, [Next]_vars PROVE TypeInv'
  <2> USE DEF Post, Handled, Receives
  <2>0. TypeOK /\ IsFiniteSet(loads) /\ IsFiniteSet(jobs) /\ loads \subseteq Load /\ jobs \subseteq Job
    BY <1>3 DEF TypeInv, TypeOK
  (* What the helpers of the driver make of the Tasks and of the channel.    *)
  <2>1. ASSUME NEW lists \in SUBSET Id, LoadAll(lists)
        PROVE  loads' \subseteq Load /\ IsFiniteSet(loads')
    <3> DEFINE used  == {t.batch : t \in loads}
               old   == {[t EXCEPT !.held = FALSE] : t \in loads}
               Begun(p) == [batch |-> Fresh(used), path |-> p, entry |-> Entry(lists, p),
                            held |-> TRUE, out |-> <<>>]
               new   == {Begun(p) : p \in Listed(lists)}
               batchOf == [t \in loads |-> t.batch]
               given   == [t \in loads |-> [t EXCEPT !.held = FALSE]]
               begun   == [p \in Listed(lists) |-> Begun(p)]
    <3>1. loads' = old \cup new
      BY <2>1 DEF LoadAll
    <3>2. Listed(lists) \subseteq Path /\ IsFiniteSet(Listed(lists))
      <4>1. Listed(lists) \subseteq Path
        BY DEF Listed, Id
      <4> QED BY <1>1, <4>1, FS_Subset
    <3>3. IsFiniteSet(used) /\ IsFiniteSet(old) /\ IsFiniteSet(new)
      <4>1. /\ IsFiniteSet({batchOf[t] : t \in loads}) /\ IsFiniteSet({given[t] : t \in loads})
            /\ IsFiniteSet({begun[p] : p \in Listed(lists)})
        <5> HIDE DEF batchOf, given, begun
        <5> QED BY <2>0, <3>2, FiniteImage
      <4>2. /\ used = {batchOf[t] : t \in loads} /\ old = {given[t] : t \in loads}
            /\ new = {begun[p] : p \in Listed(lists)}
        OBVIOUS
      <4> QED BY <4>1, <4>2
    <3>4. Fresh(used) \in Nat \ {0}
      BY <3>3, <1>f
    <3> HIDE DEF used
    <3>5. ASSUME NEW p \in Listed(lists) PROVE Begun(p) \in Load
      <4>1. Entry(lists, p) \in SUBSET Id /\ <<>> \in Seq(Id \X Text) /\ p \in Path
        BY <3>2 DEF Entry
      <4> QED BY <3>4, <4>1 DEF Load
    <3>6. old \subseteq Load
      BY <2>0 DEF Load
    <3> QED BY <3>1, <3>3, <3>5, <3>6, FS_Union
  <2>2. CancelAll => loads' \subseteq Load /\ IsFiniteSet(loads')
    BY <2>0, FS_Subset DEF CancelAll
  <2>3. UNCHANGED loads => loads' \subseteq Load /\ IsFiniteSet(loads')
    BY <2>0
  <2>4. Number \in Nat
    <3> DEFINE numberOf == [j \in jobs |-> j.n]
    <3>1. IsFiniteSet({numberOf[j] : j \in jobs})
      <4> HIDE DEF numberOf
      <4> QED BY <2>0, FiniteImage
    <3>2. {j.n : j \in jobs} = {numberOf[j] : j \in jobs}
      OBVIOUS
    <3> QED BY <3>1, <3>2, <1>f DEF Number
  <2>5. ASSUME NEW job \in Job, Start(job) PROVE jobs' \subseteq Job /\ IsFiniteSet(jobs')
    BY <2>0, <2>5, FS_AddElement DEF Start
  <2>6. UNCHANGED jobs => jobs' \subseteq Job /\ IsFiniteSet(jobs')
    BY <2>0
  <2>7. ASSUME NEW j, NEW new \in SUBSET Job, IsFiniteSet(new), Step(j, new)
        PROVE  jobs' \subseteq Job /\ IsFiniteSet(jobs')
    <3>1. IsFiniteSet(jobs \ {j})
      BY <2>0, FS_RemoveElement
    <3>2. IsFiniteSet((jobs \ {j}) \cup new)
      BY <2>7, <3>1, FS_Union
    <3> QED BY <2>0, <2>7, <3>2 DEF Step
  <2>8. ExecuteReload => /\ loads' \subseteq Load /\ IsFiniteSet(loads')
                         /\ jobs' \subseteq Job /\ IsFiniteSet(jobs')
    <3>1. [n |-> Number, kind |-> "reload", pc |-> "read", got |-> NoProject] \in Job
      BY <2>4 DEF Job
    <3> QED BY <2>2, <2>5, <3>1 DEF ExecuteReload
  <2>9. \A e \in Event : Append(channel, e) \in Seq(Event)
    BY <2>0 DEF TypeOK
  <2>10. channel # <<>> => Head(channel) \in Event /\ Tail(channel) \in Seq(Event)
    BY <2>0 DEF TypeOK
  <2>11. \A e \in Event : /\ e.type \in {"source", "highlightReady"} => e.id \in Id /\ e.text \in Text
                          /\ e.type = "project" => e.got \in ProjectFile
                          /\ e.type = "treeReady" => e.id \in Id /\ e.tree \in {"error"} \cup Path
                          /\ e.type = "writeBackSucceeded" => e.id \in Id
    BY DEF Event
  <2>12. \A file \in ProjectFile \cup {NoProject} : file.lists \in SUBSET Id
    BY DEF ProjectFile, NoProject, Unreadable, File
  <2>13. ASSUME NEW file \in ProjectFile \cup {NoProject}, ExecuteLoadSources(file)
         PROVE  loads' \subseteq Load /\ IsFiniteSet(loads')
    BY <2>1, <2>3, <2>12, <2>13 DEF ExecuteLoadSources
  <2>14. TypeInv' <=>
           /\ disk' \in [Path -> Text] /\ toml' \in ProjectFile \cup {NoProject}
           /\ launch' \in {"project", "quickFile", "empty"}
           /\ project' \in ProjectFile \cup {NoProject}
           /\ DOMAIN sources' \subseteq Id /\ \A id \in DOMAIN sources' : sources'[id] \in Text
           /\ DOMAIN spans' \subseteq Id /\ \A id \in DOMAIN spans' : spans'[id] \in Text
           /\ focus' \in {"pane", "picker", "form"}
           /\ picker' = NoPicker \/ picker' \in Picker
           /\ form' \in BOOLEAN /\ moves' \in 0..MaxMoves
           /\ loads' \subseteq Load /\ IsFiniteSet(loads')
           /\ jobs' \subseteq Job /\ IsFiniteSet(jobs')
           /\ \A j \in jobs' : j.kind = "reload" /\ j.pc = "post" => j.got \in ProjectFile
           /\ parses' \in Seq(Id \X Text) /\ channel' \in Seq(Event)
    BY DEF TypeInv, TypeOK
  <2>15. /\ disk \in [Path -> Text] /\ toml \in ProjectFile \cup {NoProject}
         /\ launch \in {"project", "quickFile", "empty"}
         /\ project \in ProjectFile \cup {NoProject}
         /\ DOMAIN sources \subseteq Id /\ \A id \in DOMAIN sources : sources[id] \in Text
         /\ DOMAIN spans \subseteq Id /\ \A id \in DOMAIN spans : spans[id] \in Text
         /\ focus \in {"pane", "picker", "form"}
         /\ picker = NoPicker \/ picker \in Picker
         /\ form \in BOOLEAN /\ moves \in 0..MaxMoves
         /\ \A j \in jobs : j.kind = "reload" /\ j.pc = "post" => j.got \in ProjectFile
         /\ parses \in Seq(Id \X Text) /\ channel \in Seq(Event)
    BY <2>0, <1>3 DEF TypeInv, TypeOK
  <2>16. \A job \in Job : Start(job) /\ (job.kind = "reload" => job.pc = "read") =>
           \A j \in jobs' : j.kind = "reload" /\ j.pc = "post" => j.got \in ProjectFile
    BY <2>15 DEF Start
  <2>17. \A id \in Id, v \in Text : \A map :
           DOMAIN map \subseteq Id /\ (\A k \in DOMAIN map : map[k] \in Text) =>
             DOMAIN With(map, id, v) \subseteq Id /\ \A k \in DOMAIN With(map, id, v) : With(map, id, v)[k] \in Text
    BY DEF With
  <2>18. ExecuteReload => \A j \in jobs' : j.kind = "reload" /\ j.pc = "post" => j.got \in ProjectFile
    BY <2>15 DEF ExecuteReload, Start
  <2> USE DEF ui
  (* Events.                                                                 *)
  <2>20. CASE OnAppStarted
    BY <2>0, <2>10, <2>13, <2>14, <2>15, <2>20 DEF OnAppStarted
  <2>21. CASE OnSource
    <3> DEFINE e == Head(channel)
    <3>1. e \in Event /\ e.id \in Id /\ e.text \in Text /\ channel' \in Seq(Event)
      BY <2>10, <2>11, <2>21 DEF OnSource
    <3>2. /\ sources' = With(sources, e.id, e.text)
          /\ parses' = IF e.text = 0 THEN parses ELSE Append(parses, <<e.id, e.text>>)
      BY <2>21 DEF OnSource
    <3> HIDE DEF e
    <3>3. parses' \in Seq(Id \X Text)
      BY <2>15, <3>1, <3>2
    <3>4. DOMAIN sources' \subseteq Id /\ \A id \in DOMAIN sources' : sources'[id] \in Text
      BY <2>15, <2>17, <3>1, <3>2
    <3> QED BY <2>0, <2>14, <2>15, <2>21, <3>1, <3>3, <3>4 DEF OnSource
  <2>22. CASE OnHighlightReady
    <3> DEFINE e == Head(channel)
    <3>1. e \in Event /\ e.id \in Id /\ e.text \in Text /\ channel' \in Seq(Event)
      BY <2>10, <2>11, <2>22 DEF OnHighlightReady
    <3>2. spans' = With(spans, e.id, e.text)
      BY <2>22 DEF OnHighlightReady
    <3> HIDE DEF e
    <3>3. DOMAIN spans' \subseteq Id /\ \A id \in DOMAIN spans' : spans'[id] \in Text
      BY <2>15, <2>17, <3>1, <3>2
    <3> QED BY <2>0, <2>14, <2>15, <2>22, <3>1, <3>3 DEF OnHighlightReady
  <2>23. CASE OnProjectLoaded
    <3>1. Head(channel) \in Event /\ Head(channel).got \in ProjectFile /\ channel' \in Seq(Event)
      BY <2>10, <2>11, <2>23 DEF OnProjectLoaded
    <3>2. loads' \subseteq Load /\ IsFiniteSet(loads')
      BY <2>13, <2>23, <3>1 DEF OnProjectLoaded
    <3>3. DOMAIN sources' = {}
      BY <2>23 DEF OnProjectLoaded
    <3> QED BY <2>0, <2>14, <2>15, <2>23, <3>1, <3>2, <3>3 DEF OnProjectLoaded
  <2>24. CASE OnProjectUnusable
    <3>1. Head(channel) \in Event /\ Head(channel).got \in ProjectFile /\ channel' \in Seq(Event)
      BY <2>10, <2>11, <2>24 DEF OnProjectUnusable
    <3> QED BY <2>0, <2>14, <2>15, <2>24, <3>1 DEF OnProjectUnusable
  <2>25. CASE OnDesignationsSaved
    BY <2>0, <2>10, <2>13, <2>14, <2>15, <2>25 DEF OnDesignationsSaved
  <2>26. CASE OnSaveFailed
    <3>1. File("malformed", {}) \in ProjectFile
      BY DEF ProjectFile, Unreadable
    <3> QED BY <2>0, <2>10, <2>14, <2>15, <2>26, <3>1 DEF OnSaveFailed
  <2>27. CASE OnTreeReady
    <3>1. Head(channel).id \in Id /\ Head(channel).tree \in {"error"} \cup Path /\ channel' \in Seq(Event)
      BY <2>10, <2>11, <2>27 DEF OnTreeReady
    <3>2. picker' = NoPicker \/ picker' \in Picker
      BY <2>15, <2>27, <3>1 DEF OnTreeReady, Picker
    <3> QED BY <2>0, <2>14, <2>15, <2>27, <3>1, <3>2 DEF OnTreeReady
  <2>28. CASE OnWriteBackSucceeded
    <3>1. channel' \in Seq(Event)
      BY <2>10, <2>28 DEF OnWriteBackSucceeded
    <3>2. \A p : Entry(project.lists, p) \in SUBSET Id
      BY <2>12, <2>15 DEF Entry
    <3>3. loads' \subseteq Load /\ IsFiniteSet(loads')
      BY <2>1, <2>3, <2>28, <3>2 DEF OnWriteBackSucceeded, ExecuteLoadSource
    <3> QED BY <2>0, <2>14, <2>15, <2>28, <3>1, <3>3 DEF OnWriteBackSucceeded
  <2>29. CASE OnProjectFileWritten
    <3>1. channel' \in Seq(Event)
      BY <2>10, <2>29 DEF OnProjectFileWritten
    <3> QED BY <2>0, <2>8, <2>14, <2>15, <2>18, <2>29, <3>1 DEF OnProjectFileWritten
  (* Keys.                                                                   *)
  <2>30. Move => moves' \in 0..MaxMoves /\ moves' + 1 \in Text
    BY <1>1, <2>15 DEF Move
  <2>31. CASE PressReload
    BY <2>0, <2>8, <2>14, <2>15, <2>18, <2>30, <2>31 DEF PressReload
  <2>32. ASSUME NEW id \in Id, PressSelect(id) PROVE TypeInv'
    <3>1. /\ parses' = Append(parses, <<id, sources[id]>>) /\ sources[id] \in Text
          /\ moves' \in 0..MaxMoves
      BY <2>15, <2>30, <2>32 DEF PressSelect
    <3>2. parses' \in Seq(Id \X Text)
      BY <2>15, <3>1
    <3> QED BY <2>0, <2>14, <2>15, <2>32, <3>1, <3>2 DEF PressSelect
  <2>33. ASSUME NEW id \in Id, PressPicker(id) PROVE TypeInv'
    <3>1. Marks(project.lists, id[1]) \in SUBSET Field
      BY <2>12, <2>15 DEF Marks, Entry, Id
    <3>2. picker' \in Picker
      BY <2>33, <3>1 DEF PressPicker, Picker
    <3>3. /\ [n |-> Number, kind |-> "tree", id |-> id] \in Job
          /\ Start([n |-> Number, kind |-> "tree", id |-> id])
      BY <2>4, <2>33 DEF Job, PressPicker
    <3>4. /\ jobs' \subseteq Job /\ IsFiniteSet(jobs')
          /\ \A j \in jobs' : j.kind = "reload" /\ j.pc = "post" => j.got \in ProjectFile
      BY <2>5, <2>16, <3>3
    <3> QED BY <2>0, <2>14, <2>15, <2>30, <2>33, <3>2, <3>4 DEF PressPicker
  <2>34. ASSUME NEW f \in Field, PressMark(f) PROVE TypeInv'
    <3>1. picker \in Picker
      BY <2>15, <2>34 DEF PressMark, Browsing
    <3>2. picker' \in Picker
      BY <2>34, <3>1 DEF PressMark, Picker
    <3> QED BY <2>0, <2>14, <2>15, <2>34, <3>2 DEF PressMark
  <2>35. CASE PressSave
    <3>1. moves' \in 0..MaxMoves /\ picker \in Picker
      BY <2>15, <2>30, <2>35 DEF PressSave, Browsing
    <3>2. CASE project.state = "loaded"
      <4> DEFINE lists == Applied(picker.marks, picker.id[1], project.lists)
                 job == [n |-> Number, kind |-> "save", pc |-> "read", lists |-> lists]
      <4>1. lists \in SUBSET Id
        BY <2>12, <2>15, <3>1 DEF Applied, Picker, Id
      <4>2. job \in Job /\ job.kind # "reload" /\ Start(job) /\ channel' = channel
        BY <2>4, <2>35, <3>2, <4>1 DEF Job, PressSave
      <4>3. /\ jobs' \subseteq Job /\ IsFiniteSet(jobs')
            /\ \A j \in jobs' : j.kind = "reload" /\ j.pc = "post" => j.got \in ProjectFile
        BY <2>5, <2>16, <4>2
      <4> QED BY <2>0, <2>14, <2>15, <2>35, <3>1, <4>2, <4>3 DEF PressSave
    <3>3. CASE project.state # "loaded"
      <4>1. [type |-> "designationsSaved"] \in Event
        BY DEF Event
      <4>2. channel' \in Seq(Event) /\ jobs' = jobs
        BY <2>9, <2>35, <3>3, <4>1 DEF PressSave
      <4> QED BY <2>0, <2>14, <2>15, <2>35, <3>1, <4>2 DEF PressSave
    <3> QED BY <3>2, <3>3
  <2>36. CASE PressEscape
    <3>1. picker' = NoPicker \/ picker' \in Picker
      BY <2>15, <2>36 DEF PressEscape, Picker
    <3> QED BY <2>0, <2>14, <2>15, <2>36, <3>1 DEF PressEscape
  <2>37. CASE AnswerDiscard
    <3>1. picker' = NoPicker \/ picker' \in Picker
      BY <2>15, <2>37 DEF AnswerDiscard, Picker
    <3> QED BY <2>0, <2>14, <2>15, <2>37, <3>1 DEF AnswerDiscard
  <2>38. CASE OpenForm
    BY <2>0, <2>14, <2>15, <2>38 DEF OpenForm
  <2>39. CASE SubmitForm
    <3>1. PICK chosen \in SUBSET Path :
            Start([n |-> Number, kind |-> "form", pc |-> "read", lists |-> chosen \X {Whole}])
      BY <2>39 DEF SubmitForm
    <3>2. [n |-> Number, kind |-> "form", pc |-> "read", lists |-> chosen \X {Whole}] \in Job
      BY <2>4 DEF Job, Id
    <3>3. /\ jobs' \subseteq Job /\ IsFiniteSet(jobs')
          /\ \A j \in jobs' : j.kind = "reload" /\ j.pc = "post" => j.got \in ProjectFile
      BY <2>5, <2>16, <3>1, <3>2
    <3> QED BY <2>0, <2>14, <2>15, <2>30, <2>39, <3>3 DEF SubmitForm
  <2>40. CASE CancelForm
    BY <2>0, <2>14, <2>15, <2>40 DEF CancelForm
  (* Tasks, and others.                                                      *)
  <2>41. ASSUME NEW t \in loads, ReadSource(t) PROVE TypeInv'
    <3>1. PICK new \in Load : loads' = (loads \ {t}) \cup {new}
      BY <1>3, <2>41, SourceIsRead
    <3>2. loads' \subseteq Load /\ IsFiniteSet(loads')
      BY <2>0, <3>1, FS_RemoveElement, FS_AddElement
    <3> QED BY <2>0, <2>14, <2>15, <2>41, <3>2 DEF ReadSource
  <2>42. ASSUME NEW t \in loads, PostSource(t) PROVE TypeInv'
    <3>1. PICK e \in Event :
            /\ channel' = Append(channel, e)
            /\ loads' = loads \ {t} \/ \E new \in Load : loads' = (loads \ {t}) \cup {new}
      BY <1>3, <2>42, SourcePosted
    <3>2. channel' \in Seq(Event)
      BY <2>15, <3>1
    <3>3. loads' \subseteq Load /\ IsFiniteSet(loads')
      <4>1. loads \ {t} \subseteq Load /\ IsFiniteSet(loads \ {t})
        BY <2>0, FS_RemoveElement
      <4>2. ASSUME NEW new \in Load
            PROVE  (loads \ {t}) \cup {new} \subseteq Load /\ IsFiniteSet((loads \ {t}) \cup {new})
        BY <4>1, FS_AddElement
      <4> QED BY <3>1, <4>1, <4>2
    <3> QED BY <2>0, <2>14, <2>15, <2>42, <3>2, <3>3 DEF PostSource
  <2>43. CASE Parse
    <3>1. Head(parses) \in Id \X Text /\ parses' \in Seq(Id \X Text)
      BY <2>15, <2>43 DEF Parse
    <3>2. [type |-> "highlightReady", id |-> Head(parses)[1], text |-> Head(parses)[2]] \in Event
      BY <3>1 DEF Event
    <3>3. channel' \in Seq(Event)
      BY <2>9, <2>43, <3>2 DEF Parse
    <3> QED BY <2>0, <2>14, <2>15, <2>43, <3>1, <3>3 DEF Parse
  <2>44. ASSUME NEW j, NEW new \in Job, Step(j, {new}), new.kind = "reload" => new.got \in ProjectFile
         PROVE  /\ jobs' \subseteq Job /\ IsFiniteSet(jobs')
                /\ \A k \in jobs' : k.kind = "reload" /\ k.pc = "post" => k.got \in ProjectFile
    <3>1. jobs' \subseteq Job /\ IsFiniteSet(jobs')
      BY <2>7, <2>44, FS_Singleton
    <3> QED BY <2>15, <2>44, <3>1 DEF Step
  <2>45. ASSUME NEW j, Step(j, {})
         PROVE  /\ jobs' \subseteq Job /\ IsFiniteSet(jobs')
                /\ \A k \in jobs' : k.kind = "reload" /\ k.pc = "post" => k.got \in ProjectFile
    <3>1. jobs' \subseteq Job /\ IsFiniteSet(jobs')
      BY <2>7, <2>45, FS_EmptySet
    <3> QED BY <2>15, <2>45, <3>1 DEF Step
  <2>46. ASSUME NEW j \in jobs, ReadProject(j) PROVE TypeInv'
    <3> DEFINE got == IF toml = NoProject THEN File("malformed", {}) ELSE toml
               new == [j EXCEPT !.pc = "post", !.got = got]
    <3>1. got \in ProjectFile
      BY <2>15 DEF ProjectFile, Unreadable
    <3> HIDE DEF got
    <3>2. new \in Job /\ new.got \in ProjectFile
      BY <2>0, <2>46, <3>1 DEF ReadProject, Job
    <3>3. Step(j, {new})
      BY <2>46 DEF ReadProject, got
    <3> HIDE DEF new
    <3> QED BY <2>0, <2>14, <2>15, <2>44, <2>46, <3>2, <3>3 DEF ReadProject
  <2>47. ASSUME NEW j \in jobs, PostProject(j) PROVE TypeInv'
    <3>1. [type |-> "project", got |-> j.got] \in Event
      BY <2>15, <2>47 DEF PostProject, Event
    <3>2. channel' \in Seq(Event)
      BY <2>9, <2>47, <3>1 DEF PostProject
    <3> QED BY <2>0, <2>14, <2>15, <2>45, <2>47, <3>2 DEF PostProject
  <2>48. ASSUME NEW j \in jobs, j.kind \in {"save", "form"}, NEW pc \in {"write", "saved", "failed"}
         PROVE  [j EXCEPT !.pc = pc] \in Job /\ [j EXCEPT !.pc = pc].kind # "reload" /\ j.lists \in SUBSET Id
    BY <2>0, <2>48 DEF Job
  <2>49. ASSUME NEW j \in jobs, ReadForSave(j) PROVE TypeInv'
    <3>1. PICK pc \in {"write", "failed"} : Step(j, {[j EXCEPT !.pc = pc]})
      BY <2>49 DEF ReadForSave
    <3>2. j.kind \in {"save", "form"}
      BY <2>49 DEF ReadForSave
    <3>3. /\ jobs' \subseteq Job /\ IsFiniteSet(jobs')
          /\ \A k \in jobs' : k.kind = "reload" /\ k.pc = "post" => k.got \in ProjectFile
      BY <2>44, <2>48, <3>1, <3>2
    <3> QED BY <2>0, <2>14, <2>15, <2>49, <3>3 DEF ReadForSave
  <2>50. ASSUME NEW j \in jobs, WriteProject(j) PROVE TypeInv'
    <3>1. PICK pc \in {"saved", "failed"} : Step(j, {[j EXCEPT !.pc = pc]})
      BY <2>50 DEF WriteProject
    <3>2. j.kind \in {"save", "form"}
      BY <2>50 DEF WriteProject
    <3>3. /\ jobs' \subseteq Job /\ IsFiniteSet(jobs')
          /\ \A k \in jobs' : k.kind = "reload" /\ k.pc = "post" => k.got \in ProjectFile
      BY <2>44, <2>48, <3>1, <3>2
    <3>4. toml' \in ProjectFile \cup {NoProject}
      BY <2>15, <2>48, <2>50, <3>2 DEF WriteProject, ProjectFile
    <3> QED BY <2>0, <2>14, <2>15, <2>50, <3>3, <3>4 DEF WriteProject
  <2>51. ASSUME NEW j \in jobs, ReportSave(j) PROVE TypeInv'
    <3>1. /\ [type |-> "projectFileWritten", ok |-> j.pc = "saved"] \in Event
          /\ \A t \in {"designationsSaved", "saveFailed"} : [type |-> t] \in Event
      BY DEF Event
    <3>2. channel' \in Seq(Event)
      BY <2>9, <2>51, <3>1 DEF ReportSave
    <3> QED BY <2>0, <2>14, <2>15, <2>45, <2>51, <3>2 DEF ReportSave
  <2>52. ASSUME NEW j \in jobs, ReadTree(j) PROVE TypeInv'
    <3>1. j.id \in Id /\ j.id[1] \in Path
      BY <2>0, <2>52 DEF ReadTree, Job, Id
    <3>2. PICK tree \in {"error", j.id[1]} : channel' = Append(channel, [type |-> "treeReady", id |-> j.id, tree |-> tree])
      BY <2>52 DEF ReadTree
    <3>3. [type |-> "treeReady", id |-> j.id, tree |-> tree] \in Event
      BY <3>1 DEF Event
    <3>4. channel' \in Seq(Event)
      BY <2>9, <3>2, <3>3
    <3> QED BY <2>0, <2>14, <2>15, <2>45, <2>52, <3>4 DEF ReadTree
  <2>53. ASSUME NEW p \in Path, EditText(p) PROVE TypeInv'
    <3>1. 0 \in Text
      BY <1>1
    <3>2. disk' \in [Path -> Text]
      BY <2>15, <2>30, <2>53, <3>1 DEF EditText
    <3> QED BY <2>0, <2>14, <2>15, <2>30, <2>53, <3>2 DEF EditText
  <2>54. CASE EditProject
    <3>1. toml' \in ProjectFile
      BY <1>1, <2>54 DEF EditProject, ProjectFile
    <3> QED BY <2>0, <2>14, <2>15, <2>30, <2>54, <3>1 DEF EditProject
  <2>55. ASSUME NEW id \in Id, WriteBack(id) PROVE TypeInv'
    <3>1. [type |-> "writeBackSucceeded", id |-> id] \in Event
      BY DEF Event
    <3>2. channel' \in Seq(Event) /\ disk' \in [Path -> Text]
      BY <2>9, <2>15, <2>30, <2>55, <3>1 DEF WriteBack
    <3> QED BY <2>0, <2>14, <2>15, <2>30, <2>55, <3>2 DEF WriteBack
  <2>56. CASE UNCHANGED vars
    BY <2>0, <2>14, <2>15, <2>56 DEF vars
  <2>57. CASE Turn
    BY <2>20, <2>21, <2>22, <2>23, <2>24, <2>25, <2>26, <2>27, <2>28, <2>29, <2>57 DEF Turn
  <2>58. CASE Key
    BY <2>31, <2>32, <2>33, <2>34, <2>35, <2>36, <2>37, <2>38, <2>39, <2>40, <2>58 DEF Key
  <2>59. CASE Work
    BY <2>41, <2>42, <2>43, <2>46, <2>47, <2>49, <2>50, <2>51, <2>52, <2>59 DEF Work, LoadStep, JobStep
  <2>60. CASE Other
    BY <2>53, <2>54, <2>55, <2>60 DEF Other
  <2> QED BY <1>3, <2>56, <2>57, <2>58, <2>59, <2>60 DEF Next
<1> QED BY <1>2, <1>3, PTL DEF Spec
-----------------------------------------------------------------------------
(* The picker.                                                             *)

(* reducePickerTreeReady: whatever pickers were opened and left before,    *)
(* and whenever their Tasks answer, the tree in which the user marks       *)
(* fields is that of the file whose entry a save will change.              *)
THEOREM PickerKeepsItsFile == Spec => []PickerShowsItsFile
<1>1. Init => TreesKnown
  <2> SUFFICES ASSUME Init PROVE TreesKnown
    OBVIOUS
  <2>1. Len(channel) = 1 /\ channel[1].type = "appStarted" /\ picker = NoPicker
    BY DEF Init
  <2> QED BY <2>1 DEF TreesKnown, RightTree
<1>2. ASSUME TypeInv, TypeInv', TreesKnown, [Next]_vars PROVE TreesKnown'
  <2>1. /\ channel \in Seq(Event)
        /\ picker = NoPicker \/ picker \in Picker
        /\ \A j \in jobs : j \in Job
        /\ \A t \in loads : t \in Load
    BY <1>2 DEF TypeInv, TypeOK
  (* What the channel gains is no tree, or a tree of the right file.         *)
  <2>2. ASSUME \/ channel' = channel
               \/ channel # <<>> /\ channel' = Tail(channel)
               \/ \E e : channel' = Append(channel, e) /\ RightTree(e)
        PROVE  \A i \in 1..Len(channel') : RightTree(channel'[i])
    <3>1. CASE channel' = channel
      BY <1>2, <3>1 DEF TreesKnown
    <3>2. CASE channel # <<>> /\ channel' = Tail(channel)
      <4>1. /\ Len(channel') = Len(channel) - 1 /\ Len(channel) \in Nat
            /\ \A i \in 1..Len(channel') : channel'[i] = channel[i + 1]
        BY <2>1, <3>2
      <4> QED BY <1>2, <4>1 DEF TreesKnown
    <3>3. ASSUME NEW e, channel' = Append(channel, e), RightTree(e)
          PROVE  \A i \in 1..Len(channel') : RightTree(channel'[i])
      <4>1. /\ Len(channel') = Len(channel) + 1 /\ Len(channel) \in Nat /\ channel'[Len(channel) + 1] = e
            /\ \A i \in 1..Len(channel) : channel'[i] = channel[i]
        BY <2>1, <3>3
      <4> QED BY <1>2, <3>3, <4>1 DEF TreesKnown
    <3> QED BY <2>2, <3>1, <3>2, <3>3
  <2>3. UNCHANGED picker => (picker' # NoPicker => picker'.tree \in {"loading", "error", picker'.id[1]})
    BY <1>2 DEF TreesKnown
  <2> USE DEF Post, Handled, Receives, ui
  <2>4. CASE Turn /\ ~OnTreeReady /\ ~OnDesignationsSaved
    BY <2>2, <2>3, <2>4
       DEF TreesKnown, Turn, OnAppStarted, OnSource, OnHighlightReady, OnProjectLoaded, OnProjectUnusable,
           OnSaveFailed, OnWriteBackSucceeded, OnProjectFileWritten
  <2>5. CASE OnDesignationsSaved
    BY <2>2, <2>5 DEF OnDesignationsSaved, TreesKnown
  <2>6. CASE OnTreeReady
    <3>1. channel # <<>> /\ channel' = Tail(channel) /\ Head(channel) = channel[1] /\ 1 \in 1..Len(channel)
      BY <2>1, <2>6 DEF OnTreeReady
    <3>2. Head(channel).tree \in {"error", Head(channel).id[1]}
      BY <1>2, <2>6, <3>1 DEF OnTreeReady, TreesKnown, RightTree
    <3>3. \/ picker' = picker
          \/ /\ picker' = [picker EXCEPT !.tree = Head(channel).tree]
             /\ picker.id = Head(channel).id
      BY <2>6 DEF OnTreeReady
    <3>4. picker' # NoPicker => picker'.tree \in {"loading", "error", picker'.id[1]}
      <4>1. CASE picker' = picker
        BY <1>2, <4>1 DEF TreesKnown
      <4>2. CASE picker' # picker
        <5>1. picker # NoPicker
          BY <2>6, <4>2 DEF OnTreeReady
        <5>2. picker' = [picker EXCEPT !.tree = Head(channel).tree] /\ picker.id = Head(channel).id /\ picker \in Picker
          BY <2>1, <3>3, <4>2, <5>1
        <5>3. picker'.tree = Head(channel).tree /\ picker'.id = Head(channel).id
          BY <5>2 DEF Picker
        <5> QED BY <3>2, <5>3
      <4> QED BY <4>1, <4>2
    <3> QED BY <2>2, <3>1, <3>4 DEF TreesKnown
  <2>7. ASSUME NEW id \in Id, PressSelect(id) \/ PressPicker(id) PROVE TreesKnown'
    <3>1. channel' = channel
      BY <2>7 DEF PressSelect, PressPicker
    <3>2. picker' = picker \/ picker'.tree = "loading"
      BY <2>7 DEF PressSelect, PressPicker
    <3> QED BY <2>2, <2>3, <3>1, <3>2 DEF TreesKnown
  <2>8. ASSUME NEW f \in Field, PressMark(f) PROVE TreesKnown'
    <3>1. picker # NoPicker /\ picker'.tree = picker.tree /\ picker'.id = picker.id
      BY <2>1, <2>8 DEF PressMark, Browsing, Picker
    <3>2. channel' = channel
      BY <2>8 DEF PressMark
    <3> QED BY <1>2, <2>2, <3>1, <3>2 DEF TreesKnown
  <2>9. CASE PressEscape \/ AnswerDiscard
    <3>1. \/ picker' = NoPicker
          \/ picker # NoPicker /\ picker'.tree = picker.tree /\ picker'.id = picker.id
      BY <2>1, <2>9 DEF PressEscape, AnswerDiscard, Picker
    <3>2. channel' = channel
      BY <2>9 DEF PressEscape, AnswerDiscard
    <3> QED BY <1>2, <2>2, <3>1, <3>2 DEF TreesKnown
  <2>10. CASE PressReload \/ PressSave \/ OpenForm \/ SubmitForm \/ CancelForm
    BY <2>2, <2>3, <2>10 DEF PressReload, PressSave, OpenForm, SubmitForm, CancelForm, TreesKnown, RightTree
  <2>11. CASE Parse
    <3> DEFINE e == [type |-> "highlightReady", id |-> Head(parses)[1], text |-> Head(parses)[2]]
    <3>1. channel' = Append(channel, e) /\ UNCHANGED picker
      BY <2>11 DEF Parse
    <3>2. RightTree(e)
      BY DEF RightTree
    <3> HIDE DEF e
    <3>3. \A i \in 1..Len(channel') : RightTree(channel'[i])
      BY <2>2, <3>1, <3>2
    <3> QED BY <2>3, <3>1, <3>3 DEF TreesKnown
  <2>12. ASSUME NEW t \in loads, ReadSource(t) PROVE TreesKnown'
    BY <2>2, <2>3, <2>12 DEF ReadSource, TreesKnown
  <2>13. ASSUME NEW t \in loads, PostSource(t) PROVE TreesKnown'
    <3>1. PICK e \in Event : channel' = Append(channel, e) /\ e.type = "source"
      BY <1>2, <2>13, SourcePosted
    <3>2. UNCHANGED picker
      BY <2>13 DEF PostSource
    <3> QED BY <1>2, <2>1, <2>3, <3>1, <3>2 DEF TreesKnown, RightTree
  <2>14. ASSUME NEW j \in jobs, JobStep(j) PROVE TreesKnown'
    <3>1. UNCHANGED picker
      BY <2>14 DEF JobStep, ReadProject, PostProject, ReadForSave, WriteProject, ReportSave, ReadTree
    <3>2. \/ channel' = channel
          \/ \E e : channel' = Append(channel, e) /\ RightTree(e)
      <4>1. CASE ReadTree(j)
        <5>1. PICK tree \in {"error", j.id[1]} :
                channel' = Append(channel, [type |-> "treeReady", id |-> j.id, tree |-> tree])
          BY <4>1 DEF ReadTree
        <5> QED BY <5>1 DEF RightTree
      <4>2. CASE ReportSave(j)
        BY <4>2 DEF ReportSave, RightTree
      <4>3. CASE ReadProject(j) \/ PostProject(j) \/ ReadForSave(j) \/ WriteProject(j)
        BY <4>3 DEF ReadProject, PostProject, ReadForSave, WriteProject, RightTree
      <4> QED BY <2>14, <4>1, <4>2, <4>3 DEF JobStep
    <3>3. \A i \in 1..Len(channel') : RightTree(channel'[i])
      BY <2>2, <3>2
    <3> QED BY <2>3, <3>1, <3>3 DEF TreesKnown
  <2>15. CASE Other
    <3>1. UNCHANGED picker
      BY <2>15 DEF Other, EditProject, EditText, WriteBack
    <3>2. ASSUME NEW id \in Id, WriteBack(id)
          PROVE  channel' = Append(channel, [type |-> "writeBackSucceeded", id |-> id])
      BY <3>2 DEF WriteBack
    <3>3. \/ channel' = channel
          \/ \E id \in Id : channel' = Append(channel, [type |-> "writeBackSucceeded", id |-> id])
      BY <2>15, <3>2 DEF Other, EditProject, EditText
    <3>4. \A i \in 1..Len(channel') : RightTree(channel'[i])
      <4>1. CASE channel' = channel
        BY <2>2, <4>1
      <4>2. ASSUME NEW id \in Id, channel' = Append(channel, [type |-> "writeBackSucceeded", id |-> id])
            PROVE  \E e : channel' = Append(channel, e) /\ RightTree(e)
        BY <4>2 DEF RightTree
      <4> QED BY <2>2, <3>3, <4>1, <4>2
    <3> QED BY <2>3, <3>1, <3>4 DEF TreesKnown
  <2>16. CASE UNCHANGED vars
    BY <2>2, <2>3, <2>16 DEF vars, TreesKnown
  <2> QED BY <1>2, <2>4, <2>5, <2>6, <2>7, <2>8, <2>9, <2>10, <2>11, <2>12, <2>13, <2>14, <2>15, <2>16
          DEF Next, Turn, Key, Work, LoadStep
<1>3. TypeInv /\ TreesKnown => PickerShowsItsFile
  BY ProjectLoadAssumption DEF PickerShowsItsFile, TreesKnown, ProjectLoadAssumption
<1> QED BY <1>1, <1>2, <1>3, LoadTypesAreKept, PTL DEF Spec
-----------------------------------------------------------------------------
(* The colours.                                                            *)

(* Highlighter.swift, one serial queue: in whatever order the loads came   *)
(* in and whatever reloads, selections and write-backs asked for the same  *)
(* text again, the colours of a source are in the end those of the text    *)
(* that is shown.                                                          *)
THEOREM ColoursFollowTexts == Spec => []SpansFitText
<1>1. Init => ColoursFollow
  <2> SUFFICES ASSUME Init PROVE ColoursFollow
    OBVIOUS
  <2>1. DOMAIN sources = {}
    BY DEF Init
  <2> QED BY <2>1 DEF ColoursFollow
(* What becomes of the queue of the highlighter.                           *)
<1>2. ASSUME NEW q \in Seq(Id \X Text), NEW id \in Id, NEW v \in Text
      PROVE  LET p == Append(q, <<id, v>>)
             IN  /\ LastParse(p, id, v)
                 /\ \A other, w : other # id =>
                      /\ LastParse(q, other, w) => LastParse(p, other, w)
                      /\ NoParse(q, other) => NoParse(p, other)
  <2> DEFINE p == Append(q, <<id, v>>)
  <2>1. /\ Len(p) = Len(q) + 1 /\ Len(q) \in Nat /\ p[Len(q) + 1] = <<id, v>>
        /\ \A i \in 1..Len(q) : p[i] = q[i]
    OBVIOUS
  <2> HIDE DEF p
  <2>2. LastParse(p, id, v)
    BY <2>1 DEF LastParse
  <2>3. ASSUME NEW other, other # id, NEW w, LastParse(q, other, w) PROVE LastParse(p, other, w)
    <3>1. PICK i \in 1..Len(q) : q[i][1] = other /\ q[i][2] = w /\ \A k \in i + 1 .. Len(q) : q[k][1] # other
      BY <2>3 DEF LastParse
    <3>2. \A k \in i + 1 .. Len(p) : p[k][1] # other
      BY <2>1, <2>3, <3>1
    <3> QED BY <2>1, <3>1, <3>2 DEF LastParse
  <2>4. ASSUME NEW other, other # id, NoParse(q, other) PROVE NoParse(p, other)
    BY <2>1, <2>4 DEF NoParse
  <2> QED BY <2>2, <2>3, <2>4 DEF p
<1>3. ASSUME NEW q \in Seq(Id \X Text), q # <<>>, NEW id, NEW v
      PROVE  /\ NoParse(q, id) => NoParse(Tail(q), id) /\ Head(q)[1] # id
             /\ LastParse(q, id, v) =>
                  \/ LastParse(Tail(q), id, v)
                  \/ Head(q)[1] = id /\ Head(q)[2] = v /\ NoParse(Tail(q), id)
  <2>1. /\ Len(Tail(q)) = Len(q) - 1 /\ Len(q) \in Nat \ {0} /\ Head(q) = q[1]
        /\ \A i \in 1..Len(Tail(q)) : Tail(q)[i] = q[i + 1]
    BY <1>3
  <2>2. NoParse(q, id) => NoParse(Tail(q), id) /\ Head(q)[1] # id
    BY <2>1 DEF NoParse
  <2>3. ASSUME LastParse(q, id, v)
        PROVE  \/ LastParse(Tail(q), id, v)
               \/ Head(q)[1] = id /\ Head(q)[2] = v /\ NoParse(Tail(q), id)
    <3>1. PICK i \in 1..Len(q) : q[i][1] = id /\ q[i][2] = v /\ \A k \in i + 1 .. Len(q) : q[k][1] # id
      BY <2>3 DEF LastParse
    <3>2. CASE i = 1
      BY <2>1, <3>1, <3>2 DEF NoParse
    <3>3. CASE i # 1
      <4>1. i - 1 \in 1..Len(Tail(q)) /\ Tail(q)[i - 1] = q[i]
        BY <2>1, <3>1, <3>3
      <4>2. \A k \in (i - 1) + 1 .. Len(Tail(q)) : Tail(q)[k][1] # id
        BY <2>1, <3>1
      <4> QED BY <3>1, <4>1, <4>2 DEF LastParse
    <3> QED BY <3>2, <3>3
  <2> QED BY <2>2, <2>3
(* And of the channel.                                                     *)
<1>4. ASSUME NEW q \in Seq(Event), NEW es \in Seq(Event), NEW id, NEW v,
             \A i \in 1..Len(es) : ~Colours(es[i], id)
      PROVE  /\ NoColours(q, id) => NoColours(q \o es, id)
             /\ LastColours(q, id, v) => LastColours(q \o es, id, v)
  <2> DEFINE p == q \o es
  <2>1. /\ Len(p) = Len(q) + Len(es) /\ Len(q) \in Nat /\ Len(es) \in Nat
        /\ \A i \in 1..Len(q) : p[i] = q[i]
        /\ \A i \in Len(q) + 1 .. Len(p) : p[i] = es[i - Len(q)] /\ i - Len(q) \in 1..Len(es)
    OBVIOUS
  <2> HIDE DEF p
  <2>2. \A i \in Len(q) + 1 .. Len(p) : ~Colours(p[i], id)
    BY <1>4, <2>1
  <2>3. NoColours(q, id) => NoColours(p, id)
    BY <2>1, <2>2 DEF NoColours
  <2>4. ASSUME LastColours(q, id, v) PROVE LastColours(p, id, v)
    <3>1. PICK i \in 1..Len(q) : /\ Colours(q[i], id) /\ q[i].text = v
                                 /\ \A k \in i + 1 .. Len(q) : ~Colours(q[k], id)
      BY <2>4 DEF LastColours
    <3>2. \A k \in i + 1 .. Len(p) : ~Colours(p[k], id)
      BY <2>1, <2>2, <3>1
    <3> QED BY <2>1, <3>1, <3>2 DEF LastColours
  <2> QED BY <2>3, <2>4 DEF p
<1>5. ASSUME NEW q \in Seq(Event), NEW e \in Event, NEW id, Colours(e, id)
      PROVE  LastColours(Append(q, e), id, e.text)
  <2>1. /\ Len(Append(q, e)) = Len(q) + 1 /\ Len(q) \in Nat /\ Append(q, e)[Len(q) + 1] = e
    OBVIOUS
  <2> QED BY <1>5, <2>1 DEF LastColours
<1>6. ASSUME NEW q \in Seq(Event), q # <<>>, NEW id, NEW v
      PROVE  /\ NoColours(q, id) => NoColours(Tail(q), id) /\ ~Colours(Head(q), id)
             /\ LastColours(q, id, v) =>
                  \/ LastColours(Tail(q), id, v)
                  \/ Colours(Head(q), id) /\ Head(q).text = v /\ NoColours(Tail(q), id)
  <2>1. /\ Len(Tail(q)) = Len(q) - 1 /\ Len(q) \in Nat \ {0} /\ Head(q) = q[1]
        /\ \A i \in 1..Len(Tail(q)) : Tail(q)[i] = q[i + 1]
    BY <1>6
  <2>2. NoColours(q, id) => NoColours(Tail(q), id) /\ ~Colours(Head(q), id)
    BY <2>1 DEF NoColours
  <2>3. ASSUME LastColours(q, id, v)
        PROVE  \/ LastColours(Tail(q), id, v)
               \/ Colours(Head(q), id) /\ Head(q).text = v /\ NoColours(Tail(q), id)
    <3>1. PICK i \in 1..Len(q) : /\ Colours(q[i], id) /\ q[i].text = v
                                 /\ \A k \in i + 1 .. Len(q) : ~Colours(q[k], id)
      BY <2>3 DEF LastColours
    <3>2. CASE i = 1
      BY <2>1, <3>1, <3>2 DEF NoColours
    <3>3. CASE i # 1
      <4>1. i - 1 \in 1..Len(Tail(q)) /\ Tail(q)[i - 1] = q[i]
        BY <2>1, <3>1, <3>3
      <4>2. \A k \in (i - 1) + 1 .. Len(Tail(q)) : ~Colours(Tail(q)[k], id)
        BY <2>1, <3>1
      <4> QED BY <3>1, <4>1, <4>2 DEF LastColours
    <3> QED BY <3>2, <3>3
  <2> QED BY <2>2, <2>3
<1>7. ASSUME TypeInv, TypeInv', ColoursFollow, [Next]_vars PROVE ColoursFollow'
  <2> USE DEF Post, Handled, Receives, ui
  <2>1. /\ channel \in Seq(Event) /\ parses \in Seq(Id \X Text)
        /\ DOMAIN sources \subseteq Id /\ \A id \in DOMAIN sources : sources[id] \in Text
    BY <1>7 DEF TypeInv, TypeOK
  <2>2. channel # <<>> => Head(channel) \in Event
    BY <2>1
  (* A step of somebody else: the channel loses or gains other events.       *)
  <2>3. ASSUME UNCHANGED <<sources, spans, parses>>,
               \/ channel' = channel
               \/ channel # <<>> /\ channel' = Tail(channel) /\ Head(channel).type # "highlightReady"
               \/ \E es \in Seq(Event) :
                    channel' = channel \o es /\ \A i \in 1..Len(es) : es[i].type # "highlightReady"
        PROVE  ColoursFollow'
    <3>1. ASSUME NEW id, NEW v
          PROVE  /\ NoColours(channel, id) => NoColours(channel', id)
                 /\ LastColours(channel, id, v) => LastColours(channel', id, v)
      <4>1. CASE channel' = channel
        BY <4>1
      <4>2. CASE channel # <<>> /\ channel' = Tail(channel) /\ Head(channel).type # "highlightReady"
        BY <1>6, <2>1, <4>2 DEF Colours
      <4>3. ASSUME NEW es \in Seq(Event), channel' = channel \o es,
                   \A i \in 1..Len(es) : es[i].type # "highlightReady"
            PROVE  /\ NoColours(channel, id) => NoColours(channel', id)
                   /\ LastColours(channel, id, v) => LastColours(channel', id, v)
        <5>1. \A i \in 1..Len(es) : ~Colours(es[i], id)
          BY <4>3 DEF Colours
        <5> QED BY <1>4, <2>1, <4>3, <5>1
      <4> QED BY <2>3, <4>1, <4>2, <4>3
    <3> QED BY <1>7, <2>3, <3>1 DEF ColoursFollow, ColoursComing
  <2>4. ASSUME UNCHANGED <<sources, spans, parses>>, NEW e \in Event, channel' = Append(channel, e),
               e.type # "highlightReady"
        PROVE  ColoursFollow'
    <3>1. /\ <<e>> \in Seq(Event) /\ channel' = channel \o <<e>>
          /\ \A i \in 1..Len(<<e>>) : <<e>>[i].type # "highlightReady"
      BY <2>1, <2>4
    <3> QED BY <2>3, <2>4, <3>1
  (* Events.                                                                 *)
  <2>6. CASE OnSource
    <3> DEFINE e == Head(channel)
    <3>1. /\ channel # <<>> /\ channel' = Tail(channel) /\ e.type = "source" /\ UNCHANGED spans
          /\ sources' = With(sources, e.id, e.text)
          /\ parses' = IF e.text = 0 THEN parses ELSE Append(parses, <<e.id, e.text>>)
      BY <2>6 DEF OnSource
    <3>2. e.id \in Id /\ e.text \in Text
      BY <2>2, <3>1 DEF Event
    <3>3. \A id, v :
            /\ NoColours(channel, id) => NoColours(channel', id)
            /\ LastColours(channel, id, v) => LastColours(channel', id, v)
      BY <1>6, <2>1, <3>1 DEF Colours
    <3> HIDE DEF e
    <3>4. ASSUME NEW id \in DOMAIN sources', sources'[id] # 0 PROVE ColoursComing(id)'
      <4>1. CASE id = e.id
        <5>1. sources'[id] = e.text
          BY <3>1, <4>1 DEF With
        <5>2. LastParse(parses', id, sources'[id])
          BY <1>2, <2>1, <3>1, <3>2, <3>4, <4>1, <5>1
        <5> QED BY <5>2 DEF ColoursComing
      <4>2. CASE id # e.id
        <5>1. id \in DOMAIN sources /\ sources'[id] = sources[id]
          BY <3>1, <3>4, <4>2 DEF With
        <5>2. ColoursComing(id)
          BY <1>7, <3>4, <5>1 DEF ColoursFollow
        <5>3. /\ \A w : LastParse(parses, id, w) => LastParse(parses', id, w)
              /\ NoParse(parses, id) => NoParse(parses', id)
          BY <1>2, <2>1, <3>1, <3>2, <4>2
        <5>4. CASE LastParse(parses, id, sources[id])
          BY <5>1, <5>3, <5>4 DEF ColoursComing
        <5>5. CASE NoParse(parses, id) /\ LastColours(channel, id, sources[id])
          <6>1. NoParse(parses', id) /\ LastColours(channel', id, sources'[id])
            BY <3>3, <5>1, <5>3, <5>5
          <6> QED BY <6>1 DEF ColoursComing
        <5>6. CASE /\ NoParse(parses, id) /\ NoColours(channel, id)
                   /\ id \in DOMAIN spans /\ spans[id] = sources[id]
          <6>1. NoParse(parses', id) /\ NoColours(channel', id)
            BY <3>3, <5>3, <5>6
          <6> QED BY <3>1, <5>1, <5>6, <6>1 DEF ColoursComing
        <5> QED BY <5>2, <5>4, <5>5, <5>6 DEF ColoursComing
      <4> QED BY <4>1, <4>2
    <3> QED BY <3>4 DEF ColoursFollow
  <2>7. CASE OnHighlightReady
    <3> DEFINE e == Head(channel)
    <3>1. /\ channel # <<>> /\ channel' = Tail(channel) /\ e.type = "highlightReady"
          /\ spans' = With(spans, e.id, e.text) /\ UNCHANGED <<sources, parses>>
      BY <2>7 DEF OnHighlightReady
    <3>2. ASSUME NEW id \in DOMAIN sources, sources[id] # 0 PROVE ColoursComing(id)'
      <4>1. ColoursComing(id)
        BY <1>7, <3>2 DEF ColoursFollow
      <4>2. CASE LastParse(parses, id, sources[id])
        BY <3>1, <4>2 DEF ColoursComing
      <4>3. CASE NoParse(parses, id) /\ LastColours(channel, id, sources[id])
        <5>1. CASE LastColours(channel', id, sources[id])
          BY <3>1, <4>3, <5>1 DEF ColoursComing
        <5>2. CASE ~LastColours(channel', id, sources[id])
          <6>1. e.id = id /\ e.text = sources[id] /\ NoColours(channel', id)
            BY <1>6, <2>1, <3>1, <4>3, <5>2 DEF Colours
          <6>2. id \in DOMAIN spans' /\ spans'[id] = sources'[id]
            BY <3>1, <6>1 DEF With
          <6> QED BY <3>1, <4>3, <6>1, <6>2 DEF ColoursComing
        <5> QED BY <5>1, <5>2
      <4>4. CASE /\ NoParse(parses, id) /\ NoColours(channel, id)
                 /\ id \in DOMAIN spans /\ spans[id] = sources[id]
        <5>1. NoColours(channel', id) /\ e.id # id
          BY <1>6, <2>1, <3>1, <4>4 DEF Colours
        <5>2. id \in DOMAIN spans' /\ spans'[id] = sources'[id]
          BY <3>1, <4>4, <5>1 DEF With
        <5> QED BY <3>1, <4>4, <5>1, <5>2 DEF ColoursComing
      <4> QED BY <4>1, <4>2, <4>3, <4>4 DEF ColoursComing
    <3> QED BY <3>1, <3>2 DEF ColoursFollow
  <2>8. CASE OnProjectLoaded
    <3>1. DOMAIN sources' = {}
      BY <2>8 DEF OnProjectLoaded
    <3> QED BY <3>1 DEF ColoursFollow
  <2>9. CASE Turn /\ ~OnSource /\ ~OnHighlightReady /\ ~OnProjectLoaded
    BY <2>3, <2>9
       DEF Turn, OnAppStarted, OnProjectUnusable, OnDesignationsSaved, OnSaveFailed, OnTreeReady,
           OnWriteBackSucceeded, OnProjectFileWritten
  (* Keys.                                                                   *)
  <2>10. ASSUME NEW id \in Id, PressSelect(id) PROVE ColoursFollow'
    <3>1. /\ parses' = Append(parses, <<id, sources[id]>>) /\ id \in DOMAIN sources
          /\ UNCHANGED <<sources, spans, channel>>
      BY <2>10 DEF PressSelect
    <3>2. sources[id] \in Text
      BY <2>1, <3>1
    <3>3. LastParse(parses', id, sources[id])
      BY <1>2, <2>1, <3>1, <3>2
    <3>4. \A other, w : other # id =>
            /\ LastParse(parses, other, w) => LastParse(parses', other, w)
            /\ NoParse(parses, other) => NoParse(parses', other)
      BY <1>2, <2>1, <3>1, <3>2
    <3> QED BY <1>7, <3>1, <3>3, <3>4 DEF ColoursFollow, ColoursComing
  <2>11. ASSUME NEW id \in Id, PressPicker(id) PROVE ColoursFollow'
    BY <2>3, <2>11 DEF PressPicker
  <2>12. ASSUME NEW f \in Field, PressMark(f) PROVE ColoursFollow'
    BY <2>3, <2>12 DEF PressMark
  <2>13. CASE PressSave
    <3>1. [type |-> "designationsSaved"] \in Event
      BY DEF Event
    <3>2. UNCHANGED <<sources, spans, parses>>
      BY <2>13 DEF PressSave
    <3>3. channel' = channel \/ channel' = Append(channel, [type |-> "designationsSaved"])
      BY <2>13 DEF PressSave
    <3> QED BY <2>3, <2>4, <3>1, <3>2, <3>3
  <2>14. CASE PressReload \/ PressEscape \/ AnswerDiscard \/ OpenForm \/ SubmitForm \/ CancelForm
    BY <2>3, <2>14 DEF PressReload, PressEscape, AnswerDiscard, OpenForm, SubmitForm, CancelForm
  (* Tasks, and others.                                                      *)
  <2>15. CASE Parse
    <3> DEFINE h == Head(parses)
               e == [type |-> "highlightReady", id |-> h[1], text |-> h[2]]
    <3>1. /\ parses # <<>> /\ parses' = Tail(parses) /\ channel' = Append(channel, e)
          /\ UNCHANGED <<sources, spans>>
      BY <2>15 DEF Parse
    <3>2. e \in Event /\ Colours(e, h[1]) /\ e.text = h[2]
      BY <2>1, <3>1 DEF Event, Colours
    <3>3. <<e>> \in Seq(Event) /\ channel' = channel \o <<e>> /\ Len(<<e>>) = 1 /\ <<e>>[1] = e
      BY <2>1, <3>1, <3>2
    <3>4. \A id, v : id # h[1] =>
            /\ NoColours(channel, id) => NoColours(channel', id)
            /\ LastColours(channel, id, v) => LastColours(channel', id, v)
      <4>1. ASSUME NEW id, id # h[1] PROVE \A i \in 1..Len(<<e>>) : ~Colours(<<e>>[i], id)
        BY <3>2, <3>3, <4>1 DEF Colours
      <4> QED BY <1>4, <2>1, <3>3, <4>1
    <3>5. LastColours(channel', h[1], h[2])
      BY <1>5, <2>1, <3>1, <3>2
    <3> HIDE DEF h, e
    <3>6. ASSUME NEW id \in DOMAIN sources, sources[id] # 0 PROVE ColoursComing(id)'
      <4>1. ColoursComing(id)
        BY <1>7, <3>6 DEF ColoursFollow
      <4>2. CASE LastParse(parses, id, sources[id])
        <5>1. \/ LastParse(parses', id, sources[id])
              \/ h[1] = id /\ h[2] = sources[id] /\ NoParse(parses', id)
          BY <1>3, <2>1, <3>1, <4>2 DEF h
        <5> QED BY <3>1, <3>5, <5>1 DEF ColoursComing
      <4>3. CASE NoParse(parses, id)
        <5>1. NoParse(parses', id) /\ h[1] # id
          BY <1>3, <2>1, <3>1, <4>3 DEF h
        <5>2. ~LastParse(parses, id, sources[id])
          BY <4>3 DEF LastParse, NoParse
        <5> QED BY <3>1, <3>4, <4>1, <5>1, <5>2 DEF ColoursComing
      <4> QED BY <4>1, <4>2, <4>3 DEF ColoursComing
    <3> QED BY <3>1, <3>6 DEF ColoursFollow
  <2>16. ASSUME NEW t \in loads, ReadSource(t) PROVE ColoursFollow'
    BY <2>3, <2>16 DEF ReadSource
  <2>17. ASSUME NEW t \in loads, PostSource(t) PROVE ColoursFollow'
    <3>1. PICK e \in Event : channel' = Append(channel, e) /\ e.type = "source"
      BY <1>7, <2>17, SourcePosted
    <3>2. UNCHANGED <<sources, spans, parses>>
      BY <2>17 DEF PostSource
    <3>3. /\ <<e>> \in Seq(Event) /\ channel' = channel \o <<e>>
          /\ \A i \in 1..Len(<<e>>) : <<e>>[i].type = "source"
      BY <2>1, <3>1
    <3> QED BY <2>3, <3>2, <3>3
  <2>18. ASSUME NEW j \in jobs, JobStep(j) PROVE ColoursFollow'
    <3>1. UNCHANGED <<sources, spans, parses>>
      BY <2>18 DEF JobStep, ReadProject, PostProject, ReadForSave, WriteProject, ReportSave, ReadTree
    <3>2. channel' = channel \/ \E e : channel' = Append(channel, e) /\ e.type # "highlightReady"
      <4>1. CASE ReadTree(j)
        <5>1. PICK tree \in {"error", j.id[1]} :
                channel' = Append(channel, [type |-> "treeReady", id |-> j.id, tree |-> tree])
          BY <4>1 DEF ReadTree
        <5> QED BY <5>1
      <4>2. CASE ReportSave(j)
        BY <4>2 DEF ReportSave
      <4>3. CASE ReadProject(j) \/ PostProject(j) \/ ReadForSave(j) \/ WriteProject(j)
        BY <4>3 DEF ReadProject, PostProject, ReadForSave, WriteProject
      <4> QED BY <2>18, <4>1, <4>2, <4>3 DEF JobStep
    <3>3. ASSUME NEW e, channel' = Append(channel, e) PROVE e \in Event
      <4>1. channel' \in Seq(Event)
        BY <1>7 DEF TypeInv, TypeOK
      <4>2. Len(channel') = Len(channel) + 1 /\ Len(channel) \in Nat /\ channel'[Len(channel) + 1] = e
        BY <2>1, <3>3
      <4> QED BY <4>1, <4>2
    <3> QED BY <2>3, <2>4, <3>1, <3>2, <3>3
  <2>19. ASSUME NEW id \in Id, WriteBack(id) PROVE ColoursFollow'
    <3>1. [type |-> "writeBackSucceeded", id |-> id] \in Event
      BY DEF Event
    <3> QED BY <2>4, <2>19, <3>1 DEF WriteBack
  <2>20. ASSUME NEW p \in Path, EditText(p) PROVE ColoursFollow'
    BY <2>3, <2>20 DEF EditText
  <2>21. CASE EditProject
    BY <2>3, <2>21 DEF EditProject
  <2>22. CASE UNCHANGED vars
    BY <2>3, <2>22 DEF vars
  <2> QED BY <1>7, <2>6, <2>7, <2>8, <2>9, <2>10, <2>11, <2>12, <2>13, <2>14, <2>15, <2>16, <2>17, <2>18,
             <2>19, <2>20, <2>21, <2>22 DEF Next, Key, Work, LoadStep, Other
<1>8. ColoursFollow => SpansFitText
  BY DEF ColoursFollow, ColoursComing, SpansFitText, Quiet, LastParse, LastColours
<1> QED BY <1>1, <1>7, <1>8, LoadTypesAreKept, PTL DEF Spec
-----------------------------------------------------------------------------
(* The sources of the project.                                             *)

(* SourceStore.swift, executeReloadProject: however reloads, saves and     *)
(* write-backs cancelled or replaced each other's batches, once everything *)
(* has been delivered no source of the loaded project is left without an   *)
(* entry in the navigator.                                                 *)
THEOREM ProjectBecomesComplete == Spec => []LoadedProjectIsComplete
<1>1. Init => SourcesComing
  <2> SUFFICES ASSUME Init PROVE SourcesComing
    OBVIOUS
  <2>1. Len(channel) = 1 /\ channel[1].type = "appStarted" /\ jobs = {}
    BY DEF Init
  <2>2. launch = "empty" => project.state # "loaded"
    BY DEF Init, NoProject, File
  <2>3. HasEvent(channel, "appStarted") /\ ~HasEvent(channel, "project") /\ ~ReloadRuns
    BY <2>1 DEF HasEvent, ReloadRuns
  <2> QED BY <2>2, <2>3 DEF SourcesComing
(* What the channel has, when it loses its head or grows at its end.       *)
<1>2. ASSUME NEW q \in Seq(Event), q # <<>>
      PROVE  /\ \A type : HasEvent(q, type) => HasEvent(Tail(q), type) \/ Head(q).type = type
             /\ \A type : HasEvent(Tail(q), type) => HasEvent(q, type)
             /\ \A id : HasSource(q, id) => HasSource(Tail(q), id) \/ Tells(Head(q), id)
  <2>1. /\ Len(Tail(q)) = Len(q) - 1 /\ Len(q) \in Nat \ {0} /\ Head(q) = q[1]
        /\ \A i \in 1..Len(Tail(q)) : Tail(q)[i] = q[i + 1] /\ i + 1 \in 1..Len(q)
        /\ \A i \in 1..Len(q) : i # 1 => i - 1 \in 1..Len(Tail(q)) /\ Tail(q)[i - 1] = q[i]
    BY <1>2
  <2> DEFINE t == Tail(q)
  <2>2. /\ Head(q) = q[1]
        /\ \A i \in 1..Len(t) : \E j \in 1..Len(q) : t[i] = q[j]
        /\ \A i \in 1..Len(q) : q[i] = Head(q) \/ \E j \in 1..Len(t) : q[i] = t[j]
    BY <2>1
  <2> HIDE DEF t
  <2>3. \A type : HasEvent(q, type) => HasEvent(t, type) \/ Head(q).type = type
    BY <2>2 DEF HasEvent
  <2>4. \A type : HasEvent(t, type) => HasEvent(q, type)
    BY <2>2 DEF HasEvent
  <2>5. \A id : HasSource(q, id) => HasSource(t, id) \/ Tells(Head(q), id)
    BY <2>2 DEF HasSource
  <2> QED BY <2>3, <2>4, <2>5 DEF t
<1>3. ASSUME NEW q \in Seq(Event), NEW es \in Seq(Event)
      PROVE  /\ \A type : HasEvent(q \o es, type) <=> HasEvent(q, type) \/ HasEvent(es, type)
             /\ \A id : HasSource(q \o es, id) <=> HasSource(q, id) \/ HasSource(es, id)
  <2> DEFINE p == q \o es
  <2>1. /\ Len(p) = Len(q) + Len(es) /\ Len(q) \in Nat /\ Len(es) \in Nat
        /\ \A i \in 1..Len(q) : p[i] = q[i]
        /\ \A i \in Len(q) + 1 .. Len(p) : p[i] = es[i - Len(q)] /\ i - Len(q) \in 1..Len(es)
    OBVIOUS
  <2> HIDE DEF p
  <2>4. /\ \A i \in 1..Len(es) : p[Len(q) + i] = es[i] /\ Len(q) + i \in 1..Len(p)
        /\ \A i \in 1..Len(p) : i \in 1..Len(q) \/ i \in Len(q) + 1 .. Len(p)
        /\ \A i \in 1..Len(q) : i \in 1..Len(p)
    <3>1. ASSUME NEW i \in 1..Len(es) PROVE p[Len(q) + i] = es[i] /\ Len(q) + i \in 1..Len(p)
      <4>1. Len(q) + i \in Len(q) + 1 .. Len(p) /\ (Len(q) + i) - Len(q) = i
        BY <2>1
      <4> QED BY <2>1, <4>1
    <3> QED BY <2>1, <3>1
  <2>5. ASSUME NEW i \in 1..Len(p)
        PROVE  (\E j \in 1..Len(q) : p[i] = q[j]) \/ (\E j \in 1..Len(es) : p[i] = es[j])
    <3>1. CASE i \in 1..Len(q)
      BY <2>1, <3>1
    <3>2. CASE i \in Len(q) + 1 .. Len(p)
      BY <2>1, <3>2
    <3> QED BY <2>4, <3>1, <3>2
  <2>6. ASSUME NEW i \in 1..Len(q) PROVE \E j \in 1..Len(p) : p[j] = q[i]
    BY <2>1, <2>4
  <2>7. ASSUME NEW i \in 1..Len(es) PROVE \E j \in 1..Len(p) : p[j] = es[i]
    BY <2>4
  <2>2. ASSUME NEW type PROVE HasEvent(p, type) <=> HasEvent(q, type) \/ HasEvent(es, type)
    <3>1. ASSUME HasEvent(p, type) PROVE HasEvent(q, type) \/ HasEvent(es, type)
      <4>1. PICK i \in 1..Len(p) : p[i].type = type
        BY <3>1 DEF HasEvent
      <4> QED BY <2>5, <4>1, Zenon DEF HasEvent
    <3>2. ASSUME HasEvent(q, type) PROVE HasEvent(p, type)
      <4>1. PICK i \in 1..Len(q) : q[i].type = type
        BY <3>2 DEF HasEvent
      <4> QED BY <2>6, <4>1, Zenon DEF HasEvent
    <3>3. ASSUME HasEvent(es, type) PROVE HasEvent(p, type)
      <4>1. PICK i \in 1..Len(es) : es[i].type = type
        BY <3>3 DEF HasEvent
      <4> QED BY <2>7, <4>1, Zenon DEF HasEvent
    <3> QED BY <3>1, <3>2, <3>3
  <2>3. \A id : HasSource(p, id) <=> HasSource(q, id) \/ HasSource(es, id)
    BY <2>5, <2>6, <2>7 DEF HasSource
  <2> QED BY <2>2, <2>3 DEF p
<1>4. ASSUME TypeInv, TypeInv', SourcesComing, [Next]_vars PROVE SourcesComing'
  <2> USE DEF Post, Handled, Receives, ui
  <2>1. /\ channel \in Seq(Event) /\ channel' \in Seq(Event)
        /\ loads \subseteq Load /\ jobs \subseteq Job
        /\ launch \in {"project", "quickFile", "empty"}
        /\ project.lists \in SUBSET Id
    <3>1. project.lists \in SUBSET Id
      BY <1>4 DEF TypeInv, TypeOK, ProjectFile, NoProject, Unreadable, File
    <3> QED BY <1>4, <3>1 DEF TypeInv, TypeOK
  <2>2. \A e \in Event : \A id, type :
          /\ HasEvent(channel, type) => HasEvent(Append(channel, e), type)
          /\ HasEvent(Append(channel, e), type) => HasEvent(channel, type) \/ e.type = type
          /\ HasSource(channel, id) => HasSource(Append(channel, e), id)
    <3>1. ASSUME NEW e \in Event
          PROVE  /\ <<e>> \in Seq(Event) /\ channel \o <<e>> = Append(channel, e)
                 /\ \A type : HasEvent(<<e>>, type) => e.type = type
      BY <2>1 DEF HasEvent
    <3>2. ASSUME NEW e \in Event, NEW id, NEW type
          PROVE  /\ HasEvent(channel, type) => HasEvent(Append(channel, e), type)
                 /\ HasEvent(Append(channel, e), type) => HasEvent(channel, type) \/ e.type = type
                 /\ HasSource(channel, id) => HasSource(Append(channel, e), id)
      <4>1. /\ HasEvent(channel \o <<e>>, type) <=> HasEvent(channel, type) \/ HasEvent(<<e>>, type)
            /\ HasSource(channel \o <<e>>, id) <=> HasSource(channel, id) \/ HasSource(<<e>>, id)
        BY <1>3, <2>1, <3>1
      <4> QED BY <3>1, <4>1
    <3> QED BY <3>2
  (* LoadAll goes on with what runs, and begins a Task for every entry.      *)
  <2>3. ASSUME NEW lists \in SUBSET Id, LoadAll(lists)
        PROVE  /\ \A id : (\E t \in loads : Reports(t, id)) => \E t \in loads' : Reports(t, id)
               /\ \A id \in lists : \E t \in loads' : Reports(t, id)
    <3>1. ASSUME NEW id, NEW t \in loads, Reports(t, id) PROVE \E u \in loads' : Reports(u, id)
      <4> DEFINE u == [t EXCEPT !.held = FALSE]
      <4>1. u \in loads'
        BY <2>3 DEF LoadAll
      <4>2. u.entry = t.entry /\ u.path = t.path /\ u.out = t.out
        BY <2>1 DEF Load
      <4> QED BY <3>1, <4>1, <4>2 DEF Reports
    <3>2. ASSUME NEW id \in lists PROVE \E u \in loads' : Reports(u, id)
      <4> DEFINE u == [batch |-> Fresh({t.batch : t \in loads}), path |-> id[1],
                       entry |-> Entry(lists, id[1]), held |-> TRUE, out |-> <<>>]
      <4>1. u \in loads'
        BY <2>3 DEF LoadAll, Listed
      <4>2. Reports(u, id)
        BY DEF Reports, Entry
      <4> QED BY <4>1, <4>2
    <3> QED BY <3>1, <3>2
  (* A step that takes nothing away of what is coming.                       *)
  <2>4. ASSUME UNCHANGED <<launch, project, sources>>, ReloadRuns' <=> ReloadRuns,
               \A id : (\E t \in loads : Reports(t, id)) => \E t \in loads' : Reports(t, id),
               \/ channel' = channel
               \/ /\ channel # <<>> /\ channel' = Tail(channel)
                  /\ Head(channel).type \notin {"source", "project", "appStarted"}
               \/ \E e \in Event : channel' = Append(channel, e) /\ e.type # "project"
        PROVE  SourcesComing'
    <3>1. /\ HasEvent(channel, "project") <=> HasEvent(channel', "project")
          /\ HasEvent(channel, "appStarted") => HasEvent(channel', "appStarted")
          /\ \A id : HasSource(channel, id) => HasSource(channel', id)
      <4>1. CASE channel' = channel
        BY <4>1
      <4>2. CASE /\ channel # <<>> /\ channel' = Tail(channel)
                 /\ Head(channel).type \notin {"source", "project", "appStarted"}
        BY <1>2, <2>1, <4>2 DEF Tells
      <4>3. ASSUME NEW e \in Event, channel' = Append(channel, e), e.type # "project"
            PROVE  /\ HasEvent(channel, "project") <=> HasEvent(channel', "project")
                   /\ HasEvent(channel, "appStarted") => HasEvent(channel', "appStarted")
                   /\ \A id : HasSource(channel, id) => HasSource(channel', id)
        BY <2>2, <4>3
      <4> QED BY <2>4, <4>1, <4>2, <4>3
    <3>2. AllCovered => AllCovered'
      BY <2>4, <3>1 DEF AllCovered, Covered
    <3> QED BY <1>4, <2>4, <3>1, <3>2 DEF SourcesComing
  <2>5. UNCHANGED loads => \A id : (\E t \in loads : Reports(t, id)) => \E t \in loads' : Reports(t, id)
    OBVIOUS
  <2>6. UNCHANGED jobs => (ReloadRuns' <=> ReloadRuns)
    BY DEF ReloadRuns
  <2>7. ASSUME NEW job, job.kind # "reload", Start(job) PROVE ReloadRuns' <=> ReloadRuns
    BY <2>7 DEF ReloadRuns, Start
  <2>8. ASSUME ExecuteReload, launch' # "empty" PROVE SourcesComing'
    <3>1. ReloadRuns'
      <4> DEFINE job == [n |-> Number, kind |-> "reload", pc |-> "read", got |-> NoProject]
      <4>1. job \in jobs' /\ job.kind = "reload"
        BY <2>8 DEF ExecuteReload, Start
      <4> QED BY <4>1 DEF ReloadRuns
    <3> QED BY <2>8, <3>1 DEF SourcesComing
  <2>9. channel # <<>> => Head(channel) \in Event
    BY <2>1
  (* Events.                                                                 *)
  <2>10. CASE OnAppStarted
    <3>1. /\ channel # <<>> /\ channel' = Tail(channel) /\ Head(channel).type = "appStarted"
          /\ UNCHANGED <<launch, project, sources, jobs>> /\ ExecuteLoadSources(project)
      BY <2>10 DEF OnAppStarted
    <3>2. HasEvent(channel', "project") => HasEvent(channel, "project")
      BY <1>2, <2>1, <3>1
    <3>3. ASSUME project.state = "loaded" PROVE AllCovered'
      <4>1. LoadAll(project.lists)
        BY <1>4, <3>1, <3>3 DEF SourcesComing, ExecuteLoadSources
      <4> QED BY <2>1, <2>3, <3>1, <4>1 DEF AllCovered, Covered
    <3> QED BY <1>4, <2>6, <3>1, <3>2, <3>3 DEF SourcesComing
  <2>11. CASE OnSource
    <3>1. /\ channel # <<>> /\ channel' = Tail(channel) /\ Head(channel).type = "source"
          /\ UNCHANGED <<launch, project, jobs, loads>>
          /\ sources' = With(sources, Head(channel).id, Head(channel).text)
      BY <2>11 DEF OnSource
    <3>2. /\ HasEvent(channel', "project") <=> HasEvent(channel, "project")
          /\ HasEvent(channel, "appStarted") => HasEvent(channel', "appStarted")
      BY <1>2, <2>1, <3>1
    <3>3. ASSUME NEW id, Covered(id) PROVE Covered(id)'
      <4>1. DOMAIN sources' = DOMAIN sources \cup {Head(channel).id}
        BY <3>1 DEF With
      <4>2. HasSource(channel, id) => HasSource(channel', id) \/ Head(channel).id \in Speaks(id)
        BY <1>2, <2>1, <3>1 DEF Tells
      <4> QED BY <3>1, <3>3, <4>1, <4>2 DEF Covered
    <3>4. AllCovered => AllCovered'
      BY <3>1, <3>3 DEF AllCovered
    <3> QED BY <1>4, <2>6, <3>1, <3>2, <3>4 DEF SourcesComing
  <2>12. CASE OnHighlightReady \/ OnTreeReady
    BY <2>4, <2>5, <2>6, <2>12 DEF OnHighlightReady, OnTreeReady
  <2>13. CASE OnProjectLoaded
    <3>1. /\ channel # <<>> /\ channel' = Tail(channel) /\ Head(channel).type = "project"
          /\ Head(channel).got.state = "loaded" /\ UNCHANGED launch
          /\ project' = Head(channel).got /\ ExecuteLoadSources(Head(channel).got)
      BY <2>13 DEF OnProjectLoaded
    <3>2. launch # "empty"
      <4>1. Head(channel) = channel[1] /\ 1 \in 1..Len(channel)
        BY <2>1, <3>1
      <4>2. HasEvent(channel, "project")
        BY <3>1, <4>1 DEF HasEvent
      <4> QED BY <1>4, <4>2 DEF SourcesComing
    <3>3. project'.lists \in SUBSET Id
      BY <1>4 DEF TypeInv, TypeOK, ProjectFile, NoProject, Unreadable, File
    <3>4. LoadAll(project'.lists)
      BY <3>1, <3>2 DEF ExecuteLoadSources
    <3>5. AllCovered'
      BY <2>3, <3>3, <3>4 DEF AllCovered, Covered
    <3> QED BY <3>1, <3>2, <3>5 DEF SourcesComing
  <2>14. CASE OnProjectUnusable \/ OnSaveFailed
    <3>1. /\ channel # <<>> /\ channel' = Tail(channel) /\ UNCHANGED <<launch, jobs>>
          /\ project'.state # "loaded"
      BY <2>14 DEF OnProjectUnusable, OnSaveFailed, File
    <3>2. HasEvent(channel', "project") => HasEvent(channel, "project")
      BY <1>2, <2>1, <3>1
    <3> QED BY <1>4, <2>6, <3>1, <3>2 DEF SourcesComing
  <2>15. CASE OnDesignationsSaved \/ OnWriteBackSucceeded
    <3>1. \A p : Entry(project.lists, p) \in SUBSET Id
      BY <2>1 DEF Entry
    <3>2. \A id : (\E t \in loads : Reports(t, id)) => \E t \in loads' : Reports(t, id)
      BY <2>1, <2>3, <2>5, <2>15, <3>1
         DEF OnDesignationsSaved, OnWriteBackSucceeded, ExecuteLoadSources, ExecuteLoadSource
    <3> QED BY <2>4, <2>6, <2>15, <3>2 DEF OnDesignationsSaved, OnWriteBackSucceeded
  <2>16. CASE OnProjectFileWritten
    <3>1. CASE form /\ Head(channel).ok
      BY <2>8, <2>16, <3>1 DEF OnProjectFileWritten
    <3>2. CASE ~(form /\ Head(channel).ok)
      BY <2>4, <2>5, <2>6, <2>16, <3>2 DEF OnProjectFileWritten
    <3> QED BY <3>1, <3>2
  (* Keys.                                                                   *)
  <2>17. CASE PressReload
    BY <2>8, <2>17 DEF PressReload
  <2>18. ASSUME NEW id \in Id, PressSelect(id) PROVE SourcesComing'
    BY <2>4, <2>5, <2>6, <2>18 DEF PressSelect
  <2>19. ASSUME NEW id \in Id, PressPicker(id) PROVE SourcesComing'
    <3>1. ReloadRuns' <=> ReloadRuns
      BY <2>7, <2>19 DEF PressPicker
    <3> QED BY <2>4, <2>5, <2>19, <3>1 DEF PressPicker
  <2>20. CASE PressSave
    <3>1. CASE project.state = "loaded"
      <4>1. ReloadRuns' <=> ReloadRuns
        BY <2>7, <2>20, <3>1 DEF PressSave
      <4> QED BY <2>4, <2>5, <2>20, <3>1, <4>1 DEF PressSave
    <3>2. CASE project.state # "loaded"
      <4>1. [type |-> "designationsSaved"] \in Event
        BY DEF Event
      <4>2. /\ UNCHANGED <<launch, project, sources, loads, jobs>>
            /\ channel' = Append(channel, [type |-> "designationsSaved"])
        BY <2>20, <3>2 DEF PressSave
      <4> QED BY <2>4, <2>5, <2>6, <4>1, <4>2
    <3> QED BY <3>1, <3>2
  <2>21. CASE SubmitForm
    <3>1. ReloadRuns' <=> ReloadRuns
      BY <2>7, <2>21 DEF SubmitForm
    <3> QED BY <2>4, <2>5, <2>21, <3>1 DEF SubmitForm
  <2>22. ASSUME \/ \E f \in Field : PressMark(f)
                \/ PressEscape \/ AnswerDiscard \/ OpenForm \/ CancelForm
         PROVE  SourcesComing'
    BY <2>4, <2>5, <2>6, <2>22 DEF PressMark, PressEscape, AnswerDiscard, OpenForm, CancelForm
  (* Tasks, and others.                                                      *)
  <2>23. CASE Parse
    <3> DEFINE e == [type |-> "highlightReady", id |-> Head(parses)[1], text |-> Head(parses)[2]]
    <3>1. channel' = Append(channel, e) /\ UNCHANGED <<launch, project, sources, loads, jobs>>
      BY <2>23 DEF Parse
    <3>2. e \in Event /\ e.type # "project"
      <4>1. Head(parses) \in Id \X Text
        BY <1>4, <2>23 DEF Parse, TypeInv, TypeOK
      <4> QED BY <4>1 DEF Event
    <3> HIDE DEF e
    <3> QED BY <2>4, <2>5, <2>6, <3>1, <3>2
  <2>24. ASSUME NEW t \in loads, ReadSource(t) PROVE SourcesComing'
    <3>1. PICK new \in Load :
            /\ loads' = (loads \ {t}) \cup {new}
            /\ new.entry = t.entry /\ new.path = t.path
            /\ \A id \in IF disk[t.path] = 0 THEN {<<t.path, Whole>>} ELSE t.entry :
                 \E i \in 1..Len(new.out) : new.out[i][1] = id
      BY <1>4, <2>24, SourceIsRead
    <3>2. ASSUME NEW id, Reports(t, id) PROVE Reports(new, id)
      <4>1. id \in new.entry /\ new.path = id[1]
        BY <3>1, <3>2 DEF Reports
      <4>2. \E i \in 1..Len(new.out) : new.out[i][1] \in Speaks(id)
        BY <3>1, <3>2, <4>1 DEF Reports, Speaks
      <4> QED BY <4>1, <4>2 DEF Reports
    <3>3. \A id : (\E u \in loads : Reports(u, id)) => \E u \in loads' : Reports(u, id)
      BY <3>1, <3>2
    <3> QED BY <2>4, <2>6, <2>24, <3>3 DEF ReadSource
  <2>25. ASSUME NEW t \in loads, PostSource(t) PROVE SourcesComing'
    <3>1. PICK e \in Event :
            /\ channel' = Append(channel, e)
            /\ e.type = "source" /\ e.id = t.out[1][1]
            /\ \/ Len(t.out) = 1 /\ loads' = loads \ {t}
               \/ \E new \in Load :
                    /\ loads' = (loads \ {t}) \cup {new}
                    /\ new.entry = t.entry /\ new.path = t.path
                    /\ \A i \in 1..Len(t.out) :
                         i # 1 => i - 1 \in 1..Len(new.out) /\ new.out[i - 1] = t.out[i]
      BY <1>4, <2>25, SourcePosted
    <3> DEFINE es == <<e>>
    <3>2. /\ es \in Seq(Event) /\ channel' = channel \o es
          /\ 1 \in 1..Len(es) /\ es[1] = e /\ \A i \in 1..Len(es) : es[i] = e
      BY <2>1, <3>1
    <3> HIDE DEF es
    <3>3. UNCHANGED <<launch, project, sources, jobs>> /\ t.out # <<>>
      BY <2>25 DEF PostSource
    <3>4. ~HasEvent(es, "project") /\ ~HasEvent(es, "appStarted")
      BY <3>1, <3>2 DEF HasEvent
    <3>5. /\ \A type : HasEvent(channel', type) <=> HasEvent(channel, type) \/ HasEvent(es, type)
          /\ \A id : HasSource(channel', id) <=> HasSource(channel, id) \/ HasSource(es, id)
      BY <1>3, <2>1, <3>2
    <3>6. ASSUME NEW id, Covered(id) PROVE Covered(id)'
      <4>1. CASE HasSource(channel, id) \/ Speaks(id) \cap DOMAIN sources # {}
        BY <3>3, <3>5, <4>1 DEF Covered
      <4>2. ASSUME NEW u \in loads, Reports(u, id), u # t PROVE Covered(id)'
        <5>1. u \in loads'
          BY <3>1, <4>2
        <5> QED BY <4>2, <5>1 DEF Covered
      <4>3. CASE Reports(t, id)
        <5>1. PICK i \in 1..Len(t.out) : t.out[i][1] \in Speaks(id)
          BY <3>3, <4>3 DEF Reports
        <5>2. CASE i = 1
          <6>1. HasSource(es, id)
            BY <3>1, <3>2, <5>1, <5>2 DEF HasSource, Tells
          <6> QED BY <3>5, <6>1 DEF Covered
        <5>3. CASE i # 1
          <6>1. Len(t.out) # 1
            BY <5>1, <5>3
          <6>2. PICK new \in Load :
                  /\ loads' = (loads \ {t}) \cup {new}
                  /\ new.entry = t.entry /\ new.path = t.path
                  /\ i - 1 \in 1..Len(new.out) /\ new.out[i - 1] = t.out[i]
            BY <3>1, <5>1, <5>3, <6>1
          <6>3. Reports(new, id) /\ new \in loads'
            BY <4>3, <5>1, <6>2 DEF Reports
          <6> QED BY <6>3 DEF Covered
        <5> QED BY <5>2, <5>3
      <4> QED BY <3>6, <4>1, <4>2, <4>3 DEF Covered
    <3>7. AllCovered => AllCovered'
      BY <3>3, <3>6 DEF AllCovered
    <3> QED BY <1>4, <2>6, <3>3, <3>4, <3>5, <3>7 DEF SourcesComing
  <2>26. ASSUME NEW j \in jobs, ReadProject(j) PROVE SourcesComing'
    <3>1. ReloadRuns' <=> ReloadRuns
      <4> DEFINE got == IF toml = NoProject THEN File("malformed", {}) ELSE toml
                 new == [j EXCEPT !.pc = "post", !.got = got]
      <4>1. j.kind = "reload" /\ jobs' = (jobs \ {j}) \cup {new} /\ j \in Job
        BY <2>1, <2>26 DEF ReadProject, Step
      <4> HIDE DEF got
      <4>2. new.kind = "reload"
        BY <4>1 DEF Job
      <4> QED BY <4>1, <4>2 DEF ReloadRuns
    <3> QED BY <2>4, <2>5, <2>26, <3>1 DEF ReadProject
  <2>27. ASSUME NEW j \in jobs, PostProject(j) PROVE SourcesComing'
    <3> DEFINE e == [type |-> "project", got |-> j.got]
    <3>1. /\ channel' = Append(channel, e) /\ j.kind = "reload"
          /\ UNCHANGED <<launch, project, sources, loads>>
      BY <2>27 DEF PostProject
    <3>2. Len(channel') = Len(channel) + 1 /\ Len(channel) \in Nat /\ channel'[Len(channel) + 1] = e
      BY <2>1, <3>1
    <3>3. HasEvent(channel', "project")
      BY <3>2 DEF HasEvent
    <3>4. ReloadRuns
      BY <3>1 DEF ReloadRuns
    <3> QED BY <1>4, <3>1, <3>3, <3>4 DEF SourcesComing
  <2>28. ASSUME NEW j \in jobs, ReadForSave(j) \/ WriteProject(j) PROVE SourcesComing'
    <3>1. PICK pc \in {"write", "failed", "saved"} : Step(j, {[j EXCEPT !.pc = pc]})
      BY <2>28 DEF ReadForSave, WriteProject
    <3>2. j \in Job /\ j.kind # "reload" /\ [j EXCEPT !.pc = pc].kind # "reload"
      BY <2>1, <2>28 DEF ReadForSave, WriteProject, Job
    <3>3. ReloadRuns' <=> ReloadRuns
      BY <3>1, <3>2 DEF ReloadRuns, Step
    <3> QED BY <2>4, <2>5, <2>28, <3>3 DEF ReadForSave, WriteProject
  <2>29. ASSUME NEW j \in jobs, ReportSave(j) \/ ReadTree(j) PROVE SourcesComing'
    <3>1. /\ j.kind # "reload" /\ jobs' = jobs \ {j}
          /\ UNCHANGED <<launch, project, sources, loads>>
      BY <2>29 DEF ReportSave, ReadTree, Step
    <3>2. ReloadRuns' <=> ReloadRuns
      BY <3>1 DEF ReloadRuns
    <3>3. \E e : channel' = Append(channel, e) /\ e.type # "project"
      <4>1. CASE ReadTree(j)
        <5>1. PICK tree \in {"error", j.id[1]} :
                channel' = Append(channel, [type |-> "treeReady", id |-> j.id, tree |-> tree])
          BY <4>1 DEF ReadTree
        <5> QED BY <5>1
      <4>2. CASE ReportSave(j)
        BY <4>2 DEF ReportSave
      <4> QED BY <2>29, <4>1, <4>2
    <3>4. ASSUME NEW e, channel' = Append(channel, e) PROVE e \in Event
      <4>1. Len(channel') = Len(channel) + 1 /\ Len(channel) \in Nat /\ channel'[Len(channel) + 1] = e
        BY <2>1, <3>4
      <4> QED BY <2>1, <4>1
    <3> QED BY <2>4, <2>5, <3>1, <3>2, <3>3, <3>4
  <2>30. ASSUME NEW id \in Id, WriteBack(id) PROVE SourcesComing'
    <3>1. [type |-> "writeBackSucceeded", id |-> id] \in Event
      BY DEF Event
    <3>2. /\ UNCHANGED <<launch, project, sources, loads, jobs>>
          /\ channel' = Append(channel, [type |-> "writeBackSucceeded", id |-> id])
      BY <2>30 DEF WriteBack
    <3> QED BY <2>4, <2>5, <2>6, <3>1, <3>2
  <2>31. ASSUME EditProject \/ \E p \in Path : EditText(p) PROVE SourcesComing'
    BY <2>4, <2>5, <2>6, <2>31 DEF EditProject, EditText
  <2>32. CASE UNCHANGED vars
    BY <2>4, <2>5, <2>6, <2>32 DEF vars
  <2> QED BY <1>4, <2>10, <2>11, <2>12, <2>13, <2>14, <2>15, <2>16, <2>17, <2>18, <2>19, <2>20, <2>21,
             <2>22, <2>23, <2>24, <2>25, <2>26, <2>27, <2>28, <2>29, <2>30, <2>31, <2>32
          DEF Next, Turn, Key, Work, LoadStep, JobStep, Other
<1>5. ASSUME TypeInv, SourcesComing PROVE LoadedProjectIsComplete
  <2> SUFFICES ASSUME Quiet, project.state = "loaded", NEW id \in project.lists
               PROVE  id \in DOMAIN sources \/ <<id[1], Whole>> \in DOMAIN sources
    BY DEF LoadedProjectIsComplete
  <2>1. channel = <<>> /\ loads = {} /\ jobs = {} /\ Len(channel) = 0
    BY DEF Quiet
  <2>2. Covered(id)
    BY <1>5, <2>1 DEF SourcesComing, ReloadRuns, HasEvent, AllCovered
  <2> QED BY <2>1, <2>2 DEF Covered, HasSource, Speaks
<1> QED BY <1>1, <1>4, <1>5, LoadTypesAreKept, PTL DEF Spec
=============================================================================
