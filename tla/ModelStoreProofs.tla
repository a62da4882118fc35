--------------------------- MODULE ModelStoreProofs ---------------------------
(* The inductive invariant of ModelStore, for any number of handles,       *)
(* objects, contents and unloading threads.                                *)
EXTENDS ModelStore, FiniteSetTheorems, TLAPS

LEMMA NoModelType ==
  /\ NoModel.pc = "none" /\ NoModel.via = "open" /\ NoModel.hash \in Hashes
  /\ NoModel.obj = NoObject /\ NoModel.dir = FALSE /\ NoModel.loaded = FALSE
  /\ NoModel.xpc = FALSE /\ NoModel.secondary = FALSE
  /\ NoModel \in [pc : Opening \cup {"none", "open"},
                  via : {"open", "open_ex", "file"}, hash : Hashes,
                  obj : Objects \cup {NoObject}, dir : BOOLEAN,
                  loaded : BOOLEAN, xpc : BOOLEAN, secondary : BOOLEAN]
<1>1. (CHOOSE c \in Hashes : TRUE) \in Hashes
  BY StoreAssumption
<1> QED  BY <1>1 DEF NoModel, Struct

(* A handle keeps its type when its program is unloaded.                   *)
LEMMA UnloadedType ==
  ASSUME NEW P, NEW V, NEW A, NEW O,
         NEW m \in [pc : P, via : V, hash : A, obj : O, dir : BOOLEAN,
                    loaded : BOOLEAN, xpc : BOOLEAN, secondary : BOOLEAN]
  PROVE  [m EXCEPT !.loaded = FALSE] \in
           [pc : P, via : V, hash : A, obj : O, dir : BOOLEAN,
            loaded : BOOLEAN, xpc : BOOLEAN, secondary : BOOLEAN]
OBVIOUS

(* The number of handles that hold an object is a number, and at most the  *)
(* number of handles.                                                      *)
LEMMA HoldersFinite ==
  ASSUME NEW o
  PROVE  /\ IsFiniteSet(Holders(o))
         /\ Cardinality(Holders(o)) \in 0..Cardinality(Handles)
<1>1. Holders(o) \in SUBSET Handles
  BY DEF Holders
<1>2. /\ IsFiniteSet(Holders(o))
      /\ Cardinality(Holders(o)) <= Cardinality(Handles)
  BY <1>1, FS_Subset, StoreAssumption
<1>3. Cardinality(Holders(o)) \in Nat /\ Cardinality(Handles) \in Nat
  BY <1>2, FS_CardinalityType, StoreAssumption
<1> QED  BY <1>2, <1>3

(* An object that nobody retains is nobody's.                              *)
LEMMA FreeObject ==
  ASSUME RetainsBalanced, NEW o \in Objects, refs[o] = 0
  PROVE  \A k \in Handles : model[k].obj # o
<1>1. Cardinality(Holders(o)) = 0
  BY DEF RetainsBalanced
<1>2. Holders(o) = {}
  BY <1>1, HoldersFinite, FS_EmptySet
<1> QED  BY <1>2 DEF Holders

LEMMA InitIInv == Init => IInv
<1> SUFFICES ASSUME Init PROVE IInv
  OBVIOUS
<1> USE NoModelType
<1>1. TypeOK
  BY HoldersFinite, FS_CardinalityType, StoreAssumption
  DEF Init, TypeOK, Idle
<1>2. RetainsBalanced
  <2> SUFFICES ASSUME NEW o \in Objects PROVE refs[o] = Cardinality(Holders(o))
    BY DEF RetainsBalanced
  <2>1. Holders(o) = {}
    BY StoreAssumption DEF Init, Holders
  <2> QED  BY <2>1, FS_EmptySet DEF Init
<1>3. SomebodyUnloads /\ LoadedIsTrue /\ TempDirRemoved
  BY DEF Init, SomebodyUnloads, LoadedIsTrue, TempDirRemoved
<1>4. HandleInv /\ SharingInv /\ FilesInv /\ UnloadInv
  BY DEF Init, HandleInv, SharingInv, FilesInv, UnloadInv, At, Alone,
         Materialising, Idle
<1> QED  BY <1>1, <1>2, <1>3, <1>4 DEF IInv

(* A step that changes no handle's object and no retain count keeps the    *)
(* retains balanced.                                                       *)
LEMMA SameHolders ==
  ASSUME RetainsBalanced, refs' = refs,
         \A k \in Handles : model'[k].obj = model[k].obj
  PROVE  RetainsBalanced'
<1> SUFFICES ASSUME NEW o \in Objects PROVE refs'[o] = Cardinality(Holders(o)')
  BY DEF RetainsBalanced
<1>1. Holders(o)' = Holders(o)
  BY DEF Holders
<1> QED  BY <1>1 DEF RetainsBalanced

(* A step of an open that only moves the handle on, or touches its         *)
(* directory, leaves alone what relates handles to framework objects.      *)
LEMMA QuietStep ==
  ASSUME IInv, NEW h \in Handles, model[h].pc # "open",
         refs' = refs, program' = program, reloaded' = reloaded,
         cloned' = cloned, unl' = unl,
         \A k \in Handles : /\ model'[k].obj = model[k].obj
                            /\ model'[k].loaded = model[k].loaded
                            /\ model'[k].secondary = model[k].secondary
                            /\ k # h => model'[k] = model[k],
         model'[h].pc \in Alone => model[h].pc \in Alone
  PROVE  /\ RetainsBalanced' /\ SomebodyUnloads' /\ LoadedIsTrue'
         /\ SharingInv' /\ UnloadInv'
<1> USE DEF IInv, At
<1>1. RetainsBalanced'
  BY SameHolders
<1>2. SomebodyUnloads'
  BY DEF SomebodyUnloads, OwnsProgram
<1>3. LoadedIsTrue'
  BY DEF LoadedIsTrue
<1>4. SharingInv'
  BY DEF SharingInv
<1>5. UnloadInv'
  BY DEF UnloadInv
<1> QED  BY <1>1, <1>2, <1>3, <1>4, <1>5

-----------------------------------------------------------------------------
(* A handle whose open comes to its next step keeps its type.              *)
Models == [Handles -> [pc : Opening \cup {"none", "open"},
                       via : {"open", "open_ex", "file"}, hash : Hashes,
                       obj : Objects \cup {NoObject}, dir : BOOLEAN,
                       loaded : BOOLEAN, xpc : BOOLEAN, secondary : BOOLEAN]]
LEMMA GotoType ==
  ASSUME TypeOK, NEW h \in Handles, NEW to \in Opening \cup {"none", "open"},
         Goto(h, to)
  PROVE  model' \in Models
<1>1. model \in Models /\ model' = [model EXCEPT ![h].pc = to]
  BY DEF TypeOK, Goto, Models
<1> QED  BY <1>1 DEF Models

LEMMA OpenIInv ==
  ASSUME IInv, NEW h \in Handles, NEW v \in {"open", "open_ex", "file"},
         NEW c \in Hashes, Open(h, v, c)
  PROVE  IInv'
<1> USE DEF IInv, At
<1>1. /\ model[h].pc = "none" /\ model'[h].pc \in {"object", "describe"}
      /\ model'[h].obj = NoObject /\ ~model'[h].loaded /\ ~model'[h].secondary
      /\ ~model'[h].dir
      /\ \A k \in Handles \ {h} : model'[k] = model[k]
  BY DEF Open, TypeOK, Struct
<1>2. TypeOK'
  BY DEF Open, TypeOK, Opening, Materialising, Struct
<1>3. \A k \in Handles : /\ model'[k].obj = model[k].obj
                         /\ model'[k].loaded = model[k].loaded
                         /\ model'[k].secondary = model[k].secondary
                         /\ model'[k].dir = model[k].dir
                         /\ model[k].dir => model'[k].hash = model[k].hash
  BY <1>1, <1>2 DEF HandleInv, TypeOK
<1>4. /\ RetainsBalanced' /\ SomebodyUnloads' /\ LoadedIsTrue'
      /\ SharingInv' /\ UnloadInv'
  BY <1>1, <1>3, QuietStep DEF Open, Alone, Materialising
<1>5. TempDirRemoved'
  <2> SUFFICES ASSUME NEW d \in Hashes, disk'[d] # {}
               PROVE  \E k \in Handles : model'[k].dir /\ model'[k].hash = d
    BY DEF TempDirRemoved
  <2>1. disk'[d] = disk[d]
    BY DEF Open
  <2>2. PICK k \in Handles : model[k].dir /\ model[k].hash = d
    BY <2>1 DEF TempDirRemoved
  <2> QED  BY <1>3, <2>2
<1>6. HandleInv'
  BY <1>1 DEF HandleInv, Alone, Materialising
<1>7. FilesInv'
  BY <1>1, ZenonT(30) DEF Open, FilesInv, Missing
<1> QED  BY <1>2, <1>4, <1>5, <1>6, <1>7

LEMMA DescribeIInv ==
  ASSUME IInv, NEW h \in Handles, Describe(h)
  PROVE  IInv'
<1> USE DEF IInv, At
<1>1. /\ model[h].pc = "describe"
      /\ model' = [model EXCEPT ![h].pc = "object"]
  BY DEF Describe, Goto
<1>2. TypeOK'
  <2>1. model' \in Models
    BY GotoType DEF Describe, Opening
  <2> QED  BY <2>1 DEF Describe, TypeOK, Models
<1>3. /\ model'[h].pc = "object"
      /\ \A k \in Handles : /\ model'[k].obj = model[k].obj
                            /\ model'[k].loaded = model[k].loaded
                            /\ model'[k].secondary = model[k].secondary
                            /\ model'[k].dir = model[k].dir
                            /\ model'[k].hash = model[k].hash
                            /\ k # h => model'[k] = model[k]
  BY <1>1 DEF TypeOK
<1>4. /\ RetainsBalanced' /\ SomebodyUnloads' /\ LoadedIsTrue'
      /\ SharingInv' /\ UnloadInv'
  BY <1>1, <1>3, QuietStep DEF Describe, Alone, Materialising
<1>5. TempDirRemoved'
  BY <1>3 DEF Describe, TempDirRemoved
<1>6. HandleInv'
  BY <1>1, <1>3 DEF HandleInv, Alone, Materialising
<1>7. FilesInv'
  BY <1>3 DEF Describe, FilesInv, Missing
<1> QED  BY <1>2, <1>4, <1>5, <1>6, <1>7

LEMMA LookupIInv ==
  ASSUME IInv, NEW h \in Handles, Lookup(h)
  PROVE  IInv'
<1> USE DEF IInv, At
<1>1. TypeOK'
  BY DEF Lookup, Goto, TypeOK, Opening, Materialising
<1>2. /\ model[h].pc = "lookup" /\ model'[h].pc \in {"mkdir", "load"}
      /\ model'[h].pc = "mkdir" => model'[h].dir
      /\ \A k \in Handles : /\ model'[k].obj = model[k].obj
                            /\ model'[k].loaded = model[k].loaded
                            /\ model'[k].secondary = model[k].secondary
                            /\ model'[k].hash = model[k].hash
                            /\ model[k].dir => model'[k].dir
                            /\ k # h => model'[k] = model[k]
  BY DEF Lookup, Goto, TypeOK
<1>3. /\ RetainsBalanced' /\ SomebodyUnloads' /\ LoadedIsTrue'
      /\ SharingInv' /\ UnloadInv'
  BY <1>2, QuietStep DEF Lookup, Alone, Materialising
<1>4. TempDirRemoved'
  BY <1>2 DEF Lookup, TempDirRemoved
<1>5. HandleInv'
  BY <1>2 DEF HandleInv, Alone, Materialising
<1>6. FilesInv'
  BY <1>2 DEF Lookup, FilesInv, Missing
<1> QED  BY <1>1, <1>3, <1>4, <1>5, <1>6

LEMMA MakeDirIInv ==
  ASSUME IInv, NEW h \in Handles, MakeDir(h)
  PROVE  IInv'
<1> USE DEF IInv, At
<1>1. TypeOK'
  <2>1. model' \in Models
    BY GotoType DEF MakeDir, Opening
  <2>2. disk' \in [Hashes -> SUBSET Files]
    <3>1. disk \in [Hashes -> SUBSET Files] /\ "dir" \in Files
      BY DEF TypeOK, Files
    <3>2. CASE disk' = [disk EXCEPT ![model[h].hash] = @ \cup {"dir"}]
      BY <3>1, <3>2
    <3> QED  BY <3>1, <3>2 DEF MakeDir
  <2> QED  BY <2>1, <2>2 DEF MakeDir, TypeOK, Models
<1>2. /\ model[h].pc = "mkdir" /\ model'[h].pc = "mil" /\ model[h].dir
      /\ \A k \in Handles : /\ model'[k].obj = model[k].obj
                            /\ model'[k].loaded = model[k].loaded
                            /\ model'[k].secondary = model[k].secondary
                            /\ model'[k].hash = model[k].hash
                            /\ model'[k].via = model[k].via
                            /\ model'[k].dir = model[k].dir
                            /\ k # h => model'[k] = model[k]
  BY DEF MakeDir, Goto, TypeOK, HandleInv
<1>3. /\ swept' = swept
      /\ \A c \in Hashes : disk[c] \subseteq disk'[c]
      /\ \A c \in Hashes : c # model[h].hash => disk'[c] = disk[c]
      /\ model[h].via = "open" => "dir" \in disk'[model[h].hash]
  BY DEF MakeDir, TypeOK
<1>4. /\ RetainsBalanced' /\ SomebodyUnloads' /\ LoadedIsTrue'
      /\ SharingInv' /\ UnloadInv'
  BY <1>2, QuietStep DEF MakeDir, Alone, Materialising
<1>5. TempDirRemoved'
  BY <1>2, <1>3 DEF TempDirRemoved
<1>6. HandleInv'
  BY <1>2 DEF HandleInv, Alone, Materialising
<1>7. FilesInv'
  BY <1>2, <1>3 DEF FilesInv, Missing, Files, TypeOK
<1> QED  BY <1>1, <1>4, <1>5, <1>6, <1>7

LEMMA WriteFileIInv ==
  ASSUME IInv, NEW h \in Handles, NEW file \in {"mil", "weights"}, NEW to,
         to = IF file = "mil" THEN "weights" ELSE "compile",
         WriteFile(h, file, to)
  PROVE  IInv'
<1> USE DEF IInv, At
<1>1. TypeOK'
  <2>1. model' \in Models
    BY GotoType DEF WriteFile, Opening
  <2>2. disk' \in [Hashes -> SUBSET Files]
    <3>1. disk \in [Hashes -> SUBSET Files] /\ file \in Files
      BY DEF TypeOK, Files
    <3>2. CASE disk' = [disk EXCEPT ![model[h].hash] = @ \cup {file}]
      BY <3>1, <3>2
    <3> QED  BY <3>1, <3>2 DEF WriteFile
  <2> QED  BY <2>1, <2>2 DEF WriteFile, TypeOK, Models
<1>2. /\ model[h].pc = file /\ model'[h].pc = to
      /\ model[h].dir
      /\ \A k \in Handles : /\ model'[k].obj = model[k].obj
                            /\ model'[k].loaded = model[k].loaded
                            /\ model'[k].secondary = model[k].secondary
                            /\ model'[k].hash = model[k].hash
                            /\ model'[k].via = model[k].via
                            /\ model'[k].dir = model[k].dir
                            /\ k # h => model'[k] = model[k]
  BY DEF WriteFile, Goto, TypeOK, HandleInv, Materialising
<1>3. /\ swept' = swept
      /\ \A c \in Hashes : disk[c] \subseteq disk'[c]
      /\ \A c \in Hashes : c # model[h].hash => disk'[c] = disk[c]
      /\ model[h].via = "open" => file \in disk'[model[h].hash]
  BY DEF WriteFile, TypeOK
<1>4. /\ RetainsBalanced' /\ SomebodyUnloads' /\ LoadedIsTrue'
      /\ SharingInv' /\ UnloadInv'
  BY <1>2, QuietStep DEF WriteFile, Alone, Materialising
<1>5. TempDirRemoved'
  BY <1>2, <1>3 DEF TempDirRemoved
<1>6. HandleInv'
  BY <1>2 DEF HandleInv, Alone, Materialising
<1>7. FilesInv'
  BY <1>2, <1>3 DEF FilesInv, Missing, Files, TypeOK
<1> QED  BY <1>1, <1>4, <1>5, <1>6, <1>7

LEMMA CompileIInv ==
  ASSUME IInv, NEW h \in Handles, Compile(h)
  PROVE  IInv'
<1> USE DEF IInv, At
<1>1. TypeOK'
  <2>1. model' \in Models
    BY GotoType DEF Compile, Opening
  <2> QED  BY <2>1 DEF Compile, TypeOK, Models
<1>2. /\ model[h].pc = "compile" /\ model'[h].pc = "load"
      /\ \A k \in Handles : /\ model'[k].obj = model[k].obj
                            /\ model'[k].loaded = model[k].loaded
                            /\ model'[k].secondary = model[k].secondary
                            /\ model'[k].hash = model[k].hash
                            /\ model'[k].dir = model[k].dir
                            /\ k # h => model'[k] = model[k]
  BY DEF Compile, Goto, TypeOK
<1>3. /\ RetainsBalanced' /\ SomebodyUnloads' /\ LoadedIsTrue'
      /\ SharingInv' /\ UnloadInv'
  BY <1>2, QuietStep DEF Compile, Alone, Materialising
<1>4. TempDirRemoved'
  BY <1>2 DEF Compile, TempDirRemoved
<1>5. HandleInv'
  BY <1>2 DEF HandleInv, Alone, Materialising
<1>6. FilesInv'
  BY <1>2 DEF Compile, FilesInv, Missing
<1> QED  BY <1>1, <1>3, <1>4, <1>5, <1>6

LEMMA FinishIInv ==
  ASSUME IInv, NEW h \in Handles, Finish(h)
  PROVE  IInv'
<1> USE DEF IInv, At
<1>0. UNCHANGED <<refs, program, reloaded, cache, disk, unl, swept, cloned>>
  BY DEF Finish
<1>1. TypeOK'
  BY SMTT(30) DEF Finish, Goto, TypeOK, Opening, Materialising
<1>2. /\ model[h].pc = "derive" /\ model'[h].pc = "open"
      /\ \A k \in Handles : /\ model'[k].obj = model[k].obj
                            /\ model'[k].loaded = model[k].loaded
                            /\ model'[k].secondary = model[k].secondary
                            /\ model'[k].hash = model[k].hash
                            /\ model'[k].dir = model[k].dir
                            /\ k # h => model'[k] = model[k]
  BY DEF Finish, Goto, TypeOK
<1>3. /\ RetainsBalanced' /\ SomebodyUnloads' /\ LoadedIsTrue'
      /\ SharingInv' /\ UnloadInv'
  BY <1>2, QuietStep DEF Finish, Alone, Materialising
<1>4. TempDirRemoved'
  BY <1>0, <1>2 DEF TempDirRemoved
<1>5. HandleInv'
  BY <1>2 DEF HandleInv, Alone, Materialising
<1>6. FilesInv'
  BY <1>0, <1>2 DEF FilesInv, Missing
<1> QED  BY <1>1, <1>3, <1>4, <1>5, <1>6

-----------------------------------------------------------------------------
(* Steps that change what objects handles hold, or which are loaded.       *)

LEMMA MakeObjectIInv ==
  ASSUME IInv, NEW h \in Handles, NEW o \in Objects, MakeObject(h, o)
  PROVE  IInv'
<1> USE DEF IInv, At
<1>1. /\ model[h].pc = "object" /\ model[h].obj = NoObject
      /\ refs[o] = 0 /\ ~model[h].dir /\ ~model[h].loaded
      /\ ~model[h].secondary
  BY DEF MakeObject, HandleInv
<1>2. \A k \in Handles : model[k].obj # o
  BY <1>1, FreeObject
<1>3. /\ model'[h].pc \in {"load", "lookup"} /\ model'[h].obj = o
      /\ \A k \in Handles : /\ model'[k].loaded = model[k].loaded
                            /\ model'[k].secondary = model[k].secondary
                            /\ model'[k].hash = model[k].hash
                            /\ model'[k].dir = model[k].dir
                            /\ k # h => model'[k] = model[k]
  BY DEF MakeObject, TypeOK
<1>4. /\ program' = program \ {o} /\ cloned' = cloned \ {o}
      /\ reloaded' = reloaded \ {o}
      /\ refs' = [refs EXCEPT ![o] = 1]
      /\ disk' = disk /\ unl' = unl /\ swept' = swept
  BY DEF MakeObject
<1>5. RetainsBalanced'
  <2> SUFFICES ASSUME NEW q \in Objects
               PROVE  refs'[q] = Cardinality(Holders(q)')
    BY DEF RetainsBalanced
  <2>1. CASE q = o
    <3>1. Holders(q)' = {h}
      BY <1>2, <1>3, <2>1 DEF Holders
    <3> QED  BY <3>1, <2>1, <1>4, FS_Singleton DEF TypeOK
  <2>2. CASE q # o
    <3>1. Holders(q)' = Holders(q)
      BY <1>1, <1>3, <2>2, StoreAssumption DEF Holders
    <3> QED  BY <3>1, <2>2, <1>4 DEF RetainsBalanced, TypeOK
  <2> QED  BY <2>1, <2>2
<1>6. TypeOK'
  <2>1. refs' \in [Objects -> 0..Cardinality(Handles)]
    <3>3. Cardinality({h}) = 1 /\ Cardinality({h}) <= Cardinality(Handles)
      <4>1. {h} \in SUBSET Handles
        OBVIOUS
      <4> QED  BY <4>1, FS_Subset, FS_Singleton, StoreAssumption
    <3>4. Cardinality(Handles) \in Nat
      BY FS_CardinalityType, StoreAssumption
    <3> QED  BY <3>3, <3>4, <1>4 DEF TypeOK
  <2> QED  BY <2>1 DEF MakeObject, TypeOK, Opening, Materialising
<1>7. SomebodyUnloads'
  BY <1>1, <1>2, <1>3, <1>4 DEF SomebodyUnloads, OwnsProgram
<1>8. LoadedIsTrue'
  BY <1>1, <1>2, <1>3, <1>4 DEF LoadedIsTrue
<1>9. TempDirRemoved'
  BY <1>3, <1>4 DEF TempDirRemoved
<1>10. HandleInv'
  BY <1>1, <1>3 DEF HandleInv, Alone, Materialising
<1>11. SharingInv'
  BY <1>1, <1>2, <1>3, <1>4 DEF SharingInv, TypeOK
<1>12. FilesInv'
  BY <1>3, <1>4 DEF FilesInv, Missing
<1>13. UnloadInv'
  BY <1>1, <1>3, <1>4 DEF UnloadInv
<1> QED  BY <1>5, <1>6, <1>7, <1>8, <1>9, <1>10, <1>11, <1>12, <1>13

LEMMA LoadIInv ==
  ASSUME IInv, NEW h \in Handles, Load(h)
  PROVE  IInv'
<1> USE DEF IInv, At
<1>1. /\ model[h].pc = "load" /\ model[h].obj \in Objects
      /\ ~model[h].loaded /\ ~model[h].secondary
      /\ \A k \in Handles \ {h} : model[k].obj # model[h].obj
  BY StoreAssumption DEF Load, HandleInv, SharingInv, Alone
<1>2. /\ model'[h].pc = "derive" /\ model'[h].loaded
      /\ \A k \in Handles : /\ model'[k].obj = model[k].obj
                            /\ model'[k].secondary = model[k].secondary
                            /\ model'[k].hash = model[k].hash
                            /\ model'[k].dir = model[k].dir
                            /\ k # h => model'[k] = model[k]
  BY DEF Load, TypeOK
<1>3. /\ program' = program \cup {model[h].obj} /\ refs' = refs
      /\ cloned' = cloned /\ disk' = disk /\ unl' = unl /\ swept' = swept
      /\ reloaded' = reloaded
  BY DEF Load
<1>4. TypeOK'
  BY <1>1 DEF Load, TypeOK, Opening, Materialising
<1>5. RetainsBalanced'
  BY <1>2, <1>3, SameHolders
<1>6. SomebodyUnloads'
  BY <1>1, <1>2, <1>3 DEF SomebodyUnloads, OwnsProgram
<1>7. LoadedIsTrue'
  BY <1>2, <1>3 DEF LoadedIsTrue
<1>8. TempDirRemoved'
  BY <1>2, <1>3 DEF TempDirRemoved
<1>9. HandleInv'
  BY <1>1, <1>2 DEF HandleInv, Alone, Materialising
<1>10. SharingInv'
  BY <1>1, <1>2, <1>3 DEF SharingInv, Alone, Materialising
<1>11. FilesInv'
  BY <1>2, <1>3 DEF FilesInv, Missing
<1>12. UnloadInv'
  BY <1>1, <1>2, <1>3 DEF UnloadInv
<1> QED  BY <1>4, <1>5, <1>6, <1>7, <1>8, <1>9, <1>10, <1>11, <1>12

LEMMA NewInstanceIInv ==
  ASSUME IInv, NEW src \in Handles, NEW h \in Handles, NewInstance(src, h)
  PROVE  IInv'
<1> USE DEF IInv, At
<1>0. PICK o \in Objects : o = model[src].obj
  BY DEF NewInstance, Secondary, LoadAgain, HandleInv
<1>1. /\ model[h].pc = "none" /\ model[src].pc = "open" /\ h # src
      /\ model[h].obj = NoObject /\ o \in Objects
      /\ ~model[h].dir /\ ~model[h].loaded /\ model[src].obj = o
  BY <1>0 DEF NewInstance, Secondary, LoadAgain, HandleInv
<1>2. /\ model'[h].pc = "derive" /\ model'[h].obj = o
      /\ model'[h].loaded /\ model'[h].secondary /\ ~model'[h].dir
      /\ \A k \in Handles \ {h} : model'[k] = model[k]
  BY <1>0 DEF NewInstance, Secondary, TypeOK, Struct
<1>3. /\ refs' = [refs EXCEPT ![o] = @ + 1] /\ cloned' = cloned \cup {o}
      /\ program \subseteq program' /\ program' \ reloaded' = program \ reloaded
      /\ program' \subseteq Objects /\ reloaded' \subseteq Objects
      /\ derived' \subseteq Hashes
      /\ disk' = disk /\ unl' = unl /\ swept' = swept /\ cache' = cache
  <2>1. /\ model[src].hash \in Hashes /\ program \subseteq Objects
        /\ reloaded \subseteq Objects /\ derived \subseteq Hashes
    BY DEF TypeOK
  <2> HIDE DEF IInv
  <2> QED  BY <1>0, <2>1 DEF NewInstance, Secondary, LoadAgain
<1>4. RetainsBalanced'
  <2> SUFFICES ASSUME NEW q \in Objects
               PROVE  refs'[q] = Cardinality(Holders(q)')
    BY DEF RetainsBalanced
  <2>1. CASE q = o
    <3>1. Holders(q)' = Holders(q) \cup {h} /\ h \notin Holders(q)
      BY <1>1, <1>2, <2>1, StoreAssumption DEF Holders
    <3>2. Cardinality(Holders(q)') = Cardinality(Holders(q)) + 1
      BY <3>1, HoldersFinite, FS_AddElement
    <3> QED  BY <3>2, <2>1, <1>3 DEF RetainsBalanced, TypeOK
  <2>2. CASE q # o
    <3>1. Holders(q)' = Holders(q)
      BY <1>1, <1>2, <2>2, StoreAssumption DEF Holders
    <3> QED  BY <3>1, <2>2, <1>3 DEF RetainsBalanced, TypeOK
  <2> QED  BY <2>1, <2>2
<1>5. TypeOK'
  <2>1. refs'[o] = Cardinality(Holders(o)')
    BY <1>4 DEF RetainsBalanced
  <2>2. Holders(o)' \in SUBSET Handles
    BY DEF Holders
  <2>3. /\ Cardinality(Holders(o)') <= Cardinality(Handles)
        /\ Cardinality(Holders(o)') \in Nat /\ Cardinality(Handles) \in Nat
    BY <2>2, FS_Subset, FS_CardinalityType, StoreAssumption
  <2>4. refs' \in [Objects -> 0..Cardinality(Handles)]
    BY <1>1, <1>3, <2>1, <2>3 DEF TypeOK
  <2>5. model' \in Models
    <3>1. model \in Models
      BY DEF TypeOK, Models
    <3>2. model' = [model EXCEPT ![h] = Struct("derive", model[src].via,
                                               model[src].hash, o, TRUE)]
      BY <1>0 DEF NewInstance, Secondary
    <3> QED  BY <1>1, <3>1, <3>2 DEF Models, Opening, Materialising, Struct
  <2> QED  BY <1>1, <1>3, <2>4, <2>5 DEF Models, TypeOK
<1>6. SomebodyUnloads'
  BY <1>1, <1>2, <1>3 DEF SomebodyUnloads, OwnsProgram
<1>7. LoadedIsTrue'
  BY <1>2, <1>3 DEF LoadedIsTrue
<1>8. TempDirRemoved'
  BY <1>1, <1>2, <1>3 DEF TempDirRemoved
<1>9. HandleInv'
  BY <1>1, <1>2 DEF HandleInv, Alone, Materialising
<1>10. SharingInv'
  BY <1>1, <1>2, <1>3 DEF SharingInv, Alone, Materialising
<1>11. FilesInv'
  BY <1>2, <1>3 DEF FilesInv, Missing
<1>12. UnloadInv'
  BY <1>1, <1>2, <1>3 DEF UnloadInv
<1> QED  BY <1>4, <1>5, <1>6, <1>7, <1>8, <1>9, <1>10, <1>11, <1>12

(* A close that no unloading thread can notice: of a finished handle that  *)
(* is not in use, or inside a failing open.                                *)
LEMMA CloseIInv ==
  ASSUME IInv, NEW h \in Handles, Close(h), \A t \in Threads : unl[t].h # h
  PROVE  IInv'
<1> USE NoModelType DEF IInv, At
<1>1. /\ model'[h] = NoModel
      /\ \A k \in Handles \ {h} : model'[k] = model[k]
  BY DEF Close, TypeOK
<1>2. /\ program' \subseteq program
      /\ \A o \in program : o # model[h].obj => o \in program'
      /\ OwnsProgram(h) => model[h].obj \notin program'
      /\ unl' = unl /\ cloned' = cloned /\ reloaded' = reloaded
  BY DEF Close
<1>3. \A c \in Hashes :
        disk'[c] = IF model[h].dir /\ c = model[h].hash THEN {} ELSE disk[c]
  BY DEF Close, RemoveDirectory
<1>4. \A k \in Handles \ {h} :
        k \notin swept' => /\ k \notin swept
                           /\ model[h].dir => k \notin Under(h)
  BY DEF Close, RemoveDirectory
<1>5. \A o \in Objects :
        refs'[o] = IF o = model[h].obj THEN refs[o] - 1 ELSE refs[o]
  BY DEF Close, DropReference
<1>6. RetainsBalanced'
  <2> SUFFICES ASSUME NEW q \in Objects
               PROVE  refs'[q] = Cardinality(Holders(q)')
    BY DEF RetainsBalanced
  <2>1. CASE q = model[h].obj
    <3>1. Holders(q)' = Holders(q) \ {h} /\ h \in Holders(q)
      BY <1>1, <2>1, StoreAssumption DEF Holders
    <3>2. Cardinality(Holders(q)') = Cardinality(Holders(q)) - 1
      BY <3>1, HoldersFinite, FS_RemoveElement
    <3> QED  BY <3>2, <2>1, <1>5 DEF RetainsBalanced
  <2>2. CASE q # model[h].obj
    <3>1. Holders(q)' = Holders(q)
      BY <1>1, <2>2, StoreAssumption DEF Holders
    <3> QED  BY <3>1, <2>2, <1>5 DEF RetainsBalanced
  <2> QED  BY <2>1, <2>2
<1>7. TypeOK'
  <2>1. ASSUME NEW q \in Objects
        PROVE  refs'[q] \in 0..Cardinality(Handles)
    <3>1. Holders(q)' \in SUBSET Handles
      BY DEF Holders
    <3>2. /\ Cardinality(Holders(q)') <= Cardinality(Handles)
          /\ Cardinality(Holders(q)') \in Nat /\ Cardinality(Handles) \in Nat
      BY <3>1, FS_Subset, FS_CardinalityType, StoreAssumption
    <3> QED  BY <1>6, <3>2 DEF RetainsBalanced
  <2>2. refs' \in [Objects -> 0..Cardinality(Handles)]
    BY <2>1 DEF Close, DropReference
  <2>3. disk' \in [Hashes -> SUBSET Files]
    BY DEF Close, RemoveDirectory, TypeOK
  <2>4. swept' \subseteq Handles
    BY DEF Close, RemoveDirectory, Under, TypeOK
  <2>5. model' \in [Handles -> [pc : Opening \cup {"none", "open"},
                      via : {"open", "open_ex", "file"}, hash : Hashes,
                      obj : Objects \cup {NoObject}, dir : BOOLEAN,
                      loaded : BOOLEAN, xpc : BOOLEAN, secondary : BOOLEAN]]
    BY DEF Close, TypeOK
  <2> QED  BY <1>2, <2>2, <2>3, <2>4, <2>5 DEF Close, TypeOK
<1>8. SomebodyUnloads'
  <2> SUFFICES ASSUME NEW o \in program' \ reloaded'
               PROVE  \E k \in Handles : model'[k].obj = o /\ OwnsProgram(k)'
    BY DEF SomebodyUnloads
  <2>1. PICK k \in Handles : model[k].obj = o /\ OwnsProgram(k)
    BY <1>2 DEF SomebodyUnloads
  <2>2. k # h
    BY <1>2, <2>1
  <2> QED  BY <1>1, <2>1, <2>2 DEF OwnsProgram
<1>9. LoadedIsTrue'
  <2> SUFFICES ASSUME NEW k \in Handles, model'[k].loaded,
                      model'[k].obj \notin cloned',
                      \A t \in Threads : unl'[t] # [pc |-> "store", h |-> k]
               PROVE  model'[k].obj \in program'
    BY DEF LoadedIsTrue
  <2>1. k # h /\ model'[k] = model[k]
    BY <1>1
  <2>2. model[k].obj \in program
    BY <1>2, <2>1 DEF LoadedIsTrue
  <2>3. model[k].obj # model[h].obj
    BY <1>2, <2>1, <2>2, StoreAssumption DEF SharingInv, TypeOK
  <2> QED  BY <1>2, <2>1, <2>2, <2>3
<1>10. TempDirRemoved'
  <2> SUFFICES ASSUME NEW c \in Hashes, disk'[c] # {}
               PROVE  \E k \in Handles : model'[k].dir /\ model'[k].hash = c
    BY DEF TempDirRemoved
  <2>1. disk[c] # {} /\ ~(model[h].dir /\ c = model[h].hash)
    BY <1>3
  <2>2. PICK k \in Handles : model[k].dir /\ model[k].hash = c
    BY <2>1 DEF TempDirRemoved
  <2> QED  BY <1>1, <2>1, <2>2
<1>11. HandleInv'
  BY <1>1 DEF HandleInv, Alone, Materialising
<1>12. SharingInv'
  BY <1>1, <1>2 DEF SharingInv
<1>13. FilesInv'
  <2> SUFFICES ASSUME NEW k \in Handles \ swept', model'[k].via = "open",
                      model'[k].pc \in Materialising
               PROVE  k # h /\ Missing(k)' = Missing(k)
    BY <1>1, <1>4 DEF FilesInv, Materialising
  <2>1. k # h
    BY <1>1 DEF Materialising
  <2>2. model[k].dir
    BY <1>1, <2>1 DEF HandleInv
  <2>3. ~(model[h].dir /\ model[k].hash = model[h].hash)
    BY <1>1, <1>4, <2>1, <2>2 DEF Under
  <2>4. model[k].hash \in Hashes
    BY DEF TypeOK
  <2> QED  BY <1>1, <1>3, <2>1, <2>3, <2>4 DEF Missing
<1>14. UnloadInv'
  BY <1>1, <1>2 DEF UnloadInv
<1> QED  BY <1>6, <1>7, <1>8, <1>9, <1>10, <1>11, <1>12, <1>13, <1>14

(* The three steps of ane_model_unload.                                    *)
LEMMA UnloadIInv ==
  ASSUME IInv, NEW t \in Threads,
         \/ \E h \in Handles : UnloadTest(t, h)
         \/ UnloadMessage(t)
         \/ UnloadStore(t)
  PROVE  IInv'
<1> USE DEF IInv, At
<1>1. ASSUME NEW h \in Handles, UnloadTest(t, h)
      PROVE  IInv'
  <2>1. /\ UNCHANGED <<model, refs, program, reloaded, derived, cache, disk, swept, cloned>>
        /\ model[h].pc = "open" /\ unl[t] = Idle
        /\ unl' = [unl EXCEPT ![t] = [pc |-> "message", h |-> h]]
    BY <1>1 DEF UnloadTest
  <2>2. TypeOK'
    BY <2>1 DEF TypeOK
  <2>3. RetainsBalanced'
    BY <2>1, SameHolders
  <2>4. SomebodyUnloads' /\ TempDirRemoved' /\ HandleInv' /\ SharingInv'
        /\ FilesInv'
    BY <2>1 DEF SomebodyUnloads, OwnsProgram, TempDirRemoved, HandleInv,
                SharingInv, FilesInv, Missing
  <2>5. LoadedIsTrue'
    BY <2>1 DEF LoadedIsTrue, TypeOK, Idle
  <2>6. UnloadInv'
    BY <2>1 DEF UnloadInv, TypeOK
  <2> QED  BY <2>2, <2>3, <2>4, <2>5, <2>6
<1>2. ASSUME UnloadMessage(t)
      PROVE  IInv'
  <2>1. PICK h \in Handles : h = unl[t].h /\ model[h].pc = "open"
    BY <1>2 DEF UnloadMessage, UnloadInv, Idle
  <2>2. /\ UNCHANGED <<model, refs, reloaded, derived, cache, disk, swept, cloned>>
        /\ unl[t].pc = "message" /\ program' = program \ {model[h].obj}
        /\ \A u \in Threads \ {t} : unl'[u] = unl[u]
        /\ model[h].obj \in program => unl'[t] = [pc |-> "store", h |-> h]
        /\ model[h].obj \notin program => unl'[t] = Idle
    BY <1>2, <2>1 DEF UnloadMessage, TypeOK
  <2>3. TypeOK'
    BY <1>2, <2>1, <2>2 DEF UnloadMessage, TypeOK, Idle
  <2>4. RetainsBalanced'
    BY <2>2, SameHolders
  <2>5. SomebodyUnloads' /\ TempDirRemoved' /\ HandleInv' /\ SharingInv'
        /\ FilesInv'
    BY <2>2 DEF SomebodyUnloads, OwnsProgram, TempDirRemoved, HandleInv,
                SharingInv, FilesInv, Missing
  <2>6. LoadedIsTrue'
    <3> SUFFICES ASSUME NEW k \in Handles, model[k].loaded,
                        model[k].obj \notin cloned,
                        \A u \in Threads : unl'[u] # [pc |-> "store", h |-> k]
                 PROVE  model[k].obj \in program'
      BY <2>2 DEF LoadedIsTrue
    <3>1. \A u \in Threads : unl[u] # [pc |-> "store", h |-> k]
      BY <2>2
    <3>2. model[k].obj \in program /\ model[k].obj \in Objects
      BY <3>1 DEF LoadedIsTrue, TypeOK
    <3>3. CASE model[k].obj = model[h].obj
      <4>1. k = h
        BY <3>2, <3>3, StoreAssumption DEF SharingInv
      <4> QED  BY <2>2, <3>2, <4>1
    <3> QED  BY <2>2, <3>2, <3>3
  <2>7. UnloadInv'
    BY <2>1, <2>2 DEF UnloadInv
  <2> QED  BY <2>3, <2>4, <2>5, <2>6, <2>7
<1>3. ASSUME UnloadStore(t)
      PROVE  IInv'
  <2>1. PICK h \in Handles : /\ unl[t] = [pc |-> "store", h |-> h]
                             /\ model[h].pc = "open"
                             /\ model[h].obj \notin program \ reloaded
    BY <1>3 DEF UnloadStore, UnloadInv, Idle, TypeOK
  <2>2. /\ UNCHANGED <<refs, program, reloaded, derived, cache, disk, swept, cloned>>
        /\ model' = [model EXCEPT ![h].loaded = FALSE]
        /\ unl' = [unl EXCEPT ![t] = Idle]
    BY <1>3, <2>1 DEF UnloadStore
  <2>3. /\ \A k \in Handles : /\ model'[k].obj = model[k].obj
                              /\ model'[k].secondary = model[k].secondary
                              /\ model'[k].pc = model[k].pc
                              /\ model'[k].via = model[k].via
                              /\ model'[k].hash = model[k].hash
                              /\ model'[k].dir = model[k].dir
                              /\ k # h => model'[k].loaded = model[k].loaded
        /\ ~model'[h].loaded
    BY <2>2, ZenonT(30) DEF TypeOK
  <2>4. TypeOK'
    <3>1. model' \in [Handles -> [pc : Opening \cup {"none", "open"},
                        via : {"open", "open_ex", "file"}, hash : Hashes,
                        obj : Objects \cup {NoObject}, dir : BOOLEAN,
                        loaded : BOOLEAN, xpc : BOOLEAN, secondary : BOOLEAN]]
      <4> DEFINE R == [pc : Opening \cup {"none", "open"},
                       via : {"open", "open_ex", "file"}, hash : Hashes,
                       obj : Objects \cup {NoObject}, dir : BOOLEAN,
                       loaded : BOOLEAN, xpc : BOOLEAN, secondary : BOOLEAN]
      <4>1. \A m \in R : [m EXCEPT !.loaded = FALSE] \in R
        BY UnloadedType
      <4>2. model \in [Handles -> R]
        BY DEF TypeOK
      <4>3. model' = [model EXCEPT ![h] = [model[h] EXCEPT !.loaded = FALSE]]
        BY <2>2
      <4> HIDE DEF R
      <4>4. model' \in [Handles -> R]
        BY <4>1, <4>2, <4>3
      <4> QED  BY <4>4 DEF R
    <3>2. unl' \in [Threads -> [pc : {"idle", "message", "store"},
                               h : Handles \cup {NoHandle}]]
      BY <2>2 DEF TypeOK, Idle
    <3> QED  BY <2>2, <3>1, <3>2 DEF TypeOK
  <2>5. RetainsBalanced'
    BY <2>2, <2>3, SameHolders
  <2>6. SomebodyUnloads'
    BY <2>1, <2>2, <2>3 DEF SomebodyUnloads, OwnsProgram
  <2>7. LoadedIsTrue'
    BY <2>1, <2>2, <2>3 DEF LoadedIsTrue, TypeOK, Idle
  <2>8. TempDirRemoved' /\ SharingInv' /\ FilesInv'
    BY <2>2, <2>3 DEF TempDirRemoved, SharingInv, FilesInv, Missing
  <2>9. HandleInv'
    BY <2>1, <2>3 DEF HandleInv, Alone, Materialising
  <2>10. UnloadInv'
    BY <2>2, <2>3 DEF UnloadInv, TypeOK
  <2> QED  BY <2>4, <2>5, <2>6, <2>7, <2>8, <2>9, <2>10
<1> QED  BY <1>1, <1>2, <1>3

LEMMA EvictIInv ==
  ASSUME IInv, UNCHANGED <<model, refs, program, reloaded, derived, disk, unl, swept, cloned>>,
         cache' \subseteq Hashes
  PROVE  IInv'
<1> USE DEF IInv, At
<1>1. RetainsBalanced'
  BY SameHolders
<1>2. TypeOK'
  BY DEF TypeOK
<1>3. SomebodyUnloads' /\ LoadedIsTrue' /\ TempDirRemoved' /\ HandleInv'
  BY DEF SomebodyUnloads, OwnsProgram, LoadedIsTrue, TempDirRemoved, HandleInv
<1>4. SharingInv' /\ FilesInv' /\ UnloadInv'
  BY DEF SharingInv, FilesInv, Missing, UnloadInv
<1> QED  BY <1>1, <1>2, <1>3, <1>4

-----------------------------------------------------------------------------
LEMMA NextIInv == IInv /\ [Next]_vars => IInv'
<1> SUFFICES ASSUME IInv, [Next]_vars PROVE IInv'
  OBVIOUS
<1>1. ASSUME NEW h \in Handles, OpenStep(h)
      PROVE  IInv'
  <2>1. ASSUME NEW c \in Hashes, Begin(h, c)
        PROVE  IInv'
    <3>1. \E via \in {"open", "open_ex", "file"} : Open(h, via, c)
      BY <2>1 DEF Begin, OpenModel, OpenRealtime, OpenEx, OpenRealtimeEx,
                  OpenBundle, OpenFile, OpenFileEx
    <3> QED  BY <3>1, OpenIInv
  <2>2. ASSUME NEW o \in Objects, MakeObject(h, o)
        PROVE  IInv'
    BY <2>2, MakeObjectIInv
  <2>3. CASE OpenFails(h)
    <3>1. \A t \in Threads : unl[t].h # h
      BY <2>3, StoreAssumption
      DEF OpenFails, IInv, UnloadInv, Idle, At, Opening, Materialising
    <3> QED  BY <2>3, <3>1, CloseIInv DEF OpenFails
  <2>4. CASE WriteFile(h, "mil", "weights") \/ WriteFile(h, "weights", "compile")
    BY <2>4, WriteFileIInv
  <2> QED
    BY <1>1, <2>1, <2>2, <2>3, <2>4, DescribeIInv, LookupIInv, MakeDirIInv,
       CompileIInv, LoadIInv, FinishIInv DEF OpenStep
<1>2. ASSUME NEW h \in Handles, CloseModel(h)
      PROVE  IInv'
  BY <1>2, CloseIInv DEF CloseModel, InUse
<1>3. ASSUME NEW src \in Handles, NEW h \in Handles, CloneModel(src, h)
      PROVE  IInv'
  BY <1>3, NewInstanceIInv DEF CloneModel
<1>4. ASSUME NEW t \in Threads, Unload(t)
      PROVE  IInv'
  BY <1>4, UnloadIInv DEF Unload
<1>5. ASSUME NEW c \in Hashes, Evict(c) \/ Purge(c)
      PROVE  IInv'
  BY <1>5, EvictIInv DEF Evict, Purge, IInv, TypeOK
<1>6. CASE UNCHANGED vars
  BY <1>6, EvictIInv DEF vars, IInv, TypeOK
<1> QED  BY <1>1, <1>2, <1>3, <1>4, <1>5, <1>6 DEF Next

THEOREM StoreIInv == Spec => []IInv
<1> QED  BY InitIInv, NextIInv, PTL DEF Spec

(* The variables keep their types: in particular the retain counts, which  *)
(* seven different exits of opens and closes lower, never go negative.     *)
THEOREM StoreTypeOK == Spec => []TypeOK
<1>1. IInv => TypeOK
  BY DEF IInv
<1> QED  BY <1>1, StoreIInv, PTL

(* A framework object is retained once for each handle that refers to it.  *)
THEOREM StoreRetainsBalanced == Spec => []RetainsBalanced
<1>1. IInv => RetainsBalanced
  BY DEF IInv
<1> QED  BY <1>1, StoreIInv, PTL

(* Every loaded program has a handle whose close will unload it, but one   *)
(* that new_instance put on the engine when it was not there.              *)
THEOREM StoreSomebodyUnloads == Spec => []SomebodyUnloads
<1>1. IInv => SomebodyUnloads
  BY DEF IInv
<1> QED  BY <1>1, StoreIInv, PTL

(* A model that was never cloned and says it is loaded is loaded.          *)
THEOREM StoreLoadedIsTrue == Spec => []LoadedIsTrue
<1>1. IInv => LoadedIsTrue
  BY DEF IInv
<1> QED  BY <1>1, StoreIInv, PTL

(* No temporary directory outlives the handles that made it.               *)
THEOREM StoreTempDirRemoved == Spec => []TempDirRemoved
<1>1. IInv => TempDirRemoved
  BY DEF IInv
<1> QED  BY <1>1, StoreIInv, PTL

(* A compile misses files only if another handle with the same contents    *)
(* was closed or failed meanwhile.                                         *)
THEOREM StoreCompileMisses == Spec => []CompileMissesOnlyIfSwept
<1>1. IInv => CompileMissesOnlyIfSwept
  BY DEF IInv, FilesInv, CompileMissesOnlyIfSwept
<1> QED  BY <1>1, StoreIInv, PTL
=============================================================================
