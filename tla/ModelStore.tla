------------------------------ MODULE ModelStore ------------------------------
(***************************************************************************)
(* The models a process opens: ane_model_open, ane_model_open_ex,          *)
(* ane_model_open_file, ane_model_new_instance, ane_model_unload,          *)
(* ane_cache_purge_for_hash and ane_model_close of c/src/ane_bridge.m.     *)
(*                                                                         *)
(* Any number of opens run at the same time, each on its own thread: a     *)
(* step is one call into the framework or one file operation, and an open  *)
(* may fail at each of them, which closes the half-made handle.  They meet *)
(* in aned's cache of compiled programs, in the temporary directory that   *)
(* is named by the content hash, and in the framework object a second      *)
(* instance shares with its source.  A finished model is shared by         *)
(* threads (Arc), each of which may unload it; it is closed when the last  *)
(* of them is done with it.                                                *)
(***************************************************************************)
EXTENDS Naturals, FiniteSets

CONSTANTS
  Handles,   (* AneModel structs                                           *)
  Objects,   (* addresses of _ANEInMemoryModel / _ANEModel objects         *)
  Hashes,    (* hexStringIdentifier of the contents that are opened        *)
  Threads,   (* threads that unload a model                                *)
  NoObject, NoHandle

ASSUME StoreAssumption ==
  /\ NoObject \notin Objects /\ NoHandle \notin Handles
  /\ IsFiniteSet(Handles) /\ Hashes # {}

VARIABLES
  model,    (* the AneModel structs, with the progress of their open       *)
  refs,     (* retain count of each framework object                       *)
  program,  (* objects whose program is loaded on the engine               *)
  derived,  (* contents whose cache-derived handle was loaded on the engine*)
  cache,    (* hashes whose compiled program aned keeps                    *)
  disk,     (* what the temporary directory of a hash holds                *)
  unl,      (* what each thread is doing in ane_model_unload               *)
  reloaded, (* history: objects whose program only new_instance put there  *)
  swept,    (* history: opens whose directory was removed under them       *)
  cloned    (* history: objects that were shared by a second instance      *)

vars == <<model, refs, program, derived, reloaded, cache, disk, unl, swept, cloned>>

Opening == {"describe", "object", "lookup", "mkdir", "mil", "weights",
            "compile", "load", "derive"}
Materialising == {"mil", "weights", "compile"}
Files == {"dir", "mil", "weights"}

(* A struct whose open has come to pc, through which call, for contents c. *)
Struct(pc, via, c, o, secondary) ==
  [pc |-> pc, via |-> via, hash |-> c, obj |-> o, dir |-> FALSE,
   loaded |-> secondary, xpc |-> FALSE, secondary |-> secondary]
NoModel == Struct("none", "open", CHOOSE c \in Hashes : TRUE, NoObject, FALSE)
Idle == [pc |-> "idle", h |-> NoHandle]

Init ==
  /\ model = [h \in Handles |-> NoModel]
  /\ refs = [o \in Objects |-> 0]
  /\ program = {} /\ derived = {} /\ reloaded = {} /\ cache = {}
  /\ disk = [c \in Hashes |-> {}]
  /\ unl = [t \in Threads |-> Idle]
  /\ swept = {} /\ cloned = {}

At(h, at) == model[h].pc = at
Goto(h, to) == model' = [model EXCEPT ![h].pc = to]
Missing(h) == Files \ disk[model[h].hash]

-----------------------------------------------------------------------------
(* ane_model_close: of a finished model nobody uses, or of the half-made   *)
(* handle of an open that failed.                                          *)

(* The close unloads the program: loadWithQoS succeeded and the handle is  *)
(* not a second instance.                                                  *)
OwnsProgram(h) == model[h].loaded /\ ~model[h].secondary

(* Handles that share h's temporary directory and still rely on it.        *)
Under(h) == {k \in Handles \ {h} : /\ model[k].dir
                                   /\ model[k].hash = model[h].hash
                                   /\ model[k].pc \in Materialising}

(* Wrong variant, what the comment in ane_model_close says: a secondary    *)
(* handle does not drop its reference.                                     *)
DropPrimaryReference(h) ==
  refs' = [o \in Objects |-> IF o = model[h].obj /\ ~model[h].secondary
                             THEN refs[o] - 1 ELSE refs[o]]

DropReference(h) ==
  refs' = [o \in Objects |-> IF o = model[h].obj THEN refs[o] - 1 ELSE refs[o]]

(* Wrong variant: the directory of a model that was opened is left.        *)
RemoveFailedDirectory(h) ==
  IF At(h, "open") THEN UNCHANGED <<disk, swept>>
  ELSE /\ disk' = [c \in Hashes |-> IF model[h].dir /\ c = model[h].hash
                                    THEN {} ELSE disk[c]]
       /\ swept' = (swept \cup (IF model[h].dir THEN Under(h) ELSE {})) \ {h}

RemoveDirectory(h) ==
  /\ disk' = [c \in Hashes |-> IF model[h].dir /\ c = model[h].hash
                               THEN {} ELSE disk[c]]
  /\ swept' = (swept \cup (IF model[h].dir THEN Under(h) ELSE {})) \ {h}

Close(h) ==
  /\ model' = [model EXCEPT ![h] = NoModel]
  /\ program' = IF OwnsProgram(h) THEN program \ {model[h].obj} ELSE program
  /\ DropReference(h) /\ RemoveDirectory(h)
  /\ UNCHANGED <<derived, reloaded, cache, unl, cloned>>

InUse(h) == \E t \in Threads : unl[t].h = h

CloseModel(h) == At(h, "open") /\ ~InUse(h) /\ Close(h)

-----------------------------------------------------------------------------
(* ane_model_open and ane_model_open_ex.                                   *)

(* The source files were read and the struct allocated.                    *)
Open(h, via, c) ==
  /\ At(h, "none")
  /\ model' = [model EXCEPT ![h] =
                 Struct(IF via = "file" THEN "object" ELSE "describe",
                        via, c, NoObject, FALSE)]
  /\ UNCHANGED <<refs, program, derived, reloaded, cache, disk, unl, swept, cloned>>

(* The calls of Rust that open a model, and what each begins.  The two     *)
(* real-time ones differ in name only.                                     *)
OpenModel(h, c) == Open(h, "open", c)
OpenRealtime(h, c) == OpenModel(h, c)
OpenEx(h, c) == Open(h, "open_ex", c)
OpenRealtimeEx(h, c) == OpenEx(h, c)

(* ane_model_open_file takes a compiled bundle: there is no descriptor and *)
(* no compile, it goes from the object to the load and the schema.  With   *)
(* dictionaries of the caller the object is made from those.               *)
OpenBundle(h, c) == Open(h, "file", c)
OpenFile(h, c) == OpenBundle(h, c)
OpenFileEx(h, c) == OpenBundle(h, c)

Describe(h) ==
  /\ At(h, "describe") /\ Goto(h, "object")
  /\ UNCHANGED <<refs, program, derived, reloaded, cache, disk, unl, swept, cloned>>

(* The framework object is made and retained.  Where an address is used    *)
(* again, what program says of it is said of the new object.               *)
MakeObject(h, o) ==
  /\ At(h, "object") /\ refs[o] = 0
  /\ model' = [model EXCEPT ![h].obj = o,
               ![h].pc = IF model[h].via = "file" THEN "load" ELSE "lookup"]
  /\ refs' = [refs EXCEPT ![o] = 1]
  /\ program' = program \ {o} /\ reloaded' = reloaded \ {o} /\ cloned' = cloned \ {o}
  /\ UNCHANGED <<derived, cache, disk, unl, swept>>

(* compiledModelExists; a framework without that selector means no.  On a *)
(* miss temp_dir is set, before anything is written to it.                 *)
Lookup(h) ==
  /\ At(h, "lookup")
  /\ \/ model' = [model EXCEPT ![h].pc = "mkdir", ![h].dir = TRUE]
     \/ model[h].hash \in cache /\ Goto(h, "load")
  /\ UNCHANGED <<refs, program, derived, reloaded, cache, disk, unl, swept, cloned>>

(* open gives up when the directory cannot be made, open_ex does not look  *)
(* at the result.                                                          *)
MakeDir(h) ==
  /\ At(h, "mkdir") /\ Goto(h, "mil")
  /\ \/ disk' = [disk EXCEPT ![model[h].hash] = @ \cup {"dir"}]
     \/ model[h].via = "open_ex" /\ UNCHANGED disk
  /\ UNCHANGED <<refs, program, derived, reloaded, cache, unl, swept, cloned>>

(* Wrong variant: a failed write goes on to compile.                       *)
WriteUnchecked(h, file, to) ==
  /\ At(h, file) /\ Goto(h, to)
  /\ \/ /\ "dir" \in disk[model[h].hash]
        /\ disk' = [disk EXCEPT ![model[h].hash] = @ \cup {file}]
     \/ UNCHANGED disk
  /\ UNCHANGED <<refs, program, derived, reloaded, cache, unl, swept, cloned>>

(* A file is written if its directory exists.                              *)
WriteFile(h, file, to) ==
  /\ At(h, file) /\ Goto(h, to)
  /\ \/ /\ "dir" \in disk[model[h].hash]
        /\ disk' = [disk EXCEPT ![model[h].hash] = @ \cup {file}]
     \/ model[h].via = "open_ex" /\ UNCHANGED disk
  /\ UNCHANGED <<refs, program, derived, reloaded, cache, unl, swept, cloned>>

(* ANECCompile reads the files and aned caches the program.                *)
Compile(h) ==
  /\ At(h, "compile") /\ Missing(h) = {} /\ Goto(h, "load")
  /\ cache' = cache \cup {model[h].hash}
  /\ UNCHANGED <<refs, program, derived, reloaded, disk, unl, swept, cloned>>

(* Wrong variant: loaded is not set.                                       *)
LoadUnmarked(h) ==
  /\ At(h, "load") /\ Goto(h, "derive")
  /\ model[h].via = "file" \/ model[h].hash \in cache
  /\ program' = program \cup {model[h].obj}
  /\ UNCHANGED <<refs, derived, reloaded, cache, disk, unl, swept, cloned>>

(* loadWithQoS: takes the program from the cache; open_file's loadModel:   *)
(* from the bundle.                                                        *)
Load(h) ==
  /\ At(h, "load")
  /\ model[h].via = "file" \/ model[h].hash \in cache
  /\ model' = [model EXCEPT ![h].pc = "derive", ![h].loaded = TRUE]
  /\ program' = program \cup {model[h].obj}
  /\ UNCHANGED <<refs, derived, reloaded, cache, disk, unl, swept, cloned>>

(* The schema was derived and the client made.  open also tries to load a  *)
(* cache-derived handle that can cross to aned; most processes may not.    *)
(* The load stands beside that of the framework object.                    *)
Finish(h) ==
  /\ At(h, "derive")
  /\ \/ Goto(h, "open") /\ UNCHANGED derived
     \/ /\ model[h].via = "open" /\ ~model[h].secondary
        /\ model' = [model EXCEPT ![h].pc = "open", ![h].xpc = TRUE]
        /\ derived' = derived \cup {model[h].hash}
  /\ UNCHANGED <<refs, program, reloaded, cache, disk, unl, swept, cloned>>

(* A step of the open fails: the handle is closed and an error returned.   *)
(* open_ex has no failing step between the lookup and the compile.         *)
OpenFails(h) ==
  /\ model[h].pc \in Opening \ {"lookup"}
  /\ model[h].via = "open_ex" => model[h].pc \notin {"mkdir", "mil", "weights"}
  /\ Close(h)

-----------------------------------------------------------------------------
(* ane_model_new_instance loads src's program once more, whether it is     *)
(* loaded or not: through the cache-derived handle, or through the object  *)
(* of a file-opened model, which both can cross to aned.                   *)
LoadAgain(src) ==
  LET o == model[src].obj
  IN IF model[src].xpc
       THEN derived' = derived \cup {model[src].hash} /\ UNCHANGED <<program, reloaded>>
       ELSE /\ model[src].via = "file"
            /\ program' = program \cup {o} /\ UNCHANGED derived
            /\ reloaded' = IF o \in program THEN reloaded ELSE reloaded \cup {o}

(* A handle that shares src's framework object is made.                    *)
Secondary(src, h) ==
  /\ At(h, "none")
  /\ model' = [model EXCEPT ![h] = Struct("derive", model[src].via,
                 model[src].hash, model[src].obj, TRUE)]
  /\ cloned' = cloned \cup {model[src].obj}

(* Wrong variant: the shared object is not retained.                       *)
NewInstanceUnretained(src, h) ==
  /\ At(src, "open") /\ LoadAgain(src) /\ Secondary(src, h)
  /\ UNCHANGED <<refs, cache, disk, unl, swept>>

(* Only a source that can cross to aned will do (LoadAgain).  Nothing      *)
(* keeps src open for the instance, and the instance is no owner.          *)
NewInstance(src, h) ==
  /\ At(src, "open") /\ LoadAgain(src) /\ Secondary(src, h)
  /\ refs' = [refs EXCEPT ![model[src].obj] = @ + 1]
  /\ UNCHANGED <<cache, disk, unl, swept>>

(* Model::new_instance, which passes a key that C ignores.                 *)
CloneModel(src, h) == NewInstance(src, h)

-----------------------------------------------------------------------------
(* ane_model_unload by thread t: the test of loaded...                     *)
UnloadTest(t, h) ==
  /\ unl[t] = Idle /\ At(h, "open") /\ model[h].loaded
  /\ unl' = [unl EXCEPT ![t] = [pc |-> "message", h |-> h]]
  /\ UNCHANGED <<model, refs, program, derived, reloaded, cache, disk, swept, cloned>>

(* Wrong variant: loaded is not cleared.                                   *)
UnloadForgets(t) ==
  /\ unl[t].pc = "message"
  /\ program' = program \ {model[unl[t].h].obj}
  /\ unl' = [unl EXCEPT ![t] = Idle]
  /\ UNCHANGED <<model, refs, derived, reloaded, cache, disk, swept, cloned>>

(* ... unloadWithQoS:, which refuses when the program is not loaded ...    *)
UnloadMessage(t) ==
  /\ unl[t].pc = "message"
  /\ program' = program \ {model[unl[t].h].obj}
  /\ unl' = [unl EXCEPT ![t] = IF model[unl[t].h].obj \in program
                               THEN [@ EXCEPT !.pc = "store"] ELSE Idle]
  /\ UNCHANGED <<model, refs, derived, reloaded, cache, disk, swept, cloned>>

(* ... and the store.                                                      *)
UnloadStore(t) ==
  /\ unl[t].pc = "store"
  /\ model' = [model EXCEPT ![unl[t].h].loaded = FALSE]
  /\ unl' = [unl EXCEPT ![t] = Idle]
  /\ UNCHANGED <<refs, program, derived, reloaded, cache, disk, swept, cloned>>

(* One thread's unload, which returns after the store.                     *)
Unload(t) ==
  (\E h \in Handles : UnloadTest(t, h)) \/ UnloadMessage(t) \/ UnloadStore(t)

(* aned drops a program: by itself, or as it restarts ...                  *)
Evict(c) ==
  /\ c \in cache /\ cache' = cache \ {c}
  /\ UNCHANGED <<model, refs, program, derived, reloaded, disk, unl, swept, cloned>>

(* ... or when cache_purge_for_hash asks for it.                           *)
Purge(c) == Evict(c)

(* The steps of the opens.                                                 *)
Begin(h, c) ==
  \/ OpenModel(h, c) \/ OpenRealtime(h, c) \/ OpenEx(h, c)
  \/ OpenRealtimeEx(h, c) \/ OpenFile(h, c) \/ OpenFileEx(h, c)

OpenStep(h) ==
  \/ \E c \in Hashes : Begin(h, c)
  \/ Describe(h) \/ Lookup(h) \/ MakeDir(h)
  \/ \E o \in Objects : MakeObject(h, o)
  \/ WriteFile(h, "mil", "weights") \/ WriteFile(h, "weights", "compile")
  \/ Compile(h) \/ Load(h) \/ Finish(h) \/ OpenFails(h)

Next ==
  \/ \E h \in Handles : OpenStep(h) \/ CloseModel(h)
  \/ \E src, h \in Handles : CloneModel(src, h)
  \/ \E t \in Threads : Unload(t)
  \/ \E c \in Hashes : Evict(c) \/ Purge(c)

Spec == Init /\ [][Next]_vars
-----------------------------------------------------------------------------
(* PROPERTIES                                                              *)

(* The values each variable may take; no object is retained more often     *)
(* than there are handles.                                                 *)
TypeOK ==
  /\ model \in [Handles -> [pc : Opening \cup {"none", "open"},
                            via : {"open", "open_ex", "file"}, hash : Hashes,
                            obj : Objects \cup {NoObject}, dir : BOOLEAN,
                            loaded : BOOLEAN, xpc : BOOLEAN,
                            secondary : BOOLEAN]]
  /\ refs \in [Objects -> 0..Cardinality(Handles)]
  /\ program \subseteq Objects /\ reloaded \subseteq Objects
  /\ derived \subseteq Hashes /\ cache \subseteq Hashes
  /\ disk \in [Hashes -> SUBSET Files]
  /\ unl \in [Threads -> [pc : {"idle", "message", "store"},
                          h : Handles \cup {NoHandle}]]
  /\ swept \subseteq Handles /\ cloned \subseteq Objects

(* A framework object is retained exactly once for each handle that refers *)
(* to it, whichever of the exits of the opens and closes was taken: none   *)
(* is used after it was freed and none outlives its handles.               *)
Holders(o) == {h \in Handles : model[h].obj = o}

RetainsBalanced == \A o \in Objects : refs[o] = Cardinality(Holders(o))

(* Every loaded program has a handle whose close will unload it, after     *)
(* failed opens and whatever was unloaded, cloned or closed before, by     *)
(* which threads and in which order.  The one exception is a program that  *)
(* new_instance put on the engine when it was not there: its instance      *)
(* never unloads, and its source says that it is not loaded or is closed.  *)
(* What was loaded through a cache-derived handle no call ever unloads.    *)
SomebodyUnloads ==
  \A o \in program \ reloaded :
    \E h \in Handles : model[h].obj = o /\ OwnsProgram(h)

(* A model that was never cloned and says it is loaded is loaded, whatever *)
(* threads unload it (but for the moment between the message and the       *)
(* store of one of them).                                                  *)
LoadedIsTrue ==
  \A h \in Handles :
    /\ model[h].loaded /\ model[h].obj \notin cloned
    /\ \A t \in Threads : unl[t] # [pc |-> "store", h |-> h]
    => model[h].obj \in program

(* No temporary directory outlives the handles that made it, although      *)
(* several handles make and remove the same one.                           *)
TempDirRemoved ==
  \A c \in Hashes : disk[c] # {} =>
    \E h \in Handles : model[h].dir /\ model[h].hash = c

(* ane_model_open comes to its compile with all its files in place, unless *)
(* a handle with the same contents was closed, or failed to open, since it *)
(* began to write them.                                                    *)
CompileMissesOnlyIfSwept ==
  \A h \in Handles :
    At(h, "compile") /\ model[h].via = "open" /\ Missing(h) # {} => h \in swept

(***************************************************************************)
(* The inductive invariant that ModelStoreProofs.tla proves: what a handle *)
(* holds at each point of its open, who may share its framework object,    *)
(* which files an open can count on and what an unloading thread knows.    *)
(***************************************************************************)
Alone == {"lookup", "mkdir", "load"} \cup Materialising

HandleInv ==
  \A h \in Handles :
    /\ model[h].pc \in {"none", "describe", "object"}
       => /\ model[h].obj = NoObject
          /\ ~model[h].loaded /\ ~model[h].dir /\ ~model[h].secondary
    /\ model[h].pc \in Alone
       => ~model[h].loaded /\ ~model[h].secondary
    /\ model[h].pc \in Alone \cup {"derive", "open"} => model[h].obj \in Objects
    /\ model[h].pc \in {"mkdir"} \cup Materialising => model[h].dir

(* Only a finished handle's object is shared, and then it counts as cloned.*)
SharingInv ==
  \A h, k \in Handles :
    model[h].obj = model[k].obj /\ model[h].obj # NoObject /\ h # k
      => model[h].pc \notin Alone /\ model[h].obj \in cloned

FilesInv ==
  \A h \in Handles \ swept : model[h].via = "open" =>
    /\ At(h, "mil") => Missing(h) \subseteq {"mil", "weights"}
    /\ At(h, "weights") => Missing(h) \subseteq {"weights"}
    /\ At(h, "compile") => Missing(h) = {}

UnloadInv ==
  \A t \in Threads :
    \/ unl[t] = Idle
    \/ /\ unl[t].h \in Handles /\ At(unl[t].h, "open")
       /\ unl[t].pc = "store" => model[unl[t].h].obj \notin program \ reloaded

IInv == /\ TypeOK /\ RetainsBalanced /\ SomebodyUnloads /\ LoadedIsTrue
        /\ TempDirRemoved /\ HandleInv /\ SharingInv /\ FilesInv /\ UnloadInv

(* The header: a new instance "shares the compiled program with src but    *)
(* owns its own runtime state".  Closing the source unloads the one        *)
(* program both evaluate on.  VIOLATED.                                    *)
InstanceOwnsItsState ==
  [][\A h, k \in Handles :
       CloseModel(h) /\ k # h /\ At(k, "open") /\ model[k].obj \in program
         => model[k].obj \in program']_vars
=============================================================================
