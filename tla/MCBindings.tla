------------------------------ MODULE MCBindings ------------------------------
(* Instances of Bindings for TLC.  A tensor of 3 bytes needs two rows of   *)
(* two; 1 byte is too small, and for 7 of 8 the row count wraps to zero.   *)
EXTENDS Bindings, TLC

Entry(type, dims) == [type |-> type, dims |-> dims]
Three == Entry("Int8", <<1, 3, 1, 1, 1>>)
Seven == Entry("UInt8", <<1, 7, 1, 1, 1>>)
Proc(ins, outs) == [inputs |-> ins, outputs |-> outs]

(* One model that can be opened, with a second procedure that is larger    *)
(* and a third one that is passed over; one that can be opened, and whose  *)
(* output no surface can be made for; and what may be wrong with one:      *)
(* no procedures; none that is well formed; an entry that is not; a type   *)
(* that is not known; an extent of zero; a depth below it; as many bytes   *)
(* as a size_t has values, and more; and a bad entry in a later procedure. *)
MCReports ==
  LET good == <<Three>>
      bad(e) == <<Proc(<<e>>, good)>>
  IN << <<Proc(good, <<Entry("UInt8", <<1, 1, 3, 1, 1>>)>>),
          Proc(<<Three, Entry("Float16", <<1, 3, 1, 1, 1>>)>>, good),
          Malformed>>,
        <<Proc(good, <<Seven>>)>>,
        <<>>, <<Malformed>>, bad(Malformed),
        bad(Entry("Bool", <<1, 3, 1, 1, 1>>)),
        bad(Entry("Int8", <<1, 3, 1, 0, 1>>)),
        bad(Entry("Int8", <<1, 3, -1, 1, 1>>)),
        bad(Entry("Float16", <<1, 2, 1, 2, 1>>)),
        bad(Entry("Float32", <<1, 3, 1, 1, 1>>)),
        <<Proc(good, good), Proc(good, <<Malformed>>)>> >>

(* Addresses and surfaces are interchangeable.                             *)
BindSymmetry ==
  Permutations(Buffers) \cup Permutations(Surfaces) \cup Permutations(Handles)
=============================================================================
