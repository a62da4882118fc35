-------------------------------- MODULE Schema --------------------------------
(***************************************************************************)
(* The tensors of a loaded model: what the framework's modelAttributes     *)
(* reports of them, what build_specs_from_live_list and                    *)
(* derive_specs_from_attrs_dict of c/src/ane_bridge.m make of that, and    *)
(* what the accessors of rust/ane-bridge/src/lib.rs hand to the client.    *)
(*                                                                         *)
(* A report is the NetworkStatusList: one element for each procedure.  A   *)
(* procedure has two lists of entries, an entry the element type and the   *)
(* extents <<Batches, Channels, Depth, Height, Width>>.  Whatever is       *)
(* missing or of a class it should not be is Malformed.                    *)
(***************************************************************************)
EXTENDS Integers, Sequences

CONSTANTS
  SizeRange,  (* number of values of a size_t: 2^64                        *)
  Malformed

(* What the framework can report of a model.  The extents are integers, and *)
(* the type any string.                                                    *)
TensorEntry == [type : STRING, dims : [1..5 -> Int]]
Entries == Seq(TensorEntry \cup {Malformed})
Procedures == [inputs : Entries, outputs : Entries] \cup {Malformed}

(* parse_dtype_string and ane_dtype_size: the types that are known, and    *)
(* the bytes of an element.                                                *)
DtypeSize == [Float32 |-> 4, Float16 |-> 2, Int32 |-> 4, Int64 |-> 8,
              UInt8 |-> 1, Int8 |-> 1]

(* The product as C checks it, by a division before each factor; SizeRange *)
(* stands for one that does not fit.                                       *)
CheckedBytes(elt, shape) ==
  LET f[k \in 0..Len(shape)] ==
        IF k = 0 THEN elt
        ELSE IF f[k - 1] > (SizeRange - 1) \div shape[k] THEN SizeRange
        ELSE f[k - 1] * shape[k]
  IN f[Len(shape)]

(* NCHW, or NCDHW when there is a depth.                                   *)
Shape(dims) ==
  IF dims[3] > 1 THEN dims ELSE <<dims[1], dims[2], dims[4], dims[5]>>

EntryBytes(e) == CheckedBytes(DtypeSize[e.type], Shape(e.dims))

EntryOK(e) ==
  /\ e # Malformed /\ e.type \in DOMAIN DtypeSize
  /\ \A i \in DOMAIN e.dims : e.dims[i] >= 1
  /\ EntryBytes(e) < SizeRange

OwnedSpec(e) ==
  [dtype |-> e.type, shape |-> Shape(e.dims), nbytes |-> EntryBytes(e)]

(* build_specs_from_live_list.                                             *)
BuildOK(live) == \A i \in DOMAIN live : EntryOK(live[i])
BuildSpecs(live) == [i \in DOMAIN live |-> OwnedSpec(live[i])]

(* derive_specs_from_attrs_dict.  Procedure 0 has to be well formed; of    *)
(* the others one without the two lists is passed over and has no tensors. *)
(* Nothing reports states.                                                 *)
NoTensors == [inputs |-> <<>>, outputs |-> <<>>, states |-> <<>>]
ProcSpecs(p) ==
  IF p = Malformed THEN NoTensors
  ELSE [NoTensors EXCEPT !.inputs = BuildSpecs(p.inputs),
                         !.outputs = BuildSpecs(p.outputs)]
DeriveOK(report) ==
  /\ report # <<>> /\ report[1] # Malformed
  /\ \A i \in DOMAIN report :
       report[i] # Malformed => /\ BuildOK(report[i].inputs)
                                /\ BuildOK(report[i].outputs)
Derive(report) == [i \in DOMAIN report |-> ProcSpecs(report[i])]
-----------------------------------------------------------------------------
(* The accessors; procs is what Derive gives, kind "inputs", "outputs" or  *)
(* "states", and procedures and tensors are numbered from 0.               *)

(* proc_at; a procedure that does not exist has no tensors.                *)
ProcAt(procs, p) ==
  IF p \in 0..(Len(procs) - 1) THEN procs[p + 1] ELSE NoTensors

SpecsAt(procs, p, kind) == ProcAt(procs, p)[kind]
InRange(procs, p, kind, i) == i \in 0..(Len(SpecsAt(procs, p, kind)) - 1)

(* num_..._for_procedure and ..._nbytes_for_procedure.                     *)
CountFor(procs, p, kind) == Len(SpecsAt(procs, p, kind))
NbytesFor(procs, p, kind, i) ==
  IF InRange(procs, p, kind, i) THEN SpecsAt(procs, p, kind)[i + 1].nbytes
  ELSE 0

(* The same of a Model, whose tensors are those of procedure 0.            *)
Count(procs, kind) == CountFor(procs, 0, kind)
Nbytes(procs, kind, i) == NbytesFor(procs, 0, kind, i)

(* tensor_spec_from_raw of what ..._spec_for_procedure points to: Rust     *)
(* copies the type and the shape and not the byte count.                   *)
TensorSpec(dtype, shape) == [dtype |-> dtype, shape |-> shape]
TensorFor(procs, p, kind, i) ==
  LET s == SpecsAt(procs, p, kind)[i + 1] IN TensorSpec(s.dtype, s.shape)

(* TensorSpec::nbytes computes the byte count again, and is 0 for a        *)
(* negative extent or a product that does not fit.                         *)
TensorNbytes(t) ==
  LET f[k \in 0..Len(t.shape)] ==
        IF k = 0 THEN DtypeSize[t.dtype]
        ELSE IF f[k - 1] = -1 \/ t.shape[k] < 0
                \/ f[k - 1] * t.shape[k] >= SizeRange THEN -1
        ELSE f[k - 1] * t.shape[k]
  IN IF f[Len(t.shape)] = -1 THEN 0 ELSE f[Len(t.shape)]
-----------------------------------------------------------------------------
(* The bytes of a dense tensor, whatever a size_t can hold.                *)
DenseBytes(e) ==
  DtypeSize[e.type] * e.dims[1] * e.dims[2] * e.dims[3] * e.dims[4] * e.dims[5]

(* In every procedure, what C says a tensor needs is what Rust computes    *)
(* from the shape and type it was handed, and what a dense tensor of the   *)
(* entry takes.                                                            *)
SchemaExact(report) ==
  LET procs == Derive(report)
      Agrees(p, kind, live) ==
        /\ CountFor(procs, p, kind) = Len(live)
        /\ \A i \in 0..(Len(live) - 1) :
             /\ NbytesFor(procs, p, kind, i) = DenseBytes(live[i + 1])
             /\ TensorNbytes(TensorFor(procs, p, kind, i))
                  = DenseBytes(live[i + 1])
  IN \A p \in 0..(Len(report) - 1) :
       report[p + 1] # Malformed => /\ Agrees(p, "inputs", report[p + 1].inputs)
                                    /\ Agrees(p, "outputs", report[p + 1].outputs)
=============================================================================
