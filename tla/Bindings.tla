------------------------------- MODULE Bindings -------------------------------
(***************************************************************************)
(* Buffers and what refers to them: the Buffer values of                   *)
(* rust/ane-bridge/src/lib.rs, the AneBuffer structs and IOSurfaces of     *)
(* c/src/ane_bridge.m behind them, the slots of a Request on both sides of *)
(* the C interface, and the chain a request can be moved into.             *)
(*                                                                         *)
(* C keeps bare pointers and Rust owns what they point to.  A call that    *)
(* takes a value takes it whether it succeeds or not: an error drops it.   *)
(* Request says what the threads may do at once; here a call is one step,  *)
(* as all that can happen beside it is the end of an evaluation.           *)
(***************************************************************************)
EXTENDS FiniteSets, Schema

CONSTANTS
  Reports,        (* the reports of the models a client opens, a sequence  *)
  NumIn, NumOut,  (* inputs and outputs of those that can be opened        *)
  Buffers,        (* addresses of AneBuffers: reused once freed            *)
  Handles,        (* addresses of AnePerfStats and AneSharedEvents         *)
  Surfaces,       (* IOSurfaces                                            *)
  Nil,            (* a null pointer, or None                               *)
  Sizes, Claims,  (* byte counts a client gives to create and to alias     *)
  RowWidth, SingleRow,
                  (* 4096 and 16384 in the code                            *)
  MaxHeld         (* bound of the model: values the client has in hand     *)

ASSUME BindingsAssumption ==
  /\ Reports \in Seq(Seq(Procedures))
  /\ IsFiniteSet(Buffers)
  /\ NumIn \in Nat /\ NumOut \in Nat \ {0} /\ MaxHeld \in Nat
  /\ Nil \notin Buffers \cup Handles /\ Buffers \cap Handles = {}
  /\ RowWidth \in Nat \ {0} /\ SingleRow \in Nat /\ SizeRange \in Nat \ {0}
  /\ Sizes \cup Claims \subseteq 0..(SizeRange - 1)
  /\ \A r \in DOMAIN Reports : DeriveOK(Reports[r]) =>
       /\ Count(Derive(Reports[r]), "inputs") = NumIn
       /\ Count(Derive(Reports[r]), "outputs") = NumOut

VARIABLES
  model,   (* the report it was derived from, 0 before it is opened; the   *)
           (* Arc of ModelInner: its count, whether the client has one and *)
           (* whether the model was closed                                 *)
  heap,    (* the structs that are allocated, and the surfaces             *)
  hand,    (* Buffers, PerfStats and SharedEvents the client owns          *)
  guard,   (* the LockGuard that is alive                                  *)
  ahead,   (* surfaces the CPU wrote to and did not publish                *)
  rq,      (* the request                                                  *)
  flight,  (* what the engine was given by the latest submit, until it ends *)
  chain    (* the chain, and whether an enqueue is running                 *)

vars == <<model, heap, hand, guard, ahead, rq, flight, chain>>

Inputs == {<<"in", i>> : i \in 0..(NumIn - 1)}
Outputs == {<<"out", i>> : i \in 0..(NumOut - 1)}
Tensors == Inputs \cup Outputs
Attachments == {<<"weights", 0>>, <<"stats", 0>>, <<"events", 0>>}
Slots == Tensors \cup Attachments
Weights == <<"weights", 0>>
Stats == <<"stats", 0>>
Events == <<"events", 0>>

NoGuard == [buf |-> Nil, flags |-> {}]
NoUse == [s \in Slots |-> Nil]
NoChain == [live |-> FALSE, busy |-> FALSE, uses |-> NoUse]

(* What the model says a slot's tensor needs.                              *)
Procs == [r \in DOMAIN Reports |-> Derive(Reports[r])]
Kind(s) == IF s[1] = "in" THEN "inputs" ELSE "outputs"
Need(s) == Nbytes(Procs[model.report], Kind(s), s[2])

(* A definition whose comment says "Wrong variant" is not part of the      *)
(* specification: it is the definition after it with a plausible bug, kept *)
(* to show that the properties below can fail.                             *)
-----------------------------------------------------------------------------
(* The heap: bufs says of each AneBuffer which surface it has and how many *)
(* bytes it claims, surfs says of each surface how often it is retained    *)
(* and how large it is, and handles are the other structs.                 *)

(* Wrong variant: the last row of a surface is cut off.                    *)
AllocSizeShort(bytes) ==
  IF bytes <= SingleRow THEN bytes ELSE RowWidth * (bytes \div RowWidth)

(* make_surface: one row, or rows of a fixed width; size_t wraps.          *)
AllocSize(bytes) ==
  IF bytes = 0 THEN 1
  ELSE IF bytes <= SingleRow THEN bytes
  ELSE RowWidth * (((bytes + (RowWidth - 1)) % SizeRange) \div RowWidth)

(* An AneBuffer; adopted is kept for SurfaceHoldsTensor only.              *)
Struct(s, n, adopted) == [surface |-> s, nbytes |-> n, adopted |-> adopted]

(* ane_buffer_create of n[b] bytes for every b in the domain of place,     *)
(* which maps it to a fresh surface; IOSurfaceCreate refuses to make an    *)
(* empty one.                                                              *)
FreshEach(h, place, n) ==
  LET new == {place[b] : b \in DOMAIN place}
      size(s) == AllocSize(n[CHOOSE b \in DOMAIN place : place[b] = s])
  IN [bufs    |-> [b \in DOMAIN h.bufs \cup DOMAIN place |->
                     IF b \in DOMAIN place THEN Struct(place[b], n[b], FALSE)
                     ELSE h.bufs[b]],
      surfs   |-> [s \in DOMAIN h.surfs \cup new |->
                     IF s \in DOMAIN h.surfs THEN h.surfs[s]
                     ELSE [retains |-> 1, size |-> size(s)]],
      handles |-> h.handles]
Fresh(h, place, n) == FreshEach(h, place, [b \in DOMAIN place |-> n])

(* The ways to place new buffers, one for each element of some set.        *)
Places(h, count) ==
  {place \in UNION {[bs -> Surfaces \ DOMAIN h.surfs] :
                      bs \in SUBSET (Buffers \ DOMAIN h.bufs)} :
     /\ Cardinality(DOMAIN place) = count
     /\ Cardinality({place[b] : b \in DOMAIN place}) = count}

(* ane_buffer_adopt_iosurface: the caller's byte count is taken as it is.  *)
Adopt(h, b, s, n) ==
  [bufs    |-> [x \in DOMAIN h.bufs \cup {b} |->
                  IF x = b THEN Struct(s, n, TRUE) ELSE h.bufs[x]],
   surfs   |-> [h.surfs EXCEPT ![s].retains = @ + 1],
   handles |-> h.handles]

(* ane_buffer_release of some buffers, ane_perf_stats_release and          *)
(* ane_shared_events_release of some handles; Nil is let pass.             *)
Release(h, xs) ==
  LET freed(s) == Cardinality({b \in xs \cap DOMAIN h.bufs :
                                 h.bufs[b].surface = s})
      kept == {s \in DOMAIN h.surfs : h.surfs[s].retains > freed(s)}
  IN [bufs    |-> [b \in DOMAIN h.bufs \ xs |-> h.bufs[b]],
      surfs   |-> [s \in kept |-> [h.surfs[s] EXCEPT !.retains = @ - freed(s)]],
      handles |-> h.handles \ xs]

Alive(h) == DOMAIN h.bufs \cup h.handles

(* The flags of ane_buffer_lock and what ane_buffer_unlock replays.        *)
LockFlags(access) ==
  CASE access = "read" -> {"ReadOnly"}
    [] access = "write" -> {}
    [] access = "nosync" -> {"AvoidSync"}
(* Wrong variant: the flags are replayed as they were.                     *)
UnlockFlagsSame(flags) == flags
UnlockFlags(flags) == flags \ {"AvoidSync"}

-----------------------------------------------------------------------------
(* The request.  bound are the Rust slots, which own; ptr the pointers of  *)
(* the C struct; own the buffers the C struct owns.                        *)

NoRequest == [at |-> "none", bound |-> NoUse, ptr |-> NoUse, own |-> NoUse]

(* Wrong variant: the buffers C made for itself are forgotten.             *)
OwnedByRust(r) == {r.bound[s] : s \in Slots} \ {Nil}

(* What goes with a request.                                               *)
Owned(r) == ({r.bound[s] : s \in Slots} \cup {r.own[s] : s \in Slots}) \ {Nil}

(* The guard borrows the Buffer it locks, and with it the request that     *)
(* holds that Buffer.                                                      *)
InFlight == flight # NoUse
InHand == hand \ {guard.buf}
RequestFree ==
  rq.at = "client" /\ guard.buf \notin {rq.bound[s] : s \in Tensors} \ {Nil}

(* Wrong variant: is_done is not asked.                                    *)
ReachableAlways ==
  InHand \cup (IF RequestFree THEN {rq.bound[s] : s \in Tensors} \ {Nil} ELSE {})

(* input_buffer_mut and output_buffer_mut: the buffers of the slots, once  *)
(* is_done says so.                                                        *)
Reachable ==
  InHand \cup (IF RequestFree /\ ~InFlight
                 THEN {rq.bound[s] : s \in Tensors} \ {Nil} ELSE {})

(* Wrong variant: the pointer is stored before it is checked.              *)
BindEarly(r, s, b) ==
  [ok |-> heap.bufs[b].nbytes >= Need(s) /\ ~InFlight,
   r  |-> [r EXCEPT !.ptr[s] = b]]

(* ane_request_bind_input and ane_request_bind_output.                     *)
Bind(r, s, b) ==
  IF InFlight \/ heap.bufs[b].nbytes < Need(s) THEN [ok |-> FALSE, r |-> r]
  ELSE [ok |-> TRUE, r |-> [r EXCEPT !.ptr[s] = b]]

(* ane_request_set_weights, _set_perf_stats and _set_shared_events, with   *)
(* ANE_REQUEST_SETTER_GUARD.                                               *)
Set(r, s, x) ==
  IF InFlight THEN [ok |-> FALSE, r |-> r]
  ELSE [ok |-> TRUE, r |-> [r EXCEPT !.ptr[s] = x]]

-----------------------------------------------------------------------------
(* Actions of the client.                                                  *)

BInit ==
  /\ model = [report |-> 0, arcs |-> 0, held |-> FALSE, open |-> FALSE]
  /\ heap = [bufs |-> [b \in {} |-> 0], surfs |-> [s \in {} |-> 0], handles |-> {}]
  /\ hand = {} /\ guard = NoGuard /\ ahead = {}
  /\ rq = NoRequest /\ flight = NoUse /\ chain = NoChain

(* Model::open: the schema is derived from what was loaded; when that      *)
(* fails the half-made model is closed and the client has none.            *)
OpenModel ==
  /\ model.report = 0
  /\ \E r \in DOMAIN Reports :
       model' = IF DeriveOK(Reports[r])
                  THEN [report |-> r, arcs |-> 1, held |-> TRUE, open |-> TRUE]
                  ELSE model
  /\ UNCHANGED <<heap, hand, guard, ahead, rq, flight, chain>>

(* Wrong variant: an Arc is leaked.                                        *)
LessOneLeaked(m) == m

(* One Arc less: the last one closes the model.                            *)
LessOne(m) == [m EXCEPT !.arcs = IF @ = 0 THEN 0 ELSE @ - 1, !.open = m.arcs > 1]

DropModel ==
  /\ model.held /\ model' = [LessOne(model) EXCEPT !.held = FALSE]
  /\ UNCHANGED <<heap, hand, guard, ahead, rq, flight, chain>>

Take(x) == hand' = hand \cup {x}

(* A new buffer for the client.                                            *)
HandOut(n) ==
  \E place \in Places(heap, 1) :
    /\ Cardinality(hand) < MaxHeld /\ AllocSize(n) > 0
    /\ heap' = Fresh(heap, place, n)
    /\ \E b \in DOMAIN place : Take(b)
    /\ UNCHANGED <<model, guard, ahead, rq, flight, chain>>

(* Buffer::new and Model::buffer.                                          *)
NewBuffer == \E n \in Sizes : HandOut(n)

(* Model::input_buffer and Model::output_buffer; a state_buffer has no     *)
(* index it accepts.                                                       *)
NewTensorBuffer == model.held /\ \E s \in Tensors : HandOut(Need(s))

(* Buffer::alias, by which adopt_iosurface takes a surface that a Buffer   *)
(* already has.                                                            *)
Alias ==
  \E x \in Reachable \cap DOMAIN heap.bufs, b \in Buffers \ DOMAIN heap.bufs, n \in Claims :
    /\ Cardinality(hand) < MaxHeld
    /\ heap' = Adopt(heap, b, heap.bufs[x].surface, n) /\ Take(b)
    /\ UNCHANGED <<model, guard, ahead, rq, flight, chain>>

(* PerfStats::new and SharedEvents::new.                                   *)
NewHandle ==
  \E x \in Handles \ heap.handles :
    /\ Cardinality(hand) < MaxHeld
    /\ heap' = [bufs |-> heap.bufs, surfs |-> heap.surfs, handles |-> heap.handles \cup {x}]
    /\ Take(x)
    /\ UNCHANGED <<model, guard, ahead, rq, flight, chain>>

DropValue ==
  \E x \in InHand :
    /\ heap' = Release(heap, {x}) /\ hand' = hand \ {x}
    /\ ahead' = ahead \cap DOMAIN heap'.surfs
    /\ UNCHANGED <<model, guard, rq, flight, chain>>

(* Buffer::lock, which with_locked calls too.                              *)
Lock ==
  \E b \in Reachable \cap DOMAIN heap.bufs, access \in {"read", "write", "nosync"} :
    /\ guard = NoGuard
    /\ guard' = [buf |-> b, flags |-> LockFlags(access)]
    /\ UNCHANGED <<model, heap, hand, ahead, rq, flight, chain>>

(* The client writes through the slice of a guard it did not ask to be     *)
(* read-only.                                                              *)
WriteLocked ==
  /\ guard # NoGuard /\ "ReadOnly" \notin guard.flags
  /\ ahead' = ahead \cup {heap.bufs[guard.buf].surface}
  /\ UNCHANGED <<model, heap, hand, guard, rq, flight, chain>>

(* Drop of LockGuard: IOSurfaceUnlock publishes what was written, unless   *)
(* the lock was read-only or it is told to avoid that.                     *)
Unlock ==
  /\ guard # NoGuard /\ guard' = NoGuard
  /\ ahead' = IF UnlockFlags(guard.flags) = {}
                THEN ahead \ {heap.bufs[guard.buf].surface} ELSE ahead
  /\ UNCHANGED <<model, heap, hand, rq, flight, chain>>

(* Wrong variant: the request keeps no Arc of the model.                   *)
NewRequestBare ==
  /\ model.held /\ rq.at = "none"
  /\ rq' = [NoRequest EXCEPT !.at = "client"]
  /\ UNCHANGED <<model, heap, hand, guard, ahead, flight, chain>>

(* Model::request.                                                         *)
NewRequest ==
  /\ model.held /\ rq.at = "none"
  /\ model' = [model EXCEPT !.arcs = @ + 1]
  /\ rq' = [NoRequest EXCEPT !.at = "client"]
  /\ UNCHANGED <<heap, hand, guard, ahead, flight, chain>>

(* The Rust half of every call that moves x into slot s: the slot is       *)
(* replaced after C accepted x, and the value it held is dropped; an error *)
(* drops x.                                                                *)
Move(s, x, c) ==
  /\ rq' = IF c.ok THEN [c.r EXCEPT !.bound[s] = x] ELSE c.r
  /\ heap' = Release(heap, {IF c.ok THEN rq.bound[s] ELSE x})
  /\ hand' = hand \ {x}
  /\ ahead' = ahead \cap DOMAIN heap'.surfs
  /\ UNCHANGED <<model, guard, flight, chain>>

(* bind_input and bind_output.                                             *)
BindTensor ==
  \E s \in Tensors, b \in InHand \cap DOMAIN heap.bufs :
    RequestFree /\ Move(s, b, Bind(rq, s, b))

(* bind_state: always UNSUPPORTED, and the buffer is dropped.              *)
BindState ==
  \E b \in InHand \cap DOMAIN heap.bufs :
    RequestFree /\ Move(Weights, b, [ok |-> FALSE, r |-> rq])

(* set_weights, set_perf_stats and set_shared_events; None clears.         *)
SetAttachment ==
  \E s \in Attachments, x \in InHand \cup {Nil} :
    /\ RequestFree
    /\ x # Nil => (x \in DOMAIN heap.bufs) = (s = Weights)
    /\ Move(s, x, Set(rq, s, x))

(* set_input_bytes: the request's own buffer, made on the first call,      *)
(* takes the bytes and becomes the one the engine reads; the Rust slot is  *)
(* left as it is.                                                          *)
SetInputBytes ==
  \E s \in Inputs :
    /\ RequestFree /\ ~InFlight
    /\ \/ /\ rq.own[s] # Nil
          /\ rq' = [rq EXCEPT !.ptr[s] = rq.own[s]] /\ UNCHANGED heap
       \/ /\ rq.own[s] = Nil /\ AllocSize(Need(s)) > 0
          /\ \E place \in Places(heap, 1) : \E b \in DOMAIN place :
               /\ heap' = Fresh(heap, place, Need(s))
               /\ rq' = [rq EXCEPT !.own[s] = b, !.ptr[s] = b]
    /\ UNCHANGED <<model, hand, guard, ahead, flight, chain>>

(* build_ane_request as far as the first k outputs: an output without a    *)
(* buffer gets the request's own.                                          *)
Unbound(k) == {s \in Outputs : s[2] < k /\ rq.ptr[s] = Nil}
Fallback(k) ==
  LET new == {s \in Unbound(k) : rq.own[s] = Nil}
  IN /\ \A s \in new : AllocSize(Need(s)) > 0
     /\ \E place \in Places(heap, Cardinality(new)) :
        \E at \in [new -> DOMAIN place] :
          /\ Cardinality({at[s] : s \in new}) = Cardinality(new)
          /\ heap' = FreshEach(heap, place, [b \in DOMAIN place |->
                       Need(CHOOSE s \in new : at[s] = b)])
          /\ LET own == [s \in Slots |-> IF s \in new THEN at[s] ELSE rq.own[s]]
             IN rq' = [rq EXCEPT
                         !.own = own,
                         !.ptr = [s \in Slots |-> IF s \in Unbound(k) THEN own[s]
                                                  ELSE @[s]]]

CanBuild == RequestFree /\ ~InFlight /\ rq.ptr[Events] = Nil
            /\ \A s \in Inputs : rq.ptr[s] # Nil

(* submit: refused with events attached or an input unbound.               *)
Submit ==
  /\ CanBuild /\ Fallback(NumOut) /\ flight' = rq'.ptr
  /\ UNCHANGED <<model, hand, guard, ahead, chain>>

(* run: the evaluation has ended when it returns.                          *)
Run ==
  /\ CanBuild /\ Fallback(NumOut)
  /\ UNCHANGED <<model, hand, guard, ahead, flight, chain>>

(* The build stops when a buffer cannot be made, or at its end: the        *)
(* outputs it got to stay as they are.                                     *)
SubmitFails ==
  /\ CanBuild
  /\ \E k \in 0..NumOut :
       /\ k < NumOut => rq.ptr[<<"out", k>>] = Nil /\ rq.own[<<"out", k>>] = Nil
       /\ Fallback(k)
  /\ UNCHANGED <<model, hand, guard, ahead, flight, chain>>

EvalEnds ==
  /\ InFlight /\ flight' = NoUse
  /\ UNCHANGED <<model, heap, hand, guard, ahead, rq, chain>>

(* ane_request_release returns once the queue is empty.                    *)
Drained == ~InFlight

(* The request goes: what C owns, what the slots own, and the Arc, in this *)
(* order.                                                                  *)
Gone(m, h) ==
  /\ heap' = Release(h, Owned(rq))
  /\ model' = LessOne(m) /\ rq' = NoRequest
  /\ ahead' = ahead \cap DOMAIN heap'.surfs

DropRequest ==
  /\ RequestFree /\ Drained
  /\ Gone(model, heap) /\ UNCHANGED <<hand, guard, flight, chain>>

(* Chain::new: ane_chain_create captures the buffers of the slots that     *)
(* have one, whether or not the request is in flight.  When it fails the   *)
(* request is dropped, as by DropRequest.                                  *)
ChainNew ==
  /\ RequestFree
  /\ chain' = [live |-> TRUE, busy |-> FALSE,
               uses |-> [s \in Slots |-> IF s \in Tensors THEN rq.ptr[s] ELSE Nil]]
  /\ rq' = [rq EXCEPT !.at = "chain"]
  /\ UNCHANGED <<model, heap, hand, guard, ahead, flight>>

(* enqueue blocks while the engine works.                                  *)
ChainEnqueue ==
  /\ chain.live /\ ~chain.busy /\ chain' = [chain EXCEPT !.busy = TRUE]
  /\ UNCHANGED <<model, heap, hand, guard, ahead, rq, flight>>

ChainEnds ==
  /\ chain.busy /\ chain' = [chain EXCEPT !.busy = FALSE]
  /\ UNCHANGED <<model, heap, hand, guard, ahead, rq, flight>>

(* Drop of Chain: the C chain, then the stages.                            *)
DropChain ==
  /\ chain.live /\ ~chain.busy /\ Drained
  /\ chain' = NoChain /\ Gone(model, heap) /\ UNCHANGED <<hand, guard, flight>>

BNext ==
  \/ OpenModel \/ DropModel
  \/ NewBuffer \/ NewTensorBuffer \/ Alias \/ NewHandle \/ DropValue
  \/ Lock \/ WriteLocked \/ Unlock
  \/ NewRequest \/ BindTensor \/ BindState \/ SetAttachment
  \/ SetInputBytes \/ Submit \/ Run \/ SubmitFails \/ EvalEnds \/ DropRequest
  \/ ChainNew \/ ChainEnqueue \/ ChainEnds \/ DropChain

BSpec == BInit /\ [][BNext]_vars

-----------------------------------------------------------------------------
(* Properties.                                                             *)

Objects == Buffers \cup Handles \cup {Nil}
Pointers == [Slots -> Objects]

BindTypeOK ==
  /\ model \in [report : 0..Len(Reports), arcs : 0..2, held : BOOLEAN,
                 open : BOOLEAN]
  /\ DOMAIN heap.bufs \subseteq Buffers /\ DOMAIN heap.surfs \subseteq Surfaces
  /\ heap.handles \subseteq Handles
  /\ hand \subseteq Buffers \cup Handles
  /\ guard.buf \in DOMAIN heap.bufs \cup {Nil}
  /\ rq \in [at : {"none", "client", "chain"}, bound : Pointers,
              ptr : Pointers, own : Pointers]
  /\ flight \in Pointers
  /\ chain.live = (rq.at = "chain") /\ chain.uses \in Pointers

(* A pointer of the C request refers to something that is alive and that   *)
(* the request holds for this slot, through every order of bind,           *)
(* set_input_bytes, fallback, refused call and replaced value              *)
(* (lib.rs:900-904); where both have one, the slots of Rust and C agree,   *)
(* except that an input given as bytes is read from the request's own      *)
(* buffer.                                                                 *)
PointersLive ==
  \A s \in Slots :
    /\ rq.ptr[s] # Nil => /\ rq.ptr[s] \in Alive(heap)
                          /\ rq.ptr[s] \in {rq.bound[s], rq.own[s]}
    /\ s \notin Inputs /\ rq.bound[s] # Nil => rq.ptr[s] = rq.bound[s]

(* Every struct that is allocated has one owner - the client's hand, a     *)
(* Rust slot or the request's own buffers - and every owner owns something *)
(* allocated: nothing is freed twice and nothing is left behind when       *)
(* requests, chains and refused calls drop what they hold.  A surface      *)
(* lives as long as a Buffer of it, be it the one it was made for or an    *)
(* alias that outlives that one (lib.rs:2203-2206), and no longer.         *)
OneOwner ==
  LET holders(x) == {s \in Slots : rq.bound[s] = x}
                      \cup {<<"own", s>> : s \in {t \in Slots : rq.own[t] = x}}
                      \cup {<<"hand", y>> : y \in hand \cap {x}}
  IN /\ \A x \in Buffers \cup Handles :
          Cardinality(holders(x)) = IF x \in Alive(heap) THEN 1 ELSE 0
     /\ DOMAIN heap.surfs = {heap.bufs[b].surface : b \in DOMAIN heap.bufs}

(* From submit until its evaluation ends, and as long as a chain lives,    *)
(* what the engine was given is alive and still in its slot: nothing is    *)
(* freed, rebound, cleared or replaced under it (ane_bridge.m:1172-1175).  *)
EngineBuffersStay ==
  \A use \in {flight, chain.uses} : \A s \in Slots :
    use[s] # Nil => /\ use[s] \in Alive(heap)
                    /\ rq.ptr[s] = use[s]

(* While the engine works no guard of the client is on a buffer it works   *)
(* with; a guard on an alias is the client's own business                  *)
(* (lib.rs:1046-1052, 2210-2221).                                          *)
NoHostAccess ==
  guard # NoGuard =>
    /\ \A s \in Slots : flight[s] # guard.buf
    /\ chain.busy => \A s \in Slots : chain.uses[s] # guard.buf

(* The engine has what it was given to itself until it is done.            *)
EngineUndisturbed == EngineBuffersStay /\ NoHostAccess

(* Whatever a client wrote is published once its guard is gone, the guards *)
(* that skip the synchronisation at lock included (ane_bridge.m:289-295).  *)
WritesPublished ==
  ahead \subseteq (IF guard = NoGuard THEN {} ELSE {heap.bufs[guard.buf].surface})

(* A buffer that the engine may be given claims the bytes of a dense       *)
(* tensor of what the framework reported, and has a surface of that size,  *)
(* however its rows were laid out; only for an adopted surface is the      *)
(* claim all there is.  And of no tensor of a model that could be opened   *)
(* do C and Rust disagree what it needs: an element count that does not    *)
(* fit is refused by both (ane_bridge.m:561-579, lib.rs:312-322).          *)
Exact == [r \in DOMAIN Reports |-> DeriveOK(Reports[r]) => SchemaExact(Reports[r])]
Dense(s) ==
  LET main == Reports[model.report][1]
  IN DenseBytes((IF s[1] = "in" THEN main.inputs ELSE main.outputs)[s[2] + 1])
SurfaceHoldsTensor ==
  /\ model.report # 0 => Exact[model.report]
  /\ \A s \in Tensors :
       rq.ptr[s] # Nil =>
         LET b == heap.bufs[rq.ptr[s]]
         IN /\ b.nbytes >= Dense(s)
            /\ b.adopted \/ heap.surfs[b.surface].size >= Dense(s)

(* A model is closed when the client's Model and the last request made     *)
(* from it are gone, whichever goes last, and not before: the release of a *)
(* request, in a chain or not, still reads it (lib.rs:894-895).            *)
ModelOutlives == model.open <=> model.held \/ rq.at # "none"
=============================================================================
