# A verification model of ane-bridge-rs

TLA+ modules for the parts of the bridge where the order of things, the
ownership of things or a boundary value matters: what a thread may see of a
request while the engine works on it, when a callback may run, what C points to
and who frees it, what a half-failed open leaves behind, what a resident state
has gone through, and what program and weights a builder writes. Each module is
translated from the source (`c/src/ane_bridge.m`, `c/src/ane_state.m`,
`rust/ane-bridge/src/lib.rs`, `rust/ane-bridge-mil/src/`; the lines of every
definition are in `PROJECT.json`, `map`), model-checked with TLC on small
instances and proved with TLAPS for every value of the constants, except for the
properties listed under *Only model-checked*.

Run from this directory: `tlc -config MCRequest.cfg MCRequest` (a cfg is
named after its MC module and, where there are several, its question), `tlapm RequestProofs.tla`. Line
numbers in comments are those of the repository at the commit modelled;
`lib.rs` is `rust/ane-bridge/src/lib.rs`.

## The system

| part | state | operations | interacts with | modules |
|---|---|---|---|---|
| **request** (`AneRequest`, Rust `Request`) | `in_flight`, `has_result`, `last_status`, `last_err_msg`, semaphore `done_sem`, completion function and user pointer, a serial dispatch queue | submit, run, wait, is_done, get output, set completion, release | its worker thread (queue), the engine (DMA into the buffers), the Rust box that holds the closure | `Request`, `EvalSlot` |
| **future** (`EvalFuture`, `EvalShared`) | `done`, `waker`, `result` | `submit_async`, `poll`, drop | the request; an executor; the worker thread, which runs the closure | `EvalFuture` |
| **model** (`AneModel`, `Model`) | retained framework objects, `loaded`, `temp_dir`, `is_secondary_instance` | seven opens, new_instance, purge, unload, close | aned's cache, other opens of the same contents (directory), second instances (object), threads that share it by `Arc` | `ModelStore` |
| **buffers and bindings** (`AneBuffer`, `Buffer`, the slots of `Request`) | IOSurface and its retains, lock flags, claimed size; C pointers, Rust slots, request-owned buffers | create, adopt, alias, lock, unlock, release; bind, set, set input bytes | the engine reads and writes what the slots point to | `Bindings` |
| **schema** | specs of inputs, outputs, procedures | derived once at load | sizes every bind and copy is tested against | `Schema` |
| **chain, shared events** | captured wrappers, `in_flight`, `last_status`; event lists and the object built from them | create, prepare, enqueue, wait; add signal, add wait | owns its requests | `Bindings` (in part) |
| **stateful model, E5RT runner** (`StateModel`, `State`, `E5rtRunner`, `E5rtInflight`) | Core ML model, resident state; borrowed operation, cached ports; an in-flight handle | open, new_state, predict, runner, execute, execute_async, wait, wait_timeout, drop | the engine's one stream, a thread of the framework | `E5rt` |
| **MIL builder** (`Graph`) | statements, ops, names taken, sizes, the blob | one method per op, rename, finish, save | files that an open reads | `Mil` |
| **weight blobs** (`BlobWriter`) | body, count | write_fp16/32/int32, finish | the builder; readers of the file | `Weights` |
| framework loading, last error, raw FFI, accessors | class pointers; a string per thread | | everything | - |

What is hard: the worker and the owner interleave between single atomic
operations on four fields and a semaphore; callbacks run after the request is
free again; futures are dropped while their eval runs; every refused call drops
what was moved into it; C keeps bare pointers and Rust the values; opens fail at
each of nine points; handles share a directory and a framework object nobody
counts; unload is three steps on a value shared by threads; ports are cached by
name over operations that Core ML rebuilds; a prediction that fails has moved the
state; a completion comes while its handle is polled or dropped. `PROJECT.json`,
`hazards`, lists each at its line, with the properties that watch it or the
reason there is none.

## Modules

A definition whose comment begins "Wrong variant" is the definition after it
with a plausible bug. It is not part of any specification; it shows that a
property can fail.

### `Request` - one request, its owner and its worker

The **owner** is the thread that holds `&mut Request`; it makes one call at a
time, `op`, and `opc` is its place inside it. The **worker** is the queue's
thread, at `wpc` in block `wblk`. Every atomic load, store, semaphore operation
and framework call is one step, so `is_done` (two loads), the fast path of `wait`
(two loads and a semaphore), the end of an eval (status, result flag, slot,
signal, callback, in this order) interleave as in the code. `run` evaluates on
the owner's thread through the same flag.

| variables | code |
|---|---|
| `inFlight hasResult lastStatus lastErr sem completion` | the fields of `AneRequest`; `lastErr` names the eval whose message the field holds |
| `inputsBound outputsBound` | all inputs / all outputs have a buffer (which buffer: `Bindings`) |
| `queue wpc wblk` | the dispatch queue; the worker's place and the values its block captured |
| `opc op tmo boxArg ret` | the owner's place, call, timeout class, closure argument, result |
| `live` | boxed closures that are allocated |
| `sub outcome out wants told waits` | evals are numbered by their claims: how each ended, whose output the buffers hold, which were given a callback and had it, successful waits since the last claim |

Calls that only return an error (bad index, `BUSY`) change nothing and are not
steps. A timed wait may give up at any moment, a poll at once, and a wait without
a limit never.

### `EvalSlot` - what a request promises

The contract: an eval starts in a free slot, ends once, the slot is free again
only after the end, the callback comes at most once and after the slot was freed.
`Request` implements it (`RefinesSlot`) with `started = sub`,
`busy = (inFlight = 1)`, `ended` = the evals with an outcome, `called = told`. It
is checked by TLC and proved.

### `EvalFuture` - submit_async and its future

Extends `Request` with the cell shared by future and closure, the place of `poll`
(`fpc`), the place of the closure inside the worker's callback (`cpc`), the waker
of the latest poll and the wakers that were woken. `submit_async` is the
request's own `set_completion` (which waits for the queue) followed by the
request's own submit; a future may be dropped at any time, polled with another
waker, and its request used with plain `submit`, `wait` and `on_complete`
afterwards. While a future lives it borrows the request, so the owner's other
calls are disabled: that is Rust's `&mut` and part of the model. Every step of
the composition is a step of `Request` or leaves its variables alone
(`FutureImplementsRequest`), so what is proved of a request holds of one that is
used through futures. `run` and its callback are in `Request` only.

### `ModelStore` - the models a process opens

Each handle is an `AneModel` with the progress `pc` of its open: describe,
object, lookup, make the directory, write the program, write the weights,
compile, load, derive. Any number of opens run at once, each step may fail where
the code has an error exit, and a failing step closes the half-made handle with
the same `Close` as `ane_model_close`. `via` tells the families of entry points
apart: `ane_model_open` and its realtime variants, `ane_model_open_ex` (goes on when
the directory or a file cannot be written) and `ane_model_open_file` (object and
load only). `unl` is where each thread is in `ane_model_unload`. `refs`, `program`,
`derived`, `cache`, `disk` are the world: retain counts, programs on the engine, loads
through cache-derived handles, aned's cache (which a purge or aned itself evicts
from), the temporary directories. `swept`, `cloned` and `reloaded` remember what
another handle did, for the three properties that have it as an exception.

The framework is external: `unloadWithQoS:` is taken to refuse exactly when the
object's program is not loaded; evicting a cache entry does not unload it; whether
the engine counts the loads of one program cannot be seen from the bridge, so
`program` is a set: a second load of a loaded program changes nothing. Two loads
need more than that. `new_instance` loads the source's program without looking at
`loaded`, so it can put back a program that was off the engine: `LoadAgain`, and
the history `reloaded` remembers which. And an open that may cross to the daemon
loads the cache-derived handle beside the object (`derived`); no call of the bridge
unloads that one.

### `Schema` and `Bindings` - tensors, buffers and who owns them

`Schema` has no variables: it is the derivation of specs from what the framework
reports - the types that are known, the checked product in C and the one Rust
does again, which reports are refused, the accessors per procedure.

`Bindings` puts the values that refer to each other in one state. `heap` has the
`AneBuffer`s (surface and claimed size), the surfaces (retains and size) and the
other structs; `hand` is what the client owns in Rust; `guard` the lock that is
held; `rq` the request with three maps from slots: `bound` (Rust's, which own),
`ptr` (C's, which do not) and `own` (the buffers C made for itself); `flight` what
the engine was given; `chain` the chain a request was moved into; `model` its `Arc`
count. A call is one step: the only thing that happens beside it is the end of an
evaluation, and what threads may do at once is the subject of `Request`. Every
call that takes a value drops it when it is refused, as the code does. `ahead` has
the surfaces the CPU wrote to and did not publish.

### `E5rt` - predictions, runners and in-flight handles

`engine` is what Core ML has: a stream, the number and address of its operation,
the state of its latest prediction. A prediction may leave a new operation, the
old one, or none. A runner remembers an address and a set of cached ports; a port
is named by the operation it was retained from. `flight` is the latest
asynchronous submission, with the handle (`live`, `done`), the engine's side (`eng`)
and the channel between them; `box` says who owns each boxed sender. Two threads:
the client (`StateModel` is not `Sync`) and the one that runs the trampoline. That
the client keeps off the stream while a handle lives is the safety contract of
`execute_async`, and a guard (`Quiet`). `steps` counts what each state went through
and `tally` what the client was told.

Nothing in the bridge retains an operation, so a new one may be at any address,
that of its predecessor included, and the comparison of addresses in `Refreshed`
(lib.rs:4394) may take it for the one the runner knew. A runner's `number` and the
history `fooled` do not exist in the code: they say which operation the runner last
resolved, and whether its latest encoding met another one at the same address.
`MissesOnlyIfFooled` says that this is the one way for a buffer to miss its port;
`ExecutesThisCall`, without the exception, does not hold (*Disagreements*).

### `Mil` and `Weights` - what is written to disk

`Weights` is `BlobWriter` in bytes: padding, record headers, payloads, the offsets
handed out. `Mil` extends it with `Graph`: each method is an operator on graphs, with
an operator for its assertions - a call whose assertions fail panics and is not a
step. A statement is reduced to what it binds, the operation, the values it names
and a convolution's geometry; a name is a pair of a prefix and a number, so that
names a caller chose can collide with the ones the builder mints. Integers wrap
and saturate at `IntRange` as `i64` and `usize` do in a release build: products of shapes wrap, and what the
code calls saturating (traffic, the extents of a convolution and a concat) is
clamped. `CallSave`
writes two files, either of which may be left half-written.

### MC modules

`MCRequest`, `MCEvalFuture`, `MCModelStore`, `MCBindings`, `MCE5rt`, `MCMil` give the
symmetry sets and the structured constants (reports, shapes, geometries) and say
why they were chosen.

## Runs

| run | instance | shows |
|---|---|---|
| `request` | 2 submissions, 2 boxes | one eval at a time; no CPU access during DMA; captured boxes alive; no use after release; a published result is the latest; `is_done`, `get_output_bytes` and a second `wait` are true; `Request` implements `EvalSlot`; waits, drains and drops return, the slot is freed, callbacks are made |
| `future` | 2 submissions, 2 boxes, 2 wakers | a future resolves to its own eval's outcome and message and leaves the request free; never finds the request busy; its wake-up is not lost; every future that is kept resolves and `submit_async` returns |
| `store_safety` | 3 handles, 2 objects, 1 content, 2 threads, symmetric | retains balanced; every loaded program has an unloader, but one that `new_instance` put back; `loaded` is true; directories removed; files present at compile unless swept |
| `bindings_safety` | 1 input, 1 output, 3 buffers, 3 surfaces, 2 other structs, 11 reports, sizes of a 3-bit `size_t`, symmetric | what C points to is alive and owned once; the engine keeps what it was given, undisturbed by locks; writes are published; surfaces hold their tensors and C and Rust agree on bytes; the model goes with its last user |
| `e5rt_safety` | 1 runner, 2 buffers, 1 state, 1 name in both directions, 2 operations at 2 addresses, 1 box, 4 calls | every run uses the ports of its own operation with its own buffers, unless another operation took its address; a state moves as the answers say; senders are freed once; a handle that is gone has left the engine; wait and `Drop` return |
| `mil_safety` | up to 2 sources, 2 ops (`max` and `min` are one call of several), 3 records | SSA form; the dead-op check is exact; shapes (of all but a slice, a cast and an op of one operand), element counts and traffic are true; a saved pair of files reads back |
| `request_wait_early`, `request_callbacks_overlap`, `store_source_closed`, `e5rt_address_reused`, `e5rt_wait_failure`, `mil_empty_conv` | as above; 2 handles; a tall kernel | the six disagreements below |

**Why the bounds are enough.** *Request*: `MaxSubmits` is the only bound inside an
action (the guard of a claim). With two submissions a late signal of eval 1 meets
eval 2, signals pile up to the two that `SemInv` allows, and a second wait follows
one that was confused. The run checks liveness on the same instance, which a third
submission would take past what TLC can do in minutes; that a third adds no third
signal, and all the run's other safety properties, are proved for any number of
submissions.
The queue holds at most one block whatever the bound
(`SlotInv`, proved). Two boxes let the closure be replaced, freed and its address
reused. *Futures*: two wakers let a poll replace the waker the closure took; two
submissions let the eval of a dropped future meet the next one. *Store*: the
conflicts are between two handles (directory, object); the third shares an object
with one of them, or waits for an address to be reused. Contents meet only in the
cache and the directory, each indexed by the hash, so one is the worst case:
everybody shares it. Two threads race in `unload`. *Bindings*: three buffers are
one for each tensor slot and one that replaces, aliases or is refused; with
`SizeRange = 8` and rows of 2 the instance has a tensor that fills one row and a
half, a byte count whose rounding wraps to a surface of height 0 - of a buffer the
client asks for and of one that a second model's output would take, which has to
be refused - and products that are exactly one past and far past the largest size. *E5rt*: one name in both
directions is the worst case for a cache keyed by name and direction; two
operations and four calls let a runner encode, meet a rebuilt operation, fail
half-way and encode again, and let an asynchronous run of an old operation end
during it; two addresses let the second operation be where the first was, or not. With one
box a second submission finds the first's sender freed; that a sender still on its
way out shares nothing with the next one is `BoxInv`, proved for any boxes. *Mil*: two ops are the least that can read each other, reuse a name or
leave one dead; the shapes put the width at the 32-element alignment, one record
spans a boundary exactly and one goes past it by one element. What the
safety properties say is also proved without these bounds.

Deadlock is checked, except in two places where the program really may stop: in
`Mil` (a builder that has made its calls, the bound of the model) and in `E5rt` (the
model is closed, or the calls are used up). A released request stutters
(`Released`), as the program has nothing left to do with it.

### Disagreements

Each is a run whose single property states what a comment or a document says and
which the code does not keep; `PROJECT.json`, `findings`, quotes both.

1. `WaitMeansDone`: the worker clears `in_flight` before it signals; a
   resubmission in between drains too early and its `wait` returns the previous
   eval's status. A second wait is honest (`SecondWaitIsTrue`, part of
   `AnswersTrue`), and so is any wait after `submit_async` (`AsyncAfterDrain`), whose
   `set_completion` waits for the block.
2. `CallbacksSerialized`: `run` calls the closure on its caller's thread, when the
   worker may still be inside it.
3. `InstanceOwnsItsState`: closing the source of a second instance unloads the
   program the instance uses. (So does `ane_model_unload` on either of them: it
   does not look at `is_secondary_instance`.)
4. `WaitTellsFailure`: a `wait_timeout` that consumed a failed completion marks the
   handle done, and the next `wait` or `wait_timeout` answers `Ok`.
5. `ExecutesThisCall`: a rebuilt operation at the address a runner remembers is
   taken for the old one, and the call's buffers go to the old one's ports.
6. `EmptyConvRefused`: the extent of a convolution is a division that rounds toward
   zero, so a kernel taller than its padded input by less than the stride passes
   with one row of output.

### Seen while modelling, without a run

Read in the code and left without a run of its own because one of the runs above has
it as a stated exception, because no sequence of steps is needed to see it, or because
the answer is the framework's:

* after `submit`, a callback that runs late reads the error message of whatever
  eval failed since (ane_bridge.m:1499); a failed build sets the status and
  leaves the message (1470);
* a fresh request, and one whose output was rebound, gives `OK` to
  `get_output_bytes` (1118, 1312);
* `set_input_bytes` makes the request read its own buffer; a refill through
  `input_buffer_mut` afterwards goes to the other one (lib.rs:1053);
* `alias` and `adopt_iosurface` store the caller's byte count as it is
  (ane_bridge.m:2749), although lib.rs:2183, 2188, 2209 and 2225 speak of it as checked;
  a bind compares the tensor's size with that count, so a surface that is too small is
  accepted. This is the exception that `SurfaceHoldsTensor` makes for adopted buffers;
* open a bundle, `unload` it, make a second instance, close both: `new_instance` loaded
  the program again (ane_bridge.m:3464), the source is not `loaded` and the instance is
  secondary, so neither close unloads it (920). This is the exception that
  `SomebodyUnloads` makes, and what `reloaded` remembers;
* the load of the cache-derived handle (883) is released by the close (935) and never
  unloaded;
* `Buffer::write_bytes` and `read_bytes` take `&self` and remain callable during an
  asynchronous run (lib.rs:4308);
* the chain's `enqueue` may run while a submit of its own request is in flight;
  `chain_wait` of a chain that was never enqueued is `OK` (3251);
* rebuilding the shared-events object may fail after the event was added (2567);
  `new_instance` may fail after the daemon loaded it (3474);
* `open_ex` with two weight files of one leaf name writes one over the other, and
  an empty name is an I/O error or nothing rather than an invalid argument (2886ff);
* `set_procedure_index` documents `InvalidArg` for an index from `num_procedures` on
  (lib.rs:2440-2441); the C function refuses only negative ones (2700-2707);
* the views of the program library and its operations may outlive an operation
  that Core ML rebuilt;
* `unary`, `softmax`, `layer_norm` and `matmul` accept fp32 operands.

## Fairness

`FairSpec` is weak fairness of the steps inside a call and of the worker's steps:
a thread inside a function is scheduled, the dispatch queue runs its blocks, the
engine's eval and the closures return. Nothing makes the owner call anything, and
a wait without a limit has no step of its own that ends it: it needs the worker's
signal. `FairFutureSpec` adds an executor that polls a task once and again when the
waker of its latest poll was woken, as the contract of `Future` says; without the
wake-up nothing polls, so a lost one is a counterexample to `FutureResolves`.
`FairE5Spec` is weak fairness of the completion (the engine ends what it was given,
and the framework calls the trampoline back, which lib.rs:4435ff relies on) and of a
client that is blocked in `wait_inner` and can go on; nothing makes a client wait.

## Proofs

Eight modules, all leaves checked. `PROJECT.json`, `theorems`, lists the results:
every safety property, action property and refinement that a passing run checks is
a theorem. Assumptions on constants are only that the null values are not
addresses, that sets of handles and of buffers are finite, that counts are naturals
and that an argument is what its Rust type says; `Bindings` adds that the models of
one instance agree on their numbers of tensors.

**`RequestProofs`**, for any number of submissions and any set of boxes. The
inductive invariant `IInv` has five parts beyond the types:

* `SlotInv`: the slot has at most one holder - the owner inside submit or run, the
  worker up to its store to `in_flight`, or the one queued block;
* `ResultInv`: a published result excludes an eval still to be done or stored, and
  a buffer is accessed under the flag that was tested;
* `SemInv`: signals plus the one on its way never exceed two, and one between a
  drain and the eval's own - without it the bound on `sem` is not inductive;
* `BoxInv`: blocks captured the installed box, and the box about to be freed is not
  it;
* `EvalInv`: the evals that threads work on exist.

From it follow `TypeOK`, `OneEval`, `NoAccessDuringEval`, `BoxAlive`,
`NoUseAfterRelease`.

Its second half adds what the evals went through, `HInv`, inductive
relative to `IInv`: a taken slot has a holder that works on the latest eval
(`HeldInv`, `LatestInv`); when the latest is pending and when it ended (`EndedInv`);
who is about to call back has not done so (`CallInv`); what a free slot publishes
(`PublishInv`); that a pending eval is confused by one late signal at most, counting
those that waits have taken (`WaitInv`, the reason why the *second* wait is true);
and what was told (`AnswerInv`). From it follow `PublishedIsLatest`, `AnswersTrue` and
the refinement of `EvalSlot`: claiming the slot is a `Start`, the end of an eval or of a
failed build an `End`, clearing `in_flight` a `Free`, making the callback a `Call`, on
either thread, and the rest stutters.

**`EvalFutureProofs`** shows first that every step of the composition is a step of
`Request` or a stutter of it (`RequestStep`), so `IInv` and `HInv` come for free, and
then that `FInv` is inductive over them: a new cell and an empty queue while
`submit_async` runs (`InstallInv`), a living future's cell follows the one block that
can write to it (`CellInv`), the latest waker is in the cell, in the closure's hand
or woken (`WakeInv`), and an eval of `submit_async` never meets another's late signal
(`AsyncInv`).

**`ModelStoreProofs`**, for any finite set of handles and any sets of objects,
contents and threads. `IInv` is the five properties about the world together with
`HandleInv` (what a handle holds at each point of its open), `SharingInv` (an object
with two handles is cloned, and neither is still opening), `FilesInv` (the files a
handle can count on) and `UnloadInv` (a thread between message and store has a
finished handle whose program is gone, or was put back by `new_instance`). `RetainsBalanced` is about cardinalities of
the sets of holders; `SameHolders` covers every step that changes no holder.

**`BindingsProofs`**, for any models, buffers, surfaces and sizes. `BInv`: the heap is
consistent, a surface retained once per buffer of it (`HeapOK`); what is allocated is
what somebody owns, once (`OwnInv`); a C pointer is what Rust or the request owns for
the slot (`PtrInv`); what the engine has is still there (`UseInv`); a guard is on a
value that is not moving (`GuardInv`); only a guard that will publish leaves the CPU
ahead (`AheadInv`); the `Arc` count is the number of its holders (`ArcInv`). The lemmas
about `Release` and `FreshEach` carry the cardinalities, and `Move`, which seven calls
share, is proved once.

Last, `SizeInv`, inductive relative to `BInv`: a surface that `make_surface` made is
as large as its buffer claims (`Sized`), what C has for a tensor claims at least
what the model needs (`Fits`), and the model was derived from a report that is in
order. `SurfaceHoldsTensor` follows with `SchemaIsExact`: a checked product that was
accepted is the exact one, in C and again in Rust. The arithmetic is in `AllocHolds`:
a size whose rounding wraps gives a surface of height 0, and nothing is made of
that. The first attempt at this proof failed on the buffers a request makes for
itself, which the model let exist with such a surface. The code does not
(`ensure_owned_output` gets a null from `ane_buffer_create`, ane_bridge.m:1244-1254),
so the guards of `SetInputBytes` and `Fallback` were corrected, and a report that
reaches them added to the run.

**`E5rtProofs`**, for any runners, states and calls. `IInv`: where a submission and its
handle can be (`FlightInv`), whose a sender is (`BoxInv`), and what a pending submission
leaves in doubt (`CountInv`). `MissesOnlyIfFooled` needs besides that a runner that
last resolved the current operation has that operation's ports and no others
(`PortInv`). It is inductive because the numbers of operations only grow, at
whatever addresses they are, so no runner can have the number of one to come.

**`WeightsProofs`**, for any lengths and any number of records: `LayoutInv` describes
the body in its own offsets, and `FileReadsBack` follows for the finished file. It is
a theorem of `WSpec`, a client that uses the writer by itself.

**`MilProofs`**, for all arguments, names and shapes and any number of calls. `MilInv`
is the layout of the blob (`LayoutInv`), what the text says of it (`RefsInv`: every
weight's offset is that of a record of its size), `SavedPairReads` itself, and of the
graph, `GraphInv`:

* `NamedInv`: what is bound is taken, and bound once - `fresh` needs it to be sure that
  what it finds free is not bound, and finds a free id because there are more ids to
  try than taken names (the pigeonhole principle);
* `UsesInv`: a statement uses what is bound before it;
* `ReadsInv`: an op reads no result of its own or of a later op, without which one
  backward pass would not do;
* `PricedInv`: the table of sizes has the size of every tensor;
* `TrafficInv`: the list of ops and the table cost what the statements cost - three
  equations between sums that each call extends on both sides;
* `ShapesInv`: every statement is true of its shapes, and keeps its elements if it only
  rearranges.

Each method has a lemma (`...Keeps`) that it hands back a graph with `GraphInv` that
extends the one it got, and a value that is bound in it; `Emit`, which they share, is
proved once. The lemmas about shapes stand before them: a broadcast is numpy's
(`BroadcastTrue`), rounding toward zero counts windows when the kernel fits
(`ConvExtentIs`), a product does not depend on the order of its factors (`Permute`),
shapes put together along one dimension add their products (`ProductConcat`), and
wrapping at each step of a product is wrapping once (`ProductIs`). `DeadOpsExact` is an
induction on the backward pass: what it has found live after the last `k` ops is what
the outputs need through those ops, so the ops whose results it never found are a dead
set, and no dead set has a result that it found.

`numel` saturates nowhere: a product that wraps is compared with one that wraps, and
`CountKept` says no more than the code does of shapes of more elements than an `i64`
counts. A concat whose extent was clamped keeps nothing, and is excepted by name.
Broadcast of extents below 1, which `weight_fp16` and `raw_op` let a caller declare, is
left out of `IsBroadcast`: the code picks the larger extent, and of a 0 and
a 1 that is 1, which is not their broadcast, so the property does not hold there.

**`Recursion`** is what the sums, products and passes rest on: induction and the
existence of functions defined step by step. The library states induction for an
operator, which the installed provers cannot instantiate; here it is stated for a
*set* of naturals (`SetInduction`, `IntervalInduction`, from the library's well-founded
order on them), and a property is proved of all numbers by proving it of the set of
the numbers that have it. `RecursiveFunction` is existence; a fold of the model, a
`CHOOSE` over functions with the recursion's equation, equals the function so built.

Each inductive invariant was also evaluated by TLC, on every reachable state of the
instance of its run.

## Only model-checked

Liveness: `CallsEnd`, `SlotFreed`, `CallbackDelivered`, `FutureResolves`,
`SubmitAsyncReturns`, `HandleEnds`. Fairness and `ENABLED` are beyond the prover. The six
disagreements are counterexamples that TLC finds.

## Not modelled

* The text of MIL statements and all formatting; the bytes of payloads; copies of
  host memory into and out of buffers and multi-arrays.
* Chains of several stages, the symbol indices `chain_create` stores on wrappers and
  the events inside a `SharedEvents`: what they mean is the firmware's. The chain's
  ownership, capture and enqueue are in `Bindings`.
* `set_procedure_index`, `set_transaction`, priorities and quality-of-service values:
  numbers that are passed on. What the engine does with buffers of procedure 0 for
  another procedure is not in the repository.
* E5RT timeline events, the Metal device, the read-only views of the program
  library and its operations.
* Statistics, session hints, real-time task, device info, model identity: accessors
  that forward one call.
* Framework loading (a `dispatch_once` with nothing to interleave after it),
  thread-local last error, FFI declarations, the Espresso header and its cache
  queries; examples, probes, benchmarks, scripts and tests.
* Calling `set_completion` or `release` from inside the callback deadlocks; the header
  and the Rust documentation exclude it and so does the model.

## What a next step would be

A chain of several requests as a composition of `Bindings` with itself; the byte
content of a resident state; a `save` by two builders into one directory; an abstract
specification of the store - who may unload a program, and when - that `ModelStore`
implements.
