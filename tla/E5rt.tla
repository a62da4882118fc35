--------------------------------- MODULE E5rt ---------------------------------
(***************************************************************************)
(* StateModel, State, E5rtBuffer, E5rtRunner and E5rtInflight of           *)
(* rust/ane-bridge/src/lib.rs over c/src/ane_state.m: inference steps that *)
(* leave their state on the engine, taken by Core ML (predict) or by       *)
(* driving the stream and the operation that Core ML built (execute and    *)
(* execute_async), with what Core ML built replaced under the runners.     *)
(*                                                                         *)
(* The client is one thread (StateModel is not Sync); the other is the one *)
(* that calls e5rt_async_trampoline.  While a handle of execute_async      *)
(* lives the client keeps off the stream, as the safety contract of        *)
(* execute_async demands: that is a guard here (Quiet).  The borrows Rust  *)
(* enforces are guards too.                                                *)
(***************************************************************************)
EXTENDS Naturals, FiniteSets

CONSTANTS
  Runners, Buffers, States,  (* values the client may make                 *)
  Names,      (* names of the operation's ports: an input and an output    *)
              (* may have the same                                         *)
  Addrs,      (* addresses of operations                                   *)
  Boxes,      (* addresses of boxed senders                                *)
  Nil,
  MaxBuilds,  (* bound of the model: operations Core ML builds             *)
  MaxCalls    (* bound of the model: inference calls                       *)

ASSUME E5rtAssumption ==
  /\ MaxBuilds \in Nat /\ MaxCalls \in Nat
  /\ Nil \notin Addrs \cup Boxes \cup States \cup Runners \cup Buffers

VARIABLES
  open,    (* the StateModel is alive                                      *)
  engine,  (* the stream and the operation Core ML has now                 *)
  runners, (* the runners that are alive                                   *)
  bufs,    (* the E5rtBuffers that are alive                               *)
  states,  (* the States that are alive                                    *)
  steps,   (* how many inference steps each state has taken                *)
  box,     (* who owns each boxed sender                                   *)
  flight,  (* the latest asynchronous submission                           *)
  opc,     (* what the client is blocked in                                *)
  ret,     (* what the latest wait or wait_timeout answered                *)
  missed,  (* ports that the latest encoding left without their buffer     *)
  fooled,  (* history: the runner of that encoding took another operation  *)
           (* at the address it remembers for the one it knew              *)
  tally    (* per state, the calls that answered Ok and those that did not *)

vars == <<open, engine, runners, bufs, states, steps, box, flight, opc, ret,
          missed, fooled, tally>>
made == <<open, runners, bufs, states>>

Keys == Names \X {"in", "out"}
(* A definition whose comment says "Wrong variant" is not part of the      *)
(* specification: it is the definition after it with a plausible bug, kept *)
(* to show that the properties below can fail.                             *)
-----------------------------------------------------------------------------
(* What Core ML has.  op numbers the operations it has built, 0 for none,  *)
(* and at is the address of the current one; state is the State of the     *)
(* latest prediction, which the inout ports stay bound to.                 *)
Cold == [stream |-> FALSE, op |-> 0, at |-> Nil, state |-> Nil, built |-> 0]

(* What a prediction with state s leaves: what there was, a stream with a  *)
(* new operation, a stream without one, or no stream.  Nothing in the      *)
(* bridge retains an operation, so a new one may be at the address of any  *)
(* that went before it.                                                    *)
After(s) ==
  {[e EXCEPT !.state = s] :
     e \in {x \in {engine} : x.op > 0}
       \cup {[engine EXCEPT !.stream = t, !.op = 0, !.at = Nil] : t \in BOOLEAN}
       \cup {[stream |-> TRUE, op |-> engine.built + 1, at |-> a, state |-> s,
              built |-> engine.built + 1] :
               a \in {x \in Addrs : engine.built < MaxBuilds}}}

(* The client makes calls when it is not blocked in one; the calls that    *)
(* use the stream, when no handle lives.                                   *)
Idle == opc = "idle" /\ open
Quiet == Idle /\ ~flight.live /\ tally.calls < MaxCalls

NoFlight == [live |-> FALSE, done |-> FALSE, runner |-> Nil, bufs |-> {},
             state |-> Nil, ctx |-> Nil, eng |-> "none", ok |-> FALSE,
             chan |-> "empty", told |-> "none"]

E5Init ==
  /\ open = TRUE /\ engine = Cold
  /\ runners = <<>> /\ bufs = {} /\ states = {}
  /\ steps = [s \in States |-> 0]
  /\ box = [x \in Boxes |-> "free"] /\ flight = NoFlight
  /\ opc = "idle" /\ ret = "none" /\ missed = {} /\ fooled = FALSE
  /\ tally = [ok |-> [s \in States |-> 0], doubt |-> [s \in States |-> 0],
              calls |-> 0]

-----------------------------------------------------------------------------
(* Values the client makes and drops.                                      *)

(* StateModel::new_state; a State is not tied to its model.                *)
NewState ==
  \E s \in States \ states :
    /\ Idle /\ steps[s] = 0 /\ states' = states \cup {s}
    /\ UNCHANGED <<open, engine, runners, bufs, steps, box, flight, opc, ret, missed, fooled, tally>>

DropState ==
  \E s \in states :
    /\ opc = "idle" /\ states' = states \ {s}
    /\ UNCHANGED <<open, engine, runners, bufs, steps, box, flight, opc, ret, missed, fooled, tally>>

(* E5rtBuffer::from_create: a call that failed, or that returned no        *)
(* handle, leaves no buffer.                                               *)
FromCreate(b) == {bufs, bufs \cup {b}}

(* alloc_buffer, wrap_buffer, wrap_iosurface, wrap_mtlbuffer and wrap_data *)
(* are UNSUPPORTED unless ensure_e5rt_warm finds a stream.                 *)
NewBuffer ==
  \E b \in Buffers \ bufs :
    /\ Idle
    /\ engine.stream /\ bufs' \in FromCreate(b)
    /\ UNCHANGED <<open, engine, runners, states, steps, box, flight, opc, ret, missed, fooled, tally>>

(* A buffer that a handle borrows cannot be dropped.                       *)
DropBuffer ==
  \E b \in bufs :
    /\ opc = "idle" /\ (flight.live => b \notin flight.bufs)
    /\ bufs' = bufs \ {b}
    /\ UNCHANGED <<open, engine, runners, states, steps, box, flight, opc, ret, missed, fooled, tally>>

(* e5rt_runner: UNSUPPORTED unless a stream and an operation are there.    *)
(* The number of the operation is kept for fooled only: the runner has the *)
(* address.                                                                *)
NewRunner ==
  \E r \in Runners \ DOMAIN runners :
    /\ Idle /\ engine.stream /\ engine.op > 0
    /\ runners' = [x \in DOMAIN runners \cup {r} |->
                     IF x = r THEN [op |-> engine.at, ports |-> {},
                                        number |-> engine.op]
                     ELSE runners[x]]
    /\ UNCHANGED <<open, engine, bufs, states, steps, box, flight, opc, ret, missed, fooled, tally>>

DropRunner ==
  \E r \in DOMAIN runners :
    /\ opc = "idle" /\ (flight.live => r # flight.runner)
    /\ runners' = [x \in DOMAIN runners \ {r} |-> runners[x]]
    /\ UNCHANGED <<open, engine, bufs, states, steps, box, flight, opc, ret, missed, fooled, tally>>

(* The model is borrowed by its runners and its buffers.                   *)
DropModel ==
  /\ Idle /\ DOMAIN runners = {} /\ bufs = {} /\ ~flight.live
  /\ open' = FALSE /\ engine' = [Cold EXCEPT !.built = engine.built]
  /\ UNCHANGED <<runners, bufs, states, steps, box, flight, opc, ret, missed, fooled, tally>>

-----------------------------------------------------------------------------
(* A call on state s answered st, "none" when it did not answer yet; the   *)
(* state moved by d.                                                       *)
Counted(s, st) ==
  [ok    |-> IF st = "OK" THEN [tally.ok EXCEPT ![s] = @ + 1] ELSE tally.ok,
   doubt |-> IF st = "OK" THEN tally.doubt ELSE [tally.doubt EXCEPT ![s] = @ + 1],
   calls |-> tally.calls + 1]
Move(s, d) == steps' = [steps EXCEPT ![s] = @ + d]

(* Wrong variant: a prediction that returns nothing is not noticed.        *)
OutcomesUnchecked ==
  {<<"input", "INVALID_ARG">>, <<"prediction", "OK">>,
   <<"output", "EVAL">>, <<"output", "INVALID_ARG">>, <<"end", "OK">>}

(* Where ane_state_predict_f32 returns, and what: an input that cannot be  *)
(* converted, the prediction, an output that is missing or of another      *)
(* size, when the state has moved and the outputs before it are written,   *)
(* or the end.                                                             *)
Outcomes ==
  {<<"input", "INVALID_ARG">>, <<"prediction", "EVAL">>,
   <<"output", "EVAL">>, <<"output", "INVALID_ARG">>, <<"end", "OK">>}

(* How far a step may have moved the state when the call returns there.    *)
Moved(at) ==
  CASE at = "input" -> {0} [] at = "prediction" -> {0, 1} [] OTHER -> {1}

Predict ==
  \E s \in states, o \in Outcomes :
    /\ Quiet
    /\ \E d \in Moved(o[1]) : Move(s, d)
    /\ engine' \in IF o[1] = "input" THEN {engine} ELSE After(s)
    /\ tally' = Counted(s, o[2])
    /\ UNCHANGED <<made, box, flight, opc, ret, missed, fooled>>

-----------------------------------------------------------------------------
(* E5rtRunner.  A port is named by the operation it was retained from, its *)
(* name and its direction; the cache maps a key to a port.                 *)

Port(k) == [op |-> engine.op, key |-> k]

CachedPort(ports, k) ==
  LET hits == {e \in ports : e.key = k}
  IN IF hits = {} THEN Port(k) ELSE (CHOOSE e \in hits : TRUE).port

Cached(ports, ks) == ports \cup {[key |-> k, port |-> CachedPort(ports, k)] : k \in ks}

(* Wrong variant: the runner keeps the ports of the operation it was made  *)
(* with.                                                                   *)
RefreshedNever(rn) == rn

(* The operation is looked up again; its ports are only good for itself.   *)
(* It is known by its address.                                             *)
Refreshed(rn) ==
  IF rn.op = engine.at THEN rn
  ELSE [op |-> engine.at, ports |-> {}, number |-> engine.op]

(* What the ports of the encoded operation are bound to after the buffers  *)
(* of a call were bound, the inputs before the outputs: Nil stands for     *)
(* whatever an earlier call or Core ML left there.                         *)
Bound(ports, want) ==
  [k \in DOMAIN want |->
     LET by == {x \in DOMAIN want : CachedPort(ports, x) = Port(k)}
         last == IF \E x \in by : x[2] = "out" THEN {x \in by : x[2] = "out"} ELSE by
     IN IF by = {} THEN Nil ELSE want[CHOOSE x \in last : TRUE]]

(* bind_and_encode with the buffers of want.  It fails without a stream or *)
(* without an operation, and then at any of its calls, having cached the   *)
(* ports it got to.                                                        *)
Wanted == UNION {[ks -> bufs] : ks \in SUBSET Keys}

Fooled(rn) == rn.op = engine.at /\ rn.number # engine.op

NoStream(r) == ~engine.stream \/ engine.op = 0
Encode(r, want, upto) ==
  LET rn == Refreshed(runners[r])
  IN /\ runners' = [runners EXCEPT ![r] = [rn EXCEPT !.ports = Cached(@, upto)]]
     /\ LET got == Bound(Cached(rn.ports, upto), want)
        IN missed' = IF upto # DOMAIN want THEN {}
                     ELSE {k \in upto : got[k] # want[k]}
     /\ fooled' = Fooled(runners[r])

(* execute and execute_async that go no further than bind_and_encode.      *)
EncodeFails ==
  \E r \in DOMAIN runners, want \in Wanted :
    /\ Quiet
    /\ IF NoStream(r)
         THEN UNCHANGED <<runners, missed, fooled>>
         ELSE \E upto \in SUBSET DOMAIN want : Encode(r, want, upto)
    /\ tally' = [tally EXCEPT !.calls = @ + 1]
    /\ UNCHANGED <<open, engine, bufs, states, steps, box, flight, opc, ret>>

(* e5rt_check: whatever code the runtime gives but 0 is an Internal error. *)
Checked == {"OK", "INTERNAL"}

(* execute: the step may be taken although the call fails.                 *)
Execute ==
  \E r \in DOMAIN runners, want \in Wanted, st \in Checked :
    /\ Quiet /\ ~NoStream(r)
    /\ Encode(r, want, DOMAIN want)
    /\ \E d \in IF st = "OK" THEN {1} ELSE {0, 1} : Move(engine.state, d)
    /\ tally' = Counted(engine.state, st)
    /\ UNCHANGED <<open, engine, bufs, states, box, flight, opc, ret>>

(* execute_async: the sender is boxed and the work submitted.              *)
ExecuteAsync ==
  \E r \in DOMAIN runners, want \in Wanted :
  \E x \in {y \in Boxes : box[y] = "free"} :
    /\ Quiet /\ ~NoStream(r)
    /\ Encode(r, want, DOMAIN want)
    /\ box' = [box EXCEPT ![x] = "raw"]
    /\ flight' = [NoFlight EXCEPT
                    !.live = TRUE, !.runner = r, !.state = engine.state,
                    !.bufs = {want[k] : k \in DOMAIN want}, !.ctx = x,
                    !.eng = "running"]
    /\ ret' = "none"
    /\ tally' = Counted(engine.state, "none")
    /\ UNCHANGED <<open, engine, bufs, states, steps, opc>>

(* Wrong variant: the box of a refused submission is not taken back.       *)
SubmitRefusedLeaks ==
  \E r \in DOMAIN runners, want \in Wanted :
  \E x \in {y \in Boxes : box[y] = "free"} :
    /\ Quiet /\ ~NoStream(r)
    /\ Encode(r, want, DOMAIN want)
    /\ box' = [box EXCEPT ![x] = "raw"]
    /\ tally' = [tally EXCEPT !.calls = @ + 1]
    /\ UNCHANGED <<open, engine, bufs, states, steps, flight, opc, ret>>

(* The submission is refused: the box is taken back at once, and no        *)
(* completion will fire.                                                   *)
SubmitRefused ==
  \E r \in DOMAIN runners, want \in Wanted :
    /\ Quiet /\ ~NoStream(r) /\ "free" \in {box[x] : x \in Boxes}
    /\ Encode(r, want, DOMAIN want)
    /\ tally' = [tally EXCEPT !.calls = @ + 1]
    /\ UNCHANGED <<open, engine, bufs, states, steps, box, flight, opc, ret>>

-----------------------------------------------------------------------------
(* The engine and e5rt_async_trampoline, on a thread of the framework.  A  *)
(* sender that was received from may still be on its way out of the        *)
(* trampoline when the next submission is made.                            *)

EngineEnds ==
  /\ flight.eng = "running"
  /\ \E ok \in BOOLEAN :
       /\ flight' = [flight EXCEPT !.eng = "ended", !.ok = ok]
       /\ \E d \in IF ok THEN {1} ELSE {0, 1} : Move(flight.state, d)
  /\ UNCHANGED <<made, engine, box, opc, ret, missed, fooled, tally>>

(* Wrong variant: the sender of a failed run is left in its box.           *)
TrampolineSucceeds ==
  /\ flight.eng = "ended" /\ flight.ok
  /\ flight' = [flight EXCEPT !.eng = "fired"]
  /\ box' = [box EXCEPT ![flight.ctx] = IF @ = "raw" THEN "sending" ELSE "twice"]
  /\ UNCHANGED <<made, engine, steps, opc, ret, missed, fooled, tally>>

(* The trampoline is called, once, and takes the box back.                 *)
Trampoline ==
  /\ flight.eng = "ended"
  /\ flight' = [flight EXCEPT !.eng = "fired"]
  /\ box' = [box EXCEPT ![flight.ctx] = IF @ = "raw" THEN "sending" ELSE "twice"]
  /\ UNCHANGED <<made, engine, steps, opc, ret, missed, fooled, tally>>

TrampolineSends ==
  /\ flight.eng = "fired" /\ box[flight.ctx] = "sending"
  /\ flight' = [flight EXCEPT !.chan = IF flight.ok THEN "ok" ELSE "err"]
  /\ box' = [box EXCEPT ![flight.ctx] = "leaving"]
  /\ UNCHANGED <<made, engine, steps, opc, ret, missed, fooled, tally>>

TrampolineReturns ==
  /\ \E x \in Boxes : box[x] = "leaving" /\ box' = [box EXCEPT ![x] = "free"]
  /\ UNCHANGED <<made, engine, steps, flight, opc, ret, missed, fooled, tally>>

-----------------------------------------------------------------------------
(* E5rtInflight.                                                           *)

Interpret(message) == IF message = "ok" THEN "OK" ELSE "INTERNAL"

(* The completion, or the end of the channel, has been consumed: the       *)
(* client has st.                                                          *)
Received(f, st) == [f EXCEPT !.done = TRUE, !.chan = "empty",
                             !.told = IF @ = "none" THEN st ELSE @]
CountAnswer(st) ==
  tally' = IF flight.told = "none" /\ st = "OK"
             THEN [ok    |-> [tally.ok EXCEPT ![flight.state] = @ + 1],
                   doubt |-> [tally.doubt EXCEPT ![flight.state] = @ - 1],
                   calls |-> tally.calls]
             ELSE tally

(* Wrong variant: a poll that times out takes the handle for resolved.     *)
StillRunningDone ==
  /\ flight' = [flight EXCEPT !.done = TRUE]
  /\ ret' = "none" /\ UNCHANGED tally

StillRunning ==
  /\ ret' = "none" /\ UNCHANGED <<flight, tally>>

Resolves(st) ==
  /\ flight' = Received(flight, st)
  /\ ret' = st /\ CountAnswer(st)

(* wait_timeout: None, while the handle stays.                             *)
WaitTimeout ==
  /\ Idle /\ flight.live
  /\ CASE flight.done -> /\ ret' = "OK"
                         /\ UNCHANGED <<flight, tally>>
       [] ~flight.done /\ flight.chan # "empty" -> Resolves(Interpret(flight.chan))
       [] OTHER -> StillRunning
  /\ UNCHANGED <<made, engine, steps, box, opc, missed, fooled>>

(* wait, which consumes the handle, and Drop: both go through wait_inner.  *)
EndHandle(how) ==
  /\ Idle /\ flight.live /\ opc' = how
  /\ UNCHANGED <<made, engine, steps, box, flight, ret, missed, fooled, tally>>
Wait == EndHandle("wait")
DropHandle == EndHandle("drop")

(* wait_inner: it waits unless the completion was consumed already; then   *)
(* the handle is gone, and what it borrowed is free.                       *)
Blocked == ~flight.done /\ flight.chan = "empty"
WaitInner ==
  /\ opc \in {"wait", "drop"} /\ ~Blocked /\ opc' = "idle"
  /\ LET st == IF flight.done THEN "OK" ELSE Interpret(flight.chan)
     IN /\ flight' = [Received(flight, st) EXCEPT !.live = FALSE, !.bufs = {},
                                                     !.runner = Nil]
        /\ ret' = IF opc = "wait" THEN st ELSE ret
        /\ CountAnswer(st)
  /\ UNCHANGED <<made, engine, steps, box, missed, fooled>>

-----------------------------------------------------------------------------
Client ==
  \/ NewState \/ DropState \/ NewBuffer \/ DropBuffer \/ NewRunner \/ DropRunner
  \/ DropModel \/ Predict \/ EncodeFails \/ Execute \/ ExecuteAsync
  \/ SubmitRefused \/ WaitTimeout \/ Wait \/ DropHandle
Completion == EngineEnds \/ Trampoline \/ TrampolineSends \/ TrampolineReturns

E5Next == Client \/ WaitInner \/ Completion

E5Spec == E5Init /\ [][E5Next]_vars

(* The engine finishes what it was given and calls back, and a client that *)
(* is blocked runs when it can.                                            *)
FairE5Spec == E5Spec /\ WF_vars(Completion) /\ WF_vars(WaitInner)

-----------------------------------------------------------------------------
(* Properties.                                                             *)

(* What ran on the engine had the buffers of its call on every port the    *)
(* call names, although ports are cached by name and direction over calls, *)
(* failed calls and rebuilt operations.  Whenever it had not, the runner   *)
(* met another operation at the very address it remembers.                 *)
MissesOnlyIfFooled == missed # {} => fooled

(* "if the op did change, the cached ports belonged to the old operation,  *)
(* so drop them" (lib.rs:4381-4382): every run has the buffers of its own  *)
(* call.  The comparison is of addresses, and an operation that is built   *)
(* where the old one was keeps the old one's ports.  VIOLATED.             *)
ExecutesThisCall == missed = {}

(* The state on the engine moves at most once for a call, and every call   *)
(* that answered Ok stands for a step, through predictions, synchronous    *)
(* and asynchronous runs on the same state, whatever failed on the way:    *)
(* only a call that did not answer Ok leaves the client in doubt.          *)
StateCountsSteps ==
  \A s \in States :
    /\ tally.ok[s] <= steps[s]
    /\ steps[s] <= tally.ok[s] + tally.doubt[s]

(* A boxed sender is reclaimed exactly once, by the trampoline or by the   *)
(* refused submission: at any time one is out only for the completion that *)
(* has not come yet, and none is freed twice (lib.rs:4435-4440).           *)
SenderReclaimed ==
  \A x \in Boxes :
    /\ box[x] # "twice"
    /\ box[x] = "raw" <=> flight.ctx = x /\ flight.eng \in {"running", "ended"}

(* Drop and wait are a barrier: a handle that is gone has no work on the   *)
(* engine, so no buffer is freed under it, and the first answer about it   *)
(* is the completion's (lib.rs:4453-4460).                                 *)
HandleIsBarrier ==
  /\ flight.eng = "running" => flight.live /\ flight.bufs \subseteq bufs
  /\ flight.told # "none" => flight.told = Interpret(IF flight.ok THEN "ok" ELSE "err")

(* "Errors: Internal if the completion reported an error", says wait, and  *)
(* so does wait_timeout (lib.rs:4473-4475, 4490-4492).  After the poll     *)
(* that consumed a failed completion both answer Ok.  VIOLATED.            *)
WaitTellsFailure ==
  ret = "OK" => flight.ok

(* wait and Drop return.                                                   *)
HandleEnds == (opc # "idle") ~> (opc = "idle")
=============================================================================
