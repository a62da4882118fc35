------------------------------- MODULE Request -------------------------------
(***************************************************************************)
(* One AneRequest: the asynchronous core of c/src/ane_bridge.m together    *)
(* with the ownership discipline of the Rust `Request` that wraps it.      *)
(*                                                                         *)
(* Two threads act on a request.  The OWNER is the one thread that holds   *)
(* the handle (`&mut Request`); it makes one call at a time and its        *)
(* position inside the call is opc.  The WORKER is whatever thread the     *)
(* request's serial dispatch queue runs the submitted blocks on; its       *)
(* position is wpc.  Each atomic load or store, each semaphore operation   *)
(* and each framework call is one step, so the two interleave exactly      *)
(* where the code lets them.  Calls that return an error without changing  *)
(* any state (BUSY, bad index) are not steps.                              *)
(***************************************************************************)
EXTENDS Naturals, Sequences

CONSTANTS
  MaxSubmits,  (* bound of the model: claims of the in-flight slot       *)
  Boxes,       (* addresses of boxed completion closures                 *)
  NoBox        (* the null completion_user / completion_fn               *)

ASSUME RequestAssumption == MaxSubmits \in Nat /\ NoBox \notin Boxes

VARIABLES
  (* fields of struct AneRequest *)
  inFlight,     (* in_flight                                             *)
  hasResult,    (* has_result                                            *)
  lastStatus,   (* last_status                                           *)
  lastErr,      (* last_err_msg: the eval it describes, 0 for ""         *)
  sem,          (* count of done_sem                                     *)
  completion,   (* completion_fn / completion_user                       *)
  inputsBound,  (* every input_bound[i] is set                           *)
  outputsBound, (* every output_bound[i] is set                          *)
  (* the dispatch queue and the thread that runs it *)
  queue,        (* blocks not started yet                                *)
  wpc,          (* position of the worker in the block it runs           *)
  wblk,         (* that block's captures: its eval and its cb_user       *)
  (* the owner thread *)
  opc,          (* position inside the current call                      *)
  op,           (* the current call                                      *)
  tmo,          (* timeout class of the current wait                     *)
  boxArg,       (* box a set_completion call installs, then frees        *)
  ret,          (* what the last call returned                           *)
  (* Rust heap and bookkeeping of what happened *)
  live,         (* boxes allocated and not freed                         *)
  out,          (* the eval whose data the output buffers hold, 0: other *)
  sub,          (* claims so far; the latest claim is eval number sub    *)
  outcome,      (* how each eval ended                                   *)
  wants,        (* evals handed over with a completion callback          *)
  told,         (* evals whose callback has been invoked                 *)
  waits         (* successful waits since the latest claim, capped at 2  *)

fields == <<inFlight, hasResult, lastStatus, lastErr, sem>>
bindings == <<inputsBound, outputsBound, out>>
worker == <<queue, wpc, wblk>>
owner == <<opc, op, tmo, boxArg, ret, waits>>
boxes == <<completion, live>>
notices == <<wants, told>>
evals == <<sub, outcome>>
vars == <<fields, bindings, worker, owner, boxes, notices, evals>>
shared == <<fields, bindings, worker, boxes, notices, evals>>

Evals == 1..MaxSubmits
NoEval == 0
EvalStatus == {"OK", "ERR_EVAL"}
Status == EvalStatus \cup {"ERR_BUILD"}
Timeouts == {"forever", "poll", "timed"}
Block == [sub : 0..MaxSubmits, box : Boxes \cup {NoBox}]

WorkerPcs == {"idle", "eval", "store", "has", "clear", "signal", "call",
              "cb", "cb_body"}
RunPcs == {"r_eval", "r_store", "r_has", "r_clear", "r_call", "r_cb"}
OwnerPcs == {"idle", "drain", "build", "fail", "w_flight", "w_has", "w_fast",
             "w_sem", "w_read", "d_has", "d_flight", "access", "copy",
             "c_sync", "c_free", "x_sync", "x_box", "released"} \cup RunPcs
Ops == {"none", "submit", "run", "wait", "is_done", "borrow", "set_input",
        "get_output", "set_completion", "release"}
Returned == [call : Ops,
             st : Status \cup {"DONE", "NOT_DONE", "TIMEOUT", "UNBOUND"},
             of : 0..MaxSubmits]

Result(c, s, e) == [call |-> c, st |-> s, of |-> e]
NoReturn == Result("none", "OK", NoEval)

(* The owner calls o; goes from one point of the call to the next; returns *)
(* s, about eval e.                                                        *)
Enter(o, to) == opc = "idle" /\ op' = o /\ opc' = to /\ ret' = NoReturn
Goto(from, to) ==
  opc = from /\ opc' = to /\ UNCHANGED <<op, tmo, boxArg, ret, waits>>
Return(s, e) ==
  opc' = "idle" /\ ret' = Result(op, s, e) /\ UNCHANGED <<op, tmo, boxArg>>

(* The worker goes from one point of its block to the next.                *)
WorkerGoto(from, to) ==
  wpc = from /\ wpc' = to /\ UNCHANGED <<queue, wblk, owner>>

(* dispatch_sync on the serial queue returns once no block is queued or    *)
(* running.                                                                *)
Drained == queue = <<>> /\ wpc = "idle"

(* The engine is executing an eval of this request.                        *)
Evaluating == wpc = "eval" \/ opc = "r_eval"

(* A definition whose comment says "Wrong variant" is not part of the      *)
(* specification: it is the definition after it with a plausible bug, kept *)
(* to show that the properties below can fail.                             *)
-----------------------------------------------------------------------------
(* ane_request_create: nothing pending, has_result already 1.              *)
Init ==
  /\ inFlight = 0 /\ hasResult = 1 /\ lastStatus = "OK" /\ lastErr = NoEval
  /\ sem = 0 /\ completion = NoBox
  /\ inputsBound = FALSE /\ outputsBound = FALSE
  /\ queue = <<>> /\ wpc = "idle"
  /\ wblk = [sub |-> NoEval, box |-> NoBox]
  /\ opc = "idle" /\ op = "none" /\ tmo = "poll" /\ boxArg = NoBox
  /\ ret = NoReturn
  /\ live = {} /\ out = NoEval
  /\ sub = 0 /\ outcome = [e \in Evals |-> "pending"]
  /\ wants = {} /\ told = {} /\ waits = 0

-----------------------------------------------------------------------------
(* ane_request_submit and ane_request_run: the common entry.               *)

(* Wrong variant: in_flight is not tested.                                 *)
ClaimUntested(o) ==
  /\ Enter(o, "drain") /\ sub < MaxSubmits
  /\ inFlight' = 1
  /\ sub' = sub + 1 /\ waits' = 0
  /\ UNCHANGED <<hasResult, lastStatus, lastErr, sem, bindings, worker, tmo,
                 boxArg, boxes, notices, outcome>>

(* The compare-and-swap of in_flight.  When it fails the call returns BUSY *)
(* and changes nothing.                                                    *)
Claim(o) ==
  /\ Enter(o, "drain") /\ inFlight = 0 /\ sub < MaxSubmits
  /\ inFlight' = 1
  /\ sub' = sub + 1 /\ waits' = 0
  /\ UNCHANGED <<hasResult, lastStatus, lastErr, sem, bindings, worker, tmo,
                 boxArg, boxes, notices, outcome>>

Submit == Claim("submit")
Run == Claim("run")

(* One turn of the loop that empties done_sem.                             *)
DrainSignal ==
  /\ Goto("drain", "drain") /\ sem > 0
  /\ sem' = sem - 1
  /\ UNCHANGED <<inFlight, hasResult, lastStatus, lastErr, bindings, worker,
                 boxes, notices, evals>>

(* The loop found the semaphore empty; the previous result is withdrawn.   *)
DrainDone ==
  /\ Goto("drain", "build") /\ sem = 0
  /\ hasResult' = 0
  /\ UNCHANGED <<inFlight, lastStatus, lastErr, sem, bindings, worker, boxes,
                 notices, evals>>

(* Wrong variant: last_status keeps the previous eval's status.            *)
BuildFailsSilently ==
  /\ Goto("build", "fail")
  /\ outcome' = [outcome EXCEPT ![sub] = "ERR_BUILD"]
  /\ hasResult' = 1
  /\ UNCHANGED <<inFlight, lastStatus, lastErr, sem, bindings, worker, boxes,
                 notices, sub>>

(* build_ane_request returned nil: an input is unbound, an output could    *)
(* not be allocated, or the framework refused.  The error message field is *)
(* left as it was, nothing is signalled and no callback is made.           *)
BuildFails ==
  /\ Goto("build", "fail")
  /\ \/ ~inputsBound /\ UNCHANGED outputsBound
     \/ inputsBound /\ outputsBound' \in {outputsBound, TRUE}
  /\ lastStatus' = "ERR_BUILD"
  /\ outcome' = [outcome EXCEPT ![sub] = "ERR_BUILD"]
  /\ hasResult' = 1
  /\ UNCHANGED <<inFlight, lastErr, sem, inputsBound, out, worker, boxes,
                 notices, sub>>

FailReturns ==
  /\ opc = "fail"
  /\ inFlight' = 0
  /\ Return("ERR_BUILD", NoEval)
  /\ UNCHANGED <<hasResult, lastStatus, lastErr, sem, bindings, worker, waits,
                 boxes, notices, evals>>

(* The descriptor was built, with an owned buffer for every unset output.  *)
Built(o) ==
  /\ opc = "build" /\ op = o /\ inputsBound
  /\ outputsBound' = TRUE
  /\ wants' = IF completion = NoBox THEN wants ELSE wants \cup {sub}
  /\ UNCHANGED <<inputsBound, out, told, fields, wpc, wblk, boxes, evals>>

(* submit captures the callback and enqueues the block.                    *)
Dispatch ==
  /\ Built("submit")
  /\ queue' = Append(queue, [sub |-> sub, box |-> completion])
  /\ Return("OK", NoEval) /\ UNCHANGED waits

(* run goes on to evaluate on the owner's own thread.                      *)
RunBuilt ==
  /\ Built("run")
  /\ Goto("build", "r_eval")
  /\ UNCHANGED queue

-----------------------------------------------------------------------------
(* What the engine does to an eval: it ends with status s.  A failed eval  *)
(* leaves the output buffers as they were or partly written.               *)
Evaluate(e, s) ==
  /\ outcome' = [outcome EXCEPT ![e] = s]
  /\ out' \in IF s = "OK" THEN {e} ELSE {out, NoEval}
  /\ UNCHANGED <<fields, inputsBound, outputsBound, boxes, notices, sub>>

(* store_err and the assignment to last_status.                            *)
Store(e) ==
  /\ lastErr' = IF outcome[e] = "OK" THEN NoEval ELSE e
  /\ lastStatus' = outcome[e]
  /\ UNCHANGED <<inFlight, hasResult, sem, bindings, boxes, notices, evals>>

(* The two stores that publish the result and open the slot.               *)
PublishResult ==
  /\ hasResult' = 1
  /\ UNCHANGED <<inFlight, lastStatus, lastErr, sem, bindings, boxes, notices,
                 evals>>

ClearInFlight ==
  /\ inFlight' = 0
  /\ UNCHANGED <<hasResult, lastStatus, lastErr, sem, bindings, boxes,
                 notices, evals>>

(* ane_request_run, from the framework call to its return.                 *)
RunEval ==
  /\ Goto("r_eval", "r_store")
  /\ \E s \in EvalStatus : Evaluate(sub, s)
  /\ UNCHANGED worker

RunStore == Goto("r_store", "r_has") /\ Store(sub) /\ UNCHANGED worker

RunHasResult == Goto("r_has", "r_clear") /\ PublishResult /\ UNCHANGED worker

RunClear == Goto("r_clear", "r_call") /\ ClearInFlight /\ UNCHANGED worker

(* The completion callback, if any, runs on the owner's thread.            *)
RunCallback ==
  /\ Goto("r_call", "r_cb") /\ completion # NoBox
  /\ told' = told \cup {sub}
  /\ UNCHANGED <<fields, bindings, worker, boxes, wants, evals>>

RunReturns ==
  /\ \/ opc = "r_cb"
     \/ opc = "r_call" /\ completion = NoBox
  /\ Return(outcome[sub], lastErr)
  /\ UNCHANGED <<shared, waits>>

-----------------------------------------------------------------------------
(* ane_request_wait.                                                       *)

WaitCall(t) ==
  /\ Enter("wait", "w_flight")
  /\ tmo' = t
  /\ UNCHANGED <<shared, boxArg, waits>>

(* The two loads of the fast-path condition.                               *)
WaitLoadInFlight ==
  Goto("w_flight", IF inFlight = 0 THEN "w_has" ELSE "w_sem")
    /\ UNCHANGED shared

WaitLoadHasResult ==
  Goto("w_has", IF hasResult = 1 THEN "w_fast" ELSE "w_sem")
    /\ UNCHANGED shared

(* Fast path: take the signal if it has arrived already.                   *)
WaitFast ==
  /\ Goto("w_fast", "w_read")
  /\ sem' = IF sem > 0 THEN sem - 1 ELSE 0
  /\ UNCHANGED <<inFlight, hasResult, lastStatus, lastErr, bindings, worker,
                 boxes, notices, evals>>

(* Slow path: a signal is taken...                                         *)
WaitSignalled ==
  /\ Goto("w_sem", "w_read") /\ sem > 0
  /\ sem' = sem - 1
  /\ UNCHANGED <<inFlight, hasResult, lastStatus, lastErr, bindings, worker,
                 boxes, notices, evals>>

(* ... or a poll or a timed wait gives up.                                 *)
WaitGivesUp ==
  /\ opc = "w_sem" /\ sem = 0 /\ tmo # "forever"
  /\ Return(IF tmo = "poll" THEN "NOT_DONE" ELSE "TIMEOUT", NoEval)
  /\ UNCHANGED <<shared, waits>>

WaitReturns ==
  /\ opc = "w_read"
  /\ Return(lastStatus, IF lastStatus = "OK" THEN NoEval ELSE lastErr)
  /\ waits' = IF waits < 2 THEN waits + 1 ELSE waits
  /\ UNCHANGED shared

-----------------------------------------------------------------------------
(* ane_request_is_done, and the Rust accessors input_buffer_mut and        *)
(* output_buffer_mut, which hand out a bound buffer only when it is true.  *)

DoneCall(o) == Enter(o, "d_has") /\ UNCHANGED <<shared, tmo, boxArg, waits>>

IsDone == DoneCall("is_done")
BorrowBuffer == DoneCall("borrow")

DoneLoadHasResult ==
  /\ \/ hasResult = 1 /\ Goto("d_has", "d_flight")
     \/ hasResult = 0 /\ opc = "d_has" /\ Return("NOT_DONE", NoEval)
  /\ UNCHANGED <<shared, waits>>

DoneLoadInFlight ==
  /\ opc = "d_flight"
  /\ \/ inFlight = 1 /\ Return("NOT_DONE", NoEval)
     \/ inFlight = 0 /\ op = "is_done" /\ Return("DONE", NoEval)
     \/ inFlight = 0 /\ op = "borrow" /\ Goto("d_flight", "access")
  /\ UNCHANGED <<shared, waits>>

(* Wrong variant: no in-flight guard.                                      *)
SetInputUnguarded ==
  Enter("set_input", "access") /\ UNCHANGED <<shared, tmo, boxArg, waits>>

(* ane_request_set_input_bytes: refused while in flight, then the payload  *)
(* is copied into the owned buffer, which becomes the binding.             *)
SetInputBytes ==
  /\ inFlight = 0
  /\ Enter("set_input", "access")
  /\ UNCHANGED <<shared, tmo, boxArg, waits>>

(* The CPU access to a bound buffer ends.                                  *)
AccessEnds ==
  /\ opc = "access"
  /\ inputsBound' = (inputsBound \/ op = "set_input")
  /\ Return("OK", NoEval)
  /\ UNCHANGED <<fields, outputsBound, out, worker, waits, boxes, notices,
                 evals>>

(* ane_request_bind_input / ane_request_bind_output: refused in flight.    *)
BindInput ==
  /\ opc = "idle" /\ inFlight = 0
  /\ inputsBound' = TRUE
  /\ UNCHANGED <<fields, outputsBound, out, worker, owner, boxes, notices,
                 evals>>

BindOutput ==
  /\ Enter("none", "idle") /\ inFlight = 0
  /\ outputsBound' = TRUE /\ out' = NoEval
  /\ UNCHANGED <<fields, inputsBound, worker, tmo, boxArg, waits, boxes,
                 notices, evals>>

(* Wrong variant: has_result is not tested.                                *)
GetOutputUngated ==
  /\ Enter("get_output", "copy") /\ outputsBound
  /\ UNCHANGED <<shared, tmo, boxArg, waits>>

(* ane_request_get_output_bytes: gated on has_result and on a binding.     *)
OutputGate ==
  IF hasResult = 0 THEN "NOT_DONE" ELSE IF outputsBound THEN "OK" ELSE "UNBOUND"

(* Request::get_output_bytes: the gate, and then the copy.                 *)
GetOutputBytes ==
  /\ IF OutputGate = "OK"
     THEN Enter("get_output", "copy")
     ELSE /\ opc = "idle" /\ opc' = "idle" /\ op' = "get_output"
          /\ ret' = Result("get_output", OutputGate, NoEval)
  /\ UNCHANGED <<shared, tmo, boxArg, waits>>

CopyOut == opc = "copy" /\ Return("OK", out) /\ UNCHANGED <<shared, waits>>

-----------------------------------------------------------------------------
(* Request::on_complete (b is a fresh box) and Request::clear_completion   *)
(* (b is null) around ane_request_set_completion.                          *)

SetCompletion(b) ==
  /\ Enter("set_completion", "c_sync")
  /\ b \notin live
  /\ live' = IF b = NoBox THEN live ELSE live \cup {b}
  /\ boxArg' = b
  /\ UNCHANGED <<fields, bindings, worker, tmo, waits, completion, notices,
                 evals>>

(* Swap the installed pair; the previous box, which Rust still holds, is   *)
(* what remains to be freed.                                               *)
Swap ==
  /\ opc = "c_sync" /\ opc' = "c_free"
  /\ completion' = boxArg /\ boxArg' = completion
  /\ UNCHANGED <<fields, bindings, worker, op, tmo, ret, waits, live, notices,
                 evals>>

(* Wrong variants: the swap does not wait for the queue; the swap waits on *)
(* done_sem, whose signal a wait may have taken.                           *)
SwapUndrained == Swap
SwapOnSemaphore == Drained /\ sem > 0 /\ Swap

(* The dispatch_sync of ane_request_set_completion returned.               *)
CompletionSwap == Drained /\ Swap

FreeOldBox ==
  /\ opc = "c_free" /\ opc' = "idle"
  /\ live' = live \ {boxArg}
  /\ boxArg' = NoBox /\ ret' = Result(op, "OK", NoEval)
  /\ UNCHANGED <<fields, bindings, worker, op, tmo, waits, completion,
                 notices, evals>>

(* Drop for Request: ane_request_release drains the queue and frees the    *)
(* request, then the box goes.                                             *)
Release ==
  Enter("release", "x_sync") /\ UNCHANGED <<shared, tmo, boxArg, waits>>

(* Wrong variant: the request is freed without draining its queue.         *)
ReleaseUndrained == Goto("x_sync", "x_box") /\ UNCHANGED shared

ReleaseDrained == Drained /\ Goto("x_sync", "x_box") /\ UNCHANGED shared

DropBox ==
  /\ Goto("x_box", "released")
  /\ live' = live \ {completion}
  /\ UNCHANGED <<fields, bindings, worker, completion, notices, evals>>

(* Nothing happens to a released request: the system may stop here.        *)
Released == opc = "released" /\ UNCHANGED vars

-----------------------------------------------------------------------------
(* The block that submit enqueues, run by the serial queue.                *)

WorkerStart ==
  /\ wpc = "idle" /\ queue # <<>>
  /\ wblk' = Head(queue)
  /\ queue' = Tail(queue)
  /\ wpc' = "eval"
  /\ UNCHANGED <<fields, bindings, owner, boxes, notices, evals>>

WorkerEval ==
  /\ WorkerGoto("eval", "store")
  /\ \E s \in EvalStatus : Evaluate(wblk.sub, s)

(* Wrong variant: the waiter of a failed eval is woken here as well.       *)
WorkerStoreSignals ==
  /\ WorkerGoto("store", "has")
  /\ lastErr' = IF outcome[wblk.sub] = "OK" THEN NoEval ELSE wblk.sub
  /\ lastStatus' = outcome[wblk.sub]
  /\ sem' = IF outcome[wblk.sub] = "OK" THEN sem ELSE sem + 1
  /\ UNCHANGED <<inFlight, hasResult, bindings, boxes, notices, evals>>

WorkerStore == WorkerGoto("store", "has") /\ Store(wblk.sub)

(* Wrong variant: the callback is made before the slot is free.            *)
WorkerCallsEarly ==
  /\ WorkerGoto("has", "clear")
  /\ hasResult' = 1
  /\ told' = IF wblk.box = NoBox THEN told ELSE told \cup {wblk.sub}
  /\ UNCHANGED <<inFlight, lastStatus, lastErr, sem, bindings, boxes, wants,
                 evals>>

WorkerHasResult == WorkerGoto("has", "clear") /\ PublishResult

(* Wrong variant: a failed eval leaves the request in flight.              *)
WorkerClearOnSuccess ==
  /\ WorkerGoto("clear", "signal")
  /\ IF outcome[wblk.sub] = "OK" THEN ClearInFlight
     ELSE UNCHANGED <<fields, bindings, boxes, notices, evals>>

WorkerClear == WorkerGoto("clear", "signal") /\ ClearInFlight

(* Wrong variant: a failed eval is not signalled.                          *)
WorkerSignalOnSuccess ==
  /\ WorkerGoto("signal", "call")
  /\ sem' = IF outcome[wblk.sub] = "OK" THEN sem + 1 ELSE sem
  /\ UNCHANGED <<inFlight, hasResult, lastStatus, lastErr, bindings, boxes,
                 notices, evals>>

WorkerSignal ==
  /\ WorkerGoto("signal", "call")
  /\ sem' = sem + 1
  /\ UNCHANGED <<inFlight, hasResult, lastStatus, lastErr, bindings, boxes,
                 notices, evals>>

WorkerCallback ==
  /\ WorkerGoto("call", "cb") /\ wblk.box # NoBox
  /\ told' = told \cup {wblk.sub}
  /\ UNCHANGED <<fields, bindings, boxes, wants, evals>>

(* ane_request_last_error, as the trampoline calls it for a failed eval.   *)
LastError == IF hasResult = 0 THEN NoEval ELSE lastErr

(* completion_trampoline builds the result, then runs the closure.         *)
WorkerReadsError ==
  /\ WorkerGoto("cb", "cb_body")
  /\ UNCHANGED <<fields, bindings, boxes, notices, evals>>

(* Wrong variant: a failed eval makes no callback.                         *)
FinishWithoutCallback ==
  /\ \/ WorkerGoto("cb_body", "idle")
     \/ /\ WorkerGoto("call", "idle")
        /\ wblk.box = NoBox \/ outcome[wblk.sub] # "OK"
  /\ UNCHANGED <<fields, bindings, boxes, notices, evals>>

WorkerFinish ==
  /\ \/ WorkerGoto("cb_body", "idle")
     \/ WorkerGoto("call", "idle") /\ wblk.box = NoBox
  /\ UNCHANGED <<fields, bindings, boxes, notices, evals>>

-----------------------------------------------------------------------------
(* Calls the owner may start.                                              *)
OwnerCall ==
  \/ Submit \/ Run \/ IsDone \/ BorrowBuffer
  \/ SetInputBytes \/ BindInput \/ BindOutput \/ GetOutputBytes \/ Release
  \/ \E t \in Timeouts : WaitCall(t)
  \/ \E b \in Boxes \cup {NoBox} : SetCompletion(b)

(* Steps inside a call.                                                    *)
OwnerStep ==
  \/ DrainSignal \/ DrainDone \/ BuildFails \/ FailReturns \/ Dispatch
  \/ RunBuilt \/ RunEval \/ RunStore \/ RunHasResult \/ RunClear
  \/ RunCallback \/ RunReturns
  \/ WaitLoadInFlight \/ WaitLoadHasResult \/ WaitFast \/ WaitSignalled
  \/ WaitGivesUp \/ WaitReturns
  \/ DoneLoadHasResult \/ DoneLoadInFlight \/ AccessEnds \/ CopyOut
  \/ CompletionSwap \/ FreeOldBox \/ ReleaseDrained \/ DropBox

WorkerStep ==
  \/ WorkerStart \/ WorkerEval \/ WorkerStore \/ WorkerHasResult
  \/ WorkerClear \/ WorkerSignal \/ WorkerCallback \/ WorkerReadsError
  \/ WorkerFinish

Next == OwnerCall \/ OwnerStep \/ WorkerStep \/ Released

Spec == Init /\ [][Next]_vars

(* The dispatch queue runs its blocks, evals and callbacks return, and a   *)
(* thread inside a call is scheduled.  The owner need not make any call.   *)
FairSpec == Spec /\ WF_vars(OwnerStep) /\ WF_vars(WorkerStep)
-----------------------------------------------------------------------------
(* PROPERTIES                                                              *)

(* The values each variable may take.  done_sem never counts more than two *)
(* signals: each submission drains it, so at most one late signal of the   *)
(* previous eval and the eval's own can be there together.                 *)
TypeOK ==
  /\ inFlight \in {0, 1} /\ hasResult \in {0, 1}
  /\ lastStatus \in Status /\ lastErr \in 0..MaxSubmits
  /\ sem \in 0..2
  /\ completion \in Boxes \cup {NoBox}
  /\ inputsBound \in BOOLEAN /\ outputsBound \in BOOLEAN
  /\ queue \in Seq(Block) /\ wpc \in WorkerPcs /\ wblk \in Block
  /\ opc \in OwnerPcs /\ op \in Ops /\ tmo \in Timeouts
  /\ boxArg \in Boxes \cup {NoBox} /\ ret \in Returned
  /\ live \subseteq Boxes /\ out \in 0..MaxSubmits
  /\ sub \in 0..MaxSubmits
  /\ outcome \in [Evals -> Status \cup {"pending"}]
  /\ wants \subseteq Evals /\ told \subseteq Evals /\ waits \in 0..2

(* A request never has two evals on the engine at once, although run       *)
(* evaluates on the owner's thread and submit on the queue's: both go      *)
(* through the one in_flight flag.                                         *)
OneEval == ~(wpc = "eval" /\ opc = "r_eval")

(* The CPU never touches a bound buffer while an eval reads or writes it   *)
(* by DMA: set_input_bytes, the Rust buffer accessors and get_output_bytes *)
(* are each gated, by different flags, and the gate outlives the check.    *)
NoAccessDuringEval == opc \in {"access", "copy"} => ~Evaluating

(* The box a block captured is alive for as long as the block is queued or *)
(* running: on_complete and Drop free a box only after draining the queue. *)
BoxAlive ==
  /\ wpc # "idle" => wblk.box \in live \cup {NoBox}
  /\ \A i \in DOMAIN queue : queue[i].box \in live \cup {NoBox}

(* ane_request_release frees the request only when no block can touch it.  *)
NoUseAfterRelease == opc \in {"x_box", "released"} => Drained

(* Outside a call, an idle request with a published result publishes the   *)
(* result of its latest submission, not an earlier one.                    *)
PublishedIsLatest ==
  opc = "idle" /\ inFlight = 0 /\ sub > 0 =>
    /\ hasResult = 1
    /\ lastStatus = outcome[sub]

(* is_done never says yes before the latest submission has ended.          *)
DoneIsTrue ==
  ret.call = "is_done" /\ ret.st = "DONE" /\ sub > 0 => outcome[sub] # "pending"

(* After a successful eval, get_output_bytes never returns the output of   *)
(* an earlier one (0: a buffer bound after the eval).                      *)
OutputIsLatest ==
  ret.call = "get_output" /\ ret.st = "OK" /\ sub > 0 =>
    (outcome[sub] = "OK" => ret.of \in {sub, NoEval})

(* One wait may be answered by the late signal of the previous eval (see   *)
(* WaitMeansDone), but never two: a second successful wait on the same     *)
(* submission means that it ended.                                         *)
SecondWaitIsTrue == waits = 2 /\ sub > 0 => outcome[sub] # "pending"

(* What the owner is told is true: is_done, get_output_bytes and repeated  *)
(* waits, in any order, around the worker's stores.                        *)
AnswersTrue == DoneIsTrue /\ OutputIsLatest /\ SecondWaitIsTrue

(* The request implements the one-eval slot of EvalSlot: a claim starts an *)
(* eval, in_flight is the slot, and the callback comes after the slot was  *)
(* freed, although run and the worker go through it on different threads.  *)
Slot == INSTANCE EvalSlot
          WITH started <- sub,
               busy <- inFlight = 1,
               ended <- {e \in Evals : outcome[e] # "pending"},
               called <- told

RefinesSlot == Slot!SlotSpec

(* A claimed request becomes claimable again.                              *)
SlotFreed == Slot!SlotIsFreed

(***************************************************************************)
(* The inductive invariant that RequestProofs.tla proves: who holds the    *)
(* in_flight slot, what a published result excludes, how many signals      *)
(* there can be, which box the blocks captured, and the types.             *)
(***************************************************************************)
OwnerHolds ==
  opc \in {"drain", "build", "fail", "r_eval", "r_store", "r_has", "r_clear"}
WorkerHolds == wpc \in {"eval", "store", "has", "clear"}
Late == IF wpc = "signal" THEN 1 ELSE 0

(* The slot has at most one holder: the owner inside submit or run, the    *)
(* worker up to its store to in_flight, or the one queued block.           *)
SlotInv ==
  /\ queue # <<>> => queue = <<Head(queue)>>
  /\ inFlight = 0 => ~OwnerHolds /\ ~WorkerHolds /\ queue = <<>>
  /\ OwnerHolds => ~WorkerHolds /\ queue = <<>>
  /\ WorkerHolds => queue = <<>>

(* A result is published only when no eval is to be done or stored, and    *)
(* buffers are accessed only under the flag that was checked.              *)
ResultInv ==
  /\ hasResult = 1 => /\ queue = <<>>
                      /\ wpc \notin {"eval", "store", "has"}
                      /\ opc \notin {"build", "r_eval", "r_store", "r_has"}
  /\ opc \in {"d_flight", "copy"} => hasResult = 1
  /\ opc = "access" => inFlight = 0

(* Between a drain and the eval's own signal at most one late signal.      *)
SemInv ==
  /\ sem + Late <= 2
  /\ \/ WorkerHolds \/ queue # <<>>
     \/ OwnerHolds /\ opc # "drain"
     => sem + Late <= 1

(* Blocks captured the installed box, which is alive; the box about to be  *)
(* freed is not the installed one.                                         *)
BoxInv ==
  /\ wpc # "idle" => wblk.box = completion
  /\ queue # <<>> => Head(queue).box = completion
  /\ opc # "released" => completion \in live \cup {NoBox}
  /\ opc = "c_sync" => boxArg \in live \cup {NoBox}
  /\ opc \in {"c_sync", "c_free"} /\ boxArg # NoBox => boxArg # completion
  /\ opc \in {"c_free", "x_box", "released"} => Drained

(* The evals that the threads are working on exist and end before they are *)
(* stored.                                                                 *)
EvalInv ==
  /\ OwnerHolds \/ opc \in {"r_call", "r_cb"} => sub \in Evals
  /\ opc \in RunPcs \ {"r_eval"} => outcome[sub] \in EvalStatus
  /\ wpc # "idle" => wblk.sub \in Evals
  /\ queue # <<>> => Head(queue).sub \in Evals
  /\ wpc = "store" => outcome[wblk.sub] \in EvalStatus

IInv == TypeOK /\ SlotInv /\ ResultInv /\ SemInv /\ BoxInv /\ EvalInv

(***************************************************************************)
(* What the evals went through, beyond IInv: the second invariant, which   *)
(* RequestProofs.tla proves for the answers and the refinement.            *)
(***************************************************************************)
Ended(e) == outcome[e] # "pending"
WorkerOn(e) == wpc # "idle" /\ wblk.sub = e
SlotTaken == OwnerHolds \/ queue # <<>>

(* A taken slot has a holder: no exit of submit, run or the block leaks it. *)
HeldInv == inFlight = 1 => SlotTaken \/ WorkerHolds

(* The slot's holder works on the latest eval; a worker that is past its   *)
(* store to in_flight and finds the slot taken is behind it.               *)
LatestInv ==
  /\ \A e \in Evals : e > sub => ~Ended(e) /\ e \notin told
  /\ WorkerHolds => wblk.sub = sub
  /\ queue # <<>> => Head(queue).sub = sub
  /\ wpc # "idle" => wblk.sub <= sub
  /\ SlotTaken \/ opc \in {"r_call", "r_cb"} => ~WorkerOn(sub)
  /\ WorkerOn(sub) /\ ~WorkerHolds => inFlight = 0
  /\ opc = "r_call" => inFlight = 0

(* When the latest eval is pending and when it has ended.                  *)
EndedInv ==
  /\ \/ opc \in {"drain", "build", "r_eval"}
     \/ wpc = "eval" \/ queue # <<>>
     => ~Ended(sub)
  /\ wpc \notin {"idle", "eval"} => Ended(wblk.sub)
  /\ opc = "fail" => outcome[sub] = "ERR_BUILD"

(* Who is about to make a callback has not made it.                        *)
CallInv ==
  /\ OwnerHolds \/ opc = "r_call" => sub \notin told
  /\ WorkerHolds \/ wpc \in {"signal", "call"} => wblk.sub \notin told
  /\ queue # <<>> => sub \notin told

(* A free slot publishes the latest eval, and so does its holder once it   *)
(* has stored the status; the buffers hold no older output than that.      *)
PublishInv ==
  sub > 0 =>
    /\ inFlight = 0 => hasResult = 1 /\ lastStatus = outcome[sub]
    /\ \/ wpc \in {"has", "clear"}
       \/ opc \in {"r_has", "r_clear", "fail"}
       => lastStatus = outcome[sub]
    /\ wpc = "clear" \/ opc \in {"r_clear", "fail"} => hasResult = 1
    /\ hasResult = 1 /\ opc # "drain" => Ended(sub)
    /\ outcome[sub] = "OK" => out \in {sub, NoEval}

(* While the latest eval is pending, the signals there are and the waits   *)
(* they have answered are one late signal at most.                         *)
WaitInv ==
  /\ sub > 0 /\ ~Ended(sub) =>
       waits + (IF opc = "w_read" THEN 1 ELSE 0)
             + (IF opc = "drain" THEN 0 ELSE sem + Late) <= 1
  /\ opc = "drain" => waits = 0
  /\ opc \in {"w_has", "w_fast"} => inFlight = 0

(* What the owner was told, kept while it holds the answer.                *)
AnswerInv ==
  /\ op = "get_output" => opc \in {"idle", "copy"}
  /\ sub > 0 /\ ret.call = "is_done" /\ ret.st = "DONE" => Ended(sub)
  /\ sub > 0 /\ ret.call = "get_output" /\ ret.st = "OK" =>
       Ended(sub) /\ (outcome[sub] = "OK" => ret.of \in {sub, NoEval})

HInv ==
  /\ HeldInv /\ LatestInv /\ EndedInv /\ CallInv /\ PublishInv
  /\ WaitInv /\ AnswerInv

(* What submit's comment and the header promise of wait: "Block until the  *)
(* in-flight submission completes", the drain "keeps signal/consume        *)
(* balanced 1:1 per submission".  The worker clears in_flight before it    *)
(* signals, so a resubmission may drain before that signal arrives; the    *)
(* next wait takes it and returns the previous eval's status.  VIOLATED.   *)
WaitMeansDone ==
  ret.call = "wait" /\ ret.st \in Status /\ sub > 0 => outcome[sub] # "pending"

(* completion_trampoline relies on "two concurrent invocations against the *)
(* same user cannot occur".  run calls back on the owner's thread as soon  *)
(* as in_flight is clear, when the worker may still be inside the previous *)
(* callback.  VIOLATED.                                                    *)
CallbacksSerialized ==
  ~(wpc \in {"cb", "cb_body"} /\ opc = "r_cb" /\ wblk.box = completion)

(* No call blocks for ever: a wait returns, and so do on_complete,         *)
(* clear_completion and Drop from their drain.                             *)
CallsEnd ==
  /\ (opc = "w_flight") ~> (opc = "idle")
  /\ (opc \in {"c_sync", "x_sync"}) ~> (opc \in {"idle", "released"})

(* Every eval submitted with a callback is eventually called back.         *)
CallbackDelivered == \A e \in Evals : (e \in wants) ~> (e \in told)
=============================================================================
