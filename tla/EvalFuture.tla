------------------------------ MODULE EvalFuture ------------------------------
(***************************************************************************)
(* Request::submit_async and the EvalFuture it returns (rust/ane-bridge/   *)
(* src/lib.rs), on top of the request of module Request.                   *)
(*                                                                         *)
(* submit_async installs a closure through on_complete and submits.  The   *)
(* closure and the future share a cell (EvalShared: done, waker, result).  *)
(* The closure runs on the worker as the body of the completion callback;  *)
(* the future is polled by an executor on the owner's thread.  A future    *)
(* borrows the request mutably, so while it exists the owner makes no      *)
(* other call; it may be dropped between two polls while its eval runs on. *)
(*                                                                         *)
(* Every box of this module holds such a closure, so a cell is named by    *)
(* its box.  The callback of ane_request_run is left to module Request:    *)
(* after a future was dropped it would write to a cell nobody reads.       *)
(***************************************************************************)
EXTENDS Request

CONSTANTS
  Wakers,   (* the wakers an executor may poll with *)
  NoWaker   (* an empty waker slot                  *)

ASSUME FutureAssumption == NoWaker \notin Wakers

VARIABLES
  cell,      (* EvalShared of each box's closure                          *)
  fpc,       (* the owner's position in submit_async or poll              *)
  fut,       (* the box whose cell the current future shares              *)
  cpc,       (* the worker's position in the closure                      *)
  arg,       (* the result the trampoline passes to the closure           *)
  taken,     (* the waker the closure took out of its cell                *)
  current,   (* the waker of the latest poll, NoWaker before the first    *)
  woken,     (* wakers woken and not polled with since                    *)
  resolved,  (* what the latest future to resolve resolved to             *)
  async      (* evals claimed by submit_async                             *)

closureVars == <<cpc, arg, taken>>
taskVars == <<current, woken>>
historyVars == <<resolved, async>>
futureVars == <<cell, fpc, fut, closureVars, taskVars, historyVars>>
allVars == <<vars, futureVars>>

(* Result<(), Error>: Ok, or Err with the message of one eval's error.     *)
Outcome == [st : Status, of : 0..MaxSubmits]
OwnOutcome(e) ==
  [st |-> outcome[e], of |-> IF outcome[e] = "OK" THEN NoEval ELSE e]
NoOutcome == [st |-> "none", of |-> NoEval]
Ready == [st |-> "OK", of |-> NoEval]

Cell == [done : BOOLEAN, waker : Wakers \cup {NoWaker},
         result : Outcome \cup {NoOutcome}]
NewCell == [done |-> FALSE, waker |-> NoWaker, result |-> NoOutcome]

FutureInit ==
  /\ Init
  /\ cell = [b \in Boxes |-> NewCell]
  /\ fpc = "none" /\ fut = NoBox
  /\ cpc = "none" /\ arg = NoOutcome /\ taken = NoWaker
  /\ current = NoWaker /\ woken = {}
  /\ resolved = [eval |-> NoEval, with |-> NoOutcome] /\ async = {}

Advance(from, to) ==
  fpc = from /\ fpc' = to /\ UNCHANGED <<vars, fut, closureVars, historyVars>>

-----------------------------------------------------------------------------
(* submit_async: on_complete with a fresh closure, then submit.            *)

SubmitAsync(b) ==
  /\ fpc = "none" /\ fpc' = "install" /\ sub < MaxSubmits
  /\ SetCompletion(b)
  /\ cell' = [cell EXCEPT ![b] = NewCell]
  /\ fut' = b
  /\ current' = NoWaker
  /\ UNCHANGED <<closureVars, woken, historyVars>>

(* on_complete returned Ok; submit claims the request.                     *)
AsyncClaim ==
  /\ fpc = "install" /\ fpc' = "submit"
  /\ Submit
  /\ async' = async \cup {sub'}
  /\ UNCHANGED <<cell, fut, closureVars, taskVars, resolved>>

(* submit enqueued the block: the future exists.                           *)
AsyncDispatch ==
  /\ fpc = "submit" /\ fpc' = "pending"
  /\ Dispatch
  /\ UNCHANGED <<cell, fut, closureVars, taskVars, historyVars>>

(* The descriptor could not be built: submit_async returns the error and   *)
(* the closure stays installed.  (That submit returns BUSY here cannot     *)
(* happen: AsyncAfterDrain.)                                                *)
AsyncFails ==
  /\ fpc = "submit" /\ fpc' = "none"
  /\ FailReturns
  /\ UNCHANGED <<cell, fut, closureVars, taskVars, historyVars>>

-----------------------------------------------------------------------------
(* EvalFuture::poll with waker w.                                          *)

Poll(w) ==
  /\ Advance("pending", "p_first")
  /\ current' = w /\ woken' = woken \ {w}
  /\ UNCHANGED cell

(* First load of done.                                                     *)
PollFirst ==
  /\ Advance("p_first", IF cell[fut].done THEN "p_take" ELSE "p_register")
  /\ UNCHANGED <<cell, taskVars>>

PollRegisters ==
  /\ Advance("p_register", "p_again")
  /\ cell' = [cell EXCEPT ![fut].waker = current]
  /\ UNCHANGED taskVars

(* Wrong variant: done is not looked at again after the registration.      *)
PollReturnsPending == Advance("p_again", "pending") /\ UNCHANGED <<cell, taskVars>>

(* Second load of done.                                                    *)
PollAgain ==
  /\ Advance("p_again", IF cell[fut].done THEN "p_take" ELSE "pending")
  /\ UNCHANGED <<cell, taskVars>>

(* result.take().unwrap_or(Ok(())): the future is ready.                   *)
PollTakes ==
  /\ fpc = "p_take" /\ fpc' = "none"
  /\ resolved' = [eval |-> sub,
                  with |-> IF cell[fut].result = NoOutcome THEN Ready
                           ELSE cell[fut].result]
  /\ cell' = [cell EXCEPT ![fut].result = NoOutcome]
  /\ UNCHANGED <<vars, fut, closureVars, taskVars, async>>

(* The task drops the future before it resolves: the eval goes on.         *)
DropFuture == Advance("pending", "none") /\ UNCHANGED <<cell, taskVars>>

-----------------------------------------------------------------------------
(* The closure, between the trampoline's read of the error and its return. *)

Closure(from, to) ==
  /\ wpc = "cb_body" /\ cpc = from /\ cpc' = to
  /\ UNCHANGED <<vars, fpc, fut, historyVars>>

(* The trampoline makes the Result from the block's status and the         *)
(* request's error message and enters the closure.                         *)
ClosureCalled ==
  /\ WorkerReadsError
  /\ cpc' = "result"
  /\ arg' = [st |-> outcome[wblk.sub],
             of |-> IF outcome[wblk.sub] = "OK" THEN NoEval ELSE LastError]
  /\ UNCHANGED <<cell, fpc, fut, taken, taskVars, historyVars>>

(* Wrong variant: done is published before the result.                     *)
ClosureStoresBoth ==
  /\ Closure("result", "done")
  /\ cell' = [cell EXCEPT ![wblk.box].done = TRUE]
  /\ UNCHANGED <<arg, taken, taskVars>>

ClosureStoresResult ==
  /\ Closure("result", "done")
  /\ cell' = [cell EXCEPT ![wblk.box].result = arg]
  /\ UNCHANGED <<arg, taken, taskVars>>

ClosureStoresDone ==
  /\ Closure("done", "take")
  /\ cell' = [cell EXCEPT ![wblk.box].done = TRUE]
  /\ UNCHANGED <<arg, taken, taskVars>>

ClosureTakesWaker ==
  /\ Closure("take", "wake")
  /\ taken' = cell[wblk.box].waker
  /\ cell' = [cell EXCEPT ![wblk.box].waker = NoWaker]
  /\ UNCHANGED <<arg, taskVars>>

(* Wrong variant: the waker is taken and dropped.                          *)
ClosureForgetsWaker ==
  /\ Closure("wake", "none")
  /\ taken' = NoWaker /\ arg' = NoOutcome
  /\ UNCHANGED <<cell, taskVars>>

ClosureWakes ==
  /\ Closure("wake", "none")
  /\ woken' = woken \cup ({taken} \ {NoWaker})
  /\ taken' = NoWaker /\ arg' = NoOutcome
  /\ UNCHANGED <<cell, current>>

-----------------------------------------------------------------------------
(* Steps of the request that leave the future's state alone.  Without a    *)
(* future the owner may also submit, wait and drop the request.            *)
OwnerAlone ==
  \/ fpc = "none" /\ (Submit \/ Release \/ \E t \in Timeouts : WaitCall(t))
  \/ fpc = "none" /\ (Dispatch \/ FailReturns)
  \/ WaitLoadInFlight \/ WaitLoadHasResult \/ WaitFast \/ WaitSignalled
  \/ WaitGivesUp \/ WaitReturns
  \/ DrainSignal \/ DrainDone \/ BuildFails
  \/ CompletionSwap \/ FreeOldBox \/ ReleaseDrained \/ DropBox
  \/ fpc = "none" /\ BindInput /\ ~inputsBound

WorkerAlone ==
  \/ WorkerStart \/ WorkerEval \/ WorkerStore \/ WorkerHasResult
  \/ WorkerClear \/ WorkerSignal \/ WorkerCallback
  \/ cpc = "none" /\ WorkerFinish

PollStep == PollFirst \/ PollRegisters \/ PollAgain \/ PollTakes
AsyncStep == AsyncClaim \/ AsyncDispatch \/ AsyncFails
ClosureStep ==
  \/ ClosureCalled \/ ClosureStoresResult \/ ClosureStoresDone
  \/ ClosureTakesWaker \/ ClosureWakes

FutureNext ==
  \/ (OwnerAlone \/ WorkerAlone \/ Released) /\ UNCHANGED futureVars
  \/ \E b \in Boxes : SubmitAsync(b)
  \/ AsyncStep \/ PollStep \/ ClosureStep \/ DropFuture
  \/ \E w \in Wakers : Poll(w)

FutureSpec == FutureInit /\ [][FutureNext]_allVars

(* An executor polls a new future once and then whenever the waker of its  *)
(* latest poll was woken; it may also poll at any other time.              *)
ScheduledPoll ==
  current \in {NoWaker} \cup woken /\ \E w \in Wakers : Poll(w)

FairFutureSpec ==
  /\ FutureSpec
  /\ WF_allVars(ScheduledPoll)
  /\ WF_allVars(PollStep)
  /\ WF_allVars(AsyncStep \/ (OwnerStep /\ OwnerAlone /\ UNCHANGED futureVars))
  /\ WF_allVars(ClosureStep \/ (WorkerAlone /\ UNCHANGED futureVars))
-----------------------------------------------------------------------------
(* PROPERTIES                                                              *)

(* A future resolves to the outcome of its own eval, with its own error    *)
(* message, whatever was submitted, dropped or failed before it: the cell  *)
(* is its own, and the message cannot be replaced while it exists.         *)
(* When it resolves, its request can be submitted again at once and holds  *)
(* its result: the closure runs after in_flight was cleared.               *)
ResolvesTruly ==
  /\ resolved.eval # NoEval => resolved.with = OwnOutcome(resolved.eval)
  /\ fpc = "p_take" => /\ inFlight = 0 /\ hasResult = 1
                       /\ lastStatus = outcome[sub]
                       /\ outcome[sub] = "OK" => out = sub

(* on_complete drained the queue, so the submit inside submit_async never  *)
(* finds the request busy, even when the previous future was dropped with  *)
(* its eval still running; and a wait after submit_async (the future being *)
(* dropped) is never answered by an earlier eval's late signal, as it can  *)
(* be after submit (WaitMeansDone of module Request).                      *)
AsyncAfterDrain ==
  /\ fpc = "install" /\ opc = "idle" => inFlight = 0
  /\ ret.call = "wait" /\ ret.st \in Status /\ sub \in async
       => outcome[sub] # "pending"

(* The wake-up that EvalFuture::poll registered for is never lost: once    *)
(* the closure has published its result and is past waking, a pending      *)
(* future's latest waker has been woken.                                   *)
NoLostWakeup ==
  fpc = "pending" /\ current # NoWaker /\ cell[fut].done /\ cpc = "none"
    => current \in woken

(* Every future that is not dropped resolves.                              *)
FutureResolves == (fpc = "pending") ~> (fpc = "none")

(* submit_async returns: its wait for the queue and the submission end.    *)
SubmitAsyncReturns == (fpc = "install") ~> (fpc \in {"none", "pending"})

(***************************************************************************)
(* The inductive invariant that EvalFutureProofs.tla proves, over IInv and *)
(* HInv of the request.                                                    *)
(***************************************************************************)
FutureTypeOK ==
  /\ cell \in [Boxes -> Cell]
  /\ fpc \in {"none", "install", "submit", "pending", "p_first", "p_register",
              "p_again", "p_take"}
  /\ fut \in Boxes \cup {NoBox}
  /\ fpc # "none" => fut \in Boxes
  /\ cpc \in {"none", "result", "done", "take", "wake"}
  /\ arg \in Outcome \cup {NoOutcome} /\ taken \in Wakers \cup {NoWaker}
  /\ current \in Wakers \cup {NoWaker} /\ woken \subseteq Wakers
  /\ async \subseteq Evals

FutureLives == fpc \in {"pending", "p_first", "p_register", "p_again", "p_take"}

(* The closure has not got as far as its first store.                      *)
BeforeClosure ==
  queue # <<>> \/ wpc \notin {"idle", "cb_body"} \/ cpc = "result"

(* While submit_async runs, its cell is new and, once the swap was made,   *)
(* the queue is empty and the closure installed.                           *)
InstallInv ==
  /\ fpc \in {"install", "submit"} => cell[fut] = NewCell /\ current = NoWaker
  /\ fpc = "install" => opc \in {"c_sync", "c_free", "idle"}
  /\ fpc = "install" /\ opc = "c_sync" => boxArg = fut
  /\ fpc = "submit" => opc \in {"drain", "build", "fail"} /\ sub \in async
  /\ (fpc = "install" /\ opc # "c_sync") \/ fpc = "submit"
       => completion = fut /\ Drained

(* A future's cell follows the one block that can write to it.             *)
CellInv ==
  /\ cpc # "none" => wpc = "cb_body"
  /\ wpc \in {"cb", "cb_body"} => wblk.box # NoBox
  /\ FutureLives =>
       /\ opc = "idle" /\ completion = fut /\ sub \in async
       /\ wpc # "idle" => wblk.sub = sub /\ queue = <<>>
       /\ cell[fut].done <=> (~BeforeClosure /\ cpc # "done")
       /\ cell[fut].result = IF BeforeClosure THEN NoOutcome ELSE OwnOutcome(sub)
       /\ cpc = "result" => arg = OwnOutcome(sub)
       /\ wpc \in {"has", "clear", "signal", "call", "cb"}
            => lastErr = OwnOutcome(sub).of
       /\ outcome[sub] = "OK" => out = sub
       /\ fpc = "p_take" => cell[fut].done

(* The waker of the latest poll is in the cell, in the closure's hand or   *)
(* has been woken.                                                         *)
WakeInv ==
  /\ fpc = "p_again" /\ ~cell[fut].done => cell[fut].waker = current
  /\ fpc = "pending" /\ current # NoWaker =>
       \/ (~cell[fut].done \/ cpc = "take") /\ cell[fut].waker = current
       \/ cpc = "wake" /\ taken = current
       \/ current \in woken

(* An eval of submit_async never meets a late signal of another.           *)
AsyncInv ==
  /\ \A e \in async : e <= sub
  /\ opc \in {"c_sync", "c_free"} => op = "set_completion"
  /\ sub \in async =>
       /\ wpc # "idle" => wblk.sub = sub
       /\ ~Ended(sub) => /\ opc # "drain" => sem = 0
                         /\ opc # "w_read"
                         /\ ~(ret.call = "wait" /\ ret.st \in Status)

(* What a future resolved to is the outcome of an eval that has ended.     *)
ResolvedInv ==
  resolved.eval # NoEval =>
    /\ resolved.eval \in 1..sub /\ Ended(resolved.eval)
    /\ resolved.with = OwnOutcome(resolved.eval)

FInv ==
  /\ FutureTypeOK /\ InstallInv /\ CellInv /\ WakeInv /\ AsyncInv /\ ResolvedInv
=============================================================================
