---------------------------- MODULE EvalFutureProofs ----------------------------
(* Proofs about EvalFuture for every number of submissions and every set   *)
(* of boxes and wakers.                                                    *)
EXTENDS EvalFuture, RequestProofs

(* submit_async, poll and the closure use the request through its own      *)
(* calls only: every step is a step of the request, or none of it.         *)
LEMMA RequestStep == [FutureNext]_allVars => [Next]_vars
  <1> SUFFICES ASSUME [FutureNext]_allVars PROVE [Next]_vars
    OBVIOUS
  <1>1. CASE (OwnerAlone \/ WorkerAlone \/ Released) /\ UNCHANGED futureVars
    BY <1>1 DEF OwnerAlone, WorkerAlone, Next, OwnerCall, OwnerStep, WorkerStep
  <1>2. CASE \E b \in Boxes : SubmitAsync(b)
    BY <1>2 DEF SubmitAsync, Next, OwnerCall
  <1>3. CASE AsyncStep
    BY <1>3 DEF AsyncStep, AsyncClaim, AsyncDispatch, AsyncFails, Next,
      OwnerCall,
      OwnerStep
  <1>4. CASE PollStep
    BY <1>4 DEF PollStep, PollFirst, PollRegisters, PollAgain,
      PollTakes, Advance
  <1>5. CASE ClosureStep
    BY <1>5 DEF ClosureStep, ClosureCalled, ClosureStoresResult,
      ClosureStoresDone,
      ClosureTakesWaker, ClosureWakes, Closure, Next, WorkerStep
  <1>6. CASE DropFuture \/ \E w \in Wakers : Poll(w)
    BY <1>6 DEF DropFuture, Poll, Advance
  <1>7. CASE UNCHANGED allVars
    BY <1>7 DEF allVars
  <1> QED
    BY <1>1, <1>2, <1>3, <1>4, <1>5, <1>6, <1>7 DEF FutureNext

(* Before the first submit_async there is no future.                       *)
LEMMA InitFInv == FutureInit => FInv
  BY RequestAssumption, FutureAssumption
  DEF FutureInit, Init, FInv, FutureTypeOK, InstallInv, CellInv, WakeInv, AsyncInv,
      ResolvedInv, FutureLives, Cell, NewCell, NoOutcome, Outcome, Evals, NoEval,
      EvalStatus, NoReturn, Result, Status

(* A cell with its done flag set is a cell.                                *)
LEMMA MarkDone == \A c \in Cell, d \in BOOLEAN : [c EXCEPT !.done = d] \in Cell
  BY DEF Cell

(* Every step keeps the future's invariant.                                *)
LEMMA NextFInv ==
  ASSUME IInv, HInv, FInv, IInv', HInv', [FutureNext]_allVars
  PROVE  FInv'
  <1> USE RequestAssumption, FutureAssumption
      DEF FInv, FutureTypeOK, InstallInv, CellInv, WakeInv, AsyncInv, ResolvedInv,
          FutureLives, BeforeClosure, OwnOutcome, Ended, Drained, Evals, NoEval,
          Status, EvalStatus
  <1>a. wpc = "cb_body" =>
          /\ wblk.box = completion /\ Ended(wblk.sub)
          /\ FutureLives => wblk.box = fut /\ wblk.sub = sub /\ queue = <<>>
          /\ fpc = "install" => opc = "c_sync" /\ wblk.box # fut
          /\ fpc # "submit" /\ wblk.box \in Boxes
    BY DEF IInv, TypeOK, Block, BoxInv, HInv, EndedInv
  <1>b. ASSUME NEW b, NEW r, b \in Boxes => r \in Cell,
               cell' = [cell EXCEPT ![b] = r]
        PROVE  /\ cell' \in [Boxes -> Cell]
               /\ b \in Boxes => cell'[b] = r
               /\ \A c \in Boxes \ {b} : cell'[c] = cell[c]
    BY <1>b
  <1>1. CASE fpc = "none" /\ Submit /\ UNCHANGED futureVars
    BY <1>1 DEF Submit, Claim, Enter, bindings, worker, boxes, notices,
      futureVars, closureVars, taskVars, historyVars, IInv, TypeOK,
      SlotInv, BoxInv, EvalInv, HInv, HeldInv, LatestInv, EndedInv,
      PublishInv, WaitInv, WorkerHolds, OwnerHolds, Result, Late
  <1>2. CASE fpc = "none" /\ Release /\ UNCHANGED futureVars
    BY <1>2 DEF NoReturn, Release, Enter, shared, fields, bindings,
      worker, boxes,
      notices, evals, futureVars, closureVars, taskVars, historyVars,
      IInv, TypeOK, SlotInv, BoxInv, EvalInv, HInv, HeldInv, LatestInv,
      EndedInv, PublishInv, WaitInv, WorkerHolds, OwnerHolds, Result, Late
  <1>3. CASE fpc = "none" /\ (\E t \in Timeouts : WaitCall(t)) /\ UNCHANGED futureVars
    BY <1>3 DEF NoReturn, WaitCall, Enter, shared, fields, bindings,
      worker, boxes,
      notices, evals, futureVars, closureVars, taskVars, historyVars,
      IInv, TypeOK, SlotInv, BoxInv, EvalInv, HInv, HeldInv, LatestInv,
      EndedInv, PublishInv, WaitInv, WorkerHolds, OwnerHolds, Result, Late
  <1>4. CASE fpc = "none" /\ Dispatch /\ UNCHANGED futureVars
    BY <1>4 DEF Dispatch, Built, Return, fields, evals, boxes, futureVars,
      closureVars, taskVars, historyVars, IInv, TypeOK, SlotInv, BoxInv,
      EvalInv, HInv, HeldInv, LatestInv, EndedInv, PublishInv, WaitInv,
      WorkerHolds, OwnerHolds, Result, Late
  <1>5. CASE fpc = "none" /\ FailReturns /\ UNCHANGED futureVars
    BY <1>5 DEF FailReturns, Return, bindings, worker, boxes, notices,
      evals, futureVars, closureVars, taskVars, historyVars, IInv, TypeOK,
      SlotInv, BoxInv, EvalInv, HInv, HeldInv, LatestInv, EndedInv,
      PublishInv, WaitInv, WorkerHolds, OwnerHolds, Result, Late
  <1>6. CASE WaitLoadInFlight /\ UNCHANGED futureVars
    BY <1>6 DEF WaitLoadInFlight, Goto, shared, fields, bindings, worker,
      boxes, notices, evals, futureVars, closureVars, taskVars,
      historyVars, IInv, TypeOK, SlotInv, BoxInv, EvalInv, HInv, HeldInv,
      LatestInv, EndedInv, PublishInv, WaitInv, WorkerHolds, OwnerHolds,
      Result, Late
  <1>7. CASE WaitLoadHasResult /\ UNCHANGED futureVars
    BY <1>7 DEF WaitLoadHasResult, Goto, shared, fields, bindings, worker,
      boxes, notices, evals, futureVars, closureVars, taskVars,
      historyVars, IInv, TypeOK, SlotInv, BoxInv, EvalInv, HInv, HeldInv,
      LatestInv, EndedInv, PublishInv, WaitInv, WorkerHolds, OwnerHolds,
      Result, Late
  <1>8. CASE WaitFast /\ UNCHANGED futureVars
    BY <1>8 DEF WaitFast, Goto, bindings, worker, boxes, notices, evals,
      futureVars, closureVars, taskVars, historyVars, IInv, TypeOK,
      SlotInv, BoxInv, EvalInv, HInv, HeldInv, LatestInv, EndedInv,
      PublishInv, WaitInv, WorkerHolds, OwnerHolds, Result, Late
  <1>9. CASE WaitSignalled /\ UNCHANGED futureVars
    BY <1>9 DEF WaitSignalled, Goto, bindings, worker, boxes, notices,
      evals, futureVars, closureVars, taskVars, historyVars, IInv, TypeOK,
      SlotInv, BoxInv, EvalInv, HInv, HeldInv, LatestInv, EndedInv,
      PublishInv, WaitInv, WorkerHolds, OwnerHolds, Result, Late
  <1>10. CASE WaitGivesUp /\ UNCHANGED futureVars
    BY <1>10 DEF WaitGivesUp, Return, shared, fields, bindings, worker,
      boxes, notices, evals, futureVars, closureVars, taskVars,
      historyVars, IInv, TypeOK, SlotInv, BoxInv, EvalInv, HInv, HeldInv,
      LatestInv, EndedInv, PublishInv, WaitInv, WorkerHolds, OwnerHolds,
      Result, Late
  <1>11. CASE WaitReturns /\ UNCHANGED futureVars
    BY <1>11 DEF WaitReturns, Return, shared, fields, bindings, worker,
      boxes, notices, evals, futureVars, closureVars, taskVars,
      historyVars, IInv, TypeOK, SlotInv, BoxInv, EvalInv, HInv, HeldInv,
      LatestInv, EndedInv, PublishInv, WaitInv, WorkerHolds, OwnerHolds,
      Result, Late
  <1>12. CASE DrainSignal /\ UNCHANGED futureVars
    BY <1>12 DEF DrainSignal, Goto, bindings, worker, boxes, notices,
      evals, futureVars, closureVars, taskVars, historyVars, IInv, TypeOK,
      SlotInv, BoxInv, EvalInv, HInv, HeldInv, LatestInv, EndedInv,
      PublishInv, WaitInv, WorkerHolds, OwnerHolds, Result, Late
  <1>13. CASE DrainDone /\ UNCHANGED futureVars
    <2> USE <1>13 DEF DrainDone, Goto, bindings, worker, boxes, notices,
      evals, futureVars, closureVars, taskVars, historyVars, IInv,
      TypeOK, SlotInv, BoxInv, EvalInv, HInv, HeldInv, LatestInv,
      EndedInv, PublishInv, WaitInv, WorkerHolds, OwnerHolds, Result,
      Late
    <2>1. FutureTypeOK'
      BY <1>a, <1>b
    <2>2. InstallInv'
      BY <1>a, <1>b
    <2>3. CellInv'
      BY <1>a, <1>b
    <2>4. WakeInv'
      BY <1>a, <1>b
    <2>5. AsyncInv'
      BY <1>a, <1>b
    <2>6. ResolvedInv'
      BY <1>a, <1>b
    <2>7. QED
      BY <2>1, <2>2, <2>3, <2>4, <2>5, <2>6
  <1>14. CASE BuildFails /\ UNCHANGED futureVars
    BY <1>14 DEF BuildFails, Goto, worker, boxes, notices, futureVars,
      closureVars, taskVars, historyVars, IInv, TypeOK, SlotInv, BoxInv,
      EvalInv, HInv, HeldInv, LatestInv, EndedInv, PublishInv, WaitInv,
      WorkerHolds, OwnerHolds, Result, Late
  <1>15. CASE CompletionSwap /\ UNCHANGED futureVars
    BY <1>15 DEF CompletionSwap, Swap, fields, bindings, worker, notices,
      evals, futureVars, closureVars, taskVars, historyVars, IInv, TypeOK,
      SlotInv, BoxInv, EvalInv, HInv, HeldInv, LatestInv, EndedInv,
      PublishInv, WaitInv, WorkerHolds, OwnerHolds, Result, Late
  <1>16. CASE FreeOldBox /\ UNCHANGED futureVars
    BY <1>16 DEF FreeOldBox, fields, bindings, worker, notices, evals,
      futureVars, closureVars, taskVars, historyVars, IInv, TypeOK,
      SlotInv, BoxInv, EvalInv, HInv, HeldInv, LatestInv, EndedInv,
      PublishInv, WaitInv, WorkerHolds, OwnerHolds, Result, Late
  <1>17. CASE ReleaseDrained /\ UNCHANGED futureVars
    BY <1>17 DEF ReleaseDrained, Goto, shared, fields, bindings, worker,
      boxes, notices, evals, futureVars, closureVars, taskVars,
      historyVars, IInv, TypeOK, SlotInv, BoxInv, EvalInv, HInv, HeldInv,
      LatestInv, EndedInv, PublishInv, WaitInv, WorkerHolds, OwnerHolds,
      Result, Late
  <1>18. CASE DropBox /\ UNCHANGED futureVars
    BY <1>18 DEF DropBox, Goto, fields, bindings, worker, notices, evals,
      futureVars, closureVars, taskVars, historyVars, IInv, TypeOK,
      SlotInv, BoxInv, EvalInv, HInv, HeldInv, LatestInv, EndedInv,
      PublishInv, WaitInv, WorkerHolds, OwnerHolds, Result, Late
  <1>19. CASE fpc = "none" /\ BindInput /\ UNCHANGED futureVars
    BY <1>19 DEF BindInput, Enter, fields, worker, owner, boxes, notices,
      evals, futureVars, closureVars, taskVars, historyVars, IInv, TypeOK,
      SlotInv, BoxInv, EvalInv, HInv, HeldInv, LatestInv, EndedInv,
      PublishInv, WaitInv, WorkerHolds, OwnerHolds, Result, Late
  <1>20. CASE WorkerStart /\ UNCHANGED futureVars
    BY <1>20 DEF WorkerStart, fields, bindings, owner, boxes, notices,
      evals, futureVars, closureVars, taskVars, historyVars, IInv, TypeOK,
      SlotInv, BoxInv, EvalInv, HInv, HeldInv, LatestInv, EndedInv,
      PublishInv, WaitInv, WorkerHolds, OwnerHolds, Result, Late
  <1>21. CASE WorkerEval /\ UNCHANGED futureVars
    BY <1>21 DEF WorkerEval, Evaluate, WorkerGoto, fields, owner, boxes,
      notices, futureVars, closureVars, taskVars, historyVars, IInv,
      TypeOK, SlotInv, BoxInv, EvalInv, HInv, HeldInv, LatestInv,
      EndedInv, PublishInv, WaitInv, WorkerHolds, OwnerHolds, Result, Late
  <1>22. CASE WorkerStore /\ UNCHANGED futureVars
    BY <1>22 DEF WorkerStore, Store, WorkerGoto, owner, bindings, boxes,
      notices, evals, futureVars, closureVars, taskVars, historyVars,
      IInv, TypeOK, SlotInv, BoxInv, EvalInv, HInv, HeldInv, LatestInv,
      EndedInv, PublishInv, WaitInv, WorkerHolds, OwnerHolds, Result, Late
  <1>23. CASE WorkerHasResult /\ UNCHANGED futureVars
    BY <1>23 DEF WorkerHasResult, PublishResult, WorkerGoto, owner,
      bindings, boxes, notices, evals, futureVars, closureVars, taskVars,
      historyVars, IInv, TypeOK, SlotInv, BoxInv, EvalInv, HInv, HeldInv,
      LatestInv, EndedInv, PublishInv, WaitInv, WorkerHolds, OwnerHolds,
      Result, Late
  <1>24. CASE WorkerClear /\ UNCHANGED futureVars
    BY <1>24 DEF WorkerClear, ClearInFlight, WorkerGoto, owner, bindings,
      boxes, notices, evals, futureVars, closureVars, taskVars,
      historyVars, IInv, TypeOK, SlotInv, BoxInv, EvalInv, HInv, HeldInv,
      LatestInv, EndedInv, PublishInv, WaitInv, WorkerHolds, OwnerHolds,
      Result, Late
  <1>25. CASE WorkerSignal /\ UNCHANGED futureVars
    BY <1>25 DEF WorkerSignal, WorkerGoto, owner, bindings, boxes,
      notices, evals, futureVars, closureVars, taskVars, historyVars,
      IInv, TypeOK, SlotInv, BoxInv, EvalInv, HInv, HeldInv, LatestInv,
      EndedInv, PublishInv, WaitInv, WorkerHolds, OwnerHolds, Result, Late
  <1>26. CASE WorkerCallback /\ UNCHANGED futureVars
    BY <1>26 DEF WorkerCallback, WorkerGoto, owner, fields, bindings,
      boxes, evals, futureVars, closureVars, taskVars, historyVars, IInv,
      TypeOK, SlotInv, BoxInv, EvalInv, HInv, HeldInv, LatestInv,
      EndedInv, PublishInv, WaitInv, WorkerHolds, OwnerHolds, Result, Late
  <1>27. CASE cpc = "none" /\ WorkerFinish /\ UNCHANGED futureVars
    BY <1>27 DEF WorkerFinish, WorkerGoto, owner, fields, bindings, boxes,
      notices, evals, futureVars, closureVars, taskVars, historyVars,
      IInv, TypeOK, SlotInv, BoxInv, EvalInv, HInv, HeldInv, LatestInv,
      EndedInv, PublishInv, WaitInv, WorkerHolds, OwnerHolds, Result, Late
  <1>28. CASE \E b \in Boxes : SubmitAsync(b)
    <2> USE <1>28 DEF SubmitAsync, SetCompletion, Enter, NoReturn,
      fields, bindings, worker, notices, evals, closureVars,
      historyVars, IInv, TypeOK, Result
    <2>1. PICK b \in Boxes : SubmitAsync(b)
      OBVIOUS
    <2>2. NewCell \in Cell
      BY DEF NewCell, Cell
    <2>3. cell' \in [Boxes -> Cell] /\ cell'[fut'] = NewCell
      BY <2>1, <2>2, <1>b
    <2>4. FutureTypeOK'
      BY <2>1, <2>3
    <2>5. InstallInv'
      BY <2>1, <2>3 DEF BoxInv
    <2>6. CellInv'
      BY <2>1
    <2>7. WakeInv'
      BY <2>1
    <2>8. AsyncInv'
      BY <2>1
    <2>9. ResolvedInv'
      BY <2>1
    <2> QED
      BY <2>4, <2>5, <2>6, <2>7, <2>8, <2>9
  <1>29. CASE AsyncClaim
    <2> USE <1>29 DEF AsyncClaim, Submit, Claim, Enter, NoReturn,
      bindings, worker, boxes, notices, closureVars, taskVars, IInv,
      TypeOK, Result
    <2>1. sub' = sub + 1 /\ sub' \in Evals /\ sub \in Nat
      OBVIOUS
    <2>2. FutureTypeOK'
      BY <2>1
    <2>3. InstallInv'
      OBVIOUS
    <2>4. CellInv'
      OBVIOUS
    <2>5. WakeInv'
      OBVIOUS
    <2>6. AsyncInv'
      BY <2>1
    <2>7. ResolvedInv'
      BY <2>1
    <2> QED
      BY <2>2, <2>3, <2>4, <2>5, <2>6, <2>7
  <1>30. CASE AsyncDispatch
    <2> USE <1>30 DEF AsyncDispatch, Dispatch, Built, Return, fields,
      evals, boxes, closureVars, taskVars, historyVars
    <2>1. /\ opc = "build" /\ completion = fut /\ queue = <<>> /\ wpc = "idle"
          /\ cell[fut] = NewCell /\ current = NoWaker /\ sub \in async
      OBVIOUS
    <2>2. queue' # <<>>
      <3>1. [sub |-> sub, box |-> completion] \in Block
        BY DEF IInv, TypeOK, Block
      <3>2. QED
        BY <2>1, <3>1, OneBlock
    <2>3. ~Ended(sub)
      BY <2>1 DEF HInv, EndedInv
    <2>4. FutureTypeOK'
      OBVIOUS
    <2>5. InstallInv'
      OBVIOUS
    <2>6. CellInv'
      BY <2>1, <2>2, <2>3 DEF NewCell, NoOutcome
    <2>7. WakeInv'
      BY <2>1
    <2>8. AsyncInv'
      BY <2>1 DEF IInv, TypeOK, Result
    <2>9. ResolvedInv'
      BY <2>1
    <2> QED
      BY <2>4, <2>5, <2>6, <2>7, <2>8, <2>9
  <1>31. CASE AsyncFails
    BY <1>31 DEF AsyncFails, FailReturns, Return, bindings, worker, boxes,
      notices, evals, closureVars, taskVars, historyVars, IInv, TypeOK,
      SlotInv, BoxInv, EvalInv, HInv, HeldInv, LatestInv, EndedInv,
      PublishInv, WaitInv, WorkerHolds, OwnerHolds, Result, Late
  <1>32. CASE \E w \in Wakers : Poll(w)
    BY <1>32 DEF Poll, Advance, vars, fields, bindings, worker, owner,
      boxes, notices, evals, closureVars, taskVars, historyVars, IInv,
      TypeOK, SlotInv, BoxInv, EvalInv, HInv, HeldInv, LatestInv,
      EndedInv, PublishInv, WaitInv, WorkerHolds, OwnerHolds, Result, Late
  <1>33. CASE PollFirst
    BY <1>33 DEF PollFirst, Advance, vars, fields, bindings, worker,
      owner, boxes, notices, evals, closureVars, taskVars, historyVars,
      IInv, TypeOK, SlotInv, BoxInv, EvalInv, HInv, HeldInv, LatestInv,
      EndedInv, PublishInv, WaitInv, WorkerHolds, OwnerHolds, Result, Late
  <1>34. CASE PollRegisters
    <2> USE <1>34 DEF PollRegisters, Advance, vars, fields, bindings,
      worker, owner, boxes, notices, evals, closureVars, taskVars,
      historyVars
    <2>1. fut \in Boxes /\ FutureLives
      OBVIOUS
    <2>2. [cell[fut] EXCEPT !.waker = current] \in Cell
      BY <2>1 DEF Cell
    <2>3. /\ cell' \in [Boxes -> Cell]
          /\ cell'[fut] = [cell[fut] EXCEPT !.waker = current]
      BY <2>1, <2>2, <1>b
    <2>4. /\ cell'[fut].waker = current /\ cell'[fut].done = cell[fut].done
          /\ cell'[fut].result = cell[fut].result
      BY <2>1, <2>3 DEF Cell
    <2>5. FutureTypeOK'
      BY <2>3
    <2>6. InstallInv'
      OBVIOUS
    <2>7. CellInv'
      BY <2>4
    <2>8. WakeInv'
      BY <2>4
    <2>9. AsyncInv'
      BY DEF IInv
    <2>10. ResolvedInv'
      OBVIOUS
    <2> QED
      BY <2>5, <2>6, <2>7, <2>8, <2>9, <2>10
  <1>35. CASE PollAgain
    BY <1>35 DEF PollAgain, Advance, vars, fields, bindings, worker,
      owner, boxes, notices, evals, closureVars, taskVars, historyVars,
      IInv, TypeOK, SlotInv, BoxInv, EvalInv, HInv, HeldInv, LatestInv,
      EndedInv, PublishInv, WaitInv, WorkerHolds, OwnerHolds, Result, Late
  <1>36. CASE PollTakes
    <2> USE <1>36 DEF PollTakes, vars, fields, bindings, worker, owner,
      boxes, notices, evals, closureVars, taskVars
    <2>1. fut \in Boxes /\ FutureLives /\ cell[fut].done
      OBVIOUS
    <2>2. sub \in 1..sub /\ Ended(sub)
      <3>1. sub \in Evals /\ wpc \in {"idle", "cb_body"} /\ queue = <<>>
        BY <2>1
      <3>2. CASE wpc = "cb_body"
        BY <2>1, <3>1, <3>2, <1>a
      <3>3. CASE wpc = "idle"
        <4>1. inFlight = 0
          BY <2>1, <3>1, <3>3
          DEF IInv, TypeOK, HInv, HeldInv, SlotTaken, OwnerHolds, WorkerHolds
        <4> QED
          BY <3>1, <4>1 DEF IInv, TypeOK, HInv, PublishInv
      <3> QED
        BY <3>1, <3>2, <3>3
    <2>3. cell[fut].result = OwnOutcome(sub) /\ OwnOutcome(sub) # NoOutcome
      <3>1. cell[fut].result = OwnOutcome(sub)
        BY <2>1
      <3>2. outcome[sub] # "none"
        BY <2>2 DEF IInv, TypeOK
      <3> QED
        BY <3>1, <3>2 DEF NoOutcome
    <2>4. [cell[fut] EXCEPT !.result = NoOutcome] \in Cell
      BY <2>1 DEF Cell
    <2>5. cell' \in [Boxes -> Cell]
      BY <2>1, <2>4, <1>b
    <2>6. FutureTypeOK'
      BY <2>5
    <2>7. InstallInv'
      OBVIOUS
    <2>8. CellInv'
      OBVIOUS
    <2>9. WakeInv'
      OBVIOUS
    <2>10. AsyncInv'
      BY DEF IInv
    <2>11. ResolvedInv'
      BY <2>2, <2>3
    <2> QED
      BY <2>6, <2>7, <2>8, <2>9, <2>10, <2>11
  <1>37. CASE DropFuture
    BY <1>37 DEF DropFuture, Advance, vars, fields, bindings, worker,
      owner, boxes, notices, evals, closureVars, taskVars, historyVars,
      IInv, TypeOK, SlotInv, BoxInv, EvalInv, HInv, HeldInv, LatestInv,
      EndedInv, PublishInv, WaitInv, WorkerHolds, OwnerHolds, Result, Late
  <1>38. CASE ClosureCalled
    <2> USE <1>38 DEF ClosureCalled, WorkerReadsError, WorkerGoto,
      owner, fields, bindings, boxes, notices, evals, taskVars, historyVars
    <2>1. wpc = "cb" /\ Ended(wblk.sub) /\ wblk.sub \in Evals
      BY DEF IInv, EvalInv, HInv, EndedInv
    <2>2. outcome[wblk.sub] \in Status
      BY <2>1 DEF IInv, TypeOK
    <2>3. arg' \in Outcome
      BY <2>1, <2>2 DEF LastError, Outcome, IInv, TypeOK
    <2>4. FutureLives => arg' = OwnOutcome(sub)
      <3> SUFFICES ASSUME FutureLives PROVE arg' = OwnOutcome(sub)
        OBVIOUS
      <3>1. wblk.sub = sub /\ lastErr = OwnOutcome(sub).of
        BY <2>1
      <3>2. hasResult = 1
        <4>1. inFlight = 0
          BY <2>1, <3>1 DEF HInv, LatestInv, WorkerOn, WorkerHolds
        <4> QED
          BY <2>1, <3>1, <4>1 DEF HInv, PublishInv
      <3> QED
        BY <3>1, <3>2 DEF LastError
    <2>5. FutureTypeOK'
      BY <2>3
    <2>6. InstallInv'
      OBVIOUS
    <2>7. CellInv'
      BY <2>4
    <2>8. WakeInv'
      OBVIOUS
    <2>9. AsyncInv'
      BY DEF IInv
    <2>10. ResolvedInv'
      OBVIOUS
    <2> QED
      BY <2>5, <2>6, <2>7, <2>8, <2>9, <2>10
  <1>39. CASE ClosureStoresResult
    <2> USE <1>39 DEF ClosureStoresResult, Closure, vars, fields,
      bindings, worker, owner, boxes, notices, evals, taskVars, historyVars
    <2>1. wpc = "cb_body" /\ wblk.box \in Boxes /\ (FutureLives => wblk.box = fut)
      BY <1>a
    <2>2. [cell[wblk.box] EXCEPT !.result = arg] \in Cell
      BY <2>1 DEF Cell
    <2>3. /\ cell' \in [Boxes -> Cell]
          /\ cell'[wblk.box] = [cell[wblk.box] EXCEPT !.result = arg]
          /\ \A c \in Boxes \ {wblk.box} : cell'[c] = cell[c]
      BY <2>1, <2>2, <1>b
    <2>4. FutureLives => /\ cell'[fut].result = arg
                         /\ cell'[fut].done = cell[fut].done
                         /\ cell'[fut].waker = cell[fut].waker
      BY <2>1, <2>3 DEF Cell
    <2>5. FutureTypeOK'
      BY <2>1, <2>3 DEF Cell
    <2>6. InstallInv'
      BY <2>3, <1>a
    <2>7. CellInv'
      BY <2>1, <2>4, <1>a
    <2>8. WakeInv'
      BY <2>1, <2>4, <1>a
    <2>9. AsyncInv'
      BY DEF IInv
    <2>10. ResolvedInv'
      OBVIOUS
    <2> QED
      BY <2>5, <2>6, <2>7, <2>8, <2>9, <2>10
  <1>40. CASE ClosureStoresDone
    <2> USE <1>40 DEF ClosureStoresDone, Closure, vars, fields,
      bindings, worker, owner, boxes, notices, evals, taskVars, historyVars
    <2>1. wpc = "cb_body" /\ wblk.box \in Boxes /\ (FutureLives => wblk.box = fut)
      BY <1>a
    <2>2. [cell[wblk.box] EXCEPT !.done = TRUE] \in Cell
      BY <2>1, MarkDone
    <2>3. /\ cell' \in [Boxes -> Cell]
          /\ cell'[wblk.box] = [cell[wblk.box] EXCEPT !.done = TRUE]
          /\ \A c \in Boxes \ {wblk.box} : cell'[c] = cell[c]
      BY <2>1, <2>2, <1>b
    <2>4. FutureLives => /\ cell'[fut].done = TRUE
                         /\ cell'[fut].waker = cell[fut].waker
                         /\ cell'[fut].result = cell[fut].result
      BY <2>1, <2>3 DEF Cell
    <2>5. FutureTypeOK'
      BY <2>1, <2>3 DEF Cell
    <2>6. InstallInv'
      BY <2>3, <1>a
    <2>7. CellInv'
      BY <2>1, <2>4, <1>a
    <2>8. WakeInv'
      BY <2>1, <2>4, <1>a
    <2>9. AsyncInv'
      BY DEF IInv
    <2>10. ResolvedInv'
      OBVIOUS
    <2> QED
      BY <2>5, <2>6, <2>7, <2>8, <2>9, <2>10
  <1>41. CASE ClosureTakesWaker
    <2> USE <1>41 DEF ClosureTakesWaker, Closure, vars, fields,
      bindings, worker, owner, boxes, notices, evals, taskVars, historyVars
    <2>1. wpc = "cb_body" /\ wblk.box \in Boxes /\ (FutureLives => wblk.box = fut)
      BY <1>a
    <2>2. [cell[wblk.box] EXCEPT !.waker = NoWaker] \in Cell
      BY <2>1 DEF Cell
    <2>3. /\ cell' \in [Boxes -> Cell]
          /\ cell'[wblk.box] = [cell[wblk.box] EXCEPT !.waker = NoWaker]
          /\ \A c \in Boxes \ {wblk.box} : cell'[c] = cell[c]
      BY <2>1, <2>2, <1>b
    <2>4. FutureLives => /\ cell'[fut].waker = NoWaker
                         /\ cell'[fut].done = cell[fut].done
                         /\ cell'[fut].result = cell[fut].result
      BY <2>1, <2>3 DEF Cell
    <2>5. FutureTypeOK'
      BY <2>1, <2>3 DEF Cell
    <2>6. InstallInv'
      BY <2>3, <1>a
    <2>7. CellInv'
      BY <2>1, <2>4, <1>a
    <2>8. WakeInv'
      BY <2>1, <2>4, <1>a
    <2>9. AsyncInv'
      BY DEF IInv
    <2>10. ResolvedInv'
      OBVIOUS
    <2> QED
      BY <2>5, <2>6, <2>7, <2>8, <2>9, <2>10
  <1>42. CASE ClosureWakes
    BY <1>42 DEF ClosureWakes, Closure, vars, fields, bindings, worker,
      owner, boxes, notices, evals, closureVars, taskVars, historyVars,
      IInv, TypeOK, SlotInv, BoxInv, EvalInv, HInv, HeldInv, LatestInv,
      EndedInv, PublishInv, WaitInv, WorkerHolds, OwnerHolds, Result, Late
  <1>43. CASE UNCHANGED allVars
    BY <1>43 DEF allVars, vars, fields, bindings, worker, owner, boxes,
      notices, evals, futureVars, closureVars, taskVars, historyVars
  <1>44. CASE Released /\ UNCHANGED futureVars
    BY <1>44, <1>43 DEF Released, allVars
  <1> QED
    BY <1>1, <1>2, <1>3, <1>4, <1>5, <1>6, <1>7, <1>8, <1>9, <1>10, <1>11,
      <1>12, <1>13, <1>14, <1>15, <1>16, <1>17, <1>18, <1>19, <1>20,
      <1>21, <1>22, <1>23, <1>24, <1>25, <1>26, <1>27, <1>28, <1>29,
      <1>30, <1>31, <1>32, <1>33, <1>34, <1>35, <1>36, <1>37, <1>38,
      <1>39, <1>40, <1>41, <1>42, <1>43, <1>44 DEF FutureNext, OwnerAlone,
      WorkerAlone, AsyncStep, PollStep, ClosureStep

(* A request used through futures keeps every invariant of the request.    *)
THEOREM FutureIInv == FutureSpec => [](IInv /\ HInv /\ FInv)
  <1>1. FutureInit => IInv /\ HInv /\ FInv
    BY InitIInv, InitHInv, InitFInv DEF FutureInit
  <1>2. IInv /\ HInv /\ FInv /\ [FutureNext]_allVars => (IInv /\ HInv /\ FInv)'
    BY RequestStep, NextIInv, NextHInv, NextFInv
  <1>3. QED
    BY <1>1, <1>2, PTL DEF FutureSpec

(* submit_async and its future use the request through its calls only.     *)
THEOREM FutureImplementsRequest == FutureSpec => Spec
  BY RequestStep, PTL DEF FutureSpec, FutureInit, Spec

(* A future resolves to the outcome of its own eval, and its request is    *)
(* free and holds that eval's result.                                      *)
THEOREM FutureResolvesTruly == FutureSpec => []ResolvesTruly
  <1>1. ASSUME IInv, HInv, FInv PROVE ResolvesTruly
    <2>1. resolved.eval # NoEval => resolved.with = OwnOutcome(resolved.eval)
      BY <1>1 DEF FInv, ResolvedInv
    <2>2. ASSUME fpc = "p_take"
          PROVE  /\ inFlight = 0 /\ hasResult = 1 /\ lastStatus = outcome[sub]
                 /\ outcome[sub] = "OK" => out = sub
      <3>1. /\ FutureLives /\ ~BeforeClosure /\ opc = "idle" /\ sub \in Evals
            /\ wpc # "idle" => wblk.sub = sub
            /\ outcome[sub] = "OK" => out = sub
        BY <1>1, <2>2 DEF FInv, FutureTypeOK, CellInv, FutureLives
      <3>2. queue = <<>> /\ wpc \in {"idle", "cb_body"}
        BY <3>1 DEF BeforeClosure
      <3>3. inFlight = 0
        <4>1. CASE wpc = "idle"
          BY <1>1, <3>1, <3>2, <4>1
          DEF IInv, TypeOK, HInv, HeldInv, SlotTaken, OwnerHolds, WorkerHolds
        <4>2. CASE wpc = "cb_body"
          BY <1>1, <3>1, <3>2, <4>2 DEF HInv, LatestInv, WorkerOn, WorkerHolds
        <4> QED
          BY <3>2, <4>1, <4>2
      <3> QED
        BY <1>1, <3>1, <3>3, RequestAssumption DEF HInv, PublishInv, Evals
    <2> QED
      BY <2>1, <2>2 DEF ResolvesTruly
  <1>2. QED
    BY <1>1, FutureIInv, PTL

(* The submit inside submit_async never finds the request busy, and a wait *)
(* after it is never answered by an earlier eval's signal.                 *)
THEOREM FutureAsyncAfterDrain == FutureSpec => []AsyncAfterDrain
  <1>1. IInv /\ HInv /\ FInv => AsyncAfterDrain
    BY DEF IInv, TypeOK, HInv, HeldInv, SlotTaken, OwnerHolds,
      WorkerHolds, FInv,
      InstallInv, AsyncInv, Drained, Ended, AsyncAfterDrain
  <1>2. QED
    BY <1>1, FutureIInv, PTL

(* No wake-up is lost.                                                     *)
THEOREM FutureNoLostWakeup == FutureSpec => []NoLostWakeup
  <1>1. FInv => NoLostWakeup
    BY DEF FInv, WakeInv, NoLostWakeup
  <1>2. QED
    BY <1>1, FutureIInv, PTL
=============================================================================
