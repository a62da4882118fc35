---------------------------- MODULE RequestProofs ----------------------------
(* Proofs about Request for every number of submissions and every set of   *)
(* completion boxes.                                                       *)
EXTENDS Request, TLAPS

(* One block in the queue: what Append, Head and Tail do to it.            *)
LEMMA OneBlock ==
  ASSUME NEW b \in Block
  PROVE  /\ Append(<<>>, b) = <<b>>
         /\ Head(<<b>>) = b
         /\ Tail(<<b>>) = <<>>
         /\ <<b>> # <<>>
         /\ <<b>> \in Seq(Block)
  OBVIOUS

(* A fresh request satisfies the inductive invariant.                      *)
LEMMA InitIInv == Init => IInv
  <1> SUFFICES ASSUME Init PROVE IInv
    OBVIOUS
  <1> USE RequestAssumption DEF Init
  <1>1. TypeOK
    <2>1. wblk \in Block
      BY DEF Block, NoEval
    <2>2. ret \in Returned
      BY DEF Returned, Result, NoReturn, NoEval, Ops, Status, EvalStatus
    <2>3. outcome \in [Evals -> Status \cup {"pending"}]
      OBVIOUS
    <2>4. queue \in Seq(Block)
      OBVIOUS
    <2>5. inputsBound \in BOOLEAN /\ outputsBound \in BOOLEAN
      OBVIOUS
    <2>6. lastErr \in 0..MaxSubmits /\ out \in 0..MaxSubmits /\ sub \in 0..MaxSubmits
      BY DEF NoEval
    <2>7. QED
      BY <2>1, <2>2, <2>3, <2>4, <2>5, <2>6
      DEF TypeOK, Status, EvalStatus, WorkerPcs, OwnerPcs, Ops, Timeouts
  <1>2. SlotInv
    BY DEF SlotInv, OwnerHolds, WorkerHolds
  <1>3. ResultInv
    BY DEF ResultInv
  <1>4. SemInv
    BY DEF SemInv, Late
  <1>5. BoxInv
    BY DEF BoxInv, Drained
  <1>6. EvalInv
    BY DEF EvalInv, OwnerHolds, RunPcs
  <1>7. QED
    BY <1>1, <1>2, <1>3, <1>4, <1>5, <1>6 DEF IInv

(* submit puts its block in an empty queue.                                *)
LEMMA DispatchIInv == IInv /\ Dispatch => IInv'
  <1> SUFFICES ASSUME IInv, Dispatch PROVE IInv'
    OBVIOUS
  <1> DEFINE b == [sub |-> sub, box |-> completion]
  <1>1. b \in Block /\ queue = <<>> /\ sub \in Evals
    BY DEF IInv, TypeOK, SlotInv, EvalInv, OwnerHolds, Dispatch, Built, Block
  <1>2. queue' = <<b>> /\ Head(queue') = b /\ queue' # <<>>
        /\ queue' \in Seq(Block)
    BY <1>1, OneBlock DEF Dispatch
  <1> HIDE DEF b
  <1> USE <1>1, <1>2 DEF Dispatch, Built, Return, fields, evals, boxes, IInv
  <1>3. TypeOK'
    <2>1. ret' \in Returned
      BY RequestAssumption
      DEF Result, Returned, TypeOK, Status, EvalStatus, NoEval
    <2>2. QED
      BY <2>1 DEF TypeOK, OwnerPcs
  <1>4. SlotInv'
    BY DEF SlotInv, OwnerHolds, WorkerHolds, TypeOK
  <1>5. ResultInv'
    BY DEF ResultInv, SlotInv, TypeOK, OwnerHolds, WorkerHolds
  <1>6. SemInv'
    BY DEF SemInv, SlotInv, TypeOK, OwnerHolds, WorkerHolds, Late
  <1>7. BoxInv'
    BY DEF b, BoxInv, Drained
  <1>8. EvalInv'
    BY DEF b, EvalInv, OwnerHolds, RunPcs
  <1>9. QED
    BY <1>3, <1>4, <1>5, <1>6, <1>7, <1>8

(* The worker takes the one queued block.                                  *)
LEMMA WorkerStartIInv == IInv /\ WorkerStart => IInv'
  <1> SUFFICES ASSUME IInv, WorkerStart PROVE IInv'
    OBVIOUS
  <1>1. wblk' = Head(queue) /\ wblk' \in Block /\ queue' = <<>>
    BY OneBlock DEF IInv, TypeOK, SlotInv, WorkerStart
  <1> QED
    BY <1>1
    DEF WorkerStart, IInv, TypeOK, SlotInv, ResultInv, SemInv, BoxInv,
        EvalInv, OwnerHolds, WorkerHolds, Late, Drained, WorkerPcs,
        fields, bindings, owner, boxes, notices, evals

(* Every step keeps the inductive invariant.                               *)
LEMMA NextIInv == IInv /\ [Next]_vars => IInv'
  <1> SUFFICES ASSUME IInv, [Next]_vars PROVE IInv'
    OBVIOUS
  <1> USE RequestAssumption
      DEF IInv, TypeOK, SlotInv, ResultInv, SemInv, BoxInv, EvalInv,
          OwnerHolds, WorkerHolds, Late, Drained, Block, Status, EvalStatus,
          WorkerPcs, OwnerPcs, RunPcs, Ops, Timeouts, Returned, Result,
          NoReturn, NoEval, Evals
  <1>1. CASE \E o \in {"submit", "run"} : Claim(o)
    BY <1>1 DEF Claim, Enter, bindings, worker, boxes, notices
  <1>2. CASE \E o \in {"is_done", "borrow"} : DoneCall(o)
    BY <1>2 DEF DoneCall, Enter, shared, fields, bindings, worker,
      boxes, notices, evals
  <1>3. CASE SetInputBytes
    BY <1>3 DEF SetInputBytes, Enter, shared, fields, bindings, worker,
      boxes, notices, evals
  <1>4. CASE BindInput
    BY <1>4 DEF BindInput, fields, worker, owner, boxes, notices, evals
  <1>5. CASE BindOutput
    BY <1>5 DEF BindOutput, Enter, fields, worker, boxes, notices, evals
  <1>6. CASE GetOutputBytes
    BY <1>6 DEF GetOutputBytes, OutputGate, Enter, shared, fields, bindings, worker,
      boxes, notices, evals
  <1>7. CASE Release
    BY <1>7 DEF Release, Enter, shared, fields, bindings, worker, boxes,
      notices, evals
  <1>8. CASE \E t \in Timeouts : WaitCall(t)
    BY <1>8 DEF WaitCall, Enter, shared, fields, bindings, worker,
      boxes, notices, evals
  <1>9. CASE \E b \in Boxes \cup {NoBox} : SetCompletion(b)
    BY <1>9 DEF SetCompletion, Enter, fields, bindings, worker, notices,
      evals
  <1>10. CASE DrainSignal
    BY <1>10 DEF DrainSignal, Goto, bindings, worker, boxes, notices,
      evals
  <1>11. CASE DrainDone
    BY <1>11 DEF DrainDone, Goto, bindings, worker, boxes, notices,
      evals
  <1>12. CASE BuildFails
    <2>1. outputsBound' \in BOOLEAN
      BY <1>12 DEF BuildFails
    <2>2. QED
      BY <1>12, <2>1 DEF BuildFails, Goto, worker, boxes, notices
  <1>13. CASE FailReturns
    BY <1>13 DEF FailReturns, Return, bindings, worker, boxes, notices,
      evals
  <1>14. CASE Dispatch
    BY <1>14, DispatchIInv
  <1>15. CASE RunBuilt
    BY <1>15 DEF RunBuilt, Built, Goto, fields, boxes, evals
  <1>16. CASE RunEval
    BY <1>16 DEF RunEval, Evaluate, Goto, fields, worker, boxes, notices
  <1>17. CASE RunStore
    BY <1>17 DEF RunStore, Store, Goto, bindings, worker, boxes,
      notices, evals
  <1>18. CASE RunHasResult
    BY <1>18 DEF RunHasResult, PublishResult, Goto, bindings, worker,
      boxes, notices, evals
  <1>19. CASE RunClear
    BY <1>19 DEF RunClear, ClearInFlight, Goto, bindings, worker, boxes,
      notices, evals
  <1>20. CASE RunCallback
    BY <1>20 DEF RunCallback, Goto, fields, bindings, worker, boxes,
      evals
  <1>21. CASE RunReturns
    BY <1>21 DEF RunReturns, Return, shared, fields, bindings, worker,
      boxes, notices, evals
  <1>22. CASE WaitLoadInFlight
    BY <1>22 DEF WaitLoadInFlight, Goto, shared, fields, bindings,
      worker, boxes, notices, evals
  <1>23. CASE WaitLoadHasResult
    BY <1>23 DEF WaitLoadHasResult, Goto, shared, fields, bindings,
      worker, boxes, notices, evals
  <1>24. CASE WaitFast
    BY <1>24 DEF WaitFast, Goto, bindings, worker, boxes, notices, evals
  <1>25. CASE WaitSignalled
    BY <1>25 DEF WaitSignalled, Goto, bindings, worker, boxes, notices,
      evals
  <1>26. CASE WaitGivesUp
    BY <1>26 DEF WaitGivesUp, Return, shared, fields, bindings, worker,
      boxes, notices, evals
  <1>27. CASE WaitReturns
    BY <1>27 DEF WaitReturns, Return, shared, fields, bindings, worker,
      boxes, notices, evals
  <1>28. CASE DoneLoadHasResult
    BY <1>28 DEF DoneLoadHasResult, Goto, Return, shared, fields,
      bindings, worker, boxes, notices, evals
  <1>29. CASE DoneLoadInFlight
    BY <1>29 DEF DoneLoadInFlight, Goto, Return, shared, fields,
      bindings, worker, boxes, notices, evals
  <1>30. CASE AccessEnds
    BY <1>30 DEF AccessEnds, Return, fields, worker, boxes, notices,
      evals
  <1>31. CASE CopyOut
    BY <1>31 DEF CopyOut, Return, shared, fields, bindings, worker,
      boxes, notices, evals
  <1>32. CASE CompletionSwap
    BY <1>32 DEF CompletionSwap, Swap, fields, bindings, worker,
      notices, evals
  <1>33. CASE FreeOldBox
    BY <1>33 DEF FreeOldBox, fields, bindings, worker, notices, evals
  <1>34. CASE ReleaseDrained
    BY <1>34 DEF ReleaseDrained, Goto, shared, fields, bindings, worker,
      boxes, notices, evals
  <1>35. CASE DropBox
    BY <1>35 DEF DropBox, Goto, fields, bindings, worker, notices, evals
  <1>36. CASE WorkerStart
    BY <1>36, WorkerStartIInv
  <1>37. CASE WorkerEval
    BY <1>37 DEF WorkerEval, Evaluate, WorkerGoto, fields, owner, boxes,
      notices
  <1>38. CASE WorkerStore
    BY <1>38 DEF WorkerStore, Store, WorkerGoto, owner, bindings, boxes,
      notices, evals
  <1>39. CASE WorkerHasResult
    BY <1>39 DEF WorkerHasResult, PublishResult, WorkerGoto, owner,
      bindings, boxes, notices, evals
  <1>40. CASE WorkerClear
    BY <1>40 DEF WorkerClear, ClearInFlight, WorkerGoto, owner,
      bindings, boxes, notices, evals
  <1>41. CASE WorkerSignal
    BY <1>41 DEF WorkerSignal, WorkerGoto, owner, bindings, boxes,
      notices, evals
  <1>42. CASE WorkerCallback
    <2>1. told' \subseteq Evals
      BY <1>42 DEF WorkerCallback, WorkerGoto
    <2>2. QED
      BY <1>42, <2>1 DEF WorkerCallback, WorkerGoto, owner, fields,
        bindings, boxes, evals
  <1>43. CASE WorkerReadsError
    BY <1>43 DEF WorkerReadsError, WorkerGoto, owner, fields, bindings,
      boxes, notices, evals
  <1>44. CASE WorkerFinish
    BY <1>44, SMTT(30) DEF WorkerFinish, WorkerGoto, owner, fields, bindings,
      boxes, notices, evals
  <1>45. CASE UNCHANGED vars
    BY <1>45 DEF vars, owner, fields, bindings, worker, boxes, notices,
      evals
  <1> QED
    BY <1>1, <1>2, <1>3, <1>4, <1>5, <1>6, <1>7, <1>8, <1>9, <1>10,
      <1>11, <1>12, <1>13, <1>14, <1>15, <1>16, <1>17, <1>18, <1>19,
      <1>20, <1>21, <1>22, <1>23, <1>24, <1>25, <1>26, <1>27, <1>28,
      <1>29, <1>30, <1>31, <1>32, <1>33, <1>34, <1>35, <1>36, <1>37,
      <1>38, <1>39, <1>40, <1>41, <1>42, <1>43, <1>44, <1>45 DEF Next,
      OwnerCall, OwnerStep, WorkerStep, Released, Submit, Run, IsDone,
      BorrowBuffer

(* The inductive invariant holds in every reachable state.                 *)
THEOREM RequestIInv == Spec => []IInv
  BY InitIInv, NextIInv, PTL DEF Spec

(* Every variable keeps its type; done_sem never counts more than two.     *)
THEOREM RequestTypeOK == Spec => []TypeOK
  BY RequestIInv, PTL DEF IInv

(* A request never has two evals on the engine at once.                    *)
THEOREM RequestOneEval == Spec => []OneEval
  <1>1. IInv => OneEval
    BY DEF IInv, SlotInv, OwnerHolds, WorkerHolds, OneEval
  <1>2. QED
    BY <1>1, RequestIInv, PTL

(* No CPU access to a bound buffer while an eval uses it.                  *)
THEOREM RequestNoAccessDuringEval == Spec => []NoAccessDuringEval
  <1>1. IInv => NoAccessDuringEval
    BY DEF IInv, SlotInv, ResultInv, OwnerHolds, WorkerHolds, Evaluating,
           NoAccessDuringEval
  <1>2. QED
    BY <1>1, RequestIInv, PTL

(* A block never refers to a freed completion box.                         *)
THEOREM RequestBoxAlive == Spec => []BoxAlive
  <1>1. IInv => BoxAlive
    <2> SUFFICES ASSUME IInv PROVE BoxAlive
      OBVIOUS
    <2>1. wpc # "idle" => wblk.box \in live \cup {NoBox}
      BY DEF IInv, BoxInv, Drained
    <2>2. ASSUME NEW i \in DOMAIN queue
          PROVE  queue[i].box \in live \cup {NoBox}
      <3>1. queue = <<Head(queue)>> /\ i = 1
        BY <2>2 DEF IInv, SlotInv, TypeOK
      <3>2. queue[i] = Head(queue)
        BY <3>1
      <3>3. QED
        BY <3>1, <3>2 DEF IInv, BoxInv, Drained
    <2>3. QED
      BY <2>1, <2>2 DEF BoxAlive
  <1>2. QED
    BY <1>1, RequestIInv, PTL

(* A released request is touched by no block.                              *)
THEOREM RequestNoUseAfterRelease == Spec => []NoUseAfterRelease
  <1>1. IInv => NoUseAfterRelease
    BY DEF IInv, BoxInv, NoUseAfterRelease
  <1>2. QED
    BY <1>1, RequestIInv, PTL
-----------------------------------------------------------------------------
(* What the evals went through: the owner's answers are true, and the     *)
(* request implements the one-eval slot.                                   *)

(* A fresh request has made no eval.                                       *)
LEMMA InitHInv == Init => HInv
BY RequestAssumption
DEF Init, HInv, HeldInv, LatestInv, EndedInv, CallInv, PublishInv, WaitInv,
    AnswerInv,
    Ended, WorkerOn, SlotTaken, OwnerHolds, WorkerHolds, Late, NoEval, Evals,
    NoReturn, Result

(* Every step keeps what the evals went through.                           *)
LEMMA NextHInv == IInv /\ HInv /\ [Next]_vars => HInv'
  <1> SUFFICES ASSUME IInv, HInv, [Next]_vars PROVE HInv'
    OBVIOUS
  <1> USE RequestAssumption
      DEF IInv, TypeOK, SlotInv, ResultInv, SemInv, BoxInv, EvalInv,
          HInv, HeldInv, LatestInv, EndedInv, CallInv, PublishInv, WaitInv,
          AnswerInv,
          Ended, WorkerOn, SlotTaken,
          OwnerHolds, WorkerHolds, Late, Drained, Block, Status, EvalStatus,
          WorkerPcs, OwnerPcs, RunPcs, Ops, Timeouts, Returned, Result,
          NoReturn, NoEval, Evals
  <1>1. CASE \E o \in {"submit", "run"} : Claim(o)
    BY <1>1 DEF Claim, Enter, bindings, worker, boxes, notices
  <1>2. CASE \E o \in {"is_done", "borrow"} : DoneCall(o)
    BY <1>2 DEF DoneCall, Enter, shared, fields, bindings, worker,
      boxes, notices, evals
  <1>3. CASE SetInputBytes
    BY <1>3 DEF SetInputBytes, Enter, shared, fields, bindings, worker,
      boxes, notices, evals
  <1>4. CASE BindInput
    BY <1>4 DEF BindInput, fields, worker, owner, boxes, notices, evals
  <1>5. CASE BindOutput
    BY <1>5 DEF BindOutput, Enter, fields, worker, boxes, notices, evals
  <1>6. CASE GetOutputBytes
    BY <1>6 DEF GetOutputBytes, OutputGate, Enter, shared, fields, bindings, worker,
      boxes, notices, evals
  <1>7. CASE Release
    BY <1>7 DEF Release, Enter, shared, fields, bindings, worker, boxes,
      notices, evals
  <1>8. CASE \E t \in Timeouts : WaitCall(t)
    BY <1>8 DEF WaitCall, Enter, shared, fields, bindings, worker,
      boxes, notices, evals
  <1>9. CASE \E b \in Boxes \cup {NoBox} : SetCompletion(b)
    BY <1>9 DEF SetCompletion, Enter, fields, bindings, worker, notices,
      evals
  <1>10. CASE DrainSignal
    BY <1>10 DEF DrainSignal, Goto, bindings, worker, boxes, notices,
      evals
  <1>11. CASE DrainDone
    BY <1>11 DEF DrainDone, Goto, bindings, worker, boxes, notices,
      evals
  <1>12. CASE BuildFails
    BY <1>12 DEF BuildFails, Goto, worker, boxes, notices
  <1>13. CASE FailReturns
    BY <1>13 DEF FailReturns, Return, bindings, worker, boxes, notices,
      evals
  <1>14. CASE Dispatch
    BY <1>14 DEF Dispatch, Built, Return, fields, evals, boxes
  <1>15. CASE RunBuilt
    BY <1>15 DEF RunBuilt, Built, Goto, fields, boxes, evals
  <1>16. CASE RunEval
    BY <1>16 DEF RunEval, Evaluate, Goto, fields, worker, boxes, notices
  <1>17. CASE RunStore
    BY <1>17 DEF RunStore, Store, Goto, bindings, worker, boxes,
      notices, evals
  <1>18. CASE RunHasResult
    BY <1>18 DEF RunHasResult, PublishResult, Goto, bindings, worker,
      boxes, notices, evals
  <1>19. CASE RunClear
    BY <1>19 DEF RunClear, ClearInFlight, Goto, bindings, worker, boxes,
      notices, evals
  <1>20. CASE RunCallback
    BY <1>20 DEF RunCallback, Goto, fields, bindings, worker, boxes,
      evals
  <1>21. CASE RunReturns
    BY <1>21 DEF RunReturns, Return, shared, fields, bindings, worker,
      boxes, notices, evals
  <1>22. CASE WaitLoadInFlight
    BY <1>22 DEF WaitLoadInFlight, Goto, shared, fields, bindings,
      worker, boxes, notices, evals
  <1>23. CASE WaitLoadHasResult
    BY <1>23 DEF WaitLoadHasResult, Goto, shared, fields, bindings,
      worker, boxes, notices, evals
  <1>24. CASE WaitFast
    BY <1>24 DEF WaitFast, Goto, bindings, worker, boxes, notices, evals
  <1>25. CASE WaitSignalled
    BY <1>25 DEF WaitSignalled, Goto, bindings, worker, boxes, notices,
      evals
  <1>26. CASE WaitGivesUp
    BY <1>26 DEF WaitGivesUp, Return, shared, fields, bindings, worker,
      boxes, notices, evals
  <1>27. CASE WaitReturns
    BY <1>27 DEF WaitReturns, Return, shared, fields, bindings, worker,
      boxes, notices, evals
  <1>28. CASE DoneLoadHasResult
    BY <1>28 DEF DoneLoadHasResult, Goto, Return, shared, fields,
      bindings, worker, boxes, notices, evals
  <1>29. CASE DoneLoadInFlight
    BY <1>29 DEF DoneLoadInFlight, Goto, Return, shared, fields,
      bindings, worker, boxes, notices, evals
  <1>30. CASE AccessEnds
    BY <1>30 DEF AccessEnds, Return, fields, worker, boxes, notices,
      evals
  <1>31. CASE CopyOut
    BY <1>31 DEF CopyOut, Return, shared, fields, bindings, worker,
      boxes, notices, evals
  <1>32. CASE CompletionSwap
    BY <1>32 DEF CompletionSwap, Swap, fields, bindings, worker,
      notices, evals
  <1>33. CASE FreeOldBox
    BY <1>33 DEF FreeOldBox, fields, bindings, worker, notices, evals
  <1>34. CASE ReleaseDrained
    BY <1>34 DEF ReleaseDrained, Goto, shared, fields, bindings, worker,
      boxes, notices, evals
  <1>35. CASE DropBox
    BY <1>35 DEF DropBox, Goto, fields, bindings, worker, notices, evals
  <1>36. CASE WorkerStart
    BY <1>36, SMTT(30) DEF WorkerStart, fields, bindings, owner, boxes, notices, evals
  <1>37. CASE WorkerEval
    BY <1>37 DEF WorkerEval, Evaluate, WorkerGoto, fields, owner, boxes,
      notices
  <1>38. CASE WorkerStore
    BY <1>38 DEF WorkerStore, Store, WorkerGoto, owner, bindings, boxes,
      notices, evals
  <1>39. CASE WorkerHasResult
    BY <1>39 DEF WorkerHasResult, PublishResult, WorkerGoto, owner,
      bindings, boxes, notices, evals
  <1>40. CASE WorkerClear
    BY <1>40 DEF WorkerClear, ClearInFlight, WorkerGoto, owner,
      bindings, boxes, notices, evals
  <1>41. CASE WorkerSignal
    BY <1>41 DEF WorkerSignal, WorkerGoto, owner, bindings, boxes,
      notices, evals
  <1>42. CASE WorkerCallback
    BY <1>42 DEF WorkerCallback, WorkerGoto, owner, fields, bindings, boxes, evals
  <1>43. CASE WorkerReadsError
    BY <1>43 DEF WorkerReadsError, WorkerGoto, owner, fields, bindings,
      boxes, notices, evals
  <1>44. CASE WorkerFinish
    BY <1>44, SMTT(30) DEF WorkerFinish, WorkerGoto, owner, fields, bindings,
      boxes, notices, evals
  <1>45. CASE UNCHANGED vars
    BY <1>45 DEF vars, owner, fields, bindings, worker, boxes, notices,
      evals
  <1> QED
    BY <1>1, <1>2, <1>3, <1>4, <1>5, <1>6, <1>7, <1>8, <1>9, <1>10,
      <1>11, <1>12, <1>13, <1>14, <1>15, <1>16, <1>17, <1>18, <1>19,
      <1>20, <1>21, <1>22, <1>23, <1>24, <1>25, <1>26, <1>27, <1>28,
      <1>29, <1>30, <1>31, <1>32, <1>33, <1>34, <1>35, <1>36, <1>37,
      <1>38, <1>39, <1>40, <1>41, <1>42, <1>43, <1>44, <1>45 DEF Next,
      OwnerCall, OwnerStep, WorkerStep, Released, Submit, Run, IsDone,
      BorrowBuffer

(* The history of the evals in every reachable state.                      *)
THEOREM RequestHistory == Spec => [](IInv /\ HInv)
  BY InitIInv, InitHInv, NextIInv, NextHInv, PTL DEF Spec

(* An idle request with a free slot publishes its latest eval's result.    *)
THEOREM RequestPublishedIsLatest == Spec => []PublishedIsLatest
  <1>1. HInv => PublishedIsLatest
    BY DEF HInv, PublishInv, PublishedIsLatest
  <1>2. QED
    BY <1>1, RequestHistory, PTL

(* is_done, get_output_bytes and repeated waits tell the owner the truth,  *)
(* whatever the worker does around them.                                   *)
THEOREM RequestAnswersTrue == Spec => []AnswersTrue
  <1>1. IInv /\ HInv => AnswersTrue
    BY RequestAssumption
    DEF IInv, TypeOK, SemInv, Late, HInv, AnswerInv, WaitInv, Ended, NoEval,
        AnswersTrue, DoneIsTrue, OutputIsLatest, SecondWaitIsTrue
  <1>2. QED
    BY <1>1, RequestHistory, PTL

-----------------------------------------------------------------------------
(* THE REFINEMENT                                                          *)

EndedEvals == {e \in Evals : outcome[e] # "pending"}

(* A fresh request is a free slot.                                         *)
LEMMA InitSlot == Init => Slot!SlotInit
  BY DEF Init, Slot!SlotInit

(* Every step of the owner and of the worker starts an eval, ends it,      *)
(* frees the slot, makes a callback, or does not touch the slot.           *)
LEMMA NextSlot == IInv /\ HInv /\ [Next]_vars => [Slot!SlotNext]_(Slot!slotVars)
  <1> SUFFICES ASSUME IInv, HInv, [Next]_vars
               PROVE  Slot!SlotNext \/ UNCHANGED Slot!slotVars
    OBVIOUS
  <1> USE RequestAssumption
  <1>a. UNCHANGED <<sub, inFlight, outcome, told>> => UNCHANGED Slot!slotVars
    BY DEF Slot!slotVars
  <1>b. sub \in Nat /\ inFlight \in {0, 1} /\ MaxSubmits \in Nat
        /\ outcome \in [Evals -> Status \cup {"pending"}]
    BY DEF IInv, TypeOK, Evals
  <1>c. ASSUME NEW e \in Evals, NEW s \in Status, e = sub, inFlight = 1,
               ~Ended(sub), outcome' = [outcome EXCEPT ![e] = s],
               UNCHANGED <<sub, inFlight, told>>
        PROVE  Slot!End
    <2>1. s # "pending"
      BY DEF Status, EvalStatus
    <2>2. EndedEvals' = EndedEvals \cup {sub} /\ sub \notin EndedEvals
      BY <1>b, <1>c, <2>1 DEF EndedEvals, Ended
    <2>3. QED
      BY <1>c, <2>2 DEF Slot!End, EndedEvals
  <1>d. ASSUME sub \in Evals, inFlight = 1, Ended(sub), inFlight' = 0,
               UNCHANGED <<sub, outcome, told>>
        PROVE  Slot!Free
    BY <1>d DEF Slot!Free, Ended
  <1>e. ASSUME NEW e \in Evals, Ended(e), e \notin told,
               e = sub => inFlight = 0, told' = told \cup {e},
               UNCHANGED <<sub, inFlight, outcome>>
        PROVE  \E f \in Slot!SlotEvals : Slot!Call(f)
    BY <1>e DEF Slot!Call, Slot!SlotEvals, Evals, Ended
  <1>1. CASE \E o \in {"submit", "run"} : Claim(o)
    <2>1. Slot!Start
      BY <1>1, <1>b DEF Claim, Enter, notices, Slot!Start
    <2>2. QED
      BY <2>1 DEF Slot!SlotNext
  <1>2. CASE BuildFails
    <2>1. Slot!End
      BY <1>2, <1>b, <1>c DEF BuildFails, Goto, notices, Status, IInv, SlotInv,
        EvalInv, OwnerHolds, HInv, EndedInv
    <2>2. QED
      BY <2>1 DEF Slot!SlotNext
  <1>3. CASE FailReturns
    <2>1. Slot!Free
      BY <1>3, <1>b, <1>d DEF FailReturns, notices, evals, IInv, SlotInv,
        EvalInv, OwnerHolds, HInv, EndedInv, Ended
    <2>2. QED
      BY <2>1 DEF Slot!SlotNext
  <1>4. CASE RunEval
    <2>1. Slot!End
      BY <1>4, <1>b, <1>c DEF RunEval, Evaluate, Goto, notices, fields, Status,
        IInv, SlotInv, EvalInv, OwnerHolds, HInv, EndedInv
    <2>2. QED
      BY <2>1 DEF Slot!SlotNext
  <1>5. CASE RunClear
    <2>1. Slot!Free
      BY <1>5, <1>b, <1>d DEF RunClear, ClearInFlight, Goto, notices, evals,
        IInv, SlotInv, EvalInv, OwnerHolds, RunPcs, EvalStatus, Ended
    <2>2. QED
      BY <2>1 DEF Slot!SlotNext
  <1>6. CASE RunCallback
    <2>1. Slot!SlotNext
      BY <1>6, <1>e DEF RunCallback, Goto, fields, evals, IInv, EvalInv, RunPcs,
        EvalStatus, HInv, LatestInv, CallInv, Ended, Slot!SlotNext
    <2>2. QED
      BY <2>1
  <1>7. CASE WorkerEval
    <2>1. Slot!End
      BY <1>7, <1>b, <1>c DEF WorkerEval, Evaluate, WorkerGoto, notices, fields,
        Status, IInv, SlotInv, EvalInv, WorkerHolds, HInv, LatestInv, EndedInv
    <2>2. QED
      BY <2>1 DEF Slot!SlotNext
  <1>8. CASE WorkerClear
    <2>1. Slot!Free
      BY <1>8, <1>b, <1>d DEF WorkerClear, ClearInFlight, WorkerGoto, notices,
        evals, IInv, SlotInv, EvalInv, WorkerHolds, HInv, LatestInv, EndedInv,
        Ended
    <2>2. QED
      BY <2>1 DEF Slot!SlotNext
  <1>9. CASE WorkerCallback
    <2>1. Slot!SlotNext
      BY <1>9, <1>e DEF WorkerCallback, WorkerGoto, fields, evals, IInv, EvalInv,
        HInv, LatestInv, EndedInv, CallInv, WorkerHolds, WorkerOn, Slot!SlotNext
    <2>2. QED
      BY <2>1
  <1>10. CASE \E o \in {"is_done", "borrow"} : DoneCall(o)
    BY <1>10, <1>a DEF DoneCall, Enter, shared, fields, bindings,
        worker, boxes, notices, evals
  <1>11. CASE SetInputBytes
    BY <1>11, <1>a DEF SetInputBytes, Enter, shared, fields, bindings,
        worker, boxes, notices, evals
  <1>12. CASE BindInput
    BY <1>12, <1>a DEF BindInput, fields, worker, owner, boxes,
        notices, evals
  <1>13. CASE BindOutput
    BY <1>13, <1>a DEF BindOutput, Enter, fields, worker, boxes,
        notices, evals
  <1>14. CASE GetOutputBytes
    BY <1>14, <1>a DEF GetOutputBytes, OutputGate, Enter, shared,
        fields, bindings, worker, boxes, notices, evals
  <1>15. CASE Release
    BY <1>15, <1>a DEF Release, Enter, shared, fields, bindings,
        worker, boxes, notices, evals
  <1>16. CASE \E t \in Timeouts : WaitCall(t)
    BY <1>16, <1>a DEF WaitCall, Enter, shared, fields, bindings,
        worker, boxes, notices, evals
  <1>17. CASE \E b \in Boxes \cup {NoBox} : SetCompletion(b)
    BY <1>17, <1>a DEF SetCompletion, Enter, fields, bindings, worker,
        notices, evals
  <1>18. CASE DrainSignal
    BY <1>18, <1>a DEF DrainSignal, Goto, bindings, worker, boxes,
        notices, evals
  <1>19. CASE DrainDone
    BY <1>19, <1>a DEF DrainDone, Goto, bindings, worker, boxes,
        notices, evals
  <1>20. CASE Dispatch
    BY <1>20, <1>a DEF Dispatch, Built, Return, fields, evals, boxes
  <1>21. CASE RunBuilt
    BY <1>21, <1>a DEF RunBuilt, Built, Goto, fields, boxes, evals
  <1>22. CASE RunStore
    BY <1>22, <1>a DEF RunStore, Store, Goto, bindings, worker, boxes,
        notices, evals
  <1>23. CASE RunHasResult
    BY <1>23, <1>a DEF RunHasResult, PublishResult, Goto, bindings,
        worker, boxes, notices, evals
  <1>24. CASE RunReturns
    BY <1>24, <1>a DEF RunReturns, Return, shared, fields, bindings,
        worker, boxes, notices, evals
  <1>25. CASE WaitLoadInFlight
    BY <1>25, <1>a DEF WaitLoadInFlight, Goto, shared, fields,
        bindings, worker, boxes, notices, evals
  <1>26. CASE WaitLoadHasResult
    BY <1>26, <1>a DEF WaitLoadHasResult, Goto, shared, fields,
        bindings, worker, boxes, notices, evals
  <1>27. CASE WaitFast
    BY <1>27, <1>a DEF WaitFast, Goto, bindings, worker, boxes,
        notices, evals
  <1>28. CASE WaitSignalled
    BY <1>28, <1>a DEF WaitSignalled, Goto, bindings, worker, boxes,
        notices, evals
  <1>29. CASE WaitGivesUp
    BY <1>29, <1>a DEF WaitGivesUp, Return, shared, fields, bindings,
        worker, boxes, notices, evals
  <1>30. CASE WaitReturns
    BY <1>30, <1>a DEF WaitReturns, Return, shared, fields, bindings,
        worker, boxes, notices, evals
  <1>31. CASE DoneLoadHasResult
    BY <1>31, <1>a DEF DoneLoadHasResult, Goto, Return, shared,
        fields, bindings, worker, boxes, notices, evals
  <1>32. CASE DoneLoadInFlight
    BY <1>32, <1>a DEF DoneLoadInFlight, Goto, Return, shared, fields,
        bindings, worker, boxes, notices, evals
  <1>33. CASE AccessEnds
    BY <1>33, <1>a DEF AccessEnds, Return, fields, worker, boxes,
        notices, evals
  <1>34. CASE CopyOut
    BY <1>34, <1>a DEF CopyOut, Return, shared, fields, bindings,
        worker, boxes, notices, evals
  <1>35. CASE CompletionSwap
    BY <1>35, <1>a DEF CompletionSwap, Swap, fields, bindings, worker,
        notices, evals
  <1>36. CASE FreeOldBox
    BY <1>36, <1>a DEF FreeOldBox, fields, bindings, worker, notices,
        evals
  <1>37. CASE ReleaseDrained
    BY <1>37, <1>a DEF ReleaseDrained, Goto, shared, fields, bindings,
        worker, boxes, notices, evals
  <1>38. CASE DropBox
    BY <1>38, <1>a DEF DropBox, Goto, fields, bindings, worker,
        notices, evals
  <1>39. CASE WorkerStart
    BY <1>39, <1>a DEF WorkerStart, fields, bindings, owner, boxes,
        notices, evals
  <1>40. CASE WorkerStore
    BY <1>40, <1>a DEF WorkerStore, Store, WorkerGoto, owner,
        bindings, boxes, notices, evals
  <1>41. CASE WorkerHasResult
    BY <1>41, <1>a DEF WorkerHasResult, PublishResult, WorkerGoto,
        owner, bindings, boxes, notices, evals
  <1>42. CASE WorkerSignal
    BY <1>42, <1>a DEF WorkerSignal, WorkerGoto, owner, bindings,
        boxes, notices, evals
  <1>43. CASE WorkerReadsError
    BY <1>43, <1>a DEF WorkerReadsError, WorkerGoto, owner, fields,
        bindings, boxes, notices, evals
  <1>44. CASE WorkerFinish
    BY <1>44, <1>a DEF WorkerFinish, WorkerGoto, owner, fields,
        bindings, boxes, notices, evals
  <1>45. CASE UNCHANGED vars
    BY <1>45, <1>a DEF vars, owner, fields, bindings, worker, boxes,
        notices, evals
  <1> QED
    BY <1>1, <1>2, <1>3, <1>4, <1>5, <1>6, <1>7, <1>8, <1>9, <1>10,
        <1>11, <1>12, <1>13, <1>14, <1>15, <1>16, <1>17, <1>18, <1>19,
        <1>20, <1>21, <1>22, <1>23, <1>24, <1>25, <1>26, <1>27, <1>28,
        <1>29, <1>30, <1>31, <1>32, <1>33, <1>34, <1>35, <1>36, <1>37,
        <1>38, <1>39, <1>40, <1>41, <1>42, <1>43, <1>44, <1>45 DEF Next,
        OwnerCall, OwnerStep, WorkerStep, Released, Submit, Run, IsDone,
        BorrowBuffer

(* A request implements the one-eval slot of EvalSlot, for any number of   *)
(* submissions and boxes.                                                  *)
THEOREM RequestImplementsSlot == Spec => RefinesSlot
  BY InitSlot, NextSlot, RequestHistory, PTL DEF Spec, RefinesSlot, Slot!SlotSpec
=============================================================================
