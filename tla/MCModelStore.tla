----------------------------- MODULE MCModelStore -----------------------------
(* Instances of ModelStore for TLC: three handles, so that two opens of    *)
(* the same contents meet a third one's close, and two unloading threads.  *)
EXTENDS ModelStore, TLC

(* Handles, object addresses and threads are interchangeable.              *)
StoreSymmetry ==
  Permutations(Handles) \cup Permutations(Objects) \cup Permutations(Threads)
=============================================================================
