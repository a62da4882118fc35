------------------------------ MODULE EvalSlot -------------------------------
(* What a request promises its owner: a slot for one eval at a time.       *)
(* c/include/ane_bridge.h: "AneRequest is single-owner: one submit at a    *)
(* time per request".  An eval is started only in a free slot, ends once,  *)
(* the slot is free again only after it ended, and its completion callback *)
(* runs at most once, after the slot was freed.                            *)
EXTENDS Naturals

CONSTANT MaxSubmits  (* bound of the model: evals started *)

VARIABLES
  started,  (* evals started so far; the latest is eval number started *)
  busy,     (* the slot is taken by the latest eval                    *)
  ended,    (* evals that ended                                        *)
  called    (* evals whose callback ran                                *)

slotVars == <<started, busy, ended, called>>

SlotEvals == 1..MaxSubmits

SlotInit == started = 0 /\ busy = FALSE /\ ended = {} /\ called = {}

Start ==
  /\ ~busy /\ started < MaxSubmits
  /\ busy' = TRUE /\ started' = started + 1
  /\ UNCHANGED <<ended, called>>

End ==
  /\ busy /\ started \notin ended
  /\ ended' = ended \cup {started}
  /\ UNCHANGED <<started, busy, called>>

Free ==
  /\ busy /\ started \in ended
  /\ busy' = FALSE
  /\ UNCHANGED <<started, ended, called>>

(* The latest eval may be called back only once its slot is free.          *)
Call(e) ==
  /\ e \in ended \ called
  /\ e = started => ~busy
  /\ called' = called \cup {e}
  /\ UNCHANGED <<started, busy, ended>>

SlotNext == Start \/ End \/ Free \/ \E e \in SlotEvals : Call(e)

SlotSpec == SlotInit /\ [][SlotNext]_slotVars

(* Every eval started in the slot ends, and the slot is freed.             *)
SlotIsFreed == busy ~> ~busy
=============================================================================
