------------------------------ MODULE E5rtProofs ------------------------------
(* Proofs about E5rt for any sets of runners, buffers, states and boxes    *)
(* and any number of calls.                                                *)
EXTENDS E5rt, TLAPS

Entries == [key : Keys, port : [op : Nat, key : Keys]]

Engines == [stream : BOOLEAN, op : Nat, at : Addrs \cup {Nil},
            state : States \cup {Nil}, built : Nat]
RunnerType == [op : Addrs, ports : SUBSET Entries, number : Nat]
Flights == [live : BOOLEAN, done : BOOLEAN, runner : Runners \cup {Nil},
            bufs : SUBSET Buffers, state : States \cup {Nil},
            ctx : Boxes \cup {Nil},
            eng : {"none", "running", "ended", "fired"}, ok : BOOLEAN,
            chan : {"empty", "ok", "err"}, told : {"none", "OK", "INTERNAL"}]
Tallies == [ok : [States -> Nat], doubt : [States -> Nat], calls : Nat]

E5TypeOK ==
  /\ open \in BOOLEAN
  /\ engine \in Engines
  /\ engine.op > 0 => engine.at \in Addrs /\ engine.state \in States
  /\ DOMAIN runners \subseteq Runners
  /\ \A r \in DOMAIN runners : runners[r] \in RunnerType
  /\ bufs \subseteq Buffers /\ states \subseteq States
  /\ steps \in [States -> Nat]
  /\ box \in [Boxes -> {"free", "raw", "sending", "leaving", "twice"}]
  /\ flight \in Flights
  /\ opc \in {"idle", "wait", "drop"} /\ ret \in {"none", "OK", "INTERNAL"}
  /\ missed \subseteq Keys /\ fooled \in BOOLEAN
  /\ tally \in Tallies

(* Where a submission and its handle can be: a completion that has not     *)
(* been consumed has its handle, and what was told is what came.           *)
Answer == IF flight.ok THEN "ok" ELSE "err"
FlightInv ==
  /\ flight.eng # "none" => flight.ctx \in Boxes /\ flight.state \in States
  /\ flight.told # "none" <=> flight.done
  /\ flight.eng = "none" => ~flight.done /\ ~flight.live
  /\ flight.eng # "none" /\ ~flight.done => flight.live
  /\ flight.eng \in {"none", "running", "ended"} => flight.chan = "empty" /\ ~flight.done
  /\ flight.chan # "empty" => flight.chan = Answer /\ ~flight.done
  /\ flight.told # "none" => flight.told = Interpret(Answer)
  /\ flight.live => flight.bufs \subseteq bufs
  /\ opc # "idle" => flight.live

(* Whose a boxed sender is.                                                *)
BoxInv ==
  \A x \in Boxes :
    /\ box[x] # "twice"
    /\ box[x] = "raw" <=> flight.ctx = x /\ flight.eng \in {"running", "ended"}
    /\ box[x] = "sending" => /\ flight.ctx = x /\ flight.eng = "fired"
                             /\ flight.chan = "empty" /\ ~flight.done

(* The submission that has not been answered is in doubt; while it runs    *)
(* its step is not taken, and once it ended well its step is.              *)
Pending(s) == flight.eng # "none" /\ flight.told = "none" /\ flight.state = s
CountInv ==
  \A s \in States :
    /\ tally.ok[s] <= steps[s]
    /\ steps[s] <= tally.ok[s] + tally.doubt[s]
    /\ Pending(s) =>
         /\ tally.doubt[s] >= 1
         /\ flight.eng = "running" => steps[s] + 1 <= tally.ok[s] + tally.doubt[s]
         /\ flight.eng # "running" /\ flight.ok => tally.ok[s] + 1 <= steps[s]

IInv == E5TypeOK /\ FlightInv /\ BoxInv /\ CountInv

(* A runner that last resolved the current operation has its ports, and    *)
(* nothing else: the numbers of operations only grow, so what a runner     *)
(* cached for one before cannot pass for the current one's, unless its     *)
(* address does.                                                           *)
GoodPorts(ports) == \A e \in ports : e.port = Port(e.key)
PortInv ==
  /\ engine.op <= engine.built
  /\ \A r \in DOMAIN runners :
       /\ 0 < runners[r].number /\ runners[r].number <= engine.built
       /\ runners[r].number = engine.op => GoodPorts(runners[r].ports)
  /\ MissesOnlyIfFooled
-----------------------------------------------------------------------------
USE DEF Engines, RunnerType, Flights, Tallies

LEMMA InitIInv == E5Init => IInv
<1>1. E5Init => fooled \in BOOLEAN
  BY ZenonT(30) DEF E5Init
<1> QED  BY <1>1, E5rtAssumption
   DEF E5Init, IInv, E5TypeOK, FlightInv, BoxInv, CountInv, Pending, Cold, NoFlight

(* Values are made and dropped.                                            *)
Making == \/ NewState \/ DropState \/ NewBuffer \/ DropBuffer
          \/ NewRunner \/ DropRunner \/ DropModel

LEMMA MakingIInv ==
  ASSUME IInv, Making
  PROVE  IInv'
<1> USE DEF IInv
<1>1. UNCHANGED <<steps, box, flight, opc, ret, missed, fooled, tally>>
  BY DEF Making, NewState, DropState, NewBuffer, DropBuffer, NewRunner,
         DropRunner, DropModel
<1>2. BoxInv' /\ CountInv'
  BY <1>1 DEF BoxInv, CountInv, Pending
<1>3. CASE NewState \/ DropState
  <2>1. UNCHANGED <<open, engine, runners, bufs>> /\ states' \subseteq States
    BY <1>3 DEF NewState, DropState, E5TypeOK
  <2> QED  BY <1>1, <1>2, <2>1 DEF E5TypeOK, FlightInv, Answer
<1>4. CASE NewBuffer \/ DropBuffer
  <2>1. UNCHANGED <<open, engine, runners, states>> /\ bufs' \subseteq Buffers
    BY <1>4 DEF NewBuffer, DropBuffer, FromCreate, E5TypeOK
  <2>2. flight.live => flight.bufs \subseteq bufs'
    BY <1>4 DEF NewBuffer, DropBuffer, FromCreate, FlightInv
  <2> QED  BY <1>1, <1>2, <2>1, <2>2 DEF E5TypeOK, FlightInv, Answer
<1>5. CASE NewRunner
  <2>1. PICK r \in Runners \ DOMAIN runners :
          /\ engine.op > 0
          /\ runners' = [x \in DOMAIN runners \cup {r} |->
                           IF x = r THEN [op |-> engine.at, ports |-> {},
                                            number |-> engine.op]
                           ELSE runners[x]]
    BY <1>5 DEF NewRunner
  <2>2. DOMAIN runners' \subseteq Runners
    BY <2>1 DEF E5TypeOK
  <2>3. \A x \in DOMAIN runners' : runners'[x] \in RunnerType
    BY <2>1 DEF E5TypeOK
  <2>4. UNCHANGED <<open, engine, bufs, states>>
    BY <1>5 DEF NewRunner
  <2> QED  BY <1>1, <1>2, <2>2, <2>3, <2>4 DEF E5TypeOK, FlightInv, Answer
<1>6. CASE DropRunner
  <2>1. PICK r \in DOMAIN runners :
          runners' = [x \in DOMAIN runners \ {r} |-> runners[x]]
    BY <1>6 DEF DropRunner
  <2>2. /\ DOMAIN runners' \subseteq Runners
        /\ \A x \in DOMAIN runners' : runners'[x] \in RunnerType
    BY <2>1 DEF E5TypeOK
  <2>3. UNCHANGED <<open, engine, bufs, states>>
    BY <1>6 DEF DropRunner
  <2> QED  BY <1>1, <1>2, <2>2, <2>3 DEF E5TypeOK, FlightInv, Answer
<1>7. CASE DropModel
  <2>1. /\ open' \in BOOLEAN /\ UNCHANGED <<runners, bufs, states>>
        /\ engine' \in Engines
        /\ engine'.op = 0
    BY <1>7 DEF DropModel, Cold, E5TypeOK
  <2> QED  BY <1>1, <1>2, <2>1 DEF E5TypeOK, FlightInv, Answer
<1> QED  BY <1>3, <1>4, <1>5, <1>6, <1>7 DEF Making

-----------------------------------------------------------------------------
(* A step of the engine for state s that answered st.                      *)
LEMMA CountedStep ==
  ASSUME IInv, ~flight.live, NEW s \in States, NEW st \in {"OK", "EVAL", "INVALID_ARG", "INTERNAL"},
         NEW d \in {0, 1}, st = "OK" => d = 1,
         Move(s, d), tally' = Counted(s, st), UNCHANGED flight
  PROVE  /\ CountInv'
         /\ steps' \in [States -> Nat]
         /\ tally' \in Tallies
<1> USE DEF IInv
<1>1. steps \in [States -> Nat]
      /\ tally \in Tallies
  BY DEF E5TypeOK
<1>2. /\ steps' \in [States -> Nat]
      /\ steps'[s] = steps[s] + d
      /\ \A t \in States \ {s} : steps'[t] = steps[t]
  BY <1>1 DEF Move
<1>3. tally' = Counted(s, st)
  OBVIOUS
<1>4. tally' \in Tallies
  BY <1>1, <1>3 DEF Counted
<1>5. \A t \in States \ {s} : tally'.ok[t] = tally.ok[t] /\ tally'.doubt[t] = tally.doubt[t]
  BY <1>1, <1>3 DEF Counted
<1>6. CountInv'
  <2>1. CASE st = "OK"
    <3>1. tally'.ok[s] = tally.ok[s] + 1 /\ tally'.doubt[s] = tally.doubt[s]
      BY <1>1, <1>3, <2>1 DEF Counted
    <3> QED  BY <1>1, <1>2, <1>4, <1>5, <2>1, <3>1 DEF CountInv, Pending, FlightInv
  <2>2. CASE st # "OK"
    <3>1. tally'.ok[s] = tally.ok[s] /\ tally'.doubt[s] = tally.doubt[s] + 1
      BY <1>1, <1>3, <2>2 DEF Counted
    <3> QED  BY <1>1, <1>2, <1>4, <1>5, <2>2, <3>1 DEF CountInv, Pending, FlightInv
  <2> QED  BY <2>1, <2>2
<1> QED  BY <1>2, <1>4, <1>6

-----------------------------------------------------------------------------
(* What cached_port finds is a port, and it is kept with the others.       *)
LEMMA CachedPortType ==
  ASSUME E5TypeOK, NEW ports \in SUBSET Entries, NEW k \in Keys
  PROVE  CachedPort(ports, k) \in [op : Nat, key : Keys]
<1> DEFINE hits == {e \in ports : e.key = k}
<1>1. CASE hits = {}
  BY <1>1 DEF CachedPort, Port, E5TypeOK
<1>2. CASE hits # {}
  <2>1. (CHOOSE e \in hits : TRUE) \in Entries
    BY <1>2
  <2>2. CachedPort(ports, k) = (CHOOSE e \in hits : TRUE).port
    BY <1>2 DEF CachedPort
  <2> HIDE DEF hits
  <2> QED  BY <2>1, <2>2 DEF Entries
<1> QED  BY <1>1, <1>2

LEMMA CachedType ==
  ASSUME E5TypeOK, NEW ports \in SUBSET Entries, NEW ks \in SUBSET Keys
  PROVE  Cached(ports, ks) \in SUBSET Entries
<1>1. \A k \in ks : [key |-> k, port |-> CachedPort(ports, k)] \in Entries
  BY CachedPortType DEF Entries
<1> QED  BY <1>1 DEF Cached

LEMMA EncodeType ==
  ASSUME E5TypeOK, NEW r \in DOMAIN runners, NEW want \in Wanted,
         NEW upto \in SUBSET DOMAIN want, ~NoStream(r), Encode(r, want, upto)
  PROVE  /\ DOMAIN runners' \subseteq Runners
         /\ \A x \in DOMAIN runners' : runners'[x] \in RunnerType
         /\ missed' \subseteq Keys /\ fooled' \in BOOLEAN
<1> DEFINE rn == Refreshed(runners[r])
<1>1. DOMAIN want \subseteq Keys /\ upto \in SUBSET Keys
  BY DEF Wanted
<1>2. rn \in RunnerType
  BY DEF Refreshed, E5TypeOK, NoStream
<1>3. runners' = [runners EXCEPT ![r] = [rn EXCEPT !.ports = Cached(@, upto)]]
  BY DEF Encode
<1>4. missed' \subseteq upto
  BY DEF Encode
<1> HIDE DEF rn
<1>5. Cached(rn.ports, upto) \in SUBSET Entries
  BY <1>1, <1>2, CachedType
<1>6. [rn EXCEPT !.ports = Cached(@, upto)] \in RunnerType
  BY <1>2, <1>5
<1>7. fooled' \in BOOLEAN
  BY ZenonT(30) DEF Encode, Fooled
<1>8. /\ DOMAIN runners' \subseteq Runners
      /\ \A x \in DOMAIN runners' : runners'[x] \in RunnerType
  BY <1>3, <1>6 DEF E5TypeOK
<1> QED  BY <1>1, <1>4, <1>7, <1>8

(* What a prediction leaves is an engine of the same kind.                 *)
LEMMA AfterType ==
  ASSUME E5TypeOK, NEW s \in States, NEW e \in After(s)
  PROVE  /\ e \in Engines
         /\ e.op > 0 => e.at \in Addrs /\ e.state \in States
<1>1. PICK x : /\ e = [x EXCEPT !.state = s]
               /\ x \in {y \in {engine} : y.op > 0}
                       \cup {[engine EXCEPT !.stream = t, !.op = 0, !.at = Nil] : t \in BOOLEAN}
                       \cup {[stream |-> TRUE, op |-> engine.built + 1, at |-> a, state |-> s,
                              built |-> engine.built + 1] :
                               a \in {y \in Addrs : engine.built < MaxBuilds}}
  BY DEF After
<1>2. x \in Engines /\ (x.op > 0 => x.at \in Addrs)
  <2>1. CASE x = engine
    BY <2>1 DEF E5TypeOK
  <2>2. ASSUME NEW t \in BOOLEAN, x = [engine EXCEPT !.stream = t, !.op = 0, !.at = Nil]
        PROVE  x \in Engines /\ ~(x.op > 0)
    <3>1. engine \in Engines
      BY DEF E5TypeOK
    <3>2. x \in Engines /\ x.op = 0
      BY <2>2, <3>1
    <3> QED  BY <3>2
  <2>3. ASSUME NEW a \in Addrs,
               x = [stream |-> TRUE, op |-> engine.built + 1, at |-> a, state |-> s,
                    built |-> engine.built + 1]
        PROVE  x \in Engines /\ x.at \in Addrs
    BY <2>3 DEF E5TypeOK
  <2>4. \/ x = engine
        \/ \E t \in BOOLEAN : x = [engine EXCEPT !.stream = t, !.op = 0, !.at = Nil]
        \/ \E a \in Addrs :
             x = [stream |-> TRUE, op |-> engine.built + 1, at |-> a, state |-> s,
                  built |-> engine.built + 1]
    BY <1>1
  <2> QED  BY <2>1, <2>2, <2>3, <2>4
<1> QED  BY <1>1, <1>2

LEMMA PredictIInv ==
  ASSUME IInv, Predict
  PROVE  IInv'
<1> USE DEF IInv
<1>0. PICK s \in states, o \in Outcomes :
        /\ ~flight.live /\ tally' = Counted(s, o[2])
        /\ \E d \in Moved(o[1]) : Move(s, d)
        /\ engine' \in IF o[1] = "input" THEN {engine} ELSE After(s)
        /\ UNCHANGED <<made, box, flight, opc, ret, missed, fooled>>
  BY DEF Predict, Quiet
<1>1. PICK d \in Moved(o[1]) : Move(s, d)
  BY <1>0
<1>2. s \in States
  BY DEF E5TypeOK
<1>3. /\ o[2] \in {"OK", "EVAL", "INVALID_ARG", "INTERNAL"} /\ d \in {0, 1}
      /\ o[2] = "OK" => d = 1
  BY DEF Outcomes, Moved
<1>4. /\ CountInv' /\ steps' \in [States -> Nat]
      /\ tally' \in Tallies
  BY <1>0, <1>1, <1>2, <1>3, CountedStep
<1>5. /\ engine' \in Engines
      /\ engine'.op > 0 => engine'.at \in Addrs /\ engine'.state \in States
  BY <1>0, <1>2, AfterType DEF E5TypeOK
<1> QED  BY <1>0, <1>4, <1>5 DEF made, E5TypeOK, FlightInv, Answer, BoxInv

(* Calls that encode and take no step.                                     *)
LEMMA RefusedIInv ==
  ASSUME IInv, EncodeFails \/ SubmitRefused
  PROVE  IInv'
<1> USE DEF IInv
<1>1. /\ UNCHANGED <<open, engine, bufs, states, steps, box, flight, opc, ret>>
      /\ tally' = [tally EXCEPT !.calls = @ + 1]
  BY DEF EncodeFails, SubmitRefused
<1>2. /\ DOMAIN runners' \subseteq Runners
      /\ \A x \in DOMAIN runners' : runners'[x] \in RunnerType
      /\ missed' \subseteq Keys /\ fooled' \in BOOLEAN
  <2>1. CASE UNCHANGED <<runners, missed, fooled>>
    BY <2>1 DEF E5TypeOK
  <2>2. CASE \E r \in DOMAIN runners, want \in Wanted : \E upto \in SUBSET DOMAIN want :
               ~NoStream(r) /\ Encode(r, want, upto)
    BY <2>2, EncodeType
  <2>3. CASE EncodeFails
    BY <2>1, <2>2, <2>3 DEF EncodeFails
  <2>4. CASE SubmitRefused
    BY <2>2, <2>4 DEF SubmitRefused
  <2> QED  BY <2>3, <2>4
<1>3. /\ tally' \in Tallies
      /\ tally'.ok = tally.ok /\ tally'.doubt = tally.doubt
  BY <1>1 DEF E5TypeOK
<1>4. E5TypeOK'
  BY <1>1, <1>2, <1>3 DEF E5TypeOK
<1>5. FlightInv' /\ BoxInv'
  BY <1>1 DEF FlightInv, Answer, BoxInv
<1>6. CountInv'
  BY <1>1, <1>3 DEF CountInv, Pending
<1> QED  BY <1>4, <1>5, <1>6

LEMMA ExecuteIInv ==
  ASSUME IInv, Execute
  PROVE  IInv'
<1> USE DEF IInv
<1>1. PICK r \in DOMAIN runners, want \in Wanted, st \in Checked :
        /\ ~flight.live /\ ~NoStream(r) /\ Encode(r, want, DOMAIN want)
        /\ \E d \in IF st = "OK" THEN {1} ELSE {0, 1} : Move(engine.state, d)
        /\ tally' = Counted(engine.state, st)
        /\ UNCHANGED <<open, engine, bufs, states, box, flight, opc, ret>>
  BY DEF Execute, Quiet
<1>2. PICK d \in IF st = "OK" THEN {1} ELSE {0, 1} : Move(engine.state, d)
  BY <1>1
<1>3. engine.state \in States
  BY <1>1 DEF NoStream, E5TypeOK
<1>4. d \in {0, 1} /\ (st = "OK" => d = 1)
      /\ st \in {"OK", "EVAL", "INVALID_ARG", "INTERNAL"}
  BY DEF Checked
<1>5. /\ CountInv' /\ steps' \in [States -> Nat]
      /\ tally' \in Tallies
  BY <1>1, <1>2, <1>3, <1>4, CountedStep
<1>6. /\ DOMAIN runners' \subseteq Runners
      /\ \A x \in DOMAIN runners' : runners'[x] \in RunnerType
      /\ missed' \subseteq Keys /\ fooled' \in BOOLEAN
  BY <1>1, EncodeType
<1>7. FlightInv' /\ BoxInv'
  BY <1>1 DEF FlightInv, Answer, BoxInv
<1>8. E5TypeOK'
  BY <1>1, <1>5, <1>6 DEF E5TypeOK
<1> QED  BY <1>5, <1>7, <1>8

LEMMA ExecuteAsyncIInv ==
  ASSUME IInv, ExecuteAsync
  PROVE  IInv'
<1> USE DEF IInv
<1>1. PICK r \in DOMAIN runners, want \in Wanted, x \in Boxes :
        /\ box[x] = "free" /\ opc = "idle" /\ ~flight.live /\ ~NoStream(r)
        /\ Encode(r, want, DOMAIN want)
        /\ box' = [box EXCEPT ![x] = "raw"]
        /\ flight' = [NoFlight EXCEPT
                        !.live = TRUE, !.runner = r, !.state = engine.state,
                        !.bufs = {want[k] : k \in DOMAIN want}, !.ctx = x,
                        !.eng = "running"]
        /\ ret' = "none"
        /\ tally' = Counted(engine.state, "none")
        /\ UNCHANGED <<open, engine, bufs, states, steps, opc>>
  BY DEF ExecuteAsync, Quiet, Idle
<1>2. engine.state \in States /\ r \in Runners
  BY <1>1 DEF NoStream, E5TypeOK
<1>3. {want[k] : k \in DOMAIN want} \subseteq bufs
  BY DEF Wanted
<1>4. flight' = [live |-> TRUE, done |-> FALSE, runner |-> r,
                 bufs |-> {want[k] : k \in DOMAIN want}, state |-> engine.state,
                 ctx |-> x, eng |-> "running", ok |-> FALSE, chan |-> "empty",
                 told |-> "none"]
  BY <1>1 DEF NoFlight
<1>5. /\ tally' \in Tallies
      /\ tally'.ok = tally.ok
      /\ tally'.doubt = [tally.doubt EXCEPT ![engine.state] = @ + 1]
  BY <1>1, <1>2 DEF E5TypeOK, Counted
<1>6. E5TypeOK'
  <2>1. /\ DOMAIN runners' \subseteq Runners
        /\ \A y \in DOMAIN runners' : runners'[y] \in RunnerType
        /\ missed' \subseteq Keys /\ fooled' \in BOOLEAN
    BY <1>1, EncodeType
  <2>2. {want[k] : k \in DOMAIN want} \in SUBSET Buffers
    BY <1>3 DEF E5TypeOK
  <2>3. flight' \in Flights
    BY <1>2, <1>4, <2>2
  <2>4. box' \in [Boxes -> {"free", "raw", "sending", "leaving", "twice"}]
    BY <1>1 DEF E5TypeOK
  <2> QED  BY <1>1, <1>5, <2>1, <2>3, <2>4 DEF E5TypeOK
<1>7. FlightInv'
  <2>1. flight'.bufs \subseteq bufs'
    BY <1>1, <1>3, <1>4
  <2>2. /\ flight'.eng = "running" /\ flight'.ctx \in Boxes /\ flight'.state \in States
        /\ ~flight'.done /\ flight'.live /\ flight'.chan = "empty" /\ flight'.told = "none"
    BY <1>2, <1>4
  <2> QED  BY <1>1, <2>1, <2>2 DEF FlightInv
<1>8. BoxInv'
  <2>1. flight.eng # "none" => flight.done
    BY <1>1 DEF FlightInv
  <2>2. \A y \in Boxes : box[y] \notin {"raw", "sending"}
    BY <1>1, <2>1 DEF BoxInv, FlightInv
  <2> QED  BY <1>1, <1>4, <2>2, ZenonT(30) DEF BoxInv, E5TypeOK
<1>9. CountInv'
  <2>1. /\ tally'.doubt[engine.state] = tally.doubt[engine.state] + 1
        /\ \A s \in States \ {engine.state} : tally'.doubt[s] = tally.doubt[s]
        /\ tally.doubt \in [States -> Nat] /\ tally.ok \in [States -> Nat]
        /\ steps \in [States -> Nat]
    BY <1>2, <1>5 DEF E5TypeOK
  <2>2. flight'.eng = "running" /\ flight'.state = engine.state
    BY <1>4
  <2> QED  BY <1>1, <1>2, <1>5, <2>1, <2>2 DEF CountInv, Pending
<1> QED  BY <1>6, <1>7, <1>8, <1>9

-----------------------------------------------------------------------------
(* The engine and the trampoline.                                          *)
LEMMA EngineEndsIInv ==
  ASSUME IInv, EngineEnds
  PROVE  IInv'
<1> USE DEF IInv
<1>1. PICK ok \in BOOLEAN, d \in {0, 1} :
        /\ flight.eng = "running" /\ (ok => d = 1)
        /\ flight' = [flight EXCEPT !.eng = "ended", !.ok = ok]
        /\ steps' = [steps EXCEPT ![flight.state] = @ + d]
        /\ UNCHANGED <<made, engine, box, opc, ret, missed, fooled, tally>>
  BY DEF EngineEnds, Move
<1>2. /\ flight.state \in States /\ flight.ctx \in Boxes /\ ~flight.done
      /\ flight.told = "none" /\ flight.chan = "empty" /\ flight.live
  BY <1>1 DEF FlightInv
<1>3. E5TypeOK'
  <2>1. steps' \in [States -> Nat]
    BY <1>1, <1>2 DEF E5TypeOK
  <2>2. flight' \in Flights
    BY <1>1 DEF E5TypeOK
  <2> QED  BY <1>1, <2>1, <2>2 DEF E5TypeOK, made
<1>4. FlightInv'
  BY <1>1, <1>2 DEF FlightInv, Answer, made, E5TypeOK
<1>5. BoxInv'
  BY <1>1 DEF BoxInv, E5TypeOK
<1>6. CountInv'
  <2>1. \A s \in States : tally'.ok[s] = tally.ok[s] /\ tally'.doubt[s] = tally.doubt[s]
    BY <1>1
  <2>2. /\ steps'[flight.state] = steps[flight.state] + d
        /\ \A s \in States \ {flight.state} : steps'[s] = steps[s]
        /\ steps \in [States -> Nat] /\ steps' \in [States -> Nat]
        /\ tally.ok \in [States -> Nat] /\ tally.doubt \in [States -> Nat]
    BY <1>1, <1>2 DEF E5TypeOK
  <2>3. /\ flight'.state = flight.state /\ flight'.told = "none"
        /\ flight'.eng = "ended" /\ flight'.ok = ok
    BY <1>1, <1>2 DEF E5TypeOK
  <2>4. Pending(flight.state)
    BY <1>1, <1>2 DEF Pending
  <2> QED  BY <1>1, <1>2, <2>1, <2>2, <2>3, <2>4 DEF CountInv, Pending
<1> QED  BY <1>3, <1>4, <1>5, <1>6

LEMMA TrampolineIInv ==
  ASSUME IInv, Trampoline \/ TrampolineSends \/ TrampolineReturns
  PROVE  IInv'
<1> USE DEF IInv
<1>1. UNCHANGED <<made, engine, steps, opc, ret, missed, fooled, tally>>
  BY DEF Trampoline, TrampolineSends, TrampolineReturns
<1>2. CASE Trampoline
  <2>1. /\ flight.eng = "ended" /\ flight.ctx \in Boxes /\ box[flight.ctx] = "raw"
        /\ flight' = [flight EXCEPT !.eng = "fired"]
        /\ box' = [box EXCEPT ![flight.ctx] = "sending"]
    BY <1>2 DEF Trampoline, FlightInv, BoxInv
  <2>2. E5TypeOK'
    BY <1>1, <2>1 DEF E5TypeOK, made
  <2>3. FlightInv'
    BY <1>1, <2>1 DEF FlightInv, Answer, made, E5TypeOK
  <2>4. BoxInv'
    BY <2>1 DEF BoxInv, FlightInv, E5TypeOK
  <2>5. CountInv'
    BY <1>1, <2>1 DEF CountInv, Pending, E5TypeOK
  <2> QED  BY <2>2, <2>3, <2>4, <2>5
<1>3. CASE TrampolineSends
  <2>1. /\ flight.eng = "fired" /\ flight.ctx \in Boxes /\ ~flight.done
        /\ flight.chan = "empty"
        /\ flight' = [flight EXCEPT !.chan = IF flight.ok THEN "ok" ELSE "err"]
        /\ box' = [box EXCEPT ![flight.ctx] = "leaving"]
    BY <1>3 DEF TrampolineSends, FlightInv, BoxInv
  <2>2. E5TypeOK'
    BY <1>1, <2>1 DEF E5TypeOK, made
  <2>3. FlightInv'
    BY <1>1, <2>1 DEF FlightInv, Answer, made, E5TypeOK
  <2>4. BoxInv'
    BY <2>1 DEF BoxInv, FlightInv, E5TypeOK
  <2>5. CountInv'
    BY <1>1, <2>1 DEF CountInv, Pending, E5TypeOK
  <2> QED  BY <2>2, <2>3, <2>4, <2>5
<1>4. CASE TrampolineReturns
  <2>1. PICK x \in Boxes : box[x] = "leaving" /\ box' = [box EXCEPT ![x] = "free"]
    BY <1>4 DEF TrampolineReturns
  <2>2. flight' = flight
    BY <1>4 DEF TrampolineReturns
  <2> QED  BY <1>1, <2>1, <2>2
           DEF E5TypeOK, FlightInv, Answer, BoxInv, CountInv, Pending, made
<1> QED  BY <1>2, <1>3, <1>4

-----------------------------------------------------------------------------
(* The handle.  What an answer changes, whether the handle stays or goes.  *)
LEMMA AnswerStep ==
  ASSUME IInv, flight.live, ~flight.done, flight.chan # "empty",
         NEW f, f \in Flights,
         f.state = flight.state, f.eng = flight.eng, f.ok = flight.ok,
         f.told = Interpret(flight.chan), flight' = f,
         CountAnswer(Interpret(flight.chan)), UNCHANGED steps
  PROVE  /\ CountInv'
         /\ tally' \in Tallies
         /\ flight.eng = "fired" /\ flight.chan = Answer /\ flight.state \in States
<1> USE DEF IInv
<1>1. /\ flight.eng = "fired" /\ flight.chan = Answer /\ flight.told = "none"
      /\ flight.state \in States
  BY DEF FlightInv, E5TypeOK
<1>2. f.told # "none"
  BY DEF Interpret
<1>3. /\ tally \in Tallies /\ steps \in [States -> Nat]
  BY DEF E5TypeOK
<1>4. CASE flight.ok
  <2>1. tally' = [ok    |-> [tally.ok EXCEPT ![flight.state] = @ + 1],
                  doubt |-> [tally.doubt EXCEPT ![flight.state] = @ - 1],
                  calls |-> tally.calls]
    BY <1>1, <1>4 DEF CountAnswer, Interpret, Answer
  <2>2. Pending(flight.state)
    BY <1>1 DEF Pending
  <2>3. /\ tally.doubt[flight.state] >= 1
        /\ tally.ok[flight.state] + 1 <= steps[flight.state]
        /\ steps[flight.state] <= tally.ok[flight.state] + tally.doubt[flight.state]
    BY <1>1, <1>4, <2>2 DEF CountInv
  <2>4. tally' \in Tallies
    BY <1>1, <1>3, <2>1, <2>3 DEF Tallies
  <2>5. /\ tally'.ok[flight.state] = tally.ok[flight.state] + 1
        /\ tally'.doubt[flight.state] = tally.doubt[flight.state] - 1
        /\ \A s \in States \ {flight.state} :
             tally'.ok[s] = tally.ok[s] /\ tally'.doubt[s] = tally.doubt[s]
    BY <1>1, <1>3, <2>1 DEF Tallies
  <2>6. CountInv'
    BY <1>1, <1>2, <1>3, <2>3, <2>4, <2>5 DEF CountInv, Pending, Tallies
  <2> QED  BY <1>1, <2>4, <2>6
<1>5. CASE ~flight.ok
  <2>1. tally' = tally
    BY <1>1, <1>5 DEF CountAnswer, Interpret, Answer
  <2> QED  BY <1>1, <1>2, <1>3, <2>1 DEF CountInv, Pending
<1> QED  BY <1>4, <1>5

LEMMA WaitTimeoutIInv ==
  ASSUME IInv, WaitTimeout
  PROVE  IInv'
<1> USE DEF IInv
<1>1. /\ flight.live /\ opc = "idle"
      /\ UNCHANGED <<made, engine, steps, box, opc, missed, fooled>>
  BY DEF WaitTimeout, Idle
<1>2. CASE UNCHANGED <<flight, tally>> /\ ret' \in {"none", "OK"}
  BY <1>1, <1>2 DEF E5TypeOK, FlightInv, Answer, BoxInv, CountInv, Pending, made
<1>3. CASE ~flight.done /\ flight.chan # "empty" /\ Resolves(Interpret(flight.chan))
  <2> DEFINE st == Interpret(flight.chan)
  <2>1. flight.told = "none"
    BY <1>3 DEF FlightInv, E5TypeOK
  <2>2. flight' = [flight EXCEPT !.done = TRUE, !.chan = "empty", !.told = st]
    BY <1>3, <2>1 DEF Resolves, Received, E5TypeOK, Flights
  <2>3. /\ flight' \in Flights /\ flight'.state = flight.state
        /\ flight'.eng = flight.eng /\ flight'.ok = flight.ok /\ flight'.told = st
        /\ flight'.done /\ flight'.chan = "empty" /\ flight'.live = flight.live
        /\ flight'.ctx = flight.ctx /\ flight'.bufs = flight.bufs
    BY <2>2 DEF E5TypeOK, Interpret, Flights
  <2>4. /\ CountInv' /\ tally' \in Tallies
        /\ flight.eng = "fired" /\ flight.chan = Answer /\ flight.state \in States
    BY <1>1, <1>3, <2>3, AnswerStep DEF Resolves
  <2>5. E5TypeOK'
    BY <1>1, <1>3, <2>3, <2>4 DEF E5TypeOK, made, Resolves, Interpret
  <2>6. FlightInv'
    BY <1>1, <2>3, <2>4 DEF FlightInv, Answer, Interpret, made
  <2>7. BoxInv'
    BY <1>1, <1>3, <2>3 DEF BoxInv
  <2> QED  BY <2>4, <2>5, <2>6, <2>7
<1> QED  BY <1>2, <1>3 DEF WaitTimeout, StillRunning

LEMMA EndHandleIInv ==
  ASSUME IInv, Wait \/ DropHandle
  PROVE  IInv'
BY DEF Wait, DropHandle, EndHandle, IInv, E5TypeOK, FlightInv, Answer, BoxInv,
       CountInv, Pending, made

LEMMA WaitInnerIInv ==
  ASSUME IInv, WaitInner
  PROVE  IInv'
<1> USE DEF IInv
<1> DEFINE st == IF flight.done THEN "OK" ELSE Interpret(flight.chan)
<1>1. /\ opc # "idle" /\ opc' = "idle" /\ flight.live
      /\ flight' = [Received(flight, st) EXCEPT !.live = FALSE, !.bufs = {}, !.runner = Nil]
      /\ ret' \in {st, ret} /\ CountAnswer(st)
      /\ UNCHANGED <<made, engine, steps, box, missed, fooled>>
      /\ flight.done \/ flight.chan # "empty"
  BY DEF WaitInner, Blocked, FlightInv
<1>2. /\ flight' \in Flights /\ flight'.state = flight.state
      /\ flight'.eng = flight.eng /\ flight'.ok = flight.ok
      /\ flight'.told = IF flight.told = "none" THEN st ELSE flight.told
      /\ flight'.done /\ flight'.chan = "empty" /\ ~flight'.live
      /\ flight'.ctx = flight.ctx
  BY <1>1, ZenonT(30) DEF Received, E5TypeOK, Interpret, Flights
<1>3. st \in {"OK", "INTERNAL"}
  BY DEF Interpret
<1>4. CASE flight.done
  <2>1. flight.told # "none" /\ tally' = tally /\ flight'.told = flight.told
    BY <1>1, <1>2, <1>4 DEF FlightInv, CountAnswer
  <2>2. CountInv'
    BY <1>1, <1>2, <2>1 DEF CountInv, Pending
  <2>3. FlightInv'
    BY <1>1, <1>2, <1>4, <2>1 DEF FlightInv, Answer
  <2>4. BoxInv'
    BY <1>1, <1>2, <1>4 DEF BoxInv
  <2>5. E5TypeOK'
    BY <1>1, <1>2, <1>3, <2>1 DEF E5TypeOK, made
  <2> QED  BY <2>2, <2>3, <2>4, <2>5
<1>5. CASE ~flight.done
  <2>1. flight.told = "none" /\ flight'.told = Interpret(flight.chan)
    BY <1>2, <1>5 DEF FlightInv, E5TypeOK
  <2>6. CountAnswer(Interpret(flight.chan))
    BY <1>1, <1>5
  <2>7. /\ flight.live /\ ~flight.done /\ flight.chan # "empty" /\ UNCHANGED steps
        /\ flight' \in Flights /\ flight'.state = flight.state
        /\ flight'.eng = flight.eng /\ flight'.ok = flight.ok
    BY <1>1, <1>2, <1>5
  <2>2. /\ CountInv' /\ tally' \in Tallies
        /\ flight.eng = "fired" /\ flight.chan = Answer /\ flight.state \in States
    BY <2>1, <2>6, <2>7, AnswerStep
  <2>3. FlightInv'
    BY <1>1, <1>2, <2>1, <2>2 DEF FlightInv, Answer, Interpret
  <2>4. BoxInv'
    BY <1>1, <1>2, <1>5 DEF BoxInv
  <2>5. E5TypeOK'
    BY <1>1, <1>2, <1>3, <2>2 DEF E5TypeOK, made
  <2> QED  BY <2>2, <2>3, <2>4, <2>5
<1> QED  BY <1>4, <1>5

-----------------------------------------------------------------------------
LEMMA NextIInv == IInv /\ [E5Next]_vars => IInv'
<1> SUFFICES ASSUME IInv, [E5Next]_vars PROVE IInv'
  OBVIOUS
<1>1. CASE UNCHANGED vars
  BY <1>1 DEF vars, IInv, E5TypeOK, FlightInv, Answer, BoxInv, CountInv, Pending
<1>2. CASE Client
  BY <1>2, MakingIInv, PredictIInv, RefusedIInv, ExecuteIInv, ExecuteAsyncIInv,
     WaitTimeoutIInv, EndHandleIInv DEF Client, Making
<1>3. CASE Completion
  BY <1>3, EngineEndsIInv, TrampolineIInv DEF Completion
<1> QED  BY <1>1, <1>2, <1>3, WaitInnerIInv DEF E5Next

(* The types, where a submission can be, whose its sender is, and what the  *)
(* answers say of the steps: the strengthening the next three rest on.      *)
THEOREM E5rtInvariant == E5Spec => []IInv
<1>1. E5Init => IInv
  BY InitIInv
<1>2. IInv /\ [E5Next]_vars => IInv'
  BY NextIInv
<1> QED  BY <1>1, <1>2, PTL DEF E5Spec

(* A boxed sender is freed once, whoever has to do it.                     *)
THEOREM E5rtSenderReclaimed == E5Spec => []SenderReclaimed
<1>1. IInv => SenderReclaimed
  BY DEF IInv, BoxInv, SenderReclaimed
<1> QED  BY <1>1, E5rtInvariant, PTL

(* A handle that is gone has left the engine, and its first answer is the  *)
(* completion's.                                                           *)
THEOREM E5rtHandleIsBarrier == E5Spec => []HandleIsBarrier
<1>1. IInv => HandleIsBarrier
  BY DEF IInv, FlightInv, HandleIsBarrier, Answer
<1> QED  BY <1>1, E5rtInvariant, PTL

(* The state moves at most once for a call, and for every call that        *)
(* answered Ok.                                                            *)
THEOREM E5rtStateCountsSteps == E5Spec => []StateCountsSteps
<1>1. IInv => StateCountsSteps
  BY DEF IInv, CountInv, StateCountsSteps
<1> QED  BY <1>1, E5rtInvariant, PTL

-----------------------------------------------------------------------------
(* The ports of a runner that last resolved the current operation.          *)

LEMMA CachedPortGood ==
  ASSUME NEW ports, GoodPorts(ports), NEW k
  PROVE  CachedPort(ports, k) = Port(k)
<1> DEFINE hits == {e \in ports : e.key = k}
           hit == CHOOSE e \in hits : TRUE
<1>1. CASE hits = {}
  BY <1>1 DEF CachedPort
<1>2. CASE hits # {}
  <2>1. hit \in hits
    BY <1>2
  <2>2. CachedPort(ports, k) = hit.port
    BY <1>2 DEF CachedPort
  <2>3. hit.key = k /\ hit.port = Port(hit.key)
    BY <2>1 DEF GoodPorts
  <2> QED  BY <2>2, <2>3
<1> QED  BY <1>1, <1>2

LEMMA CachedGood ==
  ASSUME NEW ports, GoodPorts(ports), NEW ks
  PROVE  GoodPorts(Cached(ports, ks))
<1>1. \A k \in ks : CachedPort(ports, k) = Port(k)
  BY CachedPortGood
<1> QED  BY <1>1 DEF Cached, GoodPorts

(* With such ports every port gets the buffer the call names for it.        *)
LEMMA BoundGood ==
  ASSUME NEW ports, GoodPorts(ports), NEW want, NEW k \in DOMAIN want
  PROVE  Bound(ports, want)[k] = want[k]
<1> DEFINE by == {x \in DOMAIN want : CachedPort(ports, x) = Port(k)}
           last == IF \E x \in by : x[2] = "out" THEN {x \in by : x[2] = "out"} ELSE by
<1>1. \A x : CachedPort(ports, x) = Port(x)
  BY CachedPortGood
<1>2. \A x : Port(x) = Port(k) => x = k
  BY DEF Port
<1>3. by = {k}
  BY <1>1, <1>2
<1>4. last = {k}
  BY <1>3
<1>5. Bound(ports, want)[k] = IF by = {} THEN Nil ELSE want[CHOOSE x \in last : TRUE]
  BY DEF Bound
<1> HIDE DEF by, last
<1> QED  BY <1>3, <1>4, <1>5

LEMMA EncodeGood ==
  ASSUME E5TypeOK, PortInv, NEW r \in DOMAIN runners, NEW want \in Wanted,
         NEW upto \in SUBSET DOMAIN want, ~NoStream(r), Encode(r, want, upto),
         UNCHANGED engine
  PROVE  PortInv'
<1> DEFINE rn == Refreshed(runners[r])
           new == [rn EXCEPT !.ports = Cached(@, upto)]
           got == Bound(Cached(rn.ports, upto), want)
<1>1. runners[r] \in RunnerType /\ engine \in Engines /\ engine.op > 0
  BY DEF E5TypeOK, NoStream
<1>2. /\ rn.number \in Nat /\ 0 < rn.number /\ rn.number <= engine.built
      /\ \E a, b, c : rn = [op |-> a, ports |-> b, number |-> c]
  BY <1>1 DEF Refreshed, PortInv
<1>3. rn.number = engine.op => GoodPorts(rn.ports)
  BY DEF Refreshed, PortInv, GoodPorts
<1>4. ~Fooled(runners[r]) => rn.number = engine.op
  BY DEF Refreshed, Fooled
<1>5. runners' = [runners EXCEPT ![r] = new] /\ fooled' = Fooled(runners[r])
      /\ missed' = IF upto # DOMAIN want THEN {} ELSE {k \in upto : got[k] # want[k]}
  BY DEF Encode
<1> HIDE DEF rn
<1>6. rn.number = engine.op => GoodPorts(Cached(rn.ports, upto))
  BY <1>3, CachedGood
<1>7. new.ports = Cached(rn.ports, upto) /\ new.number = rn.number
  BY <1>2
<1>8. MissesOnlyIfFooled'
  <2> SUFFICES ASSUME ~Fooled(runners[r])
               PROVE  missed' = {}
    BY <1>5 DEF MissesOnlyIfFooled
  <2>1. \A k \in DOMAIN want : got[k] = want[k]
    BY <1>4, <1>6, BoundGood
  <2> QED  BY <1>5, <2>1
<1> HIDE DEF new
<1>9. ASSUME NEW x \in DOMAIN runners'
      PROVE  /\ 0 < runners'[x].number /\ runners'[x].number <= engine.built
             /\ runners'[x].number = engine.op => GoodPorts(runners'[x].ports)
  <2>1. x \in DOMAIN runners
    BY <1>5, <1>9
  <2>2. CASE x = r
    <3>1. runners'[x] = new
      BY <1>5, <2>1, <2>2
    <3> QED  BY <1>2, <1>6, <1>7, <3>1
  <2>3. CASE x # r
    <3>1. runners'[x] = runners[x]
      BY <1>5, <2>1, <2>3
    <3> QED  BY <2>1, <3>1 DEF PortInv
  <2> QED  BY <2>2, <2>3
<1>10. \A ports : GoodPorts(ports) => GoodPorts(ports)'
  BY DEF GoodPorts, Port
<1> QED  BY <1>8, <1>9, <1>10 DEF PortInv, GoodPorts, Port

(* A prediction leaves the operation there was, none, or one with a number  *)
(* no runner has.                                                           *)
LEMMA AfterGood ==
  ASSUME E5TypeOK, PortInv, NEW s \in States, engine' \in After(s),
         UNCHANGED <<runners, missed, fooled>>
  PROVE  PortInv'
<1>1. PICK x : /\ engine' = [x EXCEPT !.state = s]
               /\ x \in {y \in {engine} : y.op > 0}
                       \cup {[engine EXCEPT !.stream = t, !.op = 0, !.at = Nil] : t \in BOOLEAN}
                       \cup {[stream |-> TRUE, op |-> engine.built + 1, at |-> a, state |-> s,
                              built |-> engine.built + 1] :
                               a \in {y \in Addrs : engine.built < MaxBuilds}}
  BY DEF After
<1>2. engine \in Engines
  BY DEF E5TypeOK
<1>3. MissesOnlyIfFooled'
  BY DEF PortInv, MissesOnlyIfFooled
<1>4. \A r \in DOMAIN runners : runners[r].number \in Nat
  BY DEF E5TypeOK
<1>5. CASE x = engine
  <2>1. engine'.op = engine.op /\ engine'.built = engine.built
    BY <1>1, <1>2, <1>5
  <2> QED  BY <1>3, <2>1 DEF PortInv, GoodPorts, Port
<1>6. CASE \E t \in BOOLEAN : x = [engine EXCEPT !.stream = t, !.op = 0, !.at = Nil]
  <2>1. engine'.op = 0 /\ engine'.built = engine.built
    BY <1>1, <1>2, <1>6
  <2> QED  BY <1>2, <1>3, <1>4, <2>1 DEF PortInv
<1>7. CASE \E a \in Addrs :
             x = [stream |-> TRUE, op |-> engine.built + 1, at |-> a, state |-> s,
                  built |-> engine.built + 1]
  <2>1. PICK a \in Addrs :
          x = [stream |-> TRUE, op |-> engine.built + 1, at |-> a, state |-> s,
               built |-> engine.built + 1]
    BY <1>7
  <2>2. x.op = engine.built + 1 /\ x.built = engine.built + 1
    BY <2>1
  <2>3. engine'.op = x.op /\ engine'.built = x.built
    <3>1. engine' = [x EXCEPT !.state = s]
      BY <1>1
    <3> QED  BY <2>1, <3>1
  <2>4. engine'.op = engine.built + 1 /\ engine'.built = engine.built + 1
    BY <2>2, <2>3
  <2> QED  BY <1>2, <1>3, <1>4, <2>4 DEF PortInv
<1> QED  BY <1>1, <1>5, <1>6, <1>7

LEMMA NextPorts ==
  ASSUME E5TypeOK, PortInv, [E5Next]_vars
  PROVE  PortInv'
<1>1. CASE UNCHANGED <<engine, runners, missed, fooled>>
  BY <1>1 DEF PortInv, MissesOnlyIfFooled, GoodPorts, Port
<1>2. CASE NewRunner
  <2>1. PICK r \in Runners \ DOMAIN runners :
          /\ engine.op > 0
          /\ runners' = [x \in DOMAIN runners \cup {r} |->
                           IF x = r THEN [op |-> engine.at, ports |-> {},
                                            number |-> engine.op]
                           ELSE runners[x]]
    BY <1>2 DEF NewRunner
  <2>2. \A x \in DOMAIN runners' :
          \/ runners'[x].ports = {} /\ runners'[x].number = engine.op
          \/ x \in DOMAIN runners /\ runners'[x] = runners[x]
    BY <2>1
  <2>3. UNCHANGED <<engine, missed, fooled>>
    BY <1>2 DEF NewRunner
  <2>4. engine.op > 0
    BY <2>1
  <2> QED  BY <2>2, <2>3, <2>4 DEF PortInv, MissesOnlyIfFooled, GoodPorts, Port, E5TypeOK
<1>3. CASE DropRunner
  BY <1>3 DEF DropRunner, PortInv, MissesOnlyIfFooled, GoodPorts, Port
<1>4. CASE DropModel
  <2>1. /\ engine'.op = 0 /\ engine'.built = engine.built /\ DOMAIN runners' = {}
        /\ UNCHANGED <<missed, fooled>>
    BY <1>4 DEF DropModel, Cold
  <2> QED  BY <2>1 DEF PortInv, MissesOnlyIfFooled, E5TypeOK
<1>5. CASE Predict
  <2>1. PICK s \in states, o \in Outcomes :
          /\ engine' \in IF o[1] = "input" THEN {engine} ELSE After(s)
          /\ UNCHANGED <<runners, missed, fooled>>
    BY <1>5 DEF Predict, made
  <2>2. CASE engine' = engine
    BY <1>1, <2>1, <2>2
  <2>3. CASE engine' \in After(s)
    BY <2>1, <2>3, AfterGood DEF E5TypeOK
  <2> QED  BY <2>1, <2>2, <2>3
<1>6. CASE \/ EncodeFails \/ Execute \/ ExecuteAsync \/ SubmitRefused
  <2>1. UNCHANGED engine
    BY <1>6 DEF EncodeFails, Execute, ExecuteAsync, SubmitRefused
  <2>2. CASE UNCHANGED <<runners, missed, fooled>>
    BY <1>1, <2>1, <2>2
  <2>3. CASE \E r \in DOMAIN runners, want \in Wanted : \E upto \in SUBSET DOMAIN want :
               ~NoStream(r) /\ Encode(r, want, upto)
    BY <2>1, <2>3, EncodeGood
  <2>4. \/ UNCHANGED <<runners, missed, fooled>>
        \/ \E r \in DOMAIN runners, want \in Wanted : \E upto \in SUBSET DOMAIN want :
             ~NoStream(r) /\ Encode(r, want, upto)
    <3>1. CASE EncodeFails
      BY <3>1 DEF EncodeFails
    <3>2. CASE \E r \in DOMAIN runners, want \in Wanted :
                 ~NoStream(r) /\ Encode(r, want, DOMAIN want)
      BY <3>2
    <3>3. CASE Execute \/ ExecuteAsync \/ SubmitRefused
      BY <3>2, <3>3 DEF Execute, ExecuteAsync, SubmitRefused
    <3> QED  BY <1>6, <3>1, <3>3
  <2> QED  BY <2>2, <2>3, <2>4
<1>7. CASE \/ NewState \/ DropState \/ NewBuffer \/ DropBuffer
           \/ WaitTimeout \/ Wait \/ DropHandle \/ WaitInner \/ Completion
           \/ UNCHANGED vars
  BY <1>1, <1>7 DEF NewState, DropState, NewBuffer, DropBuffer, WaitTimeout, Wait,
     DropHandle, EndHandle, WaitInner, Completion, EngineEnds, Trampoline,
     TrampolineSends, TrampolineReturns, made, vars
<1> QED  BY <1>2, <1>3, <1>4, <1>5, <1>6, <1>7 DEF E5Next, Client

(* What ran on the engine had the buffers of its own call on every port,    *)
(* whatever the runner had cached, however many calls failed half way and   *)
(* however often the operation was rebuilt, unless the runner met another   *)
(* operation at the address it remembers.                                   *)
THEOREM E5rtMissesOnlyIfFooled == E5Spec => []MissesOnlyIfFooled
<1>1. E5Init => PortInv
  BY DEF E5Init, PortInv, MissesOnlyIfFooled, Cold
<1>2. IInv /\ PortInv /\ [E5Next]_vars => PortInv'
  BY NextPorts DEF IInv
<1>3. PortInv => MissesOnlyIfFooled
  BY DEF PortInv
<1> QED  BY <1>1, <1>2, <1>3, E5rtInvariant, PTL DEF E5Spec
=============================================================================
