--------------------------- MODULE PVMonitorProofs ----------------------------
(***************************************************************************)
(* TLAPS proofs about PVMonitor, for every set of monitors and reads, any  *)
(* widths of the two pools and any cap on the events.                      *)
(*                                                                         *)
(* The invariant says of each monitor what its callbacks have gathered of  *)
(* what arrived (Gathered, Seen), and of an answer under assembly which    *)
(* parts of it are final (Answer): all of them, if no callback was under   *)
(* way at the close.                                                       *)
(***************************************************************************)
EXTENDS PVMonitor, SequenceTheorems, FiniteSetTheorems, TLAPS

Pending(m) == IF callback[m] = Value THEN 1 ELSE 0

(* Nothing happens on a channel before its thread subscribed.              *)
Unsubscribed(m) ==
  thread[m] \in {"none", "queued", "subscribing", "failed"} =>
    /\ callback[m] = Nothing /\ arrived[m] = 0 /\ kinds[m] = {}
    /\ collected[m] = <<>> /\ notices[m] = {} /\ ~stop[m]

(* The values collected are the first that arrived, but for the one that   *)
(* is being delivered, up to one more than the cap.                        *)
Gathered(m) ==
  /\ collected[m] = [i \in 1 .. Len(collected[m]) |-> i]
  /\ Len(collected[m]) <= MaxEvents + 1
  /\ Len(collected[m]) + Pending(m) <= arrived[m]
  /\ Len(collected[m]) <= MaxEvents => Len(collected[m]) + Pending(m) = arrived[m]
  /\ stop[m] => Len(collected[m]) = MaxEvents + 1 /\ callback[m] = Nothing

(* What was noticed is what p4p delivered, until the stop.                 *)
Seen(m) ==
  /\ notices[m] \union ({callback[m]} \ {Nothing}) \subseteq kinds[m]
  /\ ~stop[m] => kinds[m] = notices[m] \union ({callback[m]} \ {Nothing})
  /\ Value \in notices[m] <=> Len(collected[m]) > 0

(* The answer is assembled when the thread is done; what is settled stays. *)
Assembled(m) ==
  /\ call[m] \in {"measured", "sliced", "judged", "returned"} => thread[m] = "done"
  /\ settled[m] => thread[m] = "done" /\ callback[m] = Nothing

Answer(m) ==
  LET have == Len(collected[m])
      shown == Len(result[m].events) IN
  /\ call[m] \in {"measured", "sliced", "judged", "returned"} =>
       /\ result[m].truncated => have > MaxEvents
       /\ settled[m] /\ ~result[m].truncated => have <= MaxEvents
  /\ call[m] \in {"sliced", "judged", "returned"} =>
       /\ result[m].events = [i \in 1 .. shown |-> i]
       /\ shown <= MaxEvents /\ shown <= have
       /\ result[m].truncated => shown = MaxEvents
       /\ settled[m] => shown = have \/ (have > MaxEvents /\ shown = MaxEvents)
  /\ call[m] \in {"judged", "returned"} =>
       /\ result[m].connection = "connected" => Value \in notices[m]
       /\ result[m].events # <<>> => result[m].connection = "connected"
       /\ settled[m] => result[m].connection = State(m)
  /\ call[m] = "returned" => (settled[m] => result[m].detail = Detail(m))

MonitorInv(m) ==
  Unsubscribed(m) /\ Gathered(m) /\ Seen(m) /\ Assembled(m) /\ Answer(m)


USE PVMonitorAssumption

(* A monitor that a step does not touch keeps its invariant.               *)
LEMMA FrameMonitor ==
  ASSUME NEW m \in Monitors, MonitorInv(m),
         call'[m] = call[m], thread'[m] = thread[m], stop'[m] = stop[m],
         callback'[m] = callback[m], arrived'[m] = arrived[m], kinds'[m] = kinds[m],
         collected'[m] = collected[m], notices'[m] = notices[m],
         settled'[m] = settled[m], result'[m] = result[m]
  PROVE  MonitorInv(m)'
<1>1. State(m)' = State(m) /\ Detail(m)' = Detail(m) /\ Pending(m)' = Pending(m)
  BY DEF State, Detail, Pending
<1>2. QED
  BY <1>1 DEF MonitorInv, Unsubscribed, Gathered, Seen, Assembled, Answer

(* A step of one monitor, its coroutine, its thread and its callbacks.     *)
MonitorMoves(m) ==
  \/ Monitor(m) \/ StartMonitor(m) \/ Cancel(m)
  \/ ThreadStep(m) \/ CallbackStep(m) \/ LoopStep(m)
  \/ \E item \in Notices \union {Value} : Deliver(m, item)

LEMMA OthersStay ==
  ASSUME TypeOK, NEW m \in Monitors, MonitorMoves(m), NEW o \in Monitors, o # m
  PROVE  /\ call'[o] = call[o] /\ thread'[o] = thread[o] /\ stop'[o] = stop[o]
         /\ callback'[o] = callback[o] /\ arrived'[o] = arrived[o] /\ kinds'[o] = kinds[o]
         /\ collected'[o] = collected[o] /\ notices'[o] = notices[o]
         /\ settled'[o] = settled[o] /\ result'[o] = result[o]
<1> USE DEF TypeOK, channel, pools, CallGoto, ThreadGoto
<1>1. CASE Monitor(m) \/ StartMonitor(m) \/ Cancel(m)
  BY <1>1 DEF Monitor, StartMonitor, Cancel
<1>2. CASE ThreadStep(m)
  BY <1>2 DEF ThreadStep, Subscribe, SubscribeFail, StopWaiting, Close
<1>3. CASE CallbackStep(m)
  BY <1>3 DEF CallbackStep, RecordNotice, Collect
<1>4. CASE LoopStep(m)
  BY <1>4 DEF LoopStep, Fail, Measure, Slice, Judge, Explain
<1>5. CASE \E item \in Notices \union {Value} : Deliver(m, item)
  BY <1>5 DEF Deliver
<1>6. QED
  BY <1>1, <1>2, <1>3, <1>4, <1>5 DEF MonitorMoves
-----------------------------------------------------------------------------
(* The pools.                                                              *)

(* A withdrawal leaves a queue of the same calls.                          *)
LEMMA RemoveType ==
  ASSUME NEW S, NEW seq \in Seq(S), NEW x
  PROVE  Remove(seq, x) \in Seq(S)
<1>1. CASE \E i \in 1 .. Len(seq) : seq[i] = x
  <2> DEFINE k == CHOOSE i \in 1 .. Len(seq) : seq[i] = x
  <2>1. k \in 1 .. Len(seq) /\ Len(seq) \in Nat
    BY <1>1
  <2> HIDE DEF k
  <2>2. SubSeq(seq, 1, k - 1) \in Seq(S) /\ SubSeq(seq, k + 1, Len(seq)) \in Seq(S)
    BY <2>1, SubSeqProperties
  <2>3. SubSeq(seq, 1, k - 1) \o SubSeq(seq, k + 1, Len(seq)) \in Seq(S)
    BY <2>2, ConcatProperties
  <2>4. QED
    BY <1>1, <2>3 DEF Remove, k
<1>2. CASE ~\E i \in 1 .. Len(seq) : seq[i] = x
  BY <1>2 DEF Remove
<1>3. QED
  BY <1>1, <1>2

(* A thread is taken from a pool that has one, or goes back to it.         *)
LEMMA PoolFits ==
  ASSUME NEW S, IsFiniteSet(S), NEW N \in Nat, Cardinality(S) <= N, NEW x
  PROVE  /\ IsFiniteSet(S \ {x}) /\ Cardinality(S \ {x}) <= N
         /\ Cardinality(S) < N => IsFiniteSet(S \union {x}) /\ Cardinality(S \union {x}) <= N
<1>1. Cardinality(S) \in Nat
  BY FS_CardinalityType
<1>2. IsFiniteSet(S \ {x}) /\ Cardinality(S \ {x}) <= Cardinality(S)
  BY FS_Subset
<1>3. IsFiniteSet(S \union {x}) /\ Cardinality(S \union {x}) <= Cardinality(S) + 1
  BY <1>1, FS_AddElement
<1>4. Cardinality(S \ {x}) \in Nat /\ Cardinality(S \union {x}) \in Nat
  BY <1>2, <1>3, FS_CardinalityType
<1>5. QED
  BY <1>1, <1>2, <1>3, <1>4

(* The pools are never wider than they were made.                          *)
Pools ==
  /\ IsFiniteSet(bulkhead) /\ IsFiniteSet(default)
  /\ queue \in Seq(Monitors) /\ waiting \in Seq(Reads)
  /\ reads \in [Reads -> {"idle", "queued", "running", "done"}]
  /\ bulkhead \subseteq Monitors /\ Cardinality(bulkhead) <= MonitorWidth
  /\ default \subseteq Monitors \union Reads /\ Cardinality(default) <= PoolWidth

LEMMA PoolsKept ==
  ASSUME Pools, [Next]_vars
  PROVE  Pools'
<1> USE DEF Pools
<1>0. MonitorWidth \in Nat /\ PoolWidth \in Nat
  OBVIOUS
<1>1. ASSUME NEW m \in Monitors, Monitor(m) PROVE Pools'
  BY <1>1 DEF Monitor
<1>2. ASSUME NEW m \in Monitors, StartMonitor(m) PROVE Pools'
  <2>1. IsFiniteSet(bulkhead') /\ Cardinality(bulkhead') <= MonitorWidth
    BY <1>0, <1>2, PoolFits DEF StartMonitor
  <2>2. queue' \in Seq(Monitors)
    BY <1>2 DEF StartMonitor
  <2>3. QED
    BY <1>2, <2>1, <2>2 DEF StartMonitor
<1>3. ASSUME NEW m \in Monitors, Cancel(m) PROVE Pools'
  BY <1>3, RemoveType DEF Cancel
<1>4. ASSUME NEW m \in Monitors, Release(m) PROVE Pools'
  <2>1. /\ IsFiniteSet(bulkhead') /\ Cardinality(bulkhead') <= MonitorWidth
        /\ IsFiniteSet(default') /\ Cardinality(default') <= PoolWidth
    BY <1>0, <1>4, PoolFits DEF Release
  <2>2. QED
    BY <1>4, <2>1 DEF Release
<1>5. ASSUME NEW r \in Reads, Read(r) PROVE Pools'
  BY <1>5 DEF Read
<1>6. ASSUME NEW r \in Reads, StartRead(r) PROVE Pools'
  <2>1. IsFiniteSet(default') /\ Cardinality(default') <= PoolWidth
    BY <1>0, <1>6, PoolFits DEF StartRead
  <2>2. waiting' \in Seq(Reads)
    BY <1>6 DEF StartRead
  <2>3. QED
    BY <1>6, <2>1, <2>2 DEF StartRead
<1>7. ASSUME NEW r \in Reads, EndRead(r) PROVE Pools'
  <2>1. IsFiniteSet(default') /\ Cardinality(default') <= PoolWidth
    BY <1>0, <1>7, PoolFits DEF EndRead
  <2>2. QED
    BY <1>7, <2>1 DEF EndRead
<1>8. ASSUME UNCHANGED pools PROVE Pools'
  BY <1>8 DEF pools
<1>9. ASSUME NEW m \in Monitors, ThreadStep(m) \/ CallbackStep(m) \/ LoopStep(m)
             \/ \E item \in Notices \union {Value} : Deliver(m, item)
      PROVE  Release(m) \/ UNCHANGED pools
  BY <1>9 DEF ThreadStep, Subscribe, SubscribeFail, StopWaiting, Close, CallbackStep,
     RecordNotice, Collect, LoopStep, Fail, Measure, Slice, Judge, Explain, Deliver
<1>10. QED
  BY <1>1, <1>2, <1>3, <1>4, <1>5, <1>6, <1>7, <1>8, <1>9 DEF Next, vars
-----------------------------------------------------------------------------
(* The inductive invariant.                                                *)
IInv == TypeOK /\ Pools /\ \A m \in Monitors : MonitorInv(m)

CallStates == {"idle", "awaiting", "measured", "sliced", "judged", "returned", "raised",
               "cancelled"}
ThreadStates == {"none", "queued", "subscribing", "waiting", "closing", "done", "failed"}
Details == {Nothing, "errors", "never connected", "ended by the server", "undetermined"}
Results == [truncated : BOOLEAN, events : Seq(Nat),
            connection : Verdicts \union {Nothing}, detail : Details]

(* What is known of the values of one monitor, a field at a time.          *)
LEMMA ChannelTyped ==
  ASSUME TypeOK, NEW m \in Monitors
  PROVE  /\ call \in [Monitors -> CallStates] /\ thread \in [Monitors -> ThreadStates]
         /\ stop \in [Monitors -> BOOLEAN] /\ settled \in [Monitors -> BOOLEAN]
         /\ callback \in [Monitors -> Notices \union {Value, Nothing}]
         /\ kinds \in [Monitors -> SUBSET (Notices \union {Value})]
         /\ notices \in [Monitors -> SUBSET (Notices \union {Value})]
         /\ arrived \in [Monitors -> Nat] /\ arrived[m] \in Nat /\ arrived[m] + 1 \in Nat
         /\ collected \in [Monitors -> Seq(Nat)] /\ collected[m] \in Seq(Nat)
         /\ Len(collected[m]) \in Nat /\ result \in [Monitors -> Results]
<1>1. arrived \in [Monitors -> Nat] /\ collected \in [Monitors -> Seq(Nat)]
  BY DEF TypeOK
<1>2. arrived[m] \in Nat /\ collected[m] \in Seq(Nat)
  BY <1>1
<1>3. arrived[m] + 1 \in Nat /\ Len(collected[m]) \in Nat
  BY <1>2
<1>4. QED
  BY <1>1, <1>2, <1>3 DEF TypeOK, CallStates, ThreadStates, Results, Details

(* What State and Detail can say. *)
LEMMA SayingsTyped ==
  ASSUME NEW m \in Monitors
  PROVE  State(m) \in Verdicts /\ Detail(m) \in Details
<1>1. State(m) \in Verdicts
  BY DEF State, Verdicts
<1>2. Detail(m) \in Details
  BY <1>1 DEF Detail, Verdicts, Details
<1>3. QED
  BY <1>1, <1>2

(* A sequence that has every number at its own place counts them.          *)
LEMMA Counts ==
  ASSUME NEW s \in Seq(Nat), \A i \in 1 .. Len(s) : s[i] = i
  PROVE  s = [i \in 1 .. Len(s) |-> i]
<1>1. s \in [1 .. Len(s) -> Nat]
  BY LenProperties
<1>2. s = [i \in 1 .. Len(s) |-> s[i]]
  BY <1>1
<1>3. QED
  BY <1>2

(* What each of the states says was seen of the channel.                   *)
LEMMA StateSays ==
  ASSUME NEW m \in Monitors
  PROVE  /\ State(m) = "connected" <=> Value \in notices[m]
         /\ State(m) = "disconnected" => notices[m] = {"disconnected"}
<1>1. CASE Value \in notices[m]
  <2>1. notices[m] # {"disconnected"}
    BY <1>1 DEF Value
  <2>2. State(m) = "connected"
    BY <1>1, <2>1 DEF State
  <2>3. QED
    BY <1>1, <2>2
<1>2. CASE notices[m] = {"disconnected"}
  <2>1. Value \notin notices[m]
    BY <1>2 DEF Value
  <2>2. State(m) = "disconnected"
    BY <1>2, <2>1 DEF State
  <2>3. QED
    BY <1>2, <2>1, <2>2
<1>3. CASE Value \notin notices[m] /\ notices[m] # {"disconnected"}
  <2>1. State(m) = "unknown"
    BY <1>3 DEF State
  <2>2. QED
    BY <1>3, <2>1
<1>4. QED
  BY <1>1, <1>2, <1>3

(* A part of an answer keeps its type as it is filled in. *)
LEMMA ResultTyped ==
  ASSUME NEW res \in Results
  PROVE  /\ \A b \in BOOLEAN : [res EXCEPT !.truncated = b] \in Results
         /\ \A e \in Seq(Nat) : [res EXCEPT !.events = e] \in Results
         /\ \A v \in Verdicts : [res EXCEPT !.connection = v] \in Results
         /\ \A d \in Details : [res EXCEPT !.detail = d] \in Results
BY DEF Results

(* The first values of a list of values.                                   *)
LEMMA FirstOnes ==
  ASSUME NEW s \in Seq(Nat), NEW n \in Nat, n <= Len(s)
  PROVE  /\ SubSeq(s, 1, n) \in Seq(Nat) /\ Len(SubSeq(s, 1, n)) = n
         /\ \A i \in 1 .. n : SubSeq(s, 1, n)[i] = s[i]
BY SubSeqProperties

(* The types of a step of a monitor's thread and callbacks.                *)
LEMMA ChannelTypes ==
  ASSUME TypeOK, Pools', NEW m \in Monitors,
         \/ Monitor(m) \/ StartMonitor(m) \/ Cancel(m)
         \/ ThreadStep(m) \/ CallbackStep(m)
         \/ \E item \in Notices \union {Value} : Deliver(m, item)
  PROVE  TypeOK'
<1>1. CASE Monitor(m) \/ StartMonitor(m) \/ Cancel(m)
  BY <1>1 DEF Monitor, StartMonitor, Cancel, TypeOK, Pools, channel, CallGoto, ThreadGoto
<1>2. CASE Subscribe(m)
  BY <1>2 DEF Subscribe, Notices, TypeOK, Pools, pools, ThreadGoto
<1>3. CASE SubscribeFail(m) \/ StopWaiting(m) \/ Close(m)
  BY <1>3 DEF SubscribeFail, StopWaiting, Close, TypeOK, Pools, channel, pools, ThreadGoto
<1>4. CASE RecordNotice(m)
  BY <1>4 DEF RecordNotice, Notices, TypeOK, Pools, pools
<1>5. CASE Collect(m)
  <2>1. /\ UNCHANGED <<call, thread, arrived, kinds, settled, result>>
        /\ callback' = [callback EXCEPT ![m] = Nothing]
        /\ notices' = [notices EXCEPT ![m] = @ \union {Value}]
    BY <1>5 DEF Collect
  <2>2. collected \in [Monitors -> Seq(Nat)] /\ stop \in [Monitors -> BOOLEAN] /\ arrived[m] \in Nat
    BY DEF TypeOK
  <2>3. Append(collected[m], arrived[m]) \in Seq(Nat)
    BY <2>2
  <2>4. collected' = collected \/ collected' = [collected EXCEPT ![m] = Append(collected[m], arrived[m])]
    BY <1>5 DEF Collect
  <2>5. collected' \in [Monitors -> Seq(Nat)]
    BY <2>2, <2>3, <2>4
  <2>6. stop' = stop \/ stop' = [stop EXCEPT ![m] = TRUE]
    BY <1>5 DEF Collect
  <2>7. stop' \in [Monitors -> BOOLEAN]
    BY <2>2, <2>6
  <2>8. /\ callback' \in [Monitors -> Notices \union {Value, Nothing}]
        /\ notices' \in [Monitors -> SUBSET (Notices \union {Value})]
    BY <2>1 DEF TypeOK
  <2>9. QED
    BY <2>1, <2>5, <2>7, <2>8 DEF TypeOK, Pools
<1>6. ASSUME NEW item \in Notices \union {Value}, Deliver(m, item) PROVE TypeOK'
  <2>1. /\ UNCHANGED <<call, thread, stop, collected, notices, settled, result>>
        /\ arrived' = [arrived EXCEPT ![m] = IF item = Value THEN arrived[m] + 1 ELSE arrived[m]]
        /\ kinds' = [kinds EXCEPT ![m] = @ \union {item}]
        /\ callback' = [callback EXCEPT ![m] = IF stop[m] THEN Nothing ELSE item]
    BY <1>6 DEF Deliver
  <2>2. arrived \in [Monitors -> Nat] /\ arrived[m] \in Nat /\ arrived[m] + 1 \in Nat
    BY ChannelTyped
  <2>3. arrived' \in [Monitors -> Nat]
    BY <2>1, <2>2
  <2>4. kinds' \in [Monitors -> SUBSET (Notices \union {Value})]
    BY <2>1 DEF TypeOK
  <2>5. callback' \in [Monitors -> Notices \union {Value, Nothing}]
    BY <2>1 DEF TypeOK
  <2>6. QED
    BY <2>1, <2>3, <2>4, <2>5 DEF TypeOK, Pools
<1>7. QED
  BY <1>1, <1>2, <1>3, <1>4, <1>5, <1>6 DEF ThreadStep, CallbackStep

(* The types of a step of its coroutine.                                   *)
LEMMA LoopTypes ==
  ASSUME TypeOK, Pools', NEW m \in Monitors, LoopStep(m)
  PROVE  TypeOK'
<1>1. /\ UNCHANGED <<thread, channel, pools>> /\ call' \in [Monitors -> CallStates]
      /\ result \in [Monitors -> Results] /\ collected[m] \in Seq(Nat)
  BY DEF TypeOK, CallStates, Results, Details, LoopStep, Fail, Measure, Slice, Judge,
         Explain, CallGoto
<1>2. result' \in [Monitors -> Results]
  <2>1. CASE Fail(m)
    BY <1>1, <2>1 DEF Fail
  <2>2. CASE Measure(m)
    <3> DEFINE more == Len(collected[m]) > MaxEvents
    <3>1. more \in BOOLEAN
      OBVIOUS
    <3>2. result' = [result EXCEPT ![m] = [result[m] EXCEPT !.truncated = more]]
      BY <2>2 DEF Measure
    <3> HIDE DEF more
    <3>3. [result[m] EXCEPT !.truncated = more] \in Results
      BY <1>1, <3>1, ResultTyped
    <3>4. QED
      BY <1>1, <3>2, <3>3
  <2>3. CASE Slice(m)
    <3> DEFINE n == IF Len(collected[m]) < MaxEvents THEN Len(collected[m]) ELSE MaxEvents
    <3>1. n \in Nat /\ n <= Len(collected[m])
      BY <1>1
    <3>2. SubSeq(collected[m], 1, n) \in Seq(Nat)
      BY <1>1, <3>1, FirstOnes
    <3>3. result' = [result EXCEPT ![m] = [result[m] EXCEPT !.events = SubSeq(collected[m], 1, n)]]
      BY <2>3 DEF Slice
    <3>4. QED
      BY <1>1, <3>2, <3>3, ResultTyped
  <2>4. CASE Judge(m)
    BY <1>1, <2>4, ResultTyped, SayingsTyped DEF Judge
  <2>5. CASE Explain(m)
    BY <1>1, <2>5, ResultTyped, SayingsTyped DEF Explain
  <2>6. QED
    BY <2>1, <2>2, <2>3, <2>4, <2>5 DEF LoopStep
<1>3. QED
  BY <1>1, <1>2 DEF TypeOK, Pools, CallStates, Results, Details, channel, pools
-----------------------------------------------------------------------------
(* The pool, the coroutine and the thread, before anything is answered.    *)
LEMMA StartsKeep ==
  ASSUME IInv, NEW m \in Monitors,
         \/ Monitor(m) \/ StartMonitor(m) \/ Cancel(m)
         \/ SubscribeFail(m) \/ StopWaiting(m) \/ Fail(m)
  PROVE  MonitorInv(m)'
<1>1. /\ MonitorInv(m) /\ UNCHANGED <<channel, result>>
      /\ State(m)' = State(m) /\ Detail(m)' = Detail(m) /\ Pending(m)' = Pending(m)
  BY DEF IInv, Monitor, StartMonitor, Cancel, SubscribeFail, StopWaiting, Fail, channel,
         State, Detail, Pending
<1>2. /\ thread'[m] \in {"none", "queued", "subscribing", "failed"} =>
           thread[m] \in {"none", "queued", "subscribing", "failed"}
      /\ thread[m] = "done" <=> thread'[m] = "done"
      /\ call'[m] \in {"measured", "sliced", "judged", "returned"} => call'[m] = call[m]
  BY DEF IInv, TypeOK, Monitor, StartMonitor, Cancel, SubscribeFail, StopWaiting, Fail,
         CallGoto, ThreadGoto
<1>3. QED
  BY <1>1, <1>2 DEF MonitorInv, Unsubscribed, Gathered, Seen, Assembled, Answer, channel

(* The subscription, and its close.                                        *)
LEMMA ChannelKeeps ==
  ASSUME IInv, NEW m \in Monitors, Subscribe(m) \/ Close(m)
  PROVE  MonitorInv(m)'
<1>1. MonitorInv(m) /\ UNCHANGED <<call, stop, arrived, collected, notices, result>>
  BY DEF IInv, Subscribe, Close
<1> USE DEF MonitorInv, Unsubscribed, Gathered, Seen, Assembled, Answer
<1>2. thread[m] # "done" /\ call[m] \notin {"measured", "sliced", "judged", "returned"}
  BY <1>1 DEF Subscribe, Close, ThreadGoto
<1>3. CASE Subscribe(m)
  <2>1. /\ thread[m] = "subscribing" /\ thread'[m] = "waiting" /\ settled' = settled
        /\ callback'[m] = "disconnected" /\ kinds'[m] = {"disconnected"}
    BY <1>3, ChannelTyped DEF IInv, Subscribe, ThreadGoto
  <2>2. Pending(m)' = 0 /\ Pending(m) = 0
    BY <1>1, <2>1 DEF Pending, Value, Nothing
  <2>3. QED
    BY <1>1, <1>2, <2>1, <2>2 DEF Value, Nothing
<1>4. CASE Close(m)
  <2>1. /\ thread[m] = "closing" /\ thread'[m] = "done" /\ UNCHANGED <<callback, kinds>>
        /\ settled'[m] = (callback[m] = Nothing)
    BY <1>4, ChannelTyped DEF IInv, Close, ThreadGoto
  <2>2. Pending(m)' = Pending(m)
    BY <2>1 DEF Pending
  <2>3. QED
    BY <1>1, <1>2, <2>1, <2>2
<1>5. QED
  BY <1>3, <1>4

(* What p4p delivers while the subscription is open.                       *)
LEMMA DeliverKeeps ==
  ASSUME IInv, NEW m \in Monitors, NEW item \in Notices \union {Value}, Deliver(m, item)
  PROVE  MonitorInv(m)'
<1>1. /\ MonitorInv(m)
      /\ UNCHANGED <<call, thread, stop, collected, notices, settled, result>>
      /\ thread[m] \in {"waiting", "closing"} /\ callback[m] = Nothing
      /\ arrived'[m] = IF item = Value THEN arrived[m] + 1 ELSE arrived[m]
      /\ kinds'[m] = kinds[m] \union {item}
      /\ callback'[m] = IF stop[m] THEN Nothing ELSE item
      /\ arrived[m] \in Nat /\ item # Nothing
  BY ChannelTyped DEF IInv, Deliver, Notices, Value, Nothing
<1>2. Pending(m) = 0 /\ Pending(m)' = IF item = Value /\ ~stop[m] THEN 1 ELSE 0
  BY <1>1 DEF Pending, Value, Nothing
<1>3. Len(collected[m]) \in Nat
  BY ChannelTyped DEF IInv
<1> USE DEF MonitorInv
<1>4. Unsubscribed(m)' /\ Assembled(m)' /\ Answer(m)'
  BY <1>1 DEF Unsubscribed, Assembled, Answer
<1>5. Gathered(m)'
  <2>1. Gathered(m) /\ collected'[m] = collected[m] /\ stop'[m] = stop[m] /\ MaxEvents \in Nat
    BY <1>1
  <2>2. CASE stop[m]
    BY <1>1, <1>2, <1>3, <2>1, <2>2 DEF Gathered
  <2>3. CASE ~stop[m]
    <3>1. arrived'[m] = arrived[m] + Pending(m)'
      BY <1>1, <1>2, <2>3
    <3>2. Pending(m)' \in {0, 1}
      BY <1>2
    <3>3. /\ Len(collected[m]) <= arrived[m]
          /\ Len(collected[m]) <= MaxEvents => Len(collected[m]) = arrived[m]
          /\ arrived[m] \in Nat
      BY <1>1, <1>2, <1>3, <2>1 DEF Gathered
    <3>4. /\ Len(collected[m]) + Pending(m)' <= arrived'[m]
          /\ Len(collected[m]) <= MaxEvents => Len(collected[m]) + Pending(m)' = arrived'[m]
      BY <1>3, <2>1, <3>1, <3>2, <3>3
    <3>5. QED
      BY <2>1, <2>3, <3>4 DEF Gathered
  <2>4. QED
    BY <2>2, <2>3
<1>6. Seen(m)'
  BY <1>1 DEF Seen
<1>7. QED
  BY <1>4, <1>5, <1>6

(* A callback ends, perhaps after the close.                               *)
LEMMA CallbackKeeps ==
  ASSUME IInv, NEW m \in Monitors, CallbackStep(m)
  PROVE  MonitorInv(m)'
<1>1. /\ MonitorInv(m) /\ TypeOK
      /\ UNCHANGED <<call, thread, arrived, kinds, settled, result>>
      /\ callback[m] # Nothing /\ callback'[m] = Nothing
      /\ notices'[m] = notices[m] \union {callback[m]}
  BY ChannelTyped DEF IInv, CallbackStep, RecordNotice, Collect, Notices, Value, Nothing
<1>2. ~settled[m] /\ ~stop[m] /\ thread[m] \notin {"none", "queued", "subscribing", "failed"}
  BY <1>1 DEF MonitorInv, Assembled, Gathered, Unsubscribed
<1>3. Pending(m)' = 0
  BY <1>1 DEF Pending, Value, Nothing
<1>4. Len(collected[m]) \in Nat /\ arrived[m] \in Nat
  BY <1>1, ChannelTyped
<1>5. CASE RecordNotice(m)
  <2>1. UNCHANGED <<stop, collected>> /\ callback[m] # Value /\ Pending(m) = 0
    BY <1>5 DEF RecordNotice, Notices, Value, Pending
  <2>2. Gathered(m)' /\ Seen(m)'
    BY <1>1, <1>3, <2>1 DEF MonitorInv, Gathered, Seen
  <2>3. Unsubscribed(m)' /\ Assembled(m)' /\ Answer(m)'
    BY <1>1, <1>2, <2>1 DEF MonitorInv, Unsubscribed, Assembled, Answer
  <2>4. QED
    BY <2>2, <2>3 DEF MonitorInv
<1>6. CASE Collect(m)
  <2>1. callback[m] = Value /\ Pending(m) = 1
    BY <1>6 DEF Collect, Pending
  <2>2. CASE Len(collected[m]) >= MaxEvents + 1
    <3>1. stop'[m] = TRUE /\ collected' = collected
      BY <1>1, <1>6, <2>2, ChannelTyped DEF Collect
    <3>2. Gathered(m)' /\ Seen(m)'
      BY <1>1, <1>3, <1>4, <2>1, <2>2, <3>1 DEF MonitorInv, Gathered, Seen
    <3>3. Unsubscribed(m)' /\ Assembled(m)' /\ Answer(m)'
      BY <1>1, <1>2, <3>1 DEF MonitorInv, Unsubscribed, Assembled, Answer
    <3>4. QED
      BY <3>2, <3>3 DEF MonitorInv
  <2>3. CASE ~(Len(collected[m]) >= MaxEvents + 1)
    <3>1. stop' = stop /\ collected'[m] = Append(collected[m], arrived[m])
      BY <1>1, <1>6, <2>3, ChannelTyped DEF Collect
    <3>2. arrived[m] = Len(collected[m]) + 1
      BY <1>1, <1>4, <2>1, <2>3 DEF MonitorInv, Gathered
    <3>3. /\ collected'[m] \in Seq(Nat) /\ Len(collected'[m]) = Len(collected[m]) + 1
          /\ \A i \in 1 .. Len(collected[m]) : collected'[m][i] = collected[m][i]
          /\ collected'[m][Len(collected[m]) + 1] = Len(collected[m]) + 1
      BY <1>1, <1>4, <3>1, <3>2, ChannelTyped, AppendProperties
    <3>4. \A i \in 1 .. Len(collected[m]) : collected[m][i] = i
      BY <1>1 DEF MonitorInv, Gathered
    <3>5. \A i \in 1 .. Len(collected'[m]) : collected'[m][i] = i
      <4>1. ASSUME NEW i \in 1 .. Len(collected'[m]) PROVE collected'[m][i] = i
        <5>1. i \in 1 .. Len(collected[m]) \/ i = Len(collected[m]) + 1
          BY <1>4, <3>3
        <5>2. QED
          BY <3>3, <3>4, <5>1
      <4>2. QED
        BY <4>1
    <3>6. collected'[m] = [i \in 1 .. Len(collected'[m]) |-> i]
      BY <3>3, <3>5, Counts
    <3>7. Gathered(m)' /\ Seen(m)'
      BY <1>1, <1>2, <1>3, <1>4, <2>1, <2>3, <3>1, <3>2, <3>3, <3>6 DEF MonitorInv, Gathered, Seen
    <3>8. Unsubscribed(m)' /\ Assembled(m)'
      BY <1>1, <1>2 DEF MonitorInv, Unsubscribed, Assembled
    <3>9. Answer(m)'
      <4>1. Answer(m) /\ result'[m] = result[m] /\ call'[m] = call[m] /\ settled'[m] = settled[m]
        BY <1>1 DEF MonitorInv
      <4>2. result[m].events \in Seq(Nat) /\ Len(result[m].events) \in Nat
        BY <1>1, ChannelTyped DEF Results
      <4>3. Value \in notices'[m] /\ MaxEvents \in Nat
        BY <1>1, <2>1
      <4>4. QED
        BY <1>2, <1>4, <3>3, <4>1, <4>2, <4>3 DEF Answer
    <3>10. QED
      BY <3>7, <3>8, <3>9 DEF MonitorInv
  <2>4. QED
    BY <2>2, <2>3
<1>7. QED
  BY <1>5, <1>6 DEF CallbackStep

(* A part of the answer is settled.                                        *)
LEMMA AnswerKeeps ==
  ASSUME IInv, NEW m \in Monitors, Measure(m) \/ Slice(m) \/ Judge(m) \/ Explain(m)
  PROVE  MonitorInv(m)'
<1>1. /\ MonitorInv(m) /\ TypeOK
      /\ UNCHANGED <<thread, stop, callback, arrived, kinds, collected, notices, settled>>
  BY DEF IInv, Measure, Slice, Judge, Explain, channel
<1>2. /\ Unsubscribed(m)' /\ Gathered(m)' /\ Seen(m)'
      /\ State(m)' = State(m) /\ Detail(m)' = Detail(m)
  BY <1>1 DEF MonitorInv, Unsubscribed, Gathered, Seen, Pending, State, Detail
<1>3. Assembled(m)'
  BY <1>1, ChannelTyped DEF MonitorInv, Assembled, Measure, Slice, Judge, Explain, CallGoto
<1> DEFINE have == Len(collected[m])
           old == result[m]
           new == result'[m]
<1>4. /\ have \in Nat /\ MaxEvents \in Nat /\ Answer(m) /\ Gathered(m)
      /\ collected[m] \in Seq(Nat) /\ result[m] \in Results
      /\ Len(collected'[m]) = have /\ settled'[m] = settled[m] /\ notices'[m] = notices[m]
  BY <1>1, ChannelTyped DEF MonitorInv
<1>5. CASE Measure(m)
  <2>1. call'[m] = "measured"
    BY <1>1, <1>5, ChannelTyped DEF Measure, CallGoto
  <2>2. /\ new.truncated => have > MaxEvents
        /\ ~new.truncated => have <= MaxEvents
    <3> DEFINE more == have > MaxEvents
    <3>1. result' = [result EXCEPT ![m] = [result[m] EXCEPT !.truncated = more]]
      BY <1>5 DEF Measure
    <3> HIDE DEF more
    <3>2. new.truncated = more
      BY <1>1, <1>4, <3>1, ChannelTyped DEF Results
    <3>3. ~more => have <= MaxEvents
      BY <1>4 DEF more
    <3>4. QED
      BY <3>2, <3>3, Zenon DEF more
  <2>3. Answer(m)'
    BY <1>4, <2>1, <2>2 DEF Answer
  <2>4. QED
    BY <1>2, <1>3, <2>3 DEF MonitorInv
<1>6. CASE Slice(m)
  <2> DEFINE n == IF have < MaxEvents THEN have ELSE MaxEvents
             first == SubSeq(collected[m], 1, n)
  <2>1. /\ call[m] = "measured" /\ call'[m] = "sliced"
        /\ result' = [result EXCEPT ![m] = [result[m] EXCEPT !.events = first]]
    BY <1>1, <1>6, ChannelTyped DEF Slice, CallGoto
  <2>2. new = [result[m] EXCEPT !.events = first]
    BY <1>1, <2>1, ChannelTyped
  <2>3. new.events = first /\ new.truncated = old.truncated
    BY <1>4, <2>2 DEF Results
  <2>4. n \in Nat /\ n <= have /\ n <= MaxEvents
    BY <1>4
  <2>5. first \in Seq(Nat) /\ Len(first) = n /\ \A i \in 1 .. n : first[i] = collected[m][i]
    BY <1>4, <2>4, FirstOnes
  <2>6. \A i \in 1 .. have : collected[m][i] = i
    BY <1>4 DEF Gathered
  <2>7. \A i \in 1 .. n : first[i] = i
    BY <1>4, <2>4, <2>5, <2>6
  <2>8. first = [i \in 1 .. n |-> i]
    BY <2>4, <2>5, <2>7
  <2> HIDE DEF first
  <2>9. old.truncated => have > MaxEvents
    BY <1>4, <2>1 DEF Answer
  <2>10. /\ new.truncated => have > MaxEvents
         /\ settled[m] /\ ~new.truncated => have <= MaxEvents
    BY <1>4, <2>1, <2>3 DEF Answer
  <2>11. Answer(m)'
    <3>1. /\ Len(new.events) = n /\ new.events = [i \in 1 .. n |-> i]
      BY <2>3, <2>5, <2>8
    <3>2. /\ new.truncated => n = MaxEvents
          /\ settled[m] => n = have \/ (have > MaxEvents /\ n = MaxEvents)
      BY <1>4, <2>3, <2>9
    <3>3. QED
      BY <1>4, <2>1, <2>4, <2>10, <3>1, <3>2 DEF Answer
  <2>12. QED
    BY <1>2, <1>3, <2>11 DEF MonitorInv
<1>7. CASE Judge(m)
  <2>1. /\ call[m] = "sliced" /\ call'[m] = "judged"
        /\ result' = [result EXCEPT ![m] = [result[m] EXCEPT !.connection = State(m)]]
    BY <1>1, <1>7, ChannelTyped DEF Judge, CallGoto
  <2>2. new = [result[m] EXCEPT !.connection = State(m)]
    BY <1>1, <2>1, ChannelTyped
  <2>3. /\ new.events = old.events /\ new.truncated = old.truncated
        /\ new.connection = State(m)
    BY <1>4, <2>2 DEF Results
  <2>4. /\ State(m) = "connected" => Value \in notices[m]
        /\ Value \in notices[m] => State(m) = "connected"
    BY StateSays
  <2>5. old.events # <<>> => Value \in notices[m]
    <3>1. SUFFICES ASSUME old.events # <<>> PROVE have > 0
      BY <1>1 DEF MonitorInv, Seen
    <3>2. old.events \in Seq(Nat) /\ Len(old.events) <= have
      BY <1>4, <2>1 DEF Answer, Results
    <3>3. Len(old.events) \in Nat /\ Len(old.events) # 0
      BY <3>1, <3>2, EmptySeq
    <3>4. QED
      BY <1>4, <3>2, <3>3
  <2>6. Answer(m)'
    BY <1>2, <1>4, <2>1, <2>3, <2>4, <2>5 DEF Answer
  <2>7. QED
    BY <1>2, <1>3, <2>6 DEF MonitorInv
<1>8. CASE Explain(m)
  <2>1. /\ call[m] = "judged" /\ call'[m] = "returned"
        /\ result' = [result EXCEPT ![m] = [result[m] EXCEPT !.detail = Detail(m)]]
    BY <1>1, <1>8, ChannelTyped DEF Explain, CallGoto
  <2>2. new = [result[m] EXCEPT !.detail = Detail(m)]
    BY <1>1, <2>1, ChannelTyped
  <2>3. /\ new.events = old.events /\ new.truncated = old.truncated
        /\ new.connection = old.connection /\ new.detail = Detail(m)
    BY <1>4, <2>2 DEF Results
  <2>4. Answer(m)'
    BY <1>2, <1>4, <2>1, <2>3 DEF Answer
  <2>5. QED
    BY <1>2, <1>3, <2>4 DEF MonitorInv
<1>9. QED
  BY <1>5, <1>6, <1>7, <1>8
-----------------------------------------------------------------------------
LEMMA InitIInv == Init => IInv
<1> SUFFICES ASSUME Init PROVE IInv
  OBVIOUS
<1>1. Pools
  BY FS_EmptySet DEF Init, Pools
<1>2. NoResult \in Results
  BY DEF NoResult, Results, Details
<1>3. TypeOK
  <2>1. result \in [Monitors -> Results]
    BY <1>2 DEF Init
  <2>2. /\ collected \in [Monitors -> Seq(Nat)] /\ arrived \in [Monitors -> Nat]
        /\ queue \in Seq(Monitors) /\ waiting \in Seq(Reads)
    BY DEF Init
  <2>3. QED
    BY <1>1, <2>1, <2>2 DEF Init, TypeOK, Pools, Results, Details
<1>4. ASSUME NEW m \in Monitors PROVE MonitorInv(m)
  <2>1. /\ Unsubscribed(m) /\ Assembled(m) /\ Answer(m)
    BY DEF Init, Unsubscribed, Assembled, Answer
  <2>2. Gathered(m)
    BY DEF Init, Gathered, Pending, Value, Nothing
  <2>3. Seen(m)
    BY DEF Init, Seen
  <2>4. QED
    BY <2>1, <2>2, <2>3 DEF MonitorInv
<1>5. QED
  BY <1>1, <1>3, <1>4 DEF IInv

LEMMA NextIInv == IInv /\ [Next]_vars => IInv'
<1> SUFFICES ASSUME IInv, [Next]_vars PROVE IInv'
  OBVIOUS
<1>1. Pools'
  BY PoolsKept DEF IInv
<1>2. ASSUME NEW m \in Monitors, MonitorMoves(m) PROVE IInv'
  <2>1. TypeOK'
    BY <1>1, <1>2, ChannelTypes, LoopTypes DEF IInv, MonitorMoves
  <2>2. MonitorInv(m)'
    BY <1>2, StartsKeep, ChannelKeeps, DeliverKeeps, CallbackKeeps, AnswerKeeps
       DEF MonitorMoves, ThreadStep, LoopStep
  <2>3. ASSUME NEW o \in Monitors, o # m PROVE MonitorInv(o)'
    BY <1>2, <2>3, OthersStay, FrameMonitor DEF IInv
  <2>4. QED
    BY <1>1, <2>1, <2>2, <2>3 DEF IInv
<1>3. ASSUME UNCHANGED <<call, thread, channel, result>> PROVE IInv'
  <2>1. TypeOK'
    BY <1>1, <1>3 DEF IInv, TypeOK, Pools, channel
  <2>2. ASSUME NEW m \in Monitors PROVE MonitorInv(m)'
    BY <1>3, FrameMonitor DEF IInv, channel
  <2>3. QED
    BY <1>1, <2>1, <2>2 DEF IInv
<1>4. ASSUME NEW r \in Reads, Read(r) \/ StartRead(r) \/ EndRead(r)
      PROVE  UNCHANGED <<call, thread, channel, result>>
  BY <1>4 DEF Read, StartRead, EndRead
<1>5. QED
  BY <1>2, <1>3, <1>4 DEF Next, vars, MonitorMoves
-----------------------------------------------------------------------------
(* The inductive invariant holds in every behaviour of monitors and reads. *)
THEOREM InvariantHolds == Spec => []IInv
BY InitIInv, NextIInv, PTL DEF Spec

(* Every variable of the monitors and of the two pools keeps to its type,  *)
(* and neither pool ever holds more calls than it has threads.             *)
THEOREM TypeCorrect == Spec => []TypeOK
<1>1. IInv => TypeOK
  BY DEF IInv
<1>2. QED
  BY <1>1, InvariantHolds, PTL

(* A monitor answers the first values of its channel, in order, and says   *)
(* it was cut only of a stream that was, and always of one that was when   *)
(* nothing was under way at the close (monitor_pv).                        *)
LEMMA EventsEarned == IInv => EventsAreFirst /\ TruncationHonest
<1> SUFFICES ASSUME IInv, NEW m \in Answered
             PROVE  /\ result[m].events = [i \in 1 .. Len(result[m].events) |-> i]
                    /\ Len(result[m].events) <= MaxEvents
                    /\ result[m].truncated => Len(result[m].events) = MaxEvents
                    /\ result[m].truncated => arrived[m] > MaxEvents
                    /\ settled[m] /\ ~result[m].truncated =>
                         Len(result[m].events) = arrived[m]
  BY DEF EventsAreFirst, TruncationHonest
<1>1. /\ m \in Monitors /\ call[m] = "returned" /\ Answer(m) /\ Gathered(m) /\ Assembled(m)
  BY DEF Answered, IInv, MonitorInv
<1>2. /\ MaxEvents \in Nat /\ arrived[m] \in Nat /\ Len(collected[m]) \in Nat
      /\ Len(result[m].events) \in Nat
  BY <1>1, ChannelTyped DEF IInv, Results
<1>3. Pending(m) \in Nat /\ (settled[m] => Pending(m) = 0)
  BY <1>1 DEF Pending, Assembled, Value, Nothing
<1>4. result[m].truncated => arrived[m] > MaxEvents
  BY <1>1, <1>2, <1>3 DEF Answer, Gathered
<1>5. ASSUME settled[m], ~result[m].truncated PROVE Len(result[m].events) = arrived[m]
  BY <1>1, <1>2, <1>3, <1>5 DEF Answer, Gathered
<1>6. QED
  BY <1>1, <1>4, <1>5 DEF Answer

(* What is said of the connection is what was seen of the channel, and an  *)
(* empty answer comes with a reason (_ChannelNotices).                     *)
LEMMA ConnectionEarned == IInv => ConnectionHonest /\ EmptyExplained
<1> SUFFICES ASSUME IInv, NEW m \in Answered
             PROVE  /\ result[m].connection = "connected" => arrived[m] > 0
                    /\ result[m].events # <<>> => result[m].connection = "connected"
                    /\ settled[m] /\ result[m].connection = "disconnected" =>
                         kinds[m] = {"disconnected"}
                    /\ settled[m] /\ result[m].events = <<>> =>
                         result[m].connection # "connected" /\ result[m].detail # Nothing
  BY DEF ConnectionHonest, EmptyExplained
<1>1. /\ m \in Monitors /\ call[m] = "returned" /\ Answer(m) /\ Gathered(m)
      /\ Assembled(m) /\ Seen(m)
  BY DEF Answered, IInv, MonitorInv
<1>2. /\ MaxEvents \in Nat \ {0} /\ arrived[m] \in Nat /\ Len(collected[m]) \in Nat
      /\ Len(result[m].events) \in Nat /\ Pending(m) \in Nat
  BY <1>1, ChannelTyped DEF IInv, Results, Pending
<1>3. Value \in notices[m] => arrived[m] > 0
  BY <1>1, <1>2 DEF Seen, Gathered
<1>4. /\ State(m) = "connected" <=> Value \in notices[m]
      /\ State(m) = "disconnected" => notices[m] = {"disconnected"}
  BY <1>1, StateSays
<1>5. ASSUME settled[m] PROVE callback[m] = Nothing /\ result[m].connection = State(m)
                              /\ result[m].detail = Detail(m)
  BY <1>1, <1>5 DEF Answer, Assembled
<1>6. ASSUME settled[m], result[m].connection = "disconnected" PROVE kinds[m] = {"disconnected"}
  <2>1. notices[m] = {"disconnected"} /\ ~stop[m]
    BY <1>1, <1>2, <1>4, <1>5, <1>6 DEF Gathered, Seen, Value
  <2>2. QED
    BY <1>1, <1>5, <1>6, <2>1 DEF Seen
<1>7. ASSUME settled[m], result[m].events = <<>>
      PROVE  result[m].connection # "connected" /\ result[m].detail # Nothing
  <2>1. Len(collected[m]) = 0
    BY <1>1, <1>2, <1>7 DEF Answer
  <2>2. State(m) \in {"disconnected", "unknown"}
    BY <1>1, <1>2, <2>1 DEF State, Seen
  <2>3. Detail(m) # Nothing
    BY <2>2 DEF Detail, Nothing
  <2>4. QED
    BY <1>5, <1>7, <2>2, <2>3
<1>8. QED
  BY <1>1, <1>3, <1>4, <1>6, <1>7 DEF Answer
=============================================================================
