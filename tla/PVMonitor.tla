------------------------------ MODULE PVMonitor ------------------------------
(***************************************************************************)
(* monitor_pv: a subscription that runs for a while in a worker thread,    *)
(* the callbacks p4p makes meanwhile in a thread of its own, and the       *)
(* coroutine that reads what was collected (services/epics_client.py).     *)
(*                                                                         *)
(* Monitors hold their threads for as long as they run, cancelled or not.  *)
(* So they have a pool of their own (services/_concurrency.py), next to    *)
(* the default pool of everything else, here Reads.                        *)
(*                                                                         *)
(* p4p makes the callbacks of one subscription one at a time, in order,    *)
(* first of all a Disconnected.  Closing a subscription ends the           *)
(* callbacks; one that is under way then may still run to its end.         *)
(***************************************************************************)
EXTENDS Integers, Sequences, FiniteSets

CONSTANTS Monitors, Reads,  \* the calls, each made once
          MonitorWidth,     \* monitor_max_concurrency
          PoolWidth,        \* threads of the default executor
          MaxEvents,        \* max_events, clamped to max_monitor_events
          MaxValues         \* bound: values that arrive on a channel

ASSUME PVMonitorAssumption ==
  /\ Monitors \intersect Reads = {}
  /\ MonitorWidth \in Nat \ {0} /\ PoolWidth \in Nat \ {0}
  /\ MaxEvents \in Nat \ {0} /\ MaxValues \in Nat

VARIABLES
  call,       \* the coroutine of each monitor
  thread,     \* its worker thread
  queue,      \* monitors that wait for a thread of their pool
  stop,       \* stop_event
  callback,   \* what the callback under way carries
  arrived,    \* history: how many values p4p delivered
  kinds,      \* history: and which kinds of items
  collected,  \* the values collected: the n-th to arrive is n
  notices,    \* what was seen of the channel
  settled,    \* history: no callback was under way at the close
  result,     \* what the call answers, once it is assembled
  reads,      \* the reads
  waiting,    \* reads that wait for a thread of the default pool
  bulkhead,   \* who holds a thread of the monitors' pool
  default     \* who holds a thread of the default pool

channel == <<stop, callback, arrived, kinds, collected, notices, settled>>
pools == <<queue, waiting, reads, bulkhead, default>>
vars == <<call, thread, channel, result, pools>>

Nothing == "nothing"
Value == "value"
Notices == {"disconnected", "finished", "error"}
Verdicts == {"connected", "disconnected", "unknown"}

NoResult == [truncated |-> FALSE, events |-> <<>>, connection |-> Nothing, detail |-> Nothing]
-----------------------------------------------------------------------------
Init ==
  /\ call = [m \in Monitors |-> "idle"]
  /\ thread = [m \in Monitors |-> "none"]
  /\ queue = <<>>
  /\ stop = [m \in Monitors |-> FALSE]
  /\ callback = [m \in Monitors |-> Nothing]
  /\ arrived = [m \in Monitors |-> 0]
  /\ kinds = [m \in Monitors |-> {}]
  /\ collected = [m \in Monitors |-> <<>>]
  /\ notices = [m \in Monitors |-> {}]
  /\ settled = [m \in Monitors |-> FALSE]
  /\ result = [m \in Monitors |-> NoResult]
  /\ reads = [r \in Reads |-> "idle"]
  /\ waiting = <<>>
  /\ bulkhead = {}
  /\ default = {}

CallGoto(m, from, to) == call[m] = from /\ call' = [call EXCEPT ![m] = to]

ThreadGoto(m, from, to) == thread[m] = from /\ thread' = [thread EXCEPT ![m] = to]

(* The queue without a call that is withdrawn, which is in it once at most. *)
Remove(seq, x) ==
  IF \E i \in 1 .. Len(seq) : seq[i] = x
    THEN LET k == CHOOSE i \in 1 .. Len(seq) : seq[i] = x
         IN SubSeq(seq, 1, k - 1) \o SubSeq(seq, k + 1, Len(seq))
    ELSE seq
-----------------------------------------------------------------------------
(* The two pools.                                                          *)

Monitor(m) ==
  /\ CallGoto(m, "idle", "awaiting")
  /\ ThreadGoto(m, "none", "queued")
  /\ queue' = Append(queue, m)
  /\ UNCHANGED <<channel, result, waiting, reads, bulkhead, default>>

(* Broken variant: no bulkhead, monitors take threads of the default pool. *)
SharedStartMonitor(m) ==
  /\ queue # <<>> /\ m = Head(queue)
  /\ Cardinality(default) < PoolWidth
  /\ ThreadGoto(m, "queued", "subscribing")
  /\ queue' = Tail(queue)
  /\ default' = default \union {m}
  /\ UNCHANGED <<call, channel, result, waiting, reads, bulkhead>>

(* Broken variant: a thread is made for each monitor.                      *)
UnboundedStartMonitor(m) ==
  /\ queue # <<>> /\ m = Head(queue)
  /\ ThreadGoto(m, "queued", "subscribing")
  /\ queue' = Tail(queue)
  /\ bulkhead' = bulkhead \union {m}
  /\ UNCHANGED <<call, channel, result, waiting, reads, default>>

StartMonitor(m) ==
  /\ queue # <<>> /\ m = Head(queue)
  /\ Cardinality(bulkhead) < MonitorWidth
  /\ ThreadGoto(m, "queued", "subscribing")
  /\ queue' = Tail(queue)
  /\ bulkhead' = bulkhead \union {m}
  /\ UNCHANGED <<call, channel, result, waiting, reads, default>>

(* The thread goes back to its pool.                                       *)
Release(m) ==
  /\ bulkhead' = bulkhead \ {m}
  /\ default' = default \ {m}
  /\ UNCHANGED <<queue, waiting, reads>>

(* A cancellation withdraws a monitor that is queued; it does not reach    *)
(* one that runs, which keeps its thread.                                  *)
Cancel(m) ==
  /\ CallGoto(m, "awaiting", "cancelled")
  /\ thread' = [thread EXCEPT ![m] = IF @ = "queued" THEN "none" ELSE @]
  /\ queue' = Remove(queue, m)
  /\ UNCHANGED <<channel, result, waiting, reads, bulkhead, default>>

Read(r) ==
  /\ reads[r] = "idle"
  /\ reads' = [reads EXCEPT ![r] = "queued"]
  /\ waiting' = Append(waiting, r)
  /\ UNCHANGED <<call, thread, channel, result, queue, bulkhead, default>>

StartRead(r) ==
  /\ waiting # <<>> /\ r = Head(waiting)
  /\ Cardinality(default) < PoolWidth
  /\ reads' = [reads EXCEPT ![r] = "running"]
  /\ waiting' = Tail(waiting)
  /\ default' = default \union {r}
  /\ UNCHANGED <<call, thread, channel, result, queue, bulkhead>>

EndRead(r) ==
  /\ reads[r] = "running"
  /\ reads' = [reads EXCEPT ![r] = "done"]
  /\ default' = default \ {r}
  /\ UNCHANGED <<call, thread, channel, result, queue, waiting, bulkhead>>
-----------------------------------------------------------------------------
(* _monitor_thread                                                         *)

(* p4p queues a Disconnected: every subscription begins that way.          *)
Subscribe(m) ==
  /\ ThreadGoto(m, "subscribing", "waiting")
  /\ callback' = [callback EXCEPT ![m] = "disconnected"]
  /\ kinds' = [kinds EXCEPT ![m] = {"disconnected"}]
  /\ UNCHANGED <<call, stop, arrived, collected, notices, settled, result, pools>>

SubscribeFail(m) ==
  /\ ThreadGoto(m, "subscribing", "failed")
  /\ Release(m)
  /\ UNCHANGED <<call, channel, result>>

(* stop_event.wait returns, by the event or by the duration.               *)
StopWaiting(m) ==
  /\ ThreadGoto(m, "waiting", "closing")
  /\ UNCHANGED <<call, channel, result, pools>>

Close(m) ==
  /\ ThreadGoto(m, "closing", "done")
  /\ settled' = [settled EXCEPT ![m] = callback[m] = Nothing]
  /\ Release(m)
  /\ UNCHANGED <<call, stop, callback, arrived, kinds, collected, notices, result>>

(* _on_value: what arrives after the stop is dropped.                      *)
Deliver(m, item) ==
  /\ thread[m] \in {"waiting", "closing"}
  /\ callback[m] = Nothing
  /\ item = Value => arrived[m] < MaxValues
  /\ "finished" \notin kinds[m]
  /\ arrived' = [arrived EXCEPT ![m] = IF item = Value THEN @ + 1 ELSE @]
  /\ kinds' = [kinds EXCEPT ![m] = @ \union {item}]
  /\ callback' = [callback EXCEPT ![m] = IF stop[m] THEN Nothing ELSE item]
  /\ UNCHANGED <<call, thread, stop, collected, notices, settled, result, pools>>

(* Broken variant: a Finished is taken for the Disconnected it derives     *)
(* from.                                                                   *)
SubclassNotice(m) ==
  /\ callback[m] \in Notices
  /\ notices' = [notices EXCEPT ![m] =
       @ \union {IF callback[m] = "finished" THEN "disconnected" ELSE callback[m]}]
  /\ callback' = [callback EXCEPT ![m] = Nothing]
  /\ UNCHANGED <<call, thread, stop, arrived, kinds, collected, settled, result, pools>>

RecordNotice(m) ==
  /\ callback[m] \in Notices
  /\ notices' = [notices EXCEPT ![m] = @ \union {callback[m]}]
  /\ callback' = [callback EXCEPT ![m] = Nothing]
  /\ UNCHANGED <<call, thread, stop, arrived, kinds, collected, settled, result, pools>>

RingCollect(m) ==
  /\ callback[m] = Value
  /\ callback' = [callback EXCEPT ![m] = Nothing]
  /\ notices' = [notices EXCEPT ![m] = @ \union {Value}]
  /\ collected' = [collected EXCEPT ![m] =
       Append(IF Len(@) > MaxEvents THEN Tail(@) ELSE @, arrived[m])]
  /\ UNCHANGED <<call, thread, stop, arrived, kinds, settled, result, pools>>

(* One more than the cap is collected, to tell a stream that was cut from  *)
(* one that ended there.  A value that cannot be formatted is collected as *)
(* a placeholder that says so.                                             *)
Collect(m) ==
  /\ callback[m] = Value
  /\ callback' = [callback EXCEPT ![m] = Nothing]
  /\ notices' = [notices EXCEPT ![m] = @ \union {Value}]
  /\ IF Len(collected[m]) >= MaxEvents + 1
       THEN stop' = [stop EXCEPT ![m] = TRUE] /\ UNCHANGED collected
       ELSE collected' = [collected EXCEPT ![m] = Append(@, arrived[m])] /\ UNCHANGED stop
  /\ UNCHANGED <<call, thread, arrived, kinds, settled, result, pools>>
-----------------------------------------------------------------------------
(* The coroutine, when the thread is done: it holds no lock.               *)

Fail(m) ==
  /\ thread[m] = "failed"
  /\ CallGoto(m, "awaiting", "raised")
  /\ UNCHANGED <<thread, channel, result, pools>>

Measure(m) ==
  /\ thread[m] = "done"
  /\ CallGoto(m, "awaiting", "measured")
  /\ result' = [result EXCEPT ![m].truncated = Len(collected[m]) > MaxEvents]
  /\ UNCHANGED <<thread, channel, pools>>

Slice(m) ==
  /\ CallGoto(m, "measured", "sliced")
  /\ result' = [result EXCEPT ![m].events =
       SubSeq(collected[m], 1, IF Len(collected[m]) < MaxEvents THEN Len(collected[m]) ELSE MaxEvents)]
  /\ UNCHANGED <<thread, channel, pools>>

(* _ChannelNotices.state                                                   *)
State(m) ==
  CASE Value \in notices[m] -> "connected"
    [] notices[m] = {"disconnected"} -> "disconnected"
    [] OTHER -> "unknown"

Judge(m) ==
  /\ CallGoto(m, "sliced", "judged")
  /\ result' = [result EXCEPT ![m].connection = State(m)]
  /\ UNCHANGED <<thread, channel, pools>>

(* _ChannelNotices.detail                                                  *)
Detail(m) ==
  IF "error" \in notices[m] THEN "errors"
  ELSE CASE State(m) = "disconnected" -> "never connected"
         [] State(m) = "unknown" /\ "finished" \in notices[m] -> "ended by the server"
         [] State(m) = "unknown" /\ "finished" \notin notices[m] -> "undetermined"
         [] OTHER -> Nothing

Explain(m) ==
  /\ CallGoto(m, "judged", "returned")
  /\ result' = [result EXCEPT ![m].detail = Detail(m)]
  /\ UNCHANGED <<thread, channel, pools>>
-----------------------------------------------------------------------------
ThreadStep(m) == Subscribe(m) \/ SubscribeFail(m) \/ StopWaiting(m) \/ Close(m)
CallbackStep(m) == RecordNotice(m) \/ Collect(m)
LoopStep(m) == Fail(m) \/ Measure(m) \/ Slice(m) \/ Judge(m) \/ Explain(m)

Next ==
  \/ \E m \in Monitors :
       \/ Monitor(m) \/ StartMonitor(m) \/ Cancel(m)
       \/ ThreadStep(m) \/ CallbackStep(m) \/ LoopStep(m)
       \/ \E item \in Notices \union {Value} : Deliver(m, item)
  \/ \E r \in Reads : Read(r) \/ StartRead(r) \/ EndRead(r)

Spec == Init /\ [][Next]_vars

(* The reads are served and their threads run; nothing is assumed of the   *)
(* monitors, which may run for ever.                                       *)
FairSpec ==
  Spec /\ \A r \in Reads : WF_vars(StartRead(r)) /\ WF_vars(EndRead(r))

(* The pool starts the monitors it has room for, their threads and the     *)
(* event loop run: a subscription waits no longer than its duration.       *)
(* Nothing is assumed of the channels.                                     *)
MonitorsRun ==
  \A m \in Monitors :
    WF_vars(StartMonitor(m)) /\ WF_vars(ThreadStep(m)) /\ WF_vars(LoopStep(m))
-----------------------------------------------------------------------------
(* Every variable holds a value the code gives it, and no pool is wider    *)
(* than it was made.                                                       *)
TypeOK ==
  /\ call \in [Monitors -> {"idle", "awaiting", "measured", "sliced", "judged",
                            "returned", "raised", "cancelled"}]
  /\ thread \in [Monitors -> {"none", "queued", "subscribing", "waiting", "closing",
                              "done", "failed"}]
  /\ queue \in Seq(Monitors) /\ waiting \in Seq(Reads)
  /\ stop \in [Monitors -> BOOLEAN] /\ settled \in [Monitors -> BOOLEAN]
  /\ callback \in [Monitors -> Notices \union {Value, Nothing}]
  /\ arrived \in [Monitors -> Nat]
  /\ kinds \in [Monitors -> SUBSET (Notices \union {Value})]
  /\ collected \in [Monitors -> Seq(Nat)]
  /\ notices \in [Monitors -> SUBSET (Notices \union {Value})]
  /\ result \in [Monitors -> [truncated : BOOLEAN, events : Seq(Nat),
                              connection : Verdicts \union {Nothing},
                              detail : {Nothing, "errors", "never connected",
                                        "ended by the server", "undetermined"}]]
  /\ reads \in [Reads -> {"idle", "queued", "running", "done"}]
  /\ bulkhead \subseteq Monitors /\ Cardinality(bulkhead) <= MonitorWidth
  /\ default \subseteq Monitors \union Reads /\ Cardinality(default) <= PoolWidth

Answered == {m \in Monitors : call[m] = "returned"}

(* A monitor answers the first values of its channel: in order, none left  *)
(* out, none twice, no notice among them, and at most max_events.          *)
EventsAreFirst ==
  \A m \in Answered :
    /\ result[m].events = [i \in 1 .. Len(result[m].events) |-> i]
    /\ Len(result[m].events) <= MaxEvents
    /\ result[m].truncated => Len(result[m].events) = MaxEvents

(* "truncated is True iff MORE than max_events actually arrived": if no    *)
(* callback was under way when the subscription was closed.  When one was, *)
(* "truncated" is still never said of a stream that was not.               *)
TruncationHonest ==
  \A m \in Answered :
    /\ result[m].truncated => arrived[m] > MaxEvents
    /\ settled[m] /\ ~result[m].truncated => Len(result[m].events) = arrived[m]

(* "connected" is said if there was a value, and always if one is          *)
(* answered; "disconnected" of a channel of which nothing else was seen,   *)
(* and not of one that ended or failed.                                    *)
ConnectionHonest ==
  \A m \in Answered :
    /\ result[m].connection = "connected" => arrived[m] > 0
    /\ result[m].events # <<>> => result[m].connection = "connected"
    /\ settled[m] /\ result[m].connection = "disconnected" =>
         kinds[m] = {"disconnected"}

(* An empty answer is explained, as far as the channel was done when it    *)
(* was given: "an empty event list is readable on its own".                *)
EmptyExplained ==
  \A m \in Answered :
    settled[m] /\ result[m].events = <<>> =>
      /\ result[m].connection # "connected"
      /\ result[m].detail # Nothing

(* Every monitor that is called ends, if monitors are let run.             *)
EveryMonitorEnds ==
  MonitorsRun =>
    \A m \in Monitors : call[m] = "awaiting" ~> call[m] \in {"returned", "raised", "cancelled"}

(* The bulkhead: every read ends, even if no monitor ever does, however    *)
(* many are running, queued, or cancelled and still holding their threads. *)
EveryReadEnds == \A r \in Reads : reads[r] = "queued" ~> reads[r] = "done"
=============================================================================
