----------------------------- MODULE RateWindow ------------------------------
(***************************************************************************)
(* The sliding-window limiter.  SafetyLayer (PV writes), OlogWriteGate     *)
(* (logbook writes) and ReadThrottle (REST reads) hold one copy each of the *)
(* same code: under a lock, sample the clock, purge the tokens older than  *)
(* the window, compare the number left with the limit, and append a token  *)
(* for an admitted call.  The callers are threads, and each statement of   *)
(* the critical section is a step of its own here, so that what the lock   *)
(* is for shows.                                                           *)
(*                                                                         *)
(* Limit is at least 1: the configuration requires it of both write limits *)
(* (config.py, ge=1), and a read limit of 0 switches ReadThrottle off.     *)
(***************************************************************************)
EXTENDS Naturals, Integers, Sequences

CONSTANTS Threads,    \* threads that call the limiter
          NoThread,   \* the holder of a free lock
          Limit,      \* write_rate_limit, olog_write_rate_limit, read_rate_limit
          Window,     \* _WINDOW_SECONDS, in ticks of the clock
          MaxClock    \* bound: the clock of the model stops here

ASSUME LimiterAssumption ==
  /\ NoThread \notin Threads
  /\ Limit \in Nat \ {0}
  /\ Window \in Nat
  /\ MaxClock \in Nat

VARIABLES clock,      \* time.monotonic()
          lock,       \* who holds _rate_lock
          pc,
          now,        \* each thread's sample of the clock
          window,     \* _timestamps, the oldest token first
          admitted    \* history: the samples of all admitted calls, in order

vars == <<clock, lock, pc, now, window, admitted>>

Sampled == {"purging", "recording"}          \* in the lock, clock sampled
Critical == {"locked"} \union Sampled
PCs == {"idle", "waiting", "admitted", "refused"} \union Critical

Init ==
  /\ clock = 0
  /\ lock = NoThread
  /\ pc = [t \in Threads |-> "idle"]
  /\ now = [t \in Threads |-> 0]
  /\ window = <<>>
  /\ admitted = <<>>

Goto(t, from, to) ==
  /\ pc[t] = from
  /\ pc' = [pc EXCEPT ![t] = to]

Tick ==
  /\ clock < MaxClock
  /\ clock' = clock + 1
  /\ UNCHANGED <<lock, pc, now, window, admitted>>

Call(t) ==
  /\ Goto(t, "idle", "waiting")
  /\ UNCHANGED <<clock, lock, now, window, admitted>>

(* Broken variant: the critical section without its lock.                  *)
UnlockedAcquire(t) ==
  /\ Goto(t, "waiting", "locked")
  /\ lock' = t
  /\ UNCHANGED <<clock, now, window, admitted>>

Acquire(t) ==
  /\ lock = NoThread
  /\ Goto(t, "waiting", "locked")
  /\ lock' = t
  /\ UNCHANGED <<clock, now, window, admitted>>

(* Broken variant: keeps the cutoff in the place of the sample.            *)
CutoffSample(t) ==
  /\ Goto(t, "locked", "purging")
  /\ now' = [now EXCEPT ![t] = clock - Window]
  /\ UNCHANGED <<clock, lock, window, admitted>>

Sample(t) ==
  /\ Goto(t, "locked", "purging")
  /\ now' = [now EXCEPT ![t] = clock]
  /\ UNCHANGED <<clock, lock, window, admitted>>

(* The head of the deque has left the window: a token exactly Window old   *)
(* still counts.                                                           *)
Expired(t) == Len(window) > 0 /\ Head(window) < now[t] - Window

(* Broken variant: looks at the expired head and does not remove it.       *)
PeekingPurge(t) ==
  /\ pc[t] = "purging"
  /\ Expired(t)
  /\ UNCHANGED vars

Purge(t) ==
  /\ pc[t] = "purging"
  /\ Expired(t)
  /\ window' = Tail(window)
  /\ UNCHANGED <<clock, lock, pc, now, admitted>>

PassUnderLimit(t) ==
  /\ ~Expired(t)
  /\ Len(window) < Limit
  /\ Goto(t, "purging", "recording")
  /\ UNCHANGED <<clock, lock, now, window, admitted>>

(* Broken variant: a refused call is charged a token.                      *)
ChargingRefuse(t) ==
  /\ ~Expired(t)
  /\ Len(window) >= Limit
  /\ Goto(t, "purging", "refused")
  /\ lock' = NoThread
  /\ window' = Append(Tail(window), now[t])
  /\ UNCHANGED <<clock, now, admitted>>

(* The refusal is raised outside the lock; it appends no token.            *)
RefuseOverLimit(t) ==
  /\ ~Expired(t)
  /\ Len(window) >= Limit
  /\ Goto(t, "purging", "refused")
  /\ lock' = NoThread
  /\ UNCHANGED <<clock, now, window, admitted>>

(* deque(maxlen=Limit).append drops the head of a full deque.              *)
Bounded(seq) == IF Len(seq) > Limit THEN Tail(seq) ELSE seq

Record(t) ==
  /\ Goto(t, "recording", "admitted")
  /\ window' = Bounded(Append(window, now[t]))
  /\ admitted' = Append(admitted, now[t])
  /\ lock' = NoThread
  /\ UNCHANGED <<clock, now>>

Return(t) ==
  /\ pc[t] \in {"admitted", "refused"}
  /\ pc' = [pc EXCEPT ![t] = "idle"]
  /\ UNCHANGED <<clock, lock, now, window, admitted>>

InLock(t) ==
  Sample(t) \/ Purge(t) \/ PassUnderLimit(t) \/ RefuseOverLimit(t) \/ Record(t)

Next ==
  \/ Tick
  \/ \E t \in Threads : Call(t) \/ Acquire(t) \/ InLock(t) \/ Return(t)

Spec == Init /\ [][Next]_vars

(* A thread that is running keeps running.  Nothing is assumed of who gets *)
(* the lock (threading.Lock is not fair) nor of the clock.                 *)
FairSpec == Spec /\ \A t \in Threads : WF_vars(InLock(t))
-----------------------------------------------------------------------------
(* Every variable holds a value the code gives it.                         *)
TypeOK ==
  /\ clock \in Nat
  /\ lock \in Threads \union {NoThread}
  /\ pc \in [Threads -> PCs]
  /\ now \in [Threads -> Nat]
  /\ window \in Seq(Nat)
  /\ admitted \in Seq(Nat)

(* "At most Limit writes per 60 s window": the (i + Limit)-th admission is *)
(* more than Window after the i-th, so that no interval of length Window,  *)
(* closed at both ends, holds more than Limit admissions.                  *)
WindowBound ==
  \A i \in 1 .. Len(admitted) - Limit :
    admitted[i + Limit] > admitted[i] + Window

(* A call is refused only when Limit calls were admitted in the Window     *)
(* that ends at its own sample: neither a token that should have been      *)
(* purged nor an earlier refusal costs anyone an admission.                *)
RefusalJustified ==
  \A t \in Threads : pc[t] = "refused" =>
    \E n \in Limit .. Len(admitted) :
      /\ admitted[n - Limit + 1] >= now[t] - Window
      /\ admitted[n] <= now[t]

(* Over the limit the code raises, it never waits: a thread that has taken *)
(* the lock is told its verdict whatever the clock does.                   *)
NeverBlocksInLock ==
  \A t \in Threads :
    pc[t] \in Critical ~> pc[t] \in {"admitted", "refused"}

(* The limiter implements the atomic token pool: however the threads       *)
(* interleave, each call takes effect in one step.                         *)
Pool == INSTANCE TokenPool WITH
  Callers <- Threads,
  held <- Len(window),
  verdict <- [t \in Threads |->
                IF pc[t] \in {"admitted", "refused"} THEN pc[t] ELSE "none"]

PoolRefined == Pool!PoolSpec
=============================================================================
