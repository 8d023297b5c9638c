-------------------------- MODULE RateWindowProofs ---------------------------
(***************************************************************************)
(* TLAPS proofs about RateWindow, for every set of threads, limit, window  *)
(* and clock bound.                                                        *)
(*                                                                         *)
(* The history of admissions is split in two at `Dropped': the tokens the  *)
(* purge removed, which are all older than the window of any later sample, *)
(* and the tokens still in the deque.  A thread that is about to record    *)
(* sees fewer than Limit of the latter, so the Limit-th admission before   *)
(* its own is among the former.                                            *)
(***************************************************************************)
EXTENDS RateWindow, TLAPS

Dropped == Len(admitted) - Len(window)

(* The lock holder is the one thread in the critical section. *)
MutexInv == \A t \in Threads : pc[t] \in Critical <=> lock = t

(* Times: admissions were sampled in the past, in order, and not after the *)
(* sample of the thread in the critical section.                           *)
ClockInv ==
  /\ \A t \in Threads : now[t] <= clock
  /\ \A i \in 1 .. Len(admitted) : admitted[i] <= clock
  /\ \A i, j \in 1 .. Len(admitted) : i <= j => admitted[i] <= admitted[j]
  /\ \A t \in Threads : pc[t] \in Sampled =>
       \A i \in 1 .. Len(admitted) : admitted[i] <= now[t]

(* The deque is the end of the history, never longer than the limit, and   *)
(* what was dropped lies before the window of the current sample.          *)
WindowInv ==
  /\ Len(window) <= Limit
  /\ Len(window) <= Len(admitted)
  /\ \A i \in 1 .. Len(window) : window[i] = admitted[Dropped + i]
  /\ \A i \in 1 .. Dropped : admitted[i] < clock - Window
  /\ \A t \in Threads : pc[t] \in Sampled =>
       \A i \in 1 .. Dropped : admitted[i] < now[t] - Window
  /\ \A t \in Threads : pc[t] = "recording" => Len(window) < Limit

IInv == TypeOK /\ MutexInv /\ ClockInv /\ WindowInv /\ WindowBound /\ RefusalJustified

USE LimiterAssumption

(* deque(maxlen=Limit): what it keeps is a sequence of samples, and a      *)
(* sequence that fits is kept whole.                                       *)
LEMMA BoundedSeq ==
  ASSUME NEW seq \in Seq(Nat)
  PROVE  /\ Bounded(seq) \in Seq(Nat)
         /\ Len(seq) <= Limit => Bounded(seq) = seq
<1>1. CASE Len(seq) > Limit
  <2>1. Len(seq) > 0 /\ seq # <<>>
    BY <1>1
  <2>2. Tail(seq) \in Seq(Nat)
    BY <2>1
  <2>3. QED
    BY <1>1, <2>2 DEF Bounded
<1>2. CASE ~(Len(seq) > Limit)
  BY <1>2 DEF Bounded
<1>3. QED
  BY <1>1, <1>2

(* Type correctness of the limiter. *)
THEOREM TypeCorrect == Spec => []TypeOK
<1>1. Init => TypeOK
  BY DEF Init, TypeOK, PCs
<1>2. TypeOK /\ [Next]_vars => TypeOK'
  <2> SUFFICES ASSUME TypeOK, [Next]_vars PROVE TypeOK'
    OBVIOUS
  <2> USE DEF TypeOK, PCs, Critical, Sampled, Goto
  <2>1. CASE Tick
    BY <2>1 DEF Tick
  <2>2. ASSUME NEW t \in Threads, Call(t) \/ Acquire(t) \/ Return(t) PROVE TypeOK'
    BY <2>2 DEF Call, Acquire, Return
  <2>3. ASSUME NEW t \in Threads, Sample(t) \/ PassUnderLimit(t) \/ RefuseOverLimit(t)
        PROVE TypeOK'
    BY <2>3 DEF Sample, PassUnderLimit, RefuseOverLimit
  <2>4. ASSUME NEW t \in Threads, Purge(t) PROVE TypeOK'
    BY <2>4 DEF Purge, Expired
  <2>5. ASSUME NEW t \in Threads, Record(t) PROVE TypeOK'
    <3>1. Append(window, now[t]) \in Seq(Nat) /\ Append(admitted, now[t]) \in Seq(Nat)
      OBVIOUS
    <3>2. window' \in Seq(Nat) /\ admitted' \in Seq(Nat)
      BY <2>5, <3>1, BoundedSeq DEF Record
    <3>3. QED
      BY <2>5, <3>2 DEF Record
  <2>6. CASE UNCHANGED vars
    BY <2>6 DEF vars
  <2>7. QED
    BY <2>1, <2>2, <2>3, <2>4, <2>5, <2>6 DEF Next, InLock
<1>3. QED
  BY <1>1, <1>2, PTL DEF Spec

(* The invariant holds initially: nobody was admitted. *)
LEMMA InitIInv == Init => IInv
  BY DEF Init, IInv, TypeOK, PCs, Critical, Sampled, MutexInv, ClockInv, WindowInv,
         Dropped, WindowBound, RefusalJustified

(* A step that touches neither the deque nor the history, takes no sample  *)
(* and enters or leaves no critical section keeps what is said of time and *)
(* of the deque.                                                           *)
LEMMA QuietStep ==
  ASSUME IInv, TypeOK',
         UNCHANGED <<now, window, admitted>>,
         clock' >= clock,
         \A t \in Threads : pc'[t] \in Sampled => pc[t] \in Sampled,
         \A t \in Threads : pc'[t] = "recording" =>
                              pc[t] = "recording" \/ Len(window) < Limit
  PROVE  ClockInv' /\ WindowInv' /\ WindowBound'
<1> USE DEF IInv, TypeOK
<1>1. ClockInv'
  BY DEF ClockInv
<1>2. WindowInv'
  BY DEF WindowInv, Dropped
<1>3. WindowBound'
  BY DEF WindowBound
<1>4. QED
  BY <1>1, <1>2, <1>3

(* The history only grows, so a refusal that was justified stays so. *)
LEMMA RefusalsStayJustified ==
  ASSUME IInv, TypeOK', NEW t \in Threads,
         pc[t] = "refused", now'[t] = now[t],
         Len(admitted) <= Len(admitted'),
         \A i \in 1 .. Len(admitted) : admitted'[i] = admitted[i]
  PROVE  \E n \in Limit .. Len(admitted') :
           /\ admitted'[n - Limit + 1] >= now'[t] - Window
           /\ admitted'[n] <= now'[t]
<1> USE DEF IInv, TypeOK
<1>1. PICK n \in Limit .. Len(admitted) :
        /\ admitted[n - Limit + 1] >= now[t] - Window
        /\ admitted[n] <= now[t]
  BY DEF RefusalJustified
<1>2. n - Limit + 1 \in 1 .. Len(admitted) /\ n \in 1 .. Len(admitted)
  OBVIOUS
<1>3. n \in Limit .. Len(admitted')
  OBVIOUS
<1>4. admitted'[n - Limit + 1] >= now'[t] - Window /\ admitted'[n] <= now'[t]
  BY <1>1, <1>2
<1>5. QED
  BY <1>3, <1>4

(* Time passes. *)
LEMMA TickIInv == IInv /\ TypeOK' /\ Tick => IInv'
<1> SUFFICES ASSUME IInv, TypeOK', Tick PROVE IInv'
  OBVIOUS
<1>1. ClockInv' /\ WindowInv' /\ WindowBound'
  BY QuietStep DEF Tick, IInv, TypeOK
<1>2. MutexInv' /\ RefusalJustified'
  BY DEF IInv, Tick, MutexInv, RefusalJustified
<1>3. QED
  BY <1>1, <1>2 DEF IInv

(* The steps outside the critical section, and the one that enters it. *)
LEMMA OutsideIInv ==
  ASSUME IInv, TypeOK', NEW t \in Threads, Call(t) \/ Acquire(t) \/ Return(t)
  PROVE  IInv'
<1> USE DEF IInv, TypeOK, Goto
<1>1. /\ UNCHANGED <<clock, now, window, admitted>>
      /\ \A s \in Threads : s # t => pc'[s] = pc[s]
      /\ pc'[t] \in {"waiting", "locked", "idle"}
  BY DEF Call, Acquire, Return
<1>2. ClockInv' /\ WindowInv' /\ WindowBound'
  <2>1. \A s \in Threads : pc'[s] \in Sampled => pc[s] \in Sampled
    BY <1>1 DEF Sampled
  <2>2. \A s \in Threads : pc'[s] = "recording" => pc[s] = "recording"
    BY <1>1
  <2>3. QED
    BY <1>1, <2>1, <2>2, QuietStep
<1>3. MutexInv'
  BY <1>1 DEF MutexInv, Critical, Sampled, Call, Acquire, Return
<1>4. RefusalJustified'
  BY <1>1 DEF RefusalJustified
<1>5. QED
  BY <1>2, <1>3, <1>4

(* The clock is sampled in the critical section, so no later sample can    *)
(* have been recorded already.                                             *)
LEMMA SampleIInv ==
  ASSUME IInv, TypeOK', NEW t \in Threads, Sample(t) PROVE IInv'
<1> USE DEF IInv, TypeOK, Goto, Sample
<1>1. \A s \in Threads : s # t => pc[s] \notin Critical
  BY DEF MutexInv, Critical
<1>2. MutexInv'
  BY DEF MutexInv, Critical, Sampled
<1>3. ClockInv'
  BY <1>1 DEF ClockInv, Critical, Sampled
<1>4. WindowInv'
  BY <1>1 DEF WindowInv, Dropped, Critical, Sampled
<1>5. WindowBound'
  BY DEF WindowBound
<1>6. RefusalJustified'
  BY DEF RefusalJustified
<1>7. QED
  BY <1>2, <1>3, <1>4, <1>5, <1>6

(* The purge moves the head of the deque to the dropped part. *)
LEMMA PurgeIInv ==
  ASSUME IInv, TypeOK', NEW t \in Threads, Purge(t) PROVE IInv'
<1> USE DEF IInv, TypeOK, Purge
<1>1. \A s \in Threads : s # t => pc[s] \notin Critical
  BY DEF MutexInv, Critical, Sampled
<1>2. /\ Len(window') = Len(window) - 1
      /\ \A i \in 1 .. Len(window') : window'[i] = window[i + 1]
      /\ Head(window) = window[1] /\ Len(window) > 0
  BY DEF Expired
<1>3. Dropped' = Dropped + 1 /\ admitted[Dropped + 1] = Head(window)
  BY <1>2 DEF Dropped, WindowInv
<1>4. admitted[Dropped + 1] < now[t] - Window /\ now[t] <= clock
  BY <1>3 DEF Expired, ClockInv
<1>5. WindowInv'
  <2>1. Len(window') <= Limit /\ Len(window') <= Len(admitted')
    BY <1>2 DEF WindowInv
  <2>2. \A i \in 1 .. Len(window') : window'[i] = admitted'[Dropped' + i]
    <3> SUFFICES ASSUME NEW i \in 1 .. Len(window')
                 PROVE  window'[i] = admitted'[Dropped' + i]
      OBVIOUS
    <3>1. window'[i] = window[i + 1] /\ i + 1 \in 1 .. Len(window)
      BY <1>2
    <3>2. window[i + 1] = admitted[Dropped + (i + 1)]
      BY <3>1 DEF WindowInv
    <3>3. QED
      BY <1>3, <3>1, <3>2 DEF Dropped
  <2>3. \A i \in 1 .. Dropped' :
          admitted'[i] < clock' - Window /\ admitted'[i] < now[t] - Window
    <3> SUFFICES ASSUME NEW i \in 1 .. Dropped'
                 PROVE  admitted[i] < clock - Window /\ admitted[i] < now[t] - Window
      OBVIOUS
    <3>1. Dropped \in Nat
      BY DEF Dropped, WindowInv
    <3>2. CASE i \in 1 .. Dropped
      BY <3>2 DEF WindowInv, Sampled
    <3>3. CASE i = Dropped + 1
      <4>1. Dropped + 1 \in 1 .. Len(admitted)
        BY <3>1, <1>2, <1>3 DEF Dropped
      <4>2. QED
        BY <1>4, <3>3, <4>1
    <3>4. QED
      BY <1>3, <3>1, <3>2, <3>3
  <2>4. \A s \in Threads : pc'[s] \in Sampled => s = t
    BY <1>1 DEF Critical
  <2>5. QED
    BY <2>1, <2>2, <2>3, <2>4, <1>2 DEF WindowInv
<1>6. MutexInv' /\ ClockInv' /\ WindowBound' /\ RefusalJustified'
  BY DEF MutexInv, ClockInv, WindowBound, RefusalJustified
<1>7. QED
  BY <1>5, <1>6

(* Under the limit the thread goes on, in the lock, to record its token. *)
LEMMA PassIInv ==
  ASSUME IInv, TypeOK', NEW t \in Threads, PassUnderLimit(t) PROVE IInv'
<1> USE DEF IInv, TypeOK, Goto, PassUnderLimit
<1>1. ClockInv' /\ WindowInv' /\ WindowBound'
  <2>1. \A s \in Threads : pc'[s] \in Sampled => pc[s] \in Sampled
    BY DEF Sampled
  <2>2. \A s \in Threads : pc'[s] = "recording" =>
                            pc[s] = "recording" \/ Len(window) < Limit
    OBVIOUS
  <2>3. QED
    BY <2>1, <2>2, QuietStep
<1>2. MutexInv'
  BY DEF MutexInv, Critical, Sampled
<1>3. RefusalJustified'
  BY DEF RefusalJustified
<1>4. QED
  BY <1>1, <1>2, <1>3

(* A refused call saw a full deque whose head is still in its window: the  *)
(* last Limit admissions justify the refusal.                              *)
LEMMA RefuseIInv ==
  ASSUME IInv, TypeOK', NEW t \in Threads, RefuseOverLimit(t) PROVE IInv'
<1> USE DEF IInv, TypeOK, Goto, RefuseOverLimit
<1>1. ClockInv' /\ WindowInv' /\ WindowBound'
  <2>1. \A s \in Threads : pc'[s] \in Sampled => pc[s] \in Sampled
    BY DEF Sampled
  <2>2. \A s \in Threads : pc'[s] = "recording" => pc[s] = "recording"
    OBVIOUS
  <2>3. QED
    BY <2>1, <2>2, QuietStep
<1>2. MutexInv'
  BY DEF MutexInv, Critical, Sampled
<1>3. RefusalJustified'
  <2> DEFINE n == Len(admitted)
  <2>1. Len(window) = Limit /\ Head(window) = window[1]
    BY DEF WindowInv
  <2>2. n - Limit + 1 = Dropped + 1 /\ n \in Limit .. Len(admitted)
    BY <2>1 DEF WindowInv, Dropped
  <2>3. admitted[n - Limit + 1] = Head(window)
    BY <2>1, <2>2 DEF WindowInv
  <2>4. admitted[n - Limit + 1] >= now[t] - Window
    BY <2>1, <2>2, <2>3 DEF Expired
  <2>5. admitted[n] <= now[t]
    BY <2>2 DEF ClockInv, Sampled
  <2>6. QED
    BY <2>2, <2>4, <2>5 DEF RefusalJustified
<1>4. QED
  BY <1>1, <1>2, <1>3

(* The new admission: the deque holds fewer than Limit tokens, so the one  *)
(* Limit places before the new one was dropped, and lies outside the       *)
(* window that ends now.                                                   *)
LEMMA RecordIInv ==
  ASSUME IInv, TypeOK', NEW t \in Threads, Record(t) PROVE IInv'
<1> DEFINE n == Len(admitted)
           m == Len(window)
<1>1. /\ TypeOK /\ MutexInv /\ ClockInv /\ WindowInv
      /\ WindowBound /\ RefusalJustified
  BY DEF IInv
<1>2. /\ pc[t] = "recording" /\ pc' = [pc EXCEPT ![t] = "admitted"]
      /\ lock' = NoThread /\ UNCHANGED <<clock, now>>
      /\ window' = Bounded(Append(window, now[t]))
      /\ admitted' = Append(admitted, now[t])
  BY DEF Record, Goto
<1>3. /\ window \in Seq(Nat) /\ admitted \in Seq(Nat) /\ now[t] \in Nat
      /\ clock \in Nat /\ n \in Nat /\ m \in Nat
      /\ pc \in [Threads -> PCs] /\ now \in [Threads -> Nat]
  BY <1>1 DEF TypeOK
<1>4. m < Limit /\ m <= n
  BY <1>1, <1>2 DEF WindowInv
<1>5. /\ Append(window, now[t]) \in Seq(Nat)
      /\ Len(Append(window, now[t])) = m + 1
      /\ \A i \in 1 .. m : Append(window, now[t])[i] = window[i]
      /\ Append(window, now[t])[m + 1] = now[t]
  BY <1>3
<1>6. m + 1 <= Limit
  BY <1>3, <1>4
<1>7. window' = Append(window, now[t])
  BY <1>2, <1>5, <1>6, BoundedSeq
<1>8. /\ Len(admitted') = n + 1
      /\ \A i \in 1 .. n : admitted'[i] = admitted[i]
      /\ admitted'[n + 1] = now[t]
  BY <1>2, <1>3
<1>9. Dropped = n - m /\ Dropped' = Dropped /\ Dropped \in Nat
  BY <1>3, <1>4, <1>5, <1>7, <1>8 DEF Dropped
<1>10. /\ \A i \in 1 .. n : admitted[i] \in Nat /\ admitted[i] <= now[t]
       /\ \A i \in 1 .. Dropped : admitted[i] < now[t] - Window
       /\ now[t] <= clock
  BY <1>1, <1>2, <1>3 DEF ClockInv, WindowInv, Sampled
<1>11. \A s \in Threads : s # t => pc'[s] = pc[s] /\ pc[s] \notin Critical
  BY <1>1, <1>2, <1>3 DEF MutexInv, Critical, Sampled
<1>12. pc'[t] = "admitted"
  BY <1>2, <1>3
<1>13. \A s \in Threads : pc'[s] \notin Critical
  BY <1>11, <1>12 DEF Critical, Sampled
<1> HIDE DEF n, m
<1>14. MutexInv'
  BY <1>2, <1>13 DEF MutexInv
<1>15. ClockInv'
  <2>1. \A i \in 1 .. n + 1 : admitted'[i] <= clock'
    BY <1>1, <1>2, <1>3, <1>8, <1>10 DEF ClockInv, n
  <2>2. \A i, j \in 1 .. n + 1 : i <= j => admitted'[i] <= admitted'[j]
    <3> SUFFICES ASSUME NEW i \in 1 .. n + 1, NEW j \in 1 .. n + 1, i <= j
                 PROVE  admitted'[i] <= admitted'[j]
      OBVIOUS
    <3>1. CASE j \in 1 .. n
      <4>1. i \in 1 .. n
        BY <1>3, <3>1
      <4>2. QED
        BY <1>1, <1>8, <3>1, <4>1 DEF ClockInv, n
    <3>2. CASE j = n + 1 /\ i \in 1 .. n
      BY <1>8, <1>10, <3>2
    <3>3. CASE j = n + 1 /\ i = n + 1
      BY <1>3, <1>8, <3>3
    <3>4. QED
      BY <1>3, <3>1, <3>2, <3>3
  <2>3. \A s \in Threads : now'[s] <= clock' /\ pc'[s] \notin Sampled
    BY <1>1, <1>2, <1>13 DEF ClockInv, Critical
  <2>4. QED
    BY <1>8, <2>1, <2>2, <2>3 DEF ClockInv
<1>16. WindowInv'
  <2>1. \A i \in 1 .. m + 1 : window'[i] = admitted'[Dropped + i]
    <3> SUFFICES ASSUME NEW i \in 1 .. m + 1
                 PROVE  window'[i] = admitted'[Dropped + i]
      OBVIOUS
    <3>1. CASE i \in 1 .. m
      <4>1. window[i] = admitted[Dropped + i]
        BY <1>1, <3>1 DEF WindowInv, m
      <4>2. Dropped + i \in 1 .. n
        BY <1>3, <1>9, <3>1
      <4>3. QED
        BY <1>5, <1>7, <1>8, <3>1, <4>1, <4>2
    <3>2. CASE i = m + 1
      <4>1. Dropped + i = n + 1
        BY <1>3, <1>9, <3>2
      <4>2. QED
        BY <1>5, <1>7, <1>8, <3>2, <4>1
    <3>3. QED
      BY <1>3, <3>1, <3>2
  <2>2. \A i \in 1 .. Dropped : admitted'[i] < clock' - Window
    <3> SUFFICES ASSUME NEW i \in 1 .. Dropped PROVE admitted'[i] < clock' - Window
      OBVIOUS
    <3>1. admitted[i] < clock - Window
      BY <1>1 DEF WindowInv
    <3>2. i \in 1 .. n
      BY <1>3, <1>4, <1>9
    <3>3. QED
      BY <1>2, <1>8, <3>1, <3>2
  <2>3. \A s \in Threads : pc'[s] \notin Sampled /\ pc'[s] # "recording"
    BY <1>13 DEF Critical, Sampled
  <2>4. Len(window') = m + 1 /\ m + 1 <= n + 1
    BY <1>3, <1>4, <1>5, <1>7
  <2>5. QED
    BY <1>6, <1>8, <1>9, <2>1, <2>2, <2>3, <2>4 DEF WindowInv
<1>17. WindowBound'
  <2>0. Len(admitted') - Limit = n + 1 - Limit /\ n + 1 - Limit \in Int
    BY <1>3, <1>8
  <2> SUFFICES ASSUME NEW i \in 1 .. (n + 1 - Limit)
               PROVE  admitted'[i + Limit] > admitted'[i] + Window
    BY <2>0 DEF WindowBound
  <2>1. CASE i \in 1 .. n - Limit
    <3>1. i \in 1 .. n /\ i + Limit \in 1 .. n
      BY <1>3, <2>1
    <3>2. admitted[i + Limit] > admitted[i] + Window
      BY <1>1, <2>1 DEF WindowBound, n
    <3>3. QED
      BY <1>8, <3>1, <3>2
  <2>2. CASE i = n + 1 - Limit
    <3>1. i \in 1 .. Dropped /\ i \in 1 .. n /\ i + Limit = n + 1
      BY <1>3, <1>4, <1>9, <2>2
    <3>2. admitted[i] < now[t] - Window /\ admitted[i] \in Nat
      BY <1>10, <3>1
    <3>3. admitted'[i] = admitted[i] /\ admitted'[i + Limit] = now[t]
      BY <1>8, <3>1
    <3>4. admitted[i] + Window < now[t]
      BY <1>3, <3>2
    <3>5. QED
      BY <1>3, <3>2, <3>3, <3>4
  <2>3. i \in 1 .. n - Limit \/ i = n + 1 - Limit
    BY <1>3, <2>0
  <2>4. QED
    BY <2>1, <2>2, <2>3
<1>18. RefusalJustified'
  <2> SUFFICES ASSUME NEW s \in Threads, pc'[s] = "refused"
               PROVE  \E k \in Limit .. Len(admitted') :
                        /\ admitted'[k - Limit + 1] >= now'[s] - Window
                        /\ admitted'[k] <= now'[s]
    BY DEF RefusalJustified
  <2>1. pc[s] = "refused"
    BY <1>11, <1>12
  <2>2. Len(admitted) <= Len(admitted')
    BY <1>3, <1>8 DEF n
  <2>3. QED
    BY <1>2, <1>8, <2>1, <2>2, RefusalsStayJustified DEF n
<1>19. QED
  BY <1>14, <1>15, <1>16, <1>17, <1>18 DEF IInv

(* Every step preserves the invariant. *)
LEMMA NextIInv == IInv /\ TypeOK' /\ [Next]_vars => IInv'
<1> SUFFICES ASSUME IInv, TypeOK', [Next]_vars PROVE IInv'
  OBVIOUS
<1>1. CASE Tick
  BY <1>1, TickIInv
<1>2. ASSUME NEW t \in Threads, Call(t) \/ Acquire(t) \/ InLock(t) \/ Return(t)
      PROVE  IInv'
  BY <1>2, OutsideIInv, SampleIInv, PurgeIInv, PassIInv, RefuseIInv, RecordIInv
     DEF InLock
<1>3. CASE UNCHANGED vars
  BY <1>3 DEF vars, IInv, TypeOK, MutexInv, ClockInv, WindowInv, Dropped,
              WindowBound, RefusalJustified
<1>4. QED
  BY <1>1, <1>2, <1>3 DEF Next

LEMMA InvariantHolds == Spec => []IInv
<1>1. TypeOK /\ IInv /\ TypeOK' /\ [Next]_vars => IInv'
  BY NextIInv
<1>2. QED
  BY <1>1, InitIInv, TypeCorrect, PTL DEF Spec

(* No closed interval as long as the window holds more than Limit          *)
(* admissions (SafetyLayer, OlogWriteGate, ReadThrottle).                  *)
THEOREM AdmissionsBounded == Spec => []WindowBound
<1>1. IInv => WindowBound
  BY DEF IInv
<1>2. QED
  BY <1>1, InvariantHolds, PTL

(* No call is refused while a token is free.                               *)
THEOREM RefusalsJustified == Spec => []RefusalJustified
<1>1. IInv => RefusalJustified
  BY DEF IInv
<1>2. QED
  BY <1>1, InvariantHolds, PTL

(* The verdicts change only when a call is judged or its thread returns.   *)
LEMMA SameVerdicts ==
  ASSUME TypeOK, TypeOK',
         \A t \in Threads : pc'[t] # pc[t] =>
            /\ pc[t] \notin {"admitted", "refused"}
            /\ pc'[t] \notin {"admitted", "refused"},
         Len(window') = Len(window)
  PROVE  UNCHANGED Pool!poolVars
BY DEF TypeOK, Pool!poolVars

(* Every step of the limiter is a step of the token pool, or none.         *)
LEMMA PoolStep == IInv /\ TypeOK' /\ [Next]_vars => [Pool!PoolNext]_(Pool!poolVars)
<1> SUFFICES ASSUME IInv, TypeOK', [Next]_vars
             PROVE  Pool!PoolNext \/ UNCHANGED Pool!poolVars
  OBVIOUS
<1> USE DEF IInv, TypeOK, Goto
<1>1. ASSUME NEW t \in Threads, Call(t) \/ Acquire(t) \/ Sample(t) \/ PassUnderLimit(t)
      PROVE  UNCHANGED Pool!poolVars
  <2>1. /\ UNCHANGED window
        /\ \A s \in Threads : pc'[s] # pc[s] =>
             /\ pc[s] \notin {"admitted", "refused"}
             /\ pc'[s] \notin {"admitted", "refused"}
    BY <1>1 DEF Call, Acquire, Sample, PassUnderLimit
  <2>2. QED
    BY <2>1, SameVerdicts
<1>2. CASE Tick \/ UNCHANGED vars
  <2>1. UNCHANGED <<pc, window>>
    BY <1>2 DEF Tick, vars
  <2>2. QED
    BY <2>1, SameVerdicts
<1>3. ASSUME NEW t \in Threads, Purge(t) PROVE Pool!Expire
  <2>1. Len(window) > 0 /\ Len(window') = Len(window) - 1 /\ UNCHANGED pc
    BY <1>3 DEF Purge, Expired
  <2>2. QED
    BY <2>1 DEF Pool!Expire
<1>4. ASSUME NEW t \in Threads, RefuseOverLimit(t) PROVE Pool!Refuse(t)
  BY <1>4 DEF RefuseOverLimit, Pool!Refuse, Pool!Tell
<1>5. ASSUME NEW t \in Threads, Record(t) PROVE Pool!Take(t)
  <2>1. Len(window) < Limit
    BY <1>5 DEF Record, WindowInv
  <2>2. now[t] \in Nat /\ Append(window, now[t]) \in Seq(Nat)
        /\ Len(Append(window, now[t])) = Len(window) + 1
    OBVIOUS
  <2>3. Len(window') = Len(window) + 1
    <3>1. Len(Append(window, now[t])) <= Limit
      BY <2>1, <2>2
    <3>2. Bounded(Append(window, now[t])) = Append(window, now[t])
      BY <2>2, <3>1, BoundedSeq
    <3>3. QED
      BY <1>5, <2>2, <3>2 DEF Record
  <2>4. pc[t] = "recording" /\ pc' = [pc EXCEPT ![t] = "admitted"]
    BY <1>5 DEF Record
  <2>5. QED
    BY <2>1, <2>3, <2>4 DEF Pool!Take, Pool!Tell
<1>6. ASSUME NEW t \in Threads, Return(t) PROVE Pool!Forget(t)
  BY <1>6 DEF Return, Pool!Forget
<1>7. QED
  BY <1>1, <1>2, <1>3, <1>4, <1>5, <1>6 DEF Next, InLock, Pool!PoolNext

(* The limiter implements the atomic token pool. *)
THEOREM PoolImplemented == Spec => PoolRefined
<1>1. Init => Pool!PoolInit
  BY DEF Init, Pool!PoolInit
<1>2. QED
  BY <1>1, PoolStep, InvariantHolds, TypeCorrect, PTL
     DEF PoolRefined, Pool!PoolSpec, Spec
=============================================================================
