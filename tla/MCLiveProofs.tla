----------------------------- MODULE MCLiveProofs -----------------------------
(***************************************************************************)
(* TLAPS proofs about the reads that go to the control system, put         *)
(* together: every behaviour of them is one of the monitors and one of the *)
(* views of display files, whose theorems (PVMonitorProofs and             *)
(* DisplayViewsProofs) hold of it, and the theorems about batches.         *)
(*                                                                         *)
(* The invariant of a batch (BatchInv) says where its chunk lies in the    *)
(* list (AtChunk), what its loop has put in the envelope of the places     *)
(* that it has passed (FiledUpto), and that every status told so far is    *)
(* the one that the reads of its own chunk earned (Told).                  *)
(***************************************************************************)
EXTENDS MCLive, PVMonitorProofs

(* Batches and views leave the monitors and the pools as they are.         *)
THEOREM MonitorsImplemented == LiveSpec => Spec
<1>1. LiveInit => Init
  BY DEF LiveInit
<1>2. [LiveNext]_liveVars => [Next]_vars
  BY DEF LiveNext, liveVars, MonitorStep, BatchStep, ViewStep
<1>3. QED
  BY <1>1, <1>2, PTL DEF LiveSpec, Spec

(* In every behaviour the variables of the monitors keep to their types    *)
(* and neither pool holds more calls than it has threads.                  *)
THEOREM LiveTypeCorrect == LiveSpec => []TypeOK
BY MonitorsImplemented, TypeCorrect, PTL

(* A monitor answers the first values of its channel, in order and at most *)
(* max_events of them, and "truncated" is said of a stream that was cut    *)
(* and of no other (monitor_pv).                                           *)
THEOREM MonitorsHonest == LiveSpec => []MonitorHonest
<1>1. IInv => MonitorHonest
  BY EventsEarned DEF MonitorHonest
<1>2. QED
  BY <1>1, MonitorsImplemented, InvariantHolds, PTL

(* The connection reported is the one seen, and an empty answer comes with *)
(* its reason, unless a callback was under way at the close                *)
(* (_ChannelNotices).                                                      *)
THEOREM ConnectionsExplained == LiveSpec => []ConnectionExplained
<1>1. IInv => ConnectionExplained
  BY ConnectionEarned DEF ConnectionExplained
<1>2. QED
  BY <1>1, MonitorsImplemented, InvariantHolds, PTL
-----------------------------------------------------------------------------
(* The entries of a batch, and the lines of a check.                       *)
Entries == [pv : PVs, place : Nat]
Lines == [pv : PVs, status : {"connected", "disconnected"}]

Placed(entries) == {e.place : e \in Batch!Range(entries)}

(* The places from a + 1 to b whose read gave a value.                     *)
Good(a, b) == {j \in a + 1 .. b : read[j] = "ok"}

(* The places that are read in one chunk with place i.                     *)
SameChunk(i) == {j \in DOMAIN names : (j - 1) \div MaxBatch = (i - 1) \div MaxBatch}

Size == Len(Batch!Chunk)

BatchTyped ==
  /\ caller \in {"batch", "validate"}
  /\ pc \in {"called", "native", "reading", "sorting", "merging", "returned", "raised"}
  /\ names \in Seq(PVs) /\ DOMAIN read = 1 .. Len(names)
  /\ at \in 0 .. Len(names) /\ looped \in Nat
  /\ batch \in [results : Seq(Entries), errors : Seq(Entries)]
  /\ answer \in [pvs : Seq(Lines), connected : Nat, disconnected : Nat]
  /\ caller = "validate" => error # "BATCH_TOO_LARGE"

(* Where the chunk is: at a multiple of its size, until the list is over.  *)
AtChunk ==
  /\ caller = "batch" => at = 0 /\ pc # "merging"
  /\ at = Len(names) \/ \E c \in Nat : at = c * MaxBatch
  /\ pc = "called" /\ names # <<>> => at < Len(names)
  /\ pc \in {"native", "reading", "sorting", "merging"} => at < Len(names)
  /\ pc = "returned" /\ caller = "validate" => at = Len(names)

(* What the batch has of the first k places of the chunk.                  *)
FiledUpto(k) ==
  /\ Len(batch.results) + Len(batch.errors) = k
  /\ Placed(batch.results) \union Placed(batch.errors) = at + 1 .. at + k
  /\ \A e \in Batch!Range(batch.results) : e.pv = names[e.place] /\ read[e.place] = "ok"
  /\ \A e \in Batch!Range(batch.errors) : e.pv = names[e.place] /\ read[e.place] # "ok"
  /\ Len(batch.results) = Cardinality(Good(at, at + k))

Loops ==
  /\ pc \in {"called", "native", "reading"} => batch = Batch!NoBatch /\ looped = 0
  /\ pc = "reading" => DOMAIN outcome = 1 .. Size
  /\ pc \in {"sorting", "merging"} =>
       looped <= Size /\ \A i \in 1 .. Size : read[at + i] = outcome[i]
  /\ pc = "sorting" => FiledUpto(looped)
  /\ pc = "merging" \/ (pc = "returned" /\ caller = "batch") => FiledUpto(Size)

Connected(i) == \E j \in SameChunk(i) : names[j] = names[i] /\ read[j] = "ok"

(* What the check has said so far, and counted.                            *)
Told ==
  /\ Len(answer.pvs) = at + (IF pc = "merging" THEN looped ELSE 0)
  /\ \A i \in 1 .. Len(answer.pvs) :
       /\ answer.pvs[i].pv = names[i]
       /\ answer.pvs[i].status = "connected" <=> Connected(i)
  /\ answer.connected = Cardinality(Good(0, at))
  /\ answer.connected + answer.disconnected = at

BatchInv == BatchTyped /\ AtChunk /\ Loops /\ Told

LEMMA ChunkIs ==
  ASSUME BatchTyped, AtChunk
  PROVE  /\ Size \in Nat /\ at + Size <= Len(names)
         /\ \A i \in 1 .. Size : Batch!Chunk[i] = names[at + i] /\ names[at + i] \in PVs
         /\ caller = "batch" => Size = Len(names)
         /\ caller = "validate" =>
              /\ Size <= MaxBatch
              /\ at < Len(names) => Size > 0
              /\ at + Size = Len(names) \/ Size = MaxBatch
<1>0. /\ names \in Seq(PVs) /\ at \in Nat /\ at <= Len(names) /\ Len(names) \in Nat
      /\ MaxBatch \in Nat \ {0} /\ caller \in {"batch", "validate"}
      /\ \A i \in 1 .. Len(names) : names[i] \in PVs
  BY LiveAssumption DEF BatchTyped
<1>1. CASE caller = "batch"
  BY <1>0, <1>1 DEF Size, Batch!Chunk, AtChunk
<1>2. CASE caller = "validate"
  <2> DEFINE top == IF at + MaxBatch < Len(names) THEN at + MaxBatch ELSE Len(names)
  <2>1. /\ top \in Nat /\ at <= top /\ top <= Len(names)
        /\ Batch!Chunk = SubSeq(names, at + 1, top)
    BY <1>0, <1>2 DEF Batch!Chunk
  <2>2. \A i \in at + 1 .. top : names[i] \in PVs
    BY <1>0, <2>1
  <2> HIDE DEF top
  <2>3. /\ Len(Batch!Chunk) = top - at
        /\ \A i \in 1 .. top - at : Batch!Chunk[i] = names[at + i]
    <3>1. at + 1 \in Int /\ top \in Int
      BY <1>0, <2>1
    <3>2. /\ Len(SubSeq(names, at + 1, top)) =
               IF at + 1 <= top THEN top - (at + 1) + 1 ELSE 0
          /\ \A i \in 1 .. top - (at + 1) + 1 :
               SubSeq(names, at + 1, top)[i] = names[(at + 1) + i - 1]
      BY <2>2, <3>1, SubSeqProperties
    <3>3. QED
      BY <1>0, <2>1, <3>2
  <2>4. QED
    BY <1>0, <1>2, <2>1, <2>2, <2>3 DEF Size, top
<1>3. QED
  BY <1>0, <1>1, <1>2

LEMMA Division ==
  ASSUME NEW B \in Nat \ {0}, NEW c \in Nat, NEW x \in Nat
  PROVE  /\ x < c * B => x \div B < c
         /\ c * B <= x /\ x < c * B + B => x \div B = c
         /\ c * B + B <= x => x \div B > c
<1> DEFINE q == x \div B
<1>1. q \in Nat /\ q * B <= x /\ x < q * B + B
  <2>1. q \in Nat /\ q * B <= x /\ x < (q + 1) * B
    OBVIOUS
  <2>2. (q + 1) * B = q * B + B
    BY <2>1
  <2>3. QED
    BY <2>1, <2>2
<1> HIDE DEF q
<1>2. \A m, n \in Nat : m < n => m * B + B <= n * B
  <2>1. ASSUME NEW m \in Nat, NEW n \in Nat, m < n
        PROVE  m * B + B <= n * B
    <3>1. (m + 1) * B <= n * B
      BY <2>1
    <3>2. (m + 1) * B = m * B + B
      OBVIOUS
    <3>3. QED
      BY <3>1, <3>2
  <2>2. QED
    BY <2>1
<1>3. c * B \in Nat /\ q * B \in Nat
  BY <1>1
<1>4. x < c * B => q < c
  <2>1. SUFFICES ASSUME x < c * B, ~(q < c) PROVE FALSE
    OBVIOUS
  <2>2. c = q \/ c < q
    BY <1>1, <2>1
  <2>3. c * B <= q * B
    BY <1>1, <1>2, <1>3, <2>2
  <2>4. QED
    BY <1>1, <1>3, <2>1, <2>3
<1>5. c * B + B <= x => q > c
  <2>1. SUFFICES ASSUME c * B + B <= x, ~(q > c) PROVE FALSE
    OBVIOUS
  <2>2. q = c \/ q < c
    BY <1>1, <2>1
  <2>3. q * B + B <= c * B + B
    BY <1>1, <1>2, <1>3, <2>2
  <2>4. QED
    BY <1>1, <1>3, <2>1, <2>3
<1>6. c * B <= x /\ x < c * B + B => q = c
  <2>1. SUFFICES ASSUME c * B <= x, x < c * B + B, q # c PROVE FALSE
    OBVIOUS
  <2>2. CASE q < c
    <3>1. q * B + B <= c * B
      BY <1>1, <1>2, <2>2
    <3>2. QED
      BY <1>1, <1>3, <2>1, <3>1
  <2>3. CASE c < q
    <3>1. c * B + B <= q * B
      BY <1>1, <1>2, <2>3
    <3>2. QED
      BY <1>1, <1>3, <2>1, <3>1
  <2>4. QED
    BY <1>1, <2>1, <2>2, <2>3
<1>7. QED
  BY <1>4, <1>5, <1>6 DEF q

(* The names read with one of this chunk are this chunk; those of earlier  *)
(* chunks were read before.                                                *)
LEMMA ChunksApart ==
  ASSUME BatchTyped, AtChunk
  PROVE  /\ caller = "validate" /\ at < Len(names) =>
              \A i \in at + 1 .. at + Size : SameChunk(i) = at + 1 .. at + Size
         /\ \A i \in 1 .. at : SameChunk(i) \subseteq 1 .. at
<1>0. /\ names \in Seq(PVs) /\ at \in Nat /\ Len(names) \in Nat /\ at <= Len(names)
      /\ MaxBatch \in Nat \ {0}
  BY LiveAssumption DEF BatchTyped
<1>1. DOMAIN names = 1 .. Len(names)
  BY <1>0
<1>2. ASSUME at = Len(names)
      PROVE  \A i \in 1 .. at : SameChunk(i) \subseteq 1 .. at
  BY <1>0, <1>2, <1>1 DEF SameChunk
<1>3. ASSUME at < Len(names)
      PROVE  /\ caller = "validate" =>
                  \A i \in at + 1 .. at + Size : SameChunk(i) = at + 1 .. at + Size
             /\ \A i \in 1 .. at : SameChunk(i) \subseteq 1 .. at
  <2>0. at # Len(names)
    BY <1>0, <1>3
  <2>1. PICK c \in Nat : at = c * MaxBatch
    BY <2>0 DEF AtChunk
  <2>2. \A j \in 1 .. Len(names) :
          /\ j <= at => (j - 1) \div MaxBatch < c
          /\ at < j /\ j <= at + MaxBatch => (j - 1) \div MaxBatch = c
          /\ at + MaxBatch < j => (j - 1) \div MaxBatch > c
    <3>1. ASSUME NEW j \in 1 .. Len(names)
          PROVE  /\ j <= at => (j - 1) \div MaxBatch < c
                 /\ at < j /\ j <= at + MaxBatch => (j - 1) \div MaxBatch = c
                 /\ at + MaxBatch < j => (j - 1) \div MaxBatch > c
      <4>1. j - 1 \in Nat
        BY <1>0
      <4>2. /\ j - 1 < at => (j - 1) \div MaxBatch < c
            /\ at <= j - 1 /\ j - 1 < at + MaxBatch => (j - 1) \div MaxBatch = c
            /\ at + MaxBatch <= j - 1 => (j - 1) \div MaxBatch > c
        BY <1>0, <2>1, <4>1, Division
      <4>3. QED
        BY <1>0, <4>2
    <3>2. QED
      BY <3>1
  <2>3. \A j \in 1 .. Len(names) : (j - 1) \div MaxBatch \in Int
    BY <1>0
  <2>4. \A i \in 1 .. at : SameChunk(i) \subseteq 1 .. at
    <3>1. SUFFICES ASSUME NEW i \in 1 .. at, NEW j \in SameChunk(i)
                   PROVE  j \in 1 .. at
      OBVIOUS
    <3>2. /\ j \in 1 .. Len(names) /\ i \in 1 .. Len(names)
          /\ (j - 1) \div MaxBatch = (i - 1) \div MaxBatch
      BY <1>0, <1>1, <3>1 DEF SameChunk
    <3>3. QED
      BY <1>0, <2>2, <2>3, <3>1, <3>2
  <2>5. ASSUME caller = "validate", NEW i \in at + 1 .. at + Size
        PROVE  SameChunk(i) = at + 1 .. at + Size
    <3>1. /\ Size \in Nat /\ at + Size <= Len(names) /\ Size <= MaxBatch
          /\ at + Size = Len(names) \/ Size = MaxBatch
      BY <2>5, ChunkIs
    <3>2. i \in 1 .. Len(names) /\ (i - 1) \div MaxBatch = c
      <4>0. i \in Int /\ at + 1 <= i /\ i <= at + Size
        BY <1>0, <3>1
      <4>1. i \in 1 .. Len(names) /\ at < i /\ i <= at + MaxBatch
        BY <1>0, <3>1, <4>0
      <4>2. QED
        BY <2>2, <4>1
    <3>3. \A j \in 1 .. Len(names) :
            (j - 1) \div MaxBatch = c <=> at < j /\ j <= at + MaxBatch
      BY <1>0, <2>1, <2>2, <2>3
    <3>4. \A j : j \in SameChunk(i) <=> j \in 1 .. Len(names) /\ (j - 1) \div MaxBatch = c
      BY <1>0, <1>1, <3>2 DEF SameChunk
    <3>5. \A j : j \in SameChunk(i) <=> j \in at + 1 .. at + Size
      <4>1. \A j : j \in at + 1 .. at + Size
                     <=> j \in 1 .. Len(names) /\ at < j /\ j <= at + MaxBatch
        BY <1>0, <3>1
      <4>2. QED
        BY <3>3, <3>4, <4>1
    <3>6. QED
      BY <3>5
  <2>6. QED
    BY <2>4, <2>5
<1>4. at = Len(names) \/ at < Len(names)
  BY <1>0
<1>5. QED
  BY <1>0, <1>2, <1>3, <1>4

LEMMA GoodFinite ==
  \A a, b \in Int : IsFiniteSet(Good(a, b)) /\ Cardinality(Good(a, b)) \in Nat
<1>1. ASSUME NEW a \in Int, NEW b \in Int
      PROVE  IsFiniteSet(Good(a, b)) /\ Cardinality(Good(a, b)) \in Nat
  <2>1. IsFiniteSet(a + 1 .. b)
    BY FS_Interval
  <2>2. IsFiniteSet(Good(a, b))
    BY <2>1, FS_Subset DEF Good
  <2>3. QED
    BY <2>2, FS_CardinalityType
<1>2. QED
  BY <1>1

LEMMA AppendAdds ==
  ASSUME NEW S, NEW s \in Seq(S), NEW e \in S
  PROVE  /\ Append(s, e) \in Seq(S) /\ Len(Append(s, e)) = Len(s) + 1
         /\ Batch!Range(Append(s, e)) = Batch!Range(s) \union {e}
<1>1. /\ Append(s, e) \in Seq(S) /\ Len(Append(s, e)) = Len(s) + 1
      /\ \A i \in 1 .. Len(s) : Append(s, e)[i] = s[i]
      /\ Append(s, e)[Len(s) + 1] = e
  BY AppendProperties
<1>2. Len(s) \in Nat
  OBVIOUS
<1>3. DOMAIN Append(s, e) = 1 .. Len(s) + 1 /\ DOMAIN s = 1 .. Len(s)
  BY <1>1
<1>4. DOMAIN Append(s, e) = DOMAIN s \union {Len(s) + 1}
  BY <1>2, <1>3
<1> DEFINE longer == Append(s, e)
<1>5. /\ DOMAIN longer = DOMAIN s \union {Len(s) + 1} /\ longer[Len(s) + 1] = e
      /\ \A i \in DOMAIN s : longer[i] = s[i]
  BY <1>1, <1>3, <1>4
<1> HIDE DEF longer
<1>6. Batch!Range(longer) = Batch!Range(s) \union {e}
  BY <1>5 DEF Batch!Range
<1>7. QED
  BY <1>1, <1>6 DEF longer

LEMMA ChunkFixed ==
  ASSUME UNCHANGED <<caller, names, at>>
  PROVE  Size' = Size /\ Batch!Chunk' = Batch!Chunk /\ \A i : SameChunk(i)' = SameChunk(i)
BY DEF Size, Batch!Chunk, SameChunk

LEMMA GoodFixed ==
  ASSUME UNCHANGED read
  PROVE  \A a, b : Good(a, b)' = Good(a, b)
BY DEF Good

(* What was said stays as it is while the chunk is read, sorted, given up. *)
LEMMA ToldFixed ==
  ASSUME Told, UNCHANGED <<caller, names, at, read, answer>>,
         pc # "merging", pc' # "merging"
  PROVE  Told'
<1>1. \A i : SameChunk(i)' = SameChunk(i)
  BY ChunkFixed
<1>2. \A i : Connected(i)' <=> Connected(i)
  BY <1>1 DEF Connected
<1>3. Good(0, at)' = Good(0, at)
  BY DEF Good
<1>4. QED
  BY <1>2, <1>3 DEF Told

LEMMA Starts ==
  ASSUME Batch!Init
  PROVE  BatchInv
<1>1. names \in Seq(PVs) /\ Len(names) \in Nat
  <2>1. PICK m \in 0 .. MaxNames : names \in [1 .. m -> PVs]
    BY DEF Batch!Init, Batch!BoundedSeq, Batch!SeqOf
  <2>2. m \in Nat
    BY <2>1, LiveAssumption
  <2>3. QED
    BY <2>1, <2>2
<1>2. /\ at = 0 /\ pc = "called" /\ looped = 0 /\ error = "none"
      /\ caller \in {"batch", "validate"} /\ DOMAIN read = 1 .. Len(names)
      /\ batch = [results |-> <<>>, errors |-> <<>>]
      /\ answer = [pvs |-> <<>>, connected |-> 0, disconnected |-> 0]
  BY DEF Batch!Init, Batch!NoBatch, Batch!NoAnswer
<1>3. \A S : <<>> \in Seq(S) /\ Len(<<>>) = 0
  BY EmptySeq
<1>4. BatchTyped
  BY <1>1, <1>2, <1>3 DEF BatchTyped
<1>5. AtChunk
  <2>1. at = 0 * MaxBatch
    BY <1>2, LiveAssumption
  <2>2. names # <<>> => Len(names) # 0
    BY <1>1
  <2>3. QED
    BY <1>1, <1>2, <2>1, <2>2 DEF AtChunk
<1>6. Loops
  BY <1>2 DEF Loops, Batch!NoBatch
<1>7. Told
  <2>1. Good(0, 0) = {}
    BY DEF Good
  <2>2. Cardinality(Good(0, at)) = 0
    BY <1>2, <2>1, FS_EmptySet
  <2>3. Len(answer.pvs) = 0
    BY <1>2, <1>3
  <2>4. QED
    BY <1>2, <2>2, <2>3 DEF Told
<1>8. QED
  BY <1>4, <1>5, <1>6, <1>7 DEF BatchInv

LEMMA RaiseKeeps ==
  ASSUME BatchInv, NEW code, Batch!Raise(code), pc # "merging",
         caller = "validate" => code # "BATCH_TOO_LARGE"
  PROVE  BatchInv'
<1>1. /\ pc' = "raised" /\ error' = code
      /\ UNCHANGED <<caller, names, at, outcome, looped, read, batch, answer>>
  BY DEF Batch!Raise
<1>2. BatchTyped'
  BY <1>1 DEF BatchInv, BatchTyped
<1>3. AtChunk'
  BY <1>1 DEF BatchInv, AtChunk
<1>4. Loops'
  BY <1>1 DEF Loops
<1>5. Told'
  BY <1>1, ToldFixed DEF BatchInv
<1>6. QED
  BY <1>2, <1>3, <1>4, <1>5 DEF BatchInv

LEMMA StartKeeps ==
  ASSUME BatchInv, Batch!StartNative \/ Batch!NativeFail \/ \E i \in DOMAIN outcome : Batch!ReadEnds(i)
  PROVE  BatchInv'
<1>1. /\ UNCHANGED <<caller, names, at, looped, read, batch, answer, error>>
      /\ pc \in {"called", "native", "reading"} /\ pc' \in {"native", "reading"}
      /\ pc = "called" => names # <<>>
  BY DEF Batch!StartNative, Batch!NativeFail, Batch!ReadEnds
<1>2. Size' = Size
  BY <1>1, ChunkFixed
<1>3. BatchTyped'
  BY <1>1 DEF BatchInv, BatchTyped
<1>4. AtChunk'
  BY <1>1 DEF BatchInv, AtChunk
<1>5. pc' = "reading" => DOMAIN outcome' = 1 .. Size
  BY DEF BatchInv, Loops, Batch!StartNative, Batch!NativeFail, Batch!ReadEnds, Batch!Places, Size
<1>6. Loops'
  BY <1>1, <1>2, <1>5 DEF BatchInv, Loops, Batch!NoBatch
<1>7. Told'
  BY <1>1, ToldFixed DEF BatchInv
<1>8. QED
  BY <1>3, <1>4, <1>6, <1>7 DEF BatchInv

LEMMA SortKeeps ==
  ASSUME BatchInv, pc \in {"native", "reading"}, NEW gave, DOMAIN gave = 1 .. Size,
         Batch!Sort(gave)
  PROVE  BatchInv'
<1>1. /\ pc' = "sorting" /\ outcome' = gave
      /\ read' = [i \in DOMAIN read |-> IF i - at \in 1 .. Size THEN gave[i - at] ELSE read[i]]
      /\ UNCHANGED <<caller, names, at, looped, batch, answer, error>>
  BY DEF Batch!Sort, Batch!Places, Size
<1>2. /\ Size \in Nat /\ at + Size <= Len(names) /\ at < Len(names)
      /\ at \in Nat /\ Len(names) \in Nat /\ DOMAIN read = 1 .. Len(names)
  BY ChunkIs DEF BatchInv, BatchTyped, AtChunk
<1>3. Size' = Size
  BY <1>1, ChunkFixed
<1>4. BatchTyped'
  BY <1>1 DEF BatchInv, BatchTyped
<1>5. AtChunk'
  BY <1>1 DEF BatchInv, AtChunk
<1>6. \A i \in 1 .. at : read'[i] = read[i]
  BY <1>1, <1>2
<1>7. \A i \in 1 .. Size : read'[at + i] = gave[i]
  <2>1. ASSUME NEW i \in 1 .. Size
        PROVE  read'[at + i] = gave[i]
    <3>1. at + i \in 1 .. Len(names) /\ (at + i) - at = i
      BY <1>2
    <3>2. QED
      BY <1>1, <1>2, <3>1
  <2>2. QED
    BY <2>1
<1>8. Loops'
  <2>1. batch = Batch!NoBatch /\ looped = 0
    BY DEF BatchInv, Loops
  <2>2. FiledUpto(0)'
    <3>1. /\ batch'.results = <<>> /\ batch'.errors = <<>>
          /\ Batch!Range(<<>>) = {}
      BY <1>1, <2>1 DEF Batch!NoBatch, Batch!Range
    <3>2. Good(at, at + 0)' = {} /\ at + 1 .. at + 0 = {}
      BY <1>1, <1>2 DEF Good
    <3>3. Cardinality(Good(at, at + 0)') = 0
      BY <3>2, FS_EmptySet
    <3>4. Len(<<>>) = 0
      BY EmptySeq
    <3>5. Placed(batch'.results) = {} /\ Placed(batch'.errors) = {}
      BY <3>1 DEF Placed
    <3>6. QED
      BY <1>1, <3>1, <3>2, <3>3, <3>4, <3>5 DEF FiledUpto
  <2>3. looped' <= Size /\ \A i \in 1 .. Size : read'[at + i] = outcome'[i]
    BY <1>1, <1>2, <1>7, <2>1
  <2>4. looped' = 0 /\ pc' = "sorting" /\ at' = at
    BY <1>1, <2>1
  <2>5. QED
    BY <1>3, <2>2, <2>3, <2>4 DEF Loops
<1>9. Told'
  <2>1. /\ Len(answer.pvs) = at
        /\ \A i \in 1 .. Len(answer.pvs) :
             /\ answer.pvs[i].pv = names[i]
             /\ answer.pvs[i].status = "connected" <=> Connected(i)
        /\ answer.connected = Cardinality(Good(0, at))
        /\ answer.connected + answer.disconnected = at
    BY <1>2 DEF BatchInv, Told
  <2>2. \A i \in 1 .. at : Connected(i)' <=> Connected(i)
    <3>1. \A i \in 1 .. at : SameChunk(i) \subseteq 1 .. at
      BY ChunksApart DEF BatchInv
    <3>2. \A i : SameChunk(i)' = SameChunk(i)
      BY <1>1, ChunkFixed
    <3>3. QED
      BY <1>1, <1>6, <3>1, <3>2 DEF Connected
  <2>3. Good(0, at)' = Good(0, at)
    BY <1>1, <1>2, <1>6 DEF Good
  <2>4. QED
    BY <1>1, <2>1, <2>2, <2>3 DEF Told
<1>10. QED
  BY <1>4, <1>5, <1>8, <1>9 DEF BatchInv

LEMMA FileKeeps ==
  ASSUME BatchInv, Batch!File
  PROVE  BatchInv'
<1>0. PICK i \in Nat : i = looped + 1
  BY DEF BatchInv, BatchTyped
<1> DEFINE entry == [pv |-> Batch!Chunk[i], place |-> at + i]
<1>1. /\ pc = "sorting" /\ pc' = "sorting" /\ looped < Size /\ looped' = i
      /\ batch' = [results |-> IF outcome[i] = "ok" THEN Append(batch.results, entry)
                               ELSE batch.results,
                   errors |-> IF outcome[i] = "ok" THEN batch.errors
                              ELSE Append(batch.errors, entry)]
      /\ UNCHANGED <<caller, names, at, outcome, read, answer, error>>
  BY <1>0 DEF Batch!File, Batch!Filed, Batch!Ok, Size
<1>2. /\ Size \in Nat /\ at \in Nat /\ looped \in Nat /\ i \in 1 .. Size /\ i = looped + 1
  BY <1>0, <1>1, ChunkIs DEF BatchInv, BatchTyped
<1>3. /\ entry \in Entries /\ entry.pv = names[at + i] /\ entry.place = at + i
      /\ read[at + i] = outcome[i]
  <2>1. Batch!Chunk[i] = names[at + i] /\ names[at + i] \in PVs
    BY <1>2, ChunkIs DEF BatchInv
  <2>2. at + i \in Nat
    BY <1>2
  <2>3. read[at + i] = outcome[i]
    BY <1>1, <1>2 DEF BatchInv, Loops
  <2>4. QED
    BY <2>1, <2>2, <2>3 DEF Entries
<1>4. /\ batch.results \in Seq(Entries) /\ batch.errors \in Seq(Entries)
      /\ FiledUpto(looped)
  BY <1>1 DEF BatchInv, BatchTyped, Loops
<1> HIDE DEF entry
<1>5. /\ batch'.results = (IF outcome[i] = "ok" THEN Append(batch.results, entry)
                           ELSE batch.results)
      /\ batch'.errors = (IF outcome[i] = "ok" THEN batch.errors
                          ELSE Append(batch.errors, entry))
      /\ batch' \in [results : Seq(Entries), errors : Seq(Entries)]
  <2>1. \A s \in Seq(Entries) : Append(s, entry) \in Seq(Entries)
    BY <1>3, AppendAdds
  <2>2. QED
    BY <1>1, <1>4, <2>1
<1>6. BatchTyped'
  BY <1>1, <1>2, <1>5 DEF BatchInv, BatchTyped
<1>7. AtChunk'
  BY <1>1 DEF BatchInv, AtChunk
<1>8. Good(at, at + i) = IF outcome[i] = "ok" THEN Good(at, at + looped) \union {at + i}
                         ELSE Good(at, at + looped)
  <2>1. \A j : j \in at + 1 .. at + i <=> j \in at + 1 .. at + looped \/ j = at + i
    BY <1>2
  <2>2. QED
    BY <1>3, <2>1 DEF Good
<1>9. at + i \notin Good(at, at + looped)
  BY <1>2 DEF Good
<1>10. Cardinality(Good(at, at + i)) =
         IF outcome[i] = "ok" THEN Cardinality(Good(at, at + looped)) + 1
         ELSE Cardinality(Good(at, at + looped))
  <2>1. at \in Int /\ at + looped \in Int
    BY <1>2
  <2>2. IsFiniteSet(Good(at, at + looped))
    BY <2>1, GoodFinite
  <2>3. QED
    BY <1>8, <1>9, <2>2, FS_AddElement
<1>11. FiledUpto(i)'
  <2>1. /\ Len(batch'.results) = (IF outcome[i] = "ok" THEN Len(batch.results) + 1
                                  ELSE Len(batch.results))
        /\ Len(batch'.errors) = (IF outcome[i] = "ok" THEN Len(batch.errors)
                                 ELSE Len(batch.errors) + 1)
        /\ Batch!Range(batch'.results) =
             (IF outcome[i] = "ok" THEN Batch!Range(batch.results) \union {entry}
              ELSE Batch!Range(batch.results))
        /\ Batch!Range(batch'.errors) =
             (IF outcome[i] = "ok" THEN Batch!Range(batch.errors)
              ELSE Batch!Range(batch.errors) \union {entry})
    <3>1. \A s \in Seq(Entries) : /\ Len(Append(s, entry)) = Len(s) + 1
                                  /\ Batch!Range(Append(s, entry)) = Batch!Range(s) \union {entry}
      BY <1>3, AppendAdds
    <3>2. CASE outcome[i] = "ok"
      BY <1>4, <1>5, <3>1, <3>2
    <3>3. CASE outcome[i] # "ok"
      BY <1>4, <1>5, <3>1, <3>3
    <3>4. QED
      BY <3>2, <3>3
  <2>2. Len(batch'.results) + Len(batch'.errors) = i
    <3>1. Len(batch.results) + Len(batch.errors) = looped
      BY <1>4 DEF FiledUpto
    <3>2. \A s \in Seq(Entries) : Len(s) \in Nat
      BY LenProperties
    <3>3. Len(batch.results) \in Nat /\ Len(batch.errors) \in Nat
      BY <1>4, <3>2
    <3> DEFINE m == Len(batch.results)
               n == Len(batch.errors)
               p == Len(batch'.results)
               q == Len(batch'.errors)
    <3>4. m + n = looped /\ m \in Nat /\ n \in Nat /\ ((p = m + 1 /\ q = n) \/ (p = m /\ q = n + 1))
      BY <2>1, <3>1, <3>3
    <3> HIDE DEF m, n, p, q
    <3>5. p + q = i
      BY <1>2, <3>4
    <3>6. QED
      BY <3>5 DEF p, q
  <2>3. Placed(batch'.results) \union Placed(batch'.errors) = at + 1 .. at + i
    <3>1. Placed(batch'.results) \union Placed(batch'.errors)
            = Placed(batch.results) \union Placed(batch.errors) \union {at + i}
      <4>1. /\ outcome[i] = "ok" => Placed(batch'.results) = Placed(batch.results) \union {at + i}
            /\ outcome[i] # "ok" => Placed(batch'.results) = Placed(batch.results)
        BY <1>3, <2>1 DEF Placed
      <4>2. /\ outcome[i] # "ok" => Placed(batch'.errors) = Placed(batch.errors) \union {at + i}
            /\ outcome[i] = "ok" => Placed(batch'.errors) = Placed(batch.errors)
        BY <1>3, <2>1 DEF Placed
      <4>3. QED
        BY <4>1, <4>2
    <3>2. (at + 1 .. at + looped) \union {at + i} = at + 1 .. at + i
      BY <1>2
    <3>3. Placed(batch.results) \union Placed(batch.errors) = at + 1 .. at + looped
      BY <1>4 DEF FiledUpto
    <3>4. QED
      BY <3>1, <3>2, <3>3
  <2>4. \A e \in Batch!Range(batch'.results) : e.pv = names[e.place] /\ read[e.place] = "ok"
    BY <1>3, <1>4, <2>1 DEF FiledUpto
  <2>5. \A e \in Batch!Range(batch'.errors) : e.pv = names[e.place] /\ read[e.place] # "ok"
    BY <1>3, <1>4, <2>1 DEF FiledUpto
  <2>6. Len(batch'.results) = Cardinality(Good(at, at + i))
    <3>1. Len(batch.results) = Cardinality(Good(at, at + looped))
      BY <1>4 DEF FiledUpto
    <3>2. QED
      BY <1>10, <2>1, <3>1
  <2>7. Good(at, at + i)' = Good(at, at + i)
    BY <1>1 DEF Good
  <2>8. QED
    BY <1>1, <2>2, <2>3, <2>4, <2>5, <2>6, <2>7 DEF FiledUpto
<1>12. Loops'
  BY <1>1, <1>2, <1>11, ChunkFixed DEF BatchInv, Loops
<1>13. Told'
  BY <1>1, ToldFixed DEF BatchInv
<1>14. QED
  BY <1>6, <1>7, <1>12, <1>13 DEF BatchInv

LEMMA ReturnKeeps ==
  ASSUME BatchInv, Batch!ReturnBatch
  PROVE  BatchInv'
<1>1. /\ pc = "sorting" /\ looped = Size /\ looped' = 0
      /\ pc' = IF caller = "batch" THEN "returned" ELSE "merging"
      /\ UNCHANGED <<caller, names, at, outcome, read, batch, answer, error>>
  BY DEF Batch!ReturnBatch, Size
<1>2. Size \in Nat /\ caller \in {"batch", "validate"}
  BY ChunkIs DEF BatchInv, BatchTyped
<1>3. BatchTyped'
  BY <1>1 DEF BatchInv, BatchTyped
<1>4. AtChunk'
  BY <1>1, <1>2 DEF BatchInv, AtChunk
<1>5. FiledUpto(Size)'
  <2>1. FiledUpto(Size)
    BY <1>1 DEF BatchInv, Loops
  <2>2. Size' = Size /\ \A a, b : Good(a, b)' = Good(a, b)
    BY <1>1, ChunkFixed, GoodFixed
  <2>3. QED
    BY <1>1, <2>1, <2>2 DEF FiledUpto, Placed
<1>6. Loops'
  <2>1. Size' = Size /\ looped' <= Size
    BY <1>1, <1>2, ChunkFixed
  <2>2. \A i \in 1 .. Size : read[at + i] = outcome[i]
    BY <1>1 DEF BatchInv, Loops
  <2>3. pc' \in {"returned", "merging"}
    BY <1>1
  <2>4. QED
    BY <1>1, <1>5, <2>1, <2>2, <2>3 DEF Loops
<1>7. Told'
  <2>1. \A i : Connected(i)' <=> Connected(i)
    BY <1>1, ChunkFixed DEF Connected
  <2>2. Good(0, at)' = Good(0, at)
    BY <1>1 DEF Good
  <2>3. at + 0 = at
    BY DEF BatchInv, BatchTyped
  <2>4. QED
    BY <1>1, <2>1, <2>2, <2>3 DEF BatchInv, Told
<1>8. QED
  BY <1>3, <1>4, <1>6, <1>7 DEF BatchInv

(* A name is emitted with the status that the reads of its chunk earned.   *)
LEMMA StatusIs ==
  ASSUME BatchInv, pc = "merging", NEW i \in 1 .. Size
  PROVE  LET said == IF Connected(at + i) THEN "connected" ELSE "disconnected"
         IN  Batch!Status(Batch!Chunk[i]) = <<[pv |-> names[at + i], status |-> said]>>
<1>1. /\ caller = "validate" /\ at < Len(names) /\ at \in Nat /\ Size \in Nat
      /\ Batch!Chunk[i] = names[at + i] /\ at + i \in at + 1 .. at + Size
      /\ FiledUpto(Size)
  BY ChunkIs DEF BatchInv, BatchTyped, AtChunk, Loops
<1>2. SameChunk(at + i) = at + 1 .. at + Size
  BY <1>1, ChunksApart DEF BatchInv
<1> DEFINE pv == names[at + i]
<1>3. /\ \A e \in Batch!Range(batch.results) :
            /\ e.pv = names[e.place] /\ read[e.place] = "ok"
            /\ e.place \in at + 1 .. at + Size
      /\ \A e \in Batch!Range(batch.errors) :
            /\ e.pv = names[e.place] /\ read[e.place] # "ok"
            /\ e.place \in at + 1 .. at + Size
      /\ \A j \in at + 1 .. at + Size :
            \/ \E e \in Batch!Range(batch.results) : e.place = j
            \/ \E e \in Batch!Range(batch.errors) : e.place = j
  BY <1>1 DEF FiledUpto, Placed
<1>4. pv \in Batch!Named(batch.results) <=> Connected(at + i)
  <2>1. ASSUME pv \in Batch!Named(batch.results) PROVE Connected(at + i)
    <3>1. PICK e \in Batch!Range(batch.results) : e.pv = pv
      BY <2>1 DEF Batch!Named
    <3>2. names[e.place] = pv /\ read[e.place] = "ok" /\ e.place \in SameChunk(at + i)
      BY <1>2, <1>3, <3>1
    <3>3. QED
      BY <3>2 DEF Connected
  <2>2. ASSUME Connected(at + i) PROVE pv \in Batch!Named(batch.results)
    <3>1. PICK j \in at + 1 .. at + Size : names[j] = pv /\ read[j] = "ok"
      BY <1>2, <2>2 DEF Connected
    <3>2. PICK e \in Batch!Range(batch.results) : e.place = j
      BY <1>3, <3>1
    <3>3. e.pv = pv
      BY <1>3, <3>1, <3>2
    <3>4. QED
      BY <3>3 DEF Batch!Named
  <2>3. QED
    BY <2>1, <2>2
<1>5. pv \in Batch!Named(batch.results) \/ pv \in Batch!Named(batch.errors)
  BY <1>1, <1>3 DEF Batch!Named
<1>6. QED
  <2>1. CASE Connected(at + i)
    BY <1>1, <1>4, <2>1 DEF Batch!Status
  <2>2. CASE ~Connected(at + i)
    BY <1>1, <1>4, <1>5, <2>2 DEF Batch!Status
  <2>3. QED
    BY <2>1, <2>2

LEMMA EmitKeeps ==
  ASSUME BatchInv, Batch!Emit
  PROVE  BatchInv'
<1>0. PICK i \in Nat : i = looped + 1
  BY DEF BatchInv, BatchTyped
<1>1. /\ pc = "merging" /\ pc' = "merging" /\ looped < Size /\ looped' = i
      /\ answer' = [answer EXCEPT !.pvs = @ \o Batch!Status(Batch!Chunk[i])]
      /\ UNCHANGED <<caller, names, at, outcome, read, batch, error>>
  BY <1>0 DEF Batch!Emit, Size
<1>2. /\ Size \in Nat /\ at \in Nat /\ looped \in Nat /\ i \in 1 .. Size /\ i = looped + 1
      /\ answer \in [pvs : Seq(Lines), connected : Nat, disconnected : Nat]
      /\ answer.pvs \in Seq(Lines) /\ Len(answer.pvs) = at + looped
      /\ names[at + i] \in PVs
  <2>1. Size \in Nat /\ \A k \in 1 .. Size : names[at + k] \in PVs
    BY ChunkIs DEF BatchInv
  <2>2. /\ at \in Nat /\ looped \in Nat
        /\ answer \in [pvs : Seq(Lines), connected : Nat, disconnected : Nat]
        /\ Len(answer.pvs) = at + looped
    BY <1>1 DEF BatchInv, BatchTyped, Told
  <2>3. i \in 1 .. Size
    BY <1>0, <1>1, <2>1, <2>2
  <2>4. QED
    BY <1>0, <2>1, <2>2, <2>3
<1> DEFINE line == [pv |-> names[at + i],
                    status |-> IF Connected(at + i) THEN "connected" ELSE "disconnected"]
<1>3. /\ line \in Lines /\ line.pv = names[at + i]
      /\ line.status = "connected" <=> Connected(at + i)
  BY <1>2 DEF Lines
<1>4. Batch!Status(Batch!Chunk[i]) = <<line>>
  BY <1>1, <1>2, StatusIs
<1> HIDE DEF line
<1>5. /\ answer'.pvs = Append(answer.pvs, line)
      /\ answer'.connected = answer.connected /\ answer'.disconnected = answer.disconnected
      /\ answer' \in [pvs : Seq(Lines), connected : Nat, disconnected : Nat]
  <2>1. answer.pvs \o <<line>> = Append(answer.pvs, line)
    BY <1>2, <1>3, AppendIsConcat
  <2>2. Append(answer.pvs, line) \in Seq(Lines)
    BY <1>2, <1>3, AppendProperties
  <2>3. answer' = [answer EXCEPT !.pvs = Append(answer.pvs, line)]
    BY <1>1, <1>2, <1>4, <2>1
  <2>4. QED
    BY <1>2, <2>2, <2>3
<1>6. BatchTyped'
  BY <1>1, <1>2, <1>5 DEF BatchInv, BatchTyped
<1>7. AtChunk'
  BY <1>1 DEF BatchInv, AtChunk
<1>8. Size' = Size /\ (\A a, b : Good(a, b)' = Good(a, b)) /\ \A k : Connected(k)' <=> Connected(k)
  BY <1>1, ChunkFixed, GoodFixed DEF Connected
<1>9. Loops'
  <2>1. FiledUpto(Size)'
    BY <1>1, <1>8 DEF BatchInv, Loops, FiledUpto, Placed
  <2>2. looped' <= Size /\ \A k \in 1 .. Size : read[at + k] = outcome[k]
    BY <1>1, <1>2 DEF BatchInv, Loops
  <2>3. QED
    BY <1>1, <1>8, <2>1, <2>2 DEF Loops
<1>10. Told'
  <2>1. /\ Len(answer'.pvs) = at + i
        /\ \A k \in 1 .. Len(answer.pvs) : answer'.pvs[k] = answer.pvs[k]
        /\ answer'.pvs[at + i] = line
    BY <1>2, <1>3, <1>5, AppendProperties
  <2>2. \A k \in 1 .. at + i :
          /\ answer'.pvs[k].pv = names[k]
          /\ answer'.pvs[k].status = "connected" <=> Connected(k)
    <3>1. \A k \in 1 .. at + i : k \in 1 .. Len(answer.pvs) \/ k = at + i
      BY <1>2
    <3>2. QED
      BY <1>3, <2>1, <3>1 DEF BatchInv, Told
  <2>3. QED
    BY <1>1, <1>5, <1>8, <2>1, <2>2 DEF BatchInv, Told
<1>11. QED
  BY <1>6, <1>7, <1>9, <1>10 DEF BatchInv

LEMMA MergeKeeps ==
  ASSUME BatchInv, Batch!Merge
  PROVE  BatchInv'
<1>1. /\ pc = "merging" /\ looped = Size /\ looped' = 0 /\ batch' = Batch!NoBatch
      /\ answer' = [answer EXCEPT !.connected = @ + Len(batch.results),
                                  !.disconnected = @ + Len(batch.errors)]
      /\ at' = at + Size
      /\ pc' = IF at' < Len(names) THEN "called" ELSE "returned"
      /\ UNCHANGED <<caller, names, read, error>>
  BY DEF Batch!Merge, Size
<1>2. /\ caller = "validate" /\ at < Len(names) /\ at \in Nat /\ Len(names) \in Nat
      /\ Size \in Nat /\ at + Size <= Len(names)
      /\ at + Size = Len(names) \/ Size = MaxBatch
      /\ FiledUpto(Size)
  BY <1>1, ChunkIs DEF BatchInv, BatchTyped, AtChunk, Loops
<1>3. /\ batch.results \in Seq(Entries) /\ batch.errors \in Seq(Entries)
      /\ Len(batch.results) \in Nat /\ Len(batch.errors) \in Nat
  BY LenProperties DEF BatchInv, BatchTyped
<1>4. /\ answer \in [pvs : Seq(Lines), connected : Nat, disconnected : Nat]
      /\ answer'.pvs = answer.pvs
      /\ answer'.connected = answer.connected + Len(batch.results)
      /\ answer'.disconnected = answer.disconnected + Len(batch.errors)
      /\ answer' \in [pvs : Seq(Lines), connected : Nat, disconnected : Nat]
  <2>1. answer \in [pvs : Seq(Lines), connected : Nat, disconnected : Nat]
    BY DEF BatchInv, BatchTyped
  <2> DEFINE m == answer.connected + Len(batch.results)
             n == answer.disconnected + Len(batch.errors)
  <2>2. m \in Nat /\ n \in Nat
    BY <1>3, <2>1
  <2>3. answer' = [answer EXCEPT !.connected = m, !.disconnected = n]
    BY <1>1, <2>1
  <2> HIDE DEF m, n
  <2>4. /\ answer'.pvs = answer.pvs /\ answer'.connected = m /\ answer'.disconnected = n
        /\ answer' \in [pvs : Seq(Lines), connected : Nat, disconnected : Nat]
    BY <2>1, <2>2, <2>3
  <2>5. QED
    BY <2>1, <2>4 DEF m, n
<1>5. BatchTyped'
  <2>1. Batch!NoBatch \in [results : Seq(Entries), errors : Seq(Entries)]
    BY EmptySeq DEF Batch!NoBatch
  <2>2. at' \in 0 .. Len(names) /\ looped' \in Nat /\ pc' \in {"called", "returned"}
    BY <1>1, <1>2
  <2>3. QED
    BY <1>1, <1>4, <2>1, <2>2 DEF BatchInv, BatchTyped
<1>6. AtChunk'
  <2>1. at + Size = Len(names) \/ \E c \in Nat : at + Size = c * MaxBatch
    <3>1. CASE Size = MaxBatch
      <4>1. at # Len(names)
        BY <1>2
      <4>2. PICK c \in Nat : at = c * MaxBatch
        BY <4>1 DEF BatchInv, AtChunk
      <4>3. (c + 1) * MaxBatch = c * MaxBatch + MaxBatch /\ c + 1 \in Nat
        BY LiveAssumption
      <4>4. QED
        BY <3>1, <4>2, <4>3
    <3>2. QED
      BY <1>2, <3>1
  <2>2. /\ pc' = "called" => at' < Len(names)
        /\ pc' # "called" => pc' = "returned" /\ at' = Len(names)
    BY <1>1, <1>2
  <2>3. caller' # "batch"
    BY <1>1, <1>2
  <2>4. QED
    BY <1>1, <2>1, <2>2, <2>3 DEF AtChunk
<1>7. Loops'
  <2>1. pc' \in {"called", "returned"} /\ caller' # "batch"
    BY <1>1, <1>2
  <2>2. batch' = Batch!NoBatch' /\ looped' = 0
    BY <1>1 DEF Batch!NoBatch
  <2>3. QED
    BY <2>1, <2>2 DEF Loops
<1>8. Cardinality(Good(0, at + Size)) = Cardinality(Good(0, at)) + Cardinality(Good(at, at + Size))
  <2>1. Good(0, at + Size) = Good(0, at) \union Good(at, at + Size)
    <3>1. \A j : j \in 0 + 1 .. at + Size <=> j \in 0 + 1 .. at \/ j \in at + 1 .. at + Size
      BY <1>2
    <3>2. QED
      BY <3>1 DEF Good
  <2>2. Good(0, at) \intersect Good(at, at + Size) = {}
    BY <1>2 DEF Good
  <2>3. /\ IsFiniteSet(Good(0, at)) /\ Cardinality(Good(0, at)) \in Nat
        /\ IsFiniteSet(Good(at, at + Size)) /\ Cardinality(Good(at, at + Size)) \in Nat
    BY <1>2, GoodFinite
  <2>4. Cardinality(Good(0, at + Size)) =
          Cardinality(Good(0, at)) + Cardinality(Good(at, at + Size)) - Cardinality({})
    BY <2>1, <2>2, <2>3, FS_Union
  <2>5. QED
    BY <2>3, <2>4, FS_EmptySet
<1>9. Told'
  <2>1. /\ Len(answer.pvs) = at + Size
        /\ \A i \in 1 .. Len(answer.pvs) :
             /\ answer.pvs[i].pv = names[i]
             /\ answer.pvs[i].status = "connected" <=> Connected(i)
        /\ answer.connected = Cardinality(Good(0, at))
        /\ answer.connected + answer.disconnected = at
    BY <1>1 DEF BatchInv, Told
  <2>2. \A i : Connected(i)' <=> Connected(i)
    BY <1>1 DEF Connected, SameChunk
  <2>3. at' = at + Size
    BY <1>1
  <2>4. answer'.connected = Cardinality(Good(0, at)')
    <3>1. Good(0, at)' = Good(0, at + Size)
      BY <1>1, <2>3 DEF Good
    <3>2. Len(batch.results) = Cardinality(Good(at, at + Size))
      BY <1>2 DEF FiledUpto
    <3>3. QED
      BY <1>4, <1>8, <2>1, <3>1, <3>2
  <2>5. answer'.connected + answer'.disconnected = at'
    <3>1. Len(batch.results) + Len(batch.errors) = Size
      BY <1>2 DEF FiledUpto
    <3>2. answer.connected \in Nat /\ answer.disconnected \in Nat
      BY <1>4
    <3> DEFINE m == Len(batch.results)
               n == Len(batch.errors)
               k == answer.connected
               l == answer.disconnected
    <3>3. /\ m \in Nat /\ n \in Nat /\ k \in Nat /\ l \in Nat
          /\ m + n = Size /\ k + l = at
      BY <1>3, <2>1, <3>1, <3>2
    <3> HIDE DEF m, n, k, l
    <3>4. (k + m) + (l + n) = at + Size
      BY <1>2, <3>3
    <3>5. QED
      BY <1>1, <1>4, <3>4 DEF m, n, k, l
  <2>6. pc' # "merging" /\ at' + 0 = at' /\ Len(answer'.pvs) = at'
    BY <1>1, <1>2, <1>4, <2>1
  <2>7. \A i \in 1 .. Len(answer'.pvs) :
          /\ answer'.pvs[i].pv = names'[i]
          /\ answer'.pvs[i].status = "connected" <=> Connected(i)'
    BY <1>1, <1>4, <2>1, <2>2
  <2>8. QED
    BY <2>4, <2>5, <2>6, <2>7 DEF Told
<1>10. QED
  BY <1>5, <1>6, <1>7, <1>9 DEF BatchInv

LEMMA BatchSteps ==
  ASSUME BatchInv, Batch!Next
  PROVE  BatchInv'
<1>1. ASSUME Batch!RefuseEmpty PROVE BatchInv'
  BY <1>1, RaiseKeeps DEF Batch!RefuseEmpty
<1>2. ASSUME Batch!RefuseSize PROVE BatchInv'
  <2>1. caller = "batch"
    <3>1. Size > MaxBatch
      BY <1>2 DEF Batch!RefuseSize, Size
    <3>2. caller = "validate" => Size \in Nat /\ Size <= MaxBatch
      BY ChunkIs DEF BatchInv
    <3>3. caller \in {"batch", "validate"}
      BY DEF BatchInv, BatchTyped
    <3>4. QED
      BY <3>1, <3>2, <3>3, LiveAssumption
  <2>2. QED
    BY <1>2, <2>1, RaiseKeeps DEF Batch!RefuseSize
<1>3. ASSUME Batch!NativeOk PROVE BatchInv'
  BY <1>3, SortKeeps DEF Batch!NativeOk, Batch!Places, Size
<1>4. ASSUME Batch!Gather PROVE BatchInv'
  <2>1. pc = "reading" /\ DOMAIN outcome = 1 .. Size /\ Batch!Sort(outcome)
    BY <1>4 DEF BatchInv, Loops, Batch!Gather
  <2>2. QED
    BY <2>1, SortKeeps
<1>5. ASSUME Batch!NativeContract \/ Batch!GatherCancelled PROVE BatchInv'
  BY <1>5, RaiseKeeps DEF Batch!NativeContract, Batch!GatherCancelled
<1>6. QED
  BY <1>1, <1>2, <1>3, <1>4, <1>5, StartKeeps, FileKeeps, ReturnKeeps, EmitKeeps, MergeKeeps
     DEF Batch!Next, Batch!Native, Batch!Fallback

LEMMA BatchInvariant == LiveSpec => []BatchInv
<1>1. LiveInit => BatchInv
  BY Starts DEF LiveInit
<1>2. BatchInv /\ [LiveNext]_liveVars => BatchInv'
  <2>1. ASSUME BatchInv, UNCHANGED batchVars
        PROVE  BatchInv'
    <3>1. /\ Size' = Size /\ (\A a, b : Good(a, b)' = Good(a, b))
          /\ (\A i : Connected(i)' <=> Connected(i)) /\ \A k : FiledUpto(k)' <=> FiledUpto(k)
      BY <2>1, ChunkFixed, GoodFixed DEF batchVars, Connected, FiledUpto, Placed
    <3>2. BatchTyped' /\ AtChunk'
      BY <2>1 DEF batchVars, BatchInv, BatchTyped, AtChunk
    <3>3. Loops'
      BY <2>1, <3>1 DEF batchVars, BatchInv, Loops
    <3>4. Told'
      BY <2>1, <3>1 DEF batchVars, BatchInv, Told
    <3>5. QED
      BY <3>2, <3>3, <3>4 DEF BatchInv
  <2>2. QED
    BY <2>1, BatchSteps DEF LiveNext, liveVars, MonitorStep, BatchStep, ViewStep
<1>3. QED
  BY <1>1, <1>2, PTL DEF LiveSpec

(* A batch answers each place of its list once, with a value or with an    *)
(* error, and a check lists the names as they were given, each as often,   *)
(* with counts that add up; no chunk of it is refused (pv_get_batch,       *)
(* _validate_pvs).                                                         *)
THEOREM PlacesAreAnswered == LiveSpec => []PlacesAnswered
<1>1. BatchInv => Batch!ChunksFit
  BY DEF BatchInv, BatchTyped, Batch!ChunksFit
<1>2. ASSUME BatchInv, Batch!Returned("batch")
      PROVE  /\ Len(batch.results) + Len(batch.errors) = Len(names)
             /\ {e.place : e \in Batch!Range(batch.results) \union Batch!Range(batch.errors)}
                   = 1 .. Len(names)
             /\ \A e \in Batch!Range(batch.results) : read[e.place] = "ok"
             /\ \A e \in Batch!Range(batch.errors) : read[e.place] # "ok"
  <2>1. caller = "batch" /\ pc = "returned"
    BY <1>2 DEF Batch!Returned
  <2>2. at = 0 /\ Size = Len(names) /\ Len(names) \in Nat /\ FiledUpto(Size)
    BY <1>2, <2>1, ChunkIs DEF BatchInv, BatchTyped, AtChunk, Loops
  <2>3. at + 1 .. at + Size = 1 .. Len(names)
    BY <2>2
  <2>4. QED
    BY <2>2, <2>3 DEF FiledUpto, Placed
<1>3. BatchInv => Batch!EveryPlaceAnswered
  BY <1>2 DEF Batch!EveryPlaceAnswered, Batch!Ok
<1>4. ASSUME BatchInv, Batch!Returned("validate")
      PROVE  /\ [i \in DOMAIN answer.pvs |-> answer.pvs[i].pv] = names
             /\ answer.connected + answer.disconnected = Len(names)
             /\ Batch!IsInjective(names) => answer.connected = Batch!ListedConnected
  <2>1. /\ caller = "validate" /\ at = Len(names) /\ Len(names) \in Nat
        /\ names \in Seq(PVs) /\ answer.pvs \in Seq(Lines)
    BY <1>4 DEF BatchInv, BatchTyped, AtChunk, Batch!Returned
  <2>2. /\ Len(answer.pvs) = Len(names)
        /\ \A i \in 1 .. Len(names) :
             /\ answer.pvs[i].pv = names[i]
             /\ answer.pvs[i].status = "connected" <=> Connected(i)
        /\ answer.connected = Cardinality(Good(0, Len(names)))
        /\ answer.connected + answer.disconnected = Len(names)
    BY <1>4, <2>1 DEF BatchInv, Told, Batch!Returned
  <2>3. DOMAIN names = 1 .. Len(names) /\ DOMAIN answer.pvs = 1 .. Len(names)
    BY <2>1, <2>2
  <2>4. [i \in DOMAIN answer.pvs |-> answer.pvs[i].pv] = names
    <3>1. names = [i \in 1 .. Len(names) |-> names[i]]
      BY <2>1
    <3>2. QED
      BY <2>2, <2>3, <3>1
  <2>5. ASSUME Batch!IsInjective(names)
        PROVE  answer.connected = Batch!ListedConnected
    <3>1. \A i \in 1 .. Len(names) : Connected(i) <=> read[i] = "ok"
      <4>1. ASSUME NEW i \in 1 .. Len(names)
            PROVE  Connected(i) <=> read[i] = "ok"
        <5>1. \A j \in DOMAIN names : names[j] = names[i] => j = i
          BY <2>3, <2>5 DEF Batch!IsInjective
        <5>2. i \in SameChunk(i) /\ SameChunk(i) \subseteq DOMAIN names
          BY <2>3 DEF SameChunk
        <5>3. QED
          BY <5>1, <5>2 DEF Connected
      <4>2. QED
        BY <4>1
    <3>2. {i \in DOMAIN answer.pvs : answer.pvs[i].status = "connected"} = Good(0, Len(names))
      BY <2>2, <2>3, <3>1 DEF Good
    <3>3. QED
      BY <2>2, <3>2 DEF Batch!ListedConnected, Batch!Cardinality, Cardinality
  <2>6. QED
    BY <2>2, <2>4, <2>5
<1>5. BatchInv => Batch!InputOrder
  BY <1>4 DEF Batch!InputOrder
<1>6. BatchInv => PlacesAnswered
  BY <1>1, <1>3, <1>5 DEF PlacesAnswered
<1>7. QED
  BY <1>6, BatchInvariant, PTL

(* "connected" is said of a name that gave a value in its own chunk, and   *)
(* "disconnected" of one that gave none, wherever the chunks end           *)
(* (_validate_pvs).                                                        *)
THEOREM StatusesEarned == LiveSpec => []StatusEarned
<1>1. ASSUME BatchInv, Batch!Returned("validate"), NEW i \in DOMAIN answer.pvs
      PROVE  answer.pvs[i].status = "connected"
               <=> \E j \in SameChunk(i) : names[j] = names[i] /\ read[j] = "ok"
  <2>1. answer.pvs \in Seq(Lines)
    BY <1>1 DEF BatchInv, BatchTyped
  <2>2. i \in 1 .. Len(answer.pvs)
    BY <2>1
  <2>3. QED
    BY <1>1, <2>2 DEF BatchInv, Told, Connected
<1>2. BatchInv => StatusEarned
  BY <1>1 DEF StatusEarned, Batch!StatusEarned, Batch!Ok, SameChunk
<1>3. QED
  BY <1>2, BatchInvariant, PTL
-----------------------------------------------------------------------------
(* The module of the proofs extends that of the views.                     *)
ViewProofs == INSTANCE DisplayViewsProofs

LEMMA SameOperators ==
  /\ Views!Files = ViewProofs!Files /\ Views!Pairs = ViewProofs!Pairs
  /\ \A of, t, f : Views!Flow(of, t, f) = ViewProofs!Flow(of, t, f)
  /\ Views!Lifted = ViewProofs!Lifted
  /\ \A evs : Views!Channels(evs) = ViewProofs!Channels(evs)
  /\ \A of, rel : /\ Views!FileEvents(of, rel) = ViewProofs!FileEvents(of, rel)
                  /\ Views!DisplayEvents(of, rel) = ViewProofs!DisplayEvents(of, rel)
<1>1. Views!Files = ViewProofs!Files /\ Views!Pairs = ViewProofs!Pairs
  BY DEF Views!Files, ViewProofs!Files, Views!Pairs, ViewProofs!Pairs
<1>2. \A of, t, f : Views!Flow(of, t, f) = ViewProofs!Flow(of, t, f)
  BY DEF Views!Flow, ViewProofs!Flow, Views!Unbound, ViewProofs!Unbound, Views!Inherit,
         ViewProofs!Inherit
<1>3. Views!Lifted = ViewProofs!Lifted
  BY DEF Views!Lifted, ViewProofs!Lifted, Views!Flow, ViewProofs!Flow, Views!Pairs,
         ViewProofs!Pairs, Views!Files, ViewProofs!Files, Views!Unbound,
         ViewProofs!Unbound, Views!Inherit, ViewProofs!Inherit
<1>4. \A of : Views!Events(of) = ViewProofs!Events(of)
  BY DEF Views!Events, ViewProofs!Events, Views!Pairs, ViewProofs!Pairs, Views!Files,
         ViewProofs!Files, Views!Unbound, ViewProofs!Unbound
<1>5. \A evs : Views!Channels(evs) = ViewProofs!Channels(evs)
  BY DEF Views!Channels, ViewProofs!Channels
<1>6. \A of, rel : /\ Views!FileEvents(of, rel) = ViewProofs!FileEvents(of, rel)
                  /\ Views!DisplayEvents(of, rel) = ViewProofs!DisplayEvents(of, rel)
  BY <1>4 DEF Views!FileEvents, ViewProofs!FileEvents, Views!DisplayEvents,
              ViewProofs!DisplayEvents
<1>7. QED
  BY <1>1, <1>2, <1>3, <1>5, <1>6

LEMMA SameBehaviours ==
  /\ Views!Init => ViewProofs!Init
  /\ Views!Next => ViewProofs!Next
  /\ (/\ ViewProofs!FileViewComplete /\ ViewProofs!FileViewNotSlandered
      /\ ViewProofs!DisplayViewComplete) => ViewsBounded
<1>1. Views!Init => ViewProofs!Init
  BY DEF Views!Init, ViewProofs!Init, Views!Files, ViewProofs!Files, Views!Pairs,
         ViewProofs!Pairs, Views!Inherit, ViewProofs!Inherit
<1>2. \A S : Views!Cardinality(S) = ViewProofs!Cardinality(S)
  BY DEF Views!Cardinality, ViewProofs!Cardinality
<1>3. \A t, f : Views!Visit(t, f) <=> ViewProofs!Visit(t, f)
  BY <1>2, SameOperators DEF Views!Visit, ViewProofs!Visit
<1>4. \A rel : /\ Views!FileViewIsCapped(rel) = ViewProofs!FileViewIsCapped(rel)
              /\ Views!DisplayViewIsCapped(rel) = ViewProofs!DisplayViewIsCapped(rel)
  BY SameOperators DEF Views!FileViewIsCapped, ViewProofs!FileViewIsCapped,
     Views!DisplayViewIsCapped, ViewProofs!DisplayViewIsCapped, Views!MacroTops,
     ViewProofs!MacroTops, Views!Origins, ViewProofs!Origins
<1>5. Views!Extract => ViewProofs!Extract
  BY <1>4, SameOperators DEF Views!Extract, ViewProofs!Extract
<1>6. Views!Next => ViewProofs!Next
  BY <1>3, <1>5, SameOperators DEF Views!Next, ViewProofs!Next
<1>7. ViewProofs!FileViewComplete => Views!FileViewComplete
  BY SameOperators DEF Views!FileViewComplete, ViewProofs!FileViewComplete,
     Views!Extracted, ViewProofs!Extracted
<1>8. ViewProofs!FileViewNotSlandered => Views!FileViewNotSlandered
  BY DEF Views!FileViewNotSlandered, ViewProofs!FileViewNotSlandered, Views!Extracted,
         ViewProofs!Extracted
<1>9. ViewProofs!DisplayViewComplete => Views!DisplayViewComplete
  <2>1. \A rel, x : ViewProofs!Mute(rel, x) <=> Views!Mute(rel, x)
    BY SameOperators DEF Views!Mute, ViewProofs!Mute, Views!Unbound, ViewProofs!Unbound
  <2>2. Views!Extracted = ViewProofs!Extracted
    BY DEF Views!Extracted, ViewProofs!Extracted
  <2>3. QED
    BY <2>1, <2>2, SameOperators DEF Views!DisplayViewComplete, ViewProofs!DisplayViewComplete
<1>10. QED
  BY <1>1, <1>6, <1>7, <1>8, <1>9 DEF ViewsBounded

(* However files embed each other and whatever a capped walk drops: a file *)
(* view that is not called a lower bound is complete, one that is called   *)
(* so could grow, and a display view that is not called one misses a       *)
(* channel only behind a capped file that shows none of its own in it      *)
(* (_run_validate).                                                        *)
THEOREM ViewsEarned == LiveSpec => []ViewsBounded
<1>1. ViewProofs!Sizes
  BY LiveAssumption DEF ViewProofs!Sizes, ViewProofs!IsFiniteSet, IsFiniteSet
<1>2. LiveInit => ViewProofs!Init
  BY SameBehaviours DEF LiveInit
<1>3. [LiveNext]_liveVars => [ViewProofs!Next]_(ViewProofs!vars)
  BY SameBehaviours DEF LiveNext, liveVars, MonitorStep, BatchStep, ViewStep, viewVars,
     ViewProofs!vars
<1>4. LiveSpec => ViewProofs!Spec
  BY <1>2, <1>3, PTL DEF LiveSpec, ViewProofs!Spec
<1>5. ViewProofs!Spec =>
        [](ViewProofs!FileViewComplete /\ ViewProofs!FileViewNotSlandered
           /\ ViewProofs!DisplayViewComplete)
  BY <1>1, ViewProofs!ViewsHonest
<1>6. QED
  BY <1>4, <1>5, SameBehaviours, PTL
=============================================================================
