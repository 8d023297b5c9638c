-------------------------- MODULE DisplayViewsProofs --------------------------
(***************************************************************************)
(* TLAPS proofs about DisplayViews, for any number of files, any finite    *)
(* set of values and any cap.                                              *)
(*                                                                         *)
(* The walk is compared with the one that has no cap (Lifted).  The        *)
(* invariant (Compared) says where the two may differ: only behind a file  *)
(* that was capped, which the top reaches and which reaches the file.      *)
(***************************************************************************)
EXTENDS DisplayViews, FiniteSetTheorems, WellFoundedInduction, TLAPS

(* What the walk is run with. *)
Sizes == NumFiles \in Nat /\ ContextCap \in Nat \ {0} /\ IsFiniteSet(Values)

Bindings == Values \union {Unbound}

Displays ==
  /\ embeds \subseteq {e \in Files \X Files \X (Values \union {Inherit}) : e[1] < e[2]}
  /\ plain \subseteq Files /\ templated \subseteq Files

(* A top, by this walk, reaches a file. *)
Reaches(of, top, file) == <<top, file>> \in Pairs /\ of[<<top, file>>] # {}
-----------------------------------------------------------------------------
(* Every set of numbers has a least one. *)
LEMMA LeastNumber ==
  ASSUME NEW S \in SUBSET Nat, S # {}
  PROVE  \E n \in S : \A k \in S : n <= k
<1> DEFINE Less == {p \in Nat \X Nat : p[1] < p[2]}
<1>1. IsWellFoundedOn(Less, Nat)
  BY NatLessThanWellFounded DEF OpToRel
<1>2. \A j, k \in Nat : j < k => <<j, k>> \in Less
  OBVIOUS
<1> HIDE DEF Less
<1>3. PICK n \in S : \A k \in S : ~(<<k, n>> \in Less)
  BY <1>1, WFMin
<1>4. ASSUME NEW k \in S PROVE n <= k
  <2>1. n \in Nat /\ k \in Nat /\ <<k, n>> \notin Less
    BY <1>3
  <2>2. ~(k < n)
    BY <1>2, <2>1
  <2>3. QED
    BY <2>1, <2>2
<1>5. QED
  BY <1>4

LEMMA PairsAre ==
  ASSUME Sizes
  PROVE  /\ \A t, f : <<t, f>> \in Pairs <=> t \in Files /\ f \in Files /\ t <= f
         /\ \A p \in Pairs : p = <<p[1], p[2]>>
         /\ \A t \in Files : t \in Nat /\ <<t, t>> \in Pairs
BY DEF Pairs, Files, Sizes

LEMMA Embedding ==
  ASSUME Displays, NEW d \in embeds
  PROVE  d[1] \in Files /\ d[2] \in Files /\ d[3] \in Values \union {Inherit} /\ d[1] < d[2]
BY DEF Displays

(* What flows to a file under another top comes from one of its parents.   *)
Passed(of, t, d) == {IF d[3] = Inherit THEN x ELSE d[3] : x \in of[<<t, d[1]>>]}

LEMMA FlowFrom ==
  ASSUME NEW of, NEW t, NEW f, t # f, NEW b \in Flow(of, t, f)
  PROVE  \E d \in embeds : d[2] = f /\ d[1] >= t /\ b \in Passed(of, t, d)
BY DEF Flow, Passed

LEMMA FlowInto ==
  ASSUME NEW of, NEW t, NEW f, t # f, NEW d \in embeds, d[2] = f, d[1] >= t,
         NEW b \in Passed(of, t, d)
  PROVE  b \in Flow(of, t, f)
BY DEF Flow, Passed

(* Nothing flows but values, and of a walk only what its parents have.     *)
LEMMA FlowTyped ==
  ASSUME Sizes, Displays, NEW of \in [Pairs -> SUBSET Bindings], NEW p \in Pairs
  PROVE  Flow(of, p[1], p[2]) \subseteq Bindings
<1>1. CASE p[1] = p[2]
  BY <1>1 DEF Flow, Bindings
<1>2. CASE p[1] # p[2]
  <2>1. SUFFICES ASSUME NEW b \in Flow(of, p[1], p[2]) PROVE b \in Bindings
    OBVIOUS
  <2>2. PICK d \in embeds : d[2] = p[2] /\ d[1] >= p[1] /\ b \in Passed(of, p[1], d)
    BY <1>2, <2>1, FlowFrom
  <2>3. d[1] \in Files /\ d[3] \in Values \union {Inherit} /\ p[1] \in Files
    BY Embedding, PairsAre
  <2>4. <<p[1], d[1]>> \in Pairs
    BY <2>2, <2>3, PairsAre
  <2>5. of[<<p[1], d[1]>>] \subseteq Bindings
    BY <2>4
  <2>6. QED
    BY <2>2, <2>3, <2>5 DEF Bindings, Passed
<1>3. QED
  BY <1>1, <1>2

LEMMA FlowDepends ==
  ASSUME Sizes, Displays, NEW of, NEW on, NEW p \in Pairs,
         \A q \in Pairs : q[1] = p[1] /\ q[2] < p[2] => of[q] = on[q]
  PROVE  Flow(of, p[1], p[2]) = Flow(on, p[1], p[2])
<1>1. CASE p[1] = p[2]
  BY <1>1 DEF Flow
<1>2. CASE p[1] # p[2]
  <2>1. ASSUME NEW d \in embeds, d[2] = p[2], d[1] >= p[1]
        PROVE  of[<<p[1], d[1]>>] = on[<<p[1], d[1]>>]
    <3>1. d[1] \in Files /\ d[1] < p[2] /\ p[1] \in Files
      BY <2>1, Embedding, PairsAre
    <3>2. <<p[1], d[1]>> \in Pairs
      BY <2>1, <3>1, PairsAre
    <3>3. QED
      BY <3>1, <3>2
  <2>2. ASSUME NEW b \in Flow(of, p[1], p[2]) PROVE b \in Flow(on, p[1], p[2])
    <3>1. PICK d \in embeds : d[2] = p[2] /\ d[1] >= p[1] /\ b \in Passed(of, p[1], d)
      BY <1>2, FlowFrom
    <3>2. b \in Passed(on, p[1], d)
      BY <2>1, <3>1 DEF Passed
    <3>3. QED
      BY <1>2, <3>1, <3>2, FlowInto
  <2>3. ASSUME NEW b \in Flow(on, p[1], p[2]) PROVE b \in Flow(of, p[1], p[2])
    <3>1. PICK d \in embeds : d[2] = p[2] /\ d[1] >= p[1] /\ b \in Passed(on, p[1], d)
      BY <1>2, FlowFrom
    <3>2. b \in Passed(of, p[1], d)
      BY <2>1, <3>1 DEF Passed
    <3>3. QED
      BY <1>2, <3>1, <3>2, FlowInto
  <2>4. QED
    BY <2>2, <2>3
<1>3. QED
  BY <1>1, <1>2
-----------------------------------------------------------------------------
(* The walk without a cap is well defined: file by file, for a file embeds *)
(* files of a higher number only.                                          *)
Upto(n) ==
  {of \in [Pairs -> SUBSET Bindings] :
    \A p \in Pairs : p[2] <= n => of[p] = Flow(of, p[1], p[2])}

LEMMA UptoGrows ==
  ASSUME Sizes, Displays, NEW n \in Nat, NEW of \in Upto(n)
  PROVE  Upto(n + 1) # {}
<1> DEFINE on == [p \in Pairs |-> IF p[2] <= n THEN of[p] ELSE Flow(of, p[1], p[2])]
<1>1. of \in [Pairs -> SUBSET Bindings] /\ \A p \in Pairs : p[2] <= n => of[p] = Flow(of, p[1], p[2])
  BY DEF Upto
<1>2. on \in [Pairs -> SUBSET Bindings]
  BY <1>1, FlowTyped
<1>3. \A p \in Pairs : p[2] <= n => on[p] = of[p]
  OBVIOUS
<1>4. \A p \in Pairs : p[2] > n => on[p] = Flow(of, p[1], p[2])
  BY PairsAre DEF Files
<1> HIDE DEF on
<1>5. ASSUME NEW p \in Pairs, p[2] <= n + 1 PROVE on[p] = Flow(on, p[1], p[2])
  <2>1. p[1] \in Nat /\ p[2] \in Nat
    BY PairsAre
  <2>2. \A q \in Pairs : q[1] = p[1] /\ q[2] < p[2] => of[q] = on[q]
    <3>1. ASSUME NEW q \in Pairs, q[2] < p[2] PROVE q[2] <= n
      <4>1. q[2] \in Nat
        BY PairsAre
      <4>2. QED
        BY <1>5, <2>1, <3>1, <4>1
    <3>2. QED
      BY <1>3, <3>1
  <2>3. Flow(of, p[1], p[2]) = Flow(on, p[1], p[2])
    BY <2>2, FlowDepends
  <2>4. on[p] = Flow(of, p[1], p[2])
    BY <1>1, <1>3, <1>4, <2>1
  <2>5. QED
    BY <2>3, <2>4
<1>6. QED
  BY <1>2, <1>5 DEF Upto

LEMMA UptoAny ==
  ASSUME Sizes, Displays
  PROVE  \A n \in Nat : Upto(n) # {}
<1> DEFINE None == {n \in Nat : Upto(n) = {}}
<1>1. SUFFICES ASSUME None # {} PROVE FALSE
  OBVIOUS
<1>2. PICK n \in None : \A k \in None : n <= k
  <2>1. None \subseteq Nat
    OBVIOUS
  <2> HIDE DEF None
  <2>2. QED
    BY <1>1, <2>1, LeastNumber
<1>3. CASE n = 0
  <2>1. [p \in Pairs |-> {}] \in [Pairs -> SUBSET Bindings]
    OBVIOUS
  <2>2. \A p \in Pairs : ~(p[2] <= 0)
    BY PairsAre DEF Files
  <2>3. [p \in Pairs |-> {}] \in Upto(0)
    BY <2>1, <2>2 DEF Upto
  <2>4. QED
    BY <1>3, <2>3
<1>4. CASE n # 0
  <2>1. n - 1 \in Nat /\ n - 1 \notin None
    BY <1>2, <1>4
  <2>2. PICK of \in Upto(n - 1) : TRUE
    BY <2>1
  <2>3. Upto((n - 1) + 1) # {}
    BY <2>1, <2>2, UptoGrows
  <2>4. QED
    BY <1>2, <2>1, <2>3
<1>5. QED
  BY <1>3, <1>4

LEMMA LiftedFlows ==
  ASSUME Sizes, Displays
  PROVE  Lifted = [p \in Pairs |-> Flow(Lifted, p[1], p[2])]
<1>1. PICK of \in Upto(NumFiles) : TRUE
  BY UptoAny DEF Sizes
<1>2. \A p \in Pairs : p[2] <= NumFiles
  BY DEF Pairs, Files, Sizes
<1>3. of = [p \in Pairs |-> Flow(of, p[1], p[2])]
  BY <1>1, <1>2 DEF Upto
<1>4. Lifted = CHOOSE full : full = [p \in Pairs |-> Flow(full, p[1], p[2])]
  BY DEF Lifted
<1>5. QED
  BY <1>3, <1>4

LEMMA LiftedTyped ==
  ASSUME Sizes, Displays
  PROVE  /\ \A p \in Pairs : Lifted[p] \subseteq Bindings
         /\ \A t \in Files : Lifted[<<t, t>>] = {Unbound}
<1>1. PICK of \in Upto(NumFiles) : TRUE
  BY UptoAny DEF Sizes
<1>2. ASSUME NEW n \in Nat, \A k \in Nat, p \in Pairs : k < n /\ p[2] = k => Lifted[p] = of[p]
      PROVE  \A p \in Pairs : p[2] = n => Lifted[p] = of[p]
  <2>1. SUFFICES ASSUME NEW p \in Pairs, p[2] = n PROVE Lifted[p] = of[p]
    OBVIOUS
  <2>2. \A q \in Pairs : q[1] = p[1] /\ q[2] < p[2] => Lifted[q] = of[q]
    BY <1>2, <2>1, PairsAre
  <2>3. Lifted[p] = Flow(Lifted, p[1], p[2])
    BY LiftedFlows
  <2>4. of[p] = Flow(of, p[1], p[2])
    BY <1>1, PairsAre DEF Upto, Files
  <2>5. QED
    BY <2>2, <2>3, <2>4, FlowDepends
<1>3. \A p \in Pairs : Lifted[p] = of[p]
  <2> DEFINE Off == {n \in Nat : \E p \in Pairs : p[2] = n /\ Lifted[p] # of[p]}
  <2>1. Off = {}
    <3>1. SUFFICES ASSUME Off # {} PROVE FALSE
      OBVIOUS
    <3>2. PICK n \in Off : \A k \in Off : n <= k
      <4>1. Off \subseteq Nat
        OBVIOUS
      <4> HIDE DEF Off
      <4>2. QED
        BY <3>1, <4>1, LeastNumber
    <3>3. \A k \in Nat, p \in Pairs : k < n /\ p[2] = k => Lifted[p] = of[p]
      BY <3>2
    <3>4. \A p \in Pairs : p[2] = n => Lifted[p] = of[p]
      BY <1>2, <3>2, <3>3
    <3>5. QED
      BY <3>2, <3>4
  <2>2. QED
    BY <2>1, PairsAre
<1>4. \A p \in Pairs : Lifted[p] \subseteq Bindings
  BY <1>1, <1>3 DEF Upto
<1>5. ASSUME NEW t \in Files PROVE Lifted[<<t, t>>] = {Unbound}
  <2>1. <<t, t>> \in Pairs
    BY PairsAre
  <2>2. Lifted[<<t, t>>] = Flow(Lifted, t, t)
    BY <2>1, LiftedFlows
  <2>3. QED
    BY <2>2 DEF Flow
<1>6. QED
  BY <1>4, <1>5
-----------------------------------------------------------------------------
(* A file that was capped, on the way from the top to the file.            *)
Between(top, file) ==
  \E c \in capped : Reaches(Lifted, top, c) /\ Reaches(Lifted, c, file)

(* A pair that was visited differs from the walk without a cap at most by  *)
(* what a capped file on the way dropped, and it is reached if there.      *)
Compared(p) ==
  /\ contexts[p] \subseteq Lifted[p]
  /\ Lifted[p] # {} => contexts[p] # {}
  /\ contexts[p] = Lifted[p] \/ Between(p[1], p[2])

(* The invariant of the walk.                                              *)
Walked ==
  /\ Displays /\ capped \subseteq Files /\ left \subseteq Pairs
  /\ contexts \in [Pairs -> SUBSET Bindings]
  /\ \A p \in Pairs \ left : \A q \in left : q[1] = p[1] => q[2] > p[2]
  /\ \A p \in Pairs \ left : Compared(p)

(* What the parents have, the file has.                                    *)
LEMMA FlowReaches ==
  ASSUME Sizes, Displays, NEW d \in embeds, NEW t, Reaches(Lifted, t, d[1])
  PROVE  Reaches(Lifted, t, d[2])
<1>1. t \in Files /\ d[1] \in Files /\ d[2] \in Files /\ t <= d[1] /\ d[1] < d[2]
  BY PairsAre, Embedding DEF Reaches
<1>2. <<t, d[2]>> \in Pairs /\ t # d[2] /\ d[1] >= t
  <2>1. t \in Nat /\ d[1] \in Nat /\ d[2] \in Nat
    BY <1>1, PairsAre
  <2>2. t < d[2] /\ d[1] >= t
    BY <1>1, <2>1
  <2>3. QED
    BY <1>1, <2>1, <2>2, PairsAre
<1>3. PICK x : x \in Lifted[<<t, d[1]>>]
  BY DEF Reaches
<1>4. (IF d[3] = Inherit THEN x ELSE d[3]) \in Passed(Lifted, t, d)
  BY <1>3 DEF Passed
<1>5. Flow(Lifted, t, d[2]) # {}
  BY <1>2, <1>4, FlowInto
<1>6. QED
  BY <1>2, <1>5, LiftedFlows DEF Reaches

(* What flows to the pair the walk comes to next.                          *)
LEMMA FlowCompared ==
  ASSUME Sizes, Walked, NEW p \in left,
         \A q \in left : q[1] > p[1] \/ (q[1] = p[1] /\ q[2] >= p[2])
  PROVE  LET reach == Flow(contexts, p[1], p[2]) IN
         /\ reach \subseteq Lifted[p]
         /\ Lifted[p] # {} => reach # {}
         /\ reach = Lifted[p] \/ Between(p[1], p[2])
<1> DEFINE t == p[1]
           f == p[2]
<1>1. /\ p \in Pairs /\ p = <<t, f>> /\ t \in Files /\ f \in Files /\ t <= f
      /\ t \in Nat /\ f \in Nat /\ Displays
  <2>1. p \in Pairs /\ Displays
    BY DEF Walked
  <2>2. p[1] \in Files /\ p[2] \in Files /\ p[1] <= p[2] /\ p = <<p[1], p[2]>>
    BY <2>1, PairsAre
  <2>3. QED
    BY <2>1, <2>2, PairsAre
<1>2. Lifted[p] = Flow(Lifted, t, f)
  BY <1>1, LiftedFlows
<1>3. CASE t = f
  BY <1>2, <1>3 DEF Flow
<1>4. CASE t # f
  <2>1. ASSUME NEW d \in embeds, d[2] = f, d[1] >= t
        PROVE  <<t, d[1]>> \in Pairs /\ Compared(<<t, d[1]>>)
    <3>1. d[1] \in Files /\ d[1] < f /\ d[1] \in Nat
      BY <1>1, <2>1, Embedding, PairsAre
    <3>2. <<t, d[1]>> \in Pairs
      BY <1>1, <2>1, <3>1, PairsAre
    <3>3. <<t, d[1]>> \notin left
      BY <1>1, <3>1
    <3>4. QED
      BY <3>2, <3>3 DEF Walked
  <2>2. ASSUME NEW b \in Flow(contexts, t, f) PROVE b \in Lifted[p]
    <3>1. PICK d \in embeds : d[2] = f /\ d[1] >= t /\ b \in Passed(contexts, t, d)
      BY <1>4, FlowFrom
    <3>2. b \in Passed(Lifted, t, d)
      BY <2>1, <3>1 DEF Compared, Passed
    <3>3. QED
      BY <1>2, <1>4, <3>1, <3>2, FlowInto
  <2>3. ASSUME NEW b \in Lifted[p] PROVE Flow(contexts, t, f) # {}
    <3>1. PICK d \in embeds : d[2] = f /\ d[1] >= t /\ b \in Passed(Lifted, t, d)
      BY <1>2, <1>4, FlowFrom
    <3>2. PICK x : x \in contexts[<<t, d[1]>>]
      BY <2>1, <3>1 DEF Compared, Passed
    <3>3. (IF d[3] = Inherit THEN x ELSE d[3]) \in Passed(contexts, t, d)
      BY <3>2 DEF Passed
    <3>4. QED
      BY <1>4, <3>1, <3>3, FlowInto
  <2>4. ASSUME NEW b \in Lifted[p], b \notin Flow(contexts, t, f) PROVE Between(t, f)
    <3>1. PICK d \in embeds : d[2] = f /\ d[1] >= t /\ b \in Passed(Lifted, t, d)
      BY <1>2, <1>4, FlowFrom
    <3>2. b \notin Passed(contexts, t, d)
      BY <1>4, <2>4, <3>1, FlowInto
    <3>3. contexts[<<t, d[1]>>] # Lifted[<<t, d[1]>>]
      BY <3>1, <3>2 DEF Passed
    <3>4. PICK c \in capped : Reaches(Lifted, t, c) /\ Reaches(Lifted, c, d[1])
      BY <2>1, <3>1, <3>3 DEF Compared, Between
    <3>5. Reaches(Lifted, c, f)
      BY <1>1, <3>1, <3>4, FlowReaches
    <3>6. QED
      BY <3>4, <3>5 DEF Between
  <2>5. QED
    BY <2>2, <2>3, <2>4
<1>5. QED
  BY <1>3, <1>4

(* What a visit keeps.                                                     *)
LEMMA Kept ==
  ASSUME Sizes, NEW reach \in SUBSET Bindings, NEW kept \in SUBSET reach,
         Cardinality(kept) =
           IF Cardinality(reach) > ContextCap THEN ContextCap ELSE Cardinality(reach)
  PROVE  /\ Cardinality(reach) > ContextCap => reach # {}
         /\ ~(Cardinality(reach) > ContextCap) => kept = reach
         /\ reach # {} => kept # {}
<1>1. IsFiniteSet(Bindings)
  BY FS_AddElement DEF Bindings, Sizes
<1>2. IsFiniteSet(reach) /\ IsFiniteSet(kept)
  BY <1>1, FS_Subset
<1>3. Cardinality(reach) \in Nat /\ Cardinality(kept) \in Nat
  BY <1>2, FS_CardinalityType
<1>4. (Cardinality(reach) = 0 <=> reach = {}) /\ (Cardinality(kept) = 0 <=> kept = {})
  BY <1>2, FS_EmptySet
<1>5. Cardinality(kept) = Cardinality(reach) => kept = reach
  BY <1>2, <1>3, FS_Subset
<1>6. QED
  BY <1>3, <1>4, <1>5 DEF Sizes

LEMMA InitWalked ==
  ASSUME Sizes, Init
  PROVE  Walked /\ found = <<>>
BY DEF Init, Walked, Displays, Compared

LEMMA LiftedStays ==
  ASSUME embeds' = embeds
  PROVE  Lifted' = Lifted /\ \A t, f : Reaches(Lifted, t, f)' <=> Reaches(Lifted, t, f)
<1>1. Lifted' = Lifted
  BY DEF Lifted, Flow
<1>2. QED
  BY <1>1 DEF Reaches

LEMMA VisitWalks ==
  ASSUME Sizes, Walked, NEW p \in Pairs, Visit(p[1], p[2])
  PROVE  Walked'
<1> DEFINE reach == Flow(contexts, p[1], p[2])
<1>1. /\ p = <<p[1], p[2]>> /\ p[1] \in Nat /\ p[2] \in Nat
      /\ p[1] \in Files /\ p[2] \in Files
  BY PairsAre
<1>2. /\ p \in left /\ \A q \in left : q[1] > p[1] \/ (q[1] = p[1] /\ q[2] >= p[2])
      /\ left' = left \ {p} /\ UNCHANGED <<embeds, plain, templated>>
      /\ capped' = IF Cardinality(reach) > ContextCap THEN capped \union {p[2]} ELSE capped
  BY <1>1 DEF Visit
<1>3. PICK kept \in SUBSET reach :
        /\ Cardinality(kept) =
             IF Cardinality(reach) > ContextCap THEN ContextCap ELSE Cardinality(reach)
        /\ contexts' = [contexts EXCEPT ![p] = kept]
  BY <1>1 DEF Visit
<1>4. reach \subseteq Bindings /\ Displays /\ contexts \in [Pairs -> SUBSET Bindings]
  BY FlowTyped DEF Walked
<1>5. /\ reach \subseteq Lifted[p] /\ (Lifted[p] # {} => reach # {})
      /\ reach = Lifted[p] \/ Between(p[1], p[2])
  BY <1>2, FlowCompared
<1>6. /\ Cardinality(reach) > ContextCap => reach # {}
      /\ ~(Cardinality(reach) > ContextCap) => kept = reach
      /\ reach # {} => kept # {}
  BY <1>3, <1>4, Kept
<1> HIDE DEF reach
<1>7. Lifted' = Lifted /\ \A t, f : Reaches(Lifted, t, f)' <=> Reaches(Lifted, t, f)
  BY <1>2, LiftedStays
<1>8. \A t, f : Between(t, f) => Between(t, f)'
  BY <1>2, <1>7 DEF Between
<1>9. contexts'[p] = kept /\ \A q \in Pairs : q # p => contexts'[q] = contexts[q]
  BY <1>3, <1>4
<1>10. Compared(p)'
  <2>1. contexts'[p] \subseteq Lifted'[p] /\ (Lifted'[p] # {} => contexts'[p] # {})
    BY <1>3, <1>5, <1>6, <1>7, <1>9
  <2>2. CASE Cardinality(reach) > ContextCap
    <3>1. p[2] \in capped' /\ Reaches(Lifted, p[1], p[2])
      BY <1>1, <1>2, <1>5, <1>6, <2>2 DEF Reaches
    <3>2. Reaches(Lifted, p[2], p[2])
      BY <1>1, <1>4, PairsAre, LiftedTyped DEF Reaches
    <3>3. Between(p[1], p[2])'
      BY <1>7, <3>1, <3>2 DEF Between
    <3>4. QED
      BY <2>1, <3>3 DEF Compared
  <2>3. CASE ~(Cardinality(reach) > ContextCap)
    BY <1>5, <1>6, <1>7, <1>8, <1>9, <2>1, <2>3 DEF Compared
  <2>4. QED
    BY <2>2, <2>3
<1>11. ASSUME NEW q \in Pairs \ left' PROVE Compared(q)'
  <2>1. CASE q = p
    BY <1>10, <2>1
  <2>2. CASE q # p
    <3>1. Compared(q) /\ contexts'[q] = contexts[q]
      BY <1>2, <1>9, <2>2 DEF Walked
    <3>2. QED
      BY <1>7, <1>8, <3>1 DEF Compared
  <2>3. QED
    BY <2>1, <2>2
<1>12. ASSUME NEW q \in Pairs \ left', NEW r \in left', r[1] = q[1] PROVE r[2] > q[2]
  <2>1. r \in left /\ r # p /\ r \in Pairs
    BY <1>2 DEF Walked
  <2>2. CASE q # p
    BY <1>2, <1>12, <2>1, <2>2 DEF Walked
  <2>3. CASE q = p
    <3>1. r[2] >= p[2] /\ r = <<r[1], r[2]>> /\ r[2] \in Nat
      <4>1. r[1] = p[1] /\ r = <<r[1], r[2]>>
        BY <1>12, <2>1, <2>3, PairsAre
      <4>2. r[2] \in Files /\ r[2] \in Nat
        BY <2>1, <4>1, PairsAre
      <4>3. QED
        BY <1>1, <1>2, <2>1, <4>1, <4>2
    <3>2. r[2] # p[2]
      BY <1>1, <1>12, <2>1, <2>3, <3>1
    <3>3. QED
      BY <1>1, <2>3, <3>1, <3>2
  <2>4. QED
    BY <2>2, <2>3
<1>13. Displays' /\ capped' \subseteq Files /\ left' \subseteq Pairs
  BY <1>1, <1>2 DEF Walked, Displays
<1>14. contexts' \in [Pairs -> SUBSET Bindings]
  BY <1>3, <1>4
<1>15. QED
  BY <1>11, <1>12, <1>13, <1>14 DEF Walked
-----------------------------------------------------------------------------
(* What is extracted, when the walk is over.                               *)
Walk == Walked /\ left = {}

LEMMA SamePairs ==
  ASSUME Sizes, Walk, NEW p \in Pairs
  PROVE  /\ contexts[p] # {} <=> Lifted[p] # {}
         /\ contexts[p] = Lifted[p] \/ Between(p[1], p[2])
BY DEF Walk, Walked, Compared

(* The events of a file under a top. *)
Plainly(p) == [top |-> p[1], origin |-> p[2], templated |-> FALSE, resolved |-> TRUE,
               channel |-> <<p[2], "plain">>]
Bound(p, b) == [top |-> p[1], origin |-> p[2], templated |-> TRUE, resolved |-> b # Unbound,
                channel |-> <<p[2], b>>]
EventsAt(of, p) ==
  {Plainly(p) : f \in {p[2]} \intersect plain}
    \union {Bound(p, b) : b \in IF p[2] \in templated THEN of[p] ELSE {}}

LEMMA EventsAre ==
  ASSUME NEW of
  PROVE  Events(of) = UNION {EventsAt(of, p) : p \in {q \in Pairs : of[q] # {}}}
BY DEF Events, EventsAt, Plainly, Bound

LEMMA EventsFrom ==
  ASSUME NEW of, NEW p \in Pairs
  PROVE  /\ \A ev \in EventsAt(of, p) : ev.top = p[1] /\ ev.origin = p[2]
         /\ \A ev \in EventsAt(of, p) : ev.templated => p[2] \in templated
         /\ p[2] \in plain => Plainly(p) \in EventsAt(of, p)
         /\ \A b \in of[p] : p[2] \in templated => Bound(p, b) \in EventsAt(of, p)
<1>1. \A ev \in EventsAt(of, p) :
        ev = Plainly(p) \/ (p[2] \in templated /\ \E b \in of[p] : ev = Bound(p, b))
  BY DEF EventsAt
<1>2. /\ p[2] \in plain => Plainly(p) \in EventsAt(of, p)
      /\ \A b \in of[p] : p[2] \in templated => Bound(p, b) \in EventsAt(of, p)
  BY DEF EventsAt
<1>3. /\ Plainly(p).top = p[1] /\ Plainly(p).origin = p[2] /\ ~Plainly(p).templated
      /\ \A b : Bound(p, b).top = p[1] /\ Bound(p, b).origin = p[2]
  BY DEF Plainly, Bound
<1>4. QED
  BY <1>1, <1>2, <1>3

(* The views depend on the bindings of their own pairs only.               *)
LEMMA ViewsDepend ==
  ASSUME NEW of, NEW on, NEW rel
  PROVE  /\ (\A p \in Pairs : p[2] = rel => of[p] = on[p]) =>
              FileEvents(of, rel) = FileEvents(on, rel)
         /\ (\A p \in Pairs : p[1] = rel => of[p] = on[p]) =>
              DisplayEvents(of, rel) = DisplayEvents(on, rel)
<1>1. \A p \in Pairs : of[p] = on[p] => EventsAt(of, p) = EventsAt(on, p)
  BY DEF EventsAt
<1>2. ASSUME NEW fo, NEW fn, NEW p \in Pairs, NEW ev, fo[p] = fn[p], fo[p] # {},
             ev \in EventsAt(fo, p)
      PROVE  ev \in Events(fn)
  <2>1. EventsAt(fo, p) = EventsAt(fn, p) /\ fn[p] # {}
    BY <1>2 DEF EventsAt
  <2>2. QED
    BY <1>2, <2>1, EventsAre
<1>3. ASSUME NEW fo, NEW ev \in Events(fo)
      PROVE  \E p \in Pairs : fo[p] # {} /\ ev \in EventsAt(fo, p) /\ ev.top = p[1] /\ ev.origin = p[2]
  BY EventsAre, EventsFrom
<1>4. ASSUME NEW fo, NEW fn, \A p \in Pairs : p[2] = rel => fo[p] = fn[p]
      PROVE  FileEvents(fo, rel) \subseteq FileEvents(fn, rel)
  BY <1>2, <1>3, <1>4 DEF FileEvents
<1>5. ASSUME NEW fo, NEW fn, \A p \in Pairs : p[1] = rel => fo[p] = fn[p]
      PROVE  DisplayEvents(fo, rel) \subseteq DisplayEvents(fn, rel)
  BY <1>2, <1>3, <1>5 DEF DisplayEvents
<1>6. ASSUME \A p \in Pairs : p[2] = rel => of[p] = on[p]
      PROVE  FileEvents(of, rel) = FileEvents(on, rel)
  <2>1. FileEvents(of, rel) \subseteq FileEvents(on, rel)
    BY <1>4, <1>6
  <2>2. FileEvents(on, rel) \subseteq FileEvents(of, rel)
    BY <1>4, <1>6
  <2>3. QED
    BY <2>1, <2>2
<1>7. ASSUME \A p \in Pairs : p[1] = rel => of[p] = on[p]
      PROVE  DisplayEvents(of, rel) = DisplayEvents(on, rel)
  <2>1. DisplayEvents(of, rel) \subseteq DisplayEvents(on, rel)
    BY <1>5, <1>7
  <2>2. DisplayEvents(on, rel) \subseteq DisplayEvents(of, rel)
    BY <1>5, <1>7
  <2>3. QED
    BY <2>1, <2>2
<1>8. QED
  BY <1>6, <1>7

(* A file that uses no macro declares the same channels under every walk.  *)
LEMMA PlainFile ==
  ASSUME Sizes, NEW rel \in Files, rel \notin templated, NEW of, of[<<rel, rel>>] # {}
  PROVE  Channels(FileEvents(of, rel)) = IF rel \in plain THEN {<<rel, "plain">>} ELSE {}
<1>1. <<rel, rel>> \in Pairs
  BY PairsAre
<1>2. ASSUME NEW ev \in FileEvents(of, rel)
      PROVE  rel \in plain /\ ev.channel = <<rel, "plain">>
  <2>1. PICK p \in Pairs : of[p] # {} /\ ev \in EventsAt(of, p)
    BY EventsAre DEF FileEvents
  <2>2. p[2] = rel
    BY <2>1, EventsFrom DEF FileEvents
  <2>3. QED
    BY <2>1, <2>2 DEF EventsAt, Plainly
<1>3. ASSUME rel \in plain PROVE <<rel, "plain">> \in Channels(FileEvents(of, rel))
  <2> DEFINE ev == Plainly(<<rel, rel>>)
  <2>1. ev \in EventsAt(of, <<rel, rel>>)
    BY <1>1, <1>3, EventsFrom
  <2>2. ev \in Events(of)
    BY <1>1, <2>1, EventsAre
  <2>3. ev.origin = rel /\ ev.resolved = TRUE /\ ev.channel = <<rel, "plain">>
    BY DEF Plainly
  <2> HIDE DEF ev
  <2>4. QED
    BY <2>2, <2>3 DEF FileEvents, Channels
<1>4. QED
  BY <1>2, <1>3 DEF Channels

(* The tops a macro of a file is seen under are those that reach it.       *)
LEMMA MacroTopsAre ==
  ASSUME Sizes, Walk, NEW rel
  PROVE  /\ MacroTops(rel) # {} => rel \in templated
         /\ \A c : rel \in templated /\ Reaches(Lifted, c, rel) => c \in MacroTops(rel)
<1>1. ASSUME NEW ev \in FileEvents(contexts, rel), ev.templated PROVE rel \in templated
  BY <1>1, EventsAre, EventsFrom DEF FileEvents
<1>2. ASSUME NEW c, rel \in templated, Reaches(Lifted, c, rel) PROVE c \in MacroTops(rel)
  <2>1. <<c, rel>> \in Pairs /\ contexts[<<c, rel>>] # {}
    BY <1>2, SamePairs DEF Reaches
  <2>2. PICK b : b \in contexts[<<c, rel>>]
    BY <2>1
  <2> DEFINE ev == Bound(<<c, rel>>, b)
  <2>3. ev \in EventsAt(contexts, <<c, rel>>)
    BY <1>2, <2>1, <2>2, EventsFrom
  <2>4. ev \in Events(contexts)
    BY <2>1, <2>3, EventsAre
  <2>5. ev.origin = rel /\ ev.top = c /\ ev.templated = TRUE
    BY DEF Bound
  <2> HIDE DEF ev
  <2>6. QED
    BY <2>4, <2>5 DEF MacroTops, FileEvents
<1>3. QED
  BY <1>1, <1>2 DEF MacroTops

(* What is bound or plain in a file is seen by the displays that reach it:  *)
(* a capped file that is no origin of a view is mute in it.                *)
LEMMA OriginsAre ==
  ASSUME Sizes, Walk, NEW rel, NEW c, Reaches(Lifted, rel, c), c \notin Origins(rel)
  PROVE  Mute(rel, c)
<1>1. <<rel, c>> \in Pairs /\ contexts[<<rel, c>>] # {}
  BY SamePairs DEF Reaches
<1>2. ASSUME NEW ev \in EventsAt(contexts, <<rel, c>>), ev.resolved PROVE FALSE
  <2>1. ev \in Events(contexts) /\ ev.top = rel /\ ev.origin = c
    BY <1>1, <1>2, EventsAre, EventsFrom
  <2>2. QED
    BY <1>2, <2>1 DEF Origins, DisplayEvents
<1>3. c \notin plain
  <2>1. Plainly(<<rel, c>>).resolved
    BY DEF Plainly
  <2>2. QED
    BY <1>1, <1>2, <2>1, EventsFrom
<1>4. ASSUME c \in templated, NEW b \in contexts[<<rel, c>>], b # Unbound PROVE FALSE
  <2>1. Bound(<<rel, c>>, b).resolved
    BY <1>4 DEF Bound
  <2>2. QED
    BY <1>1, <1>2, <1>4, <2>1, EventsFrom
<1>5. QED
  BY <1>1, <1>3, <1>4 DEF Mute

LEMMA FileViewKnown ==
  ASSUME Sizes, Walk, NEW rel \in Files
  PROVE  /\ ~FileViewIsCapped(rel) =>
              Channels(FileEvents(contexts, rel)) = Channels(FileEvents(Lifted, rel))
         /\ FileViewIsCapped(rel) => rel \in templated /\ capped # {}
<1>1. <<rel, rel>> \in Pairs /\ Displays
  BY PairsAre DEF Walk, Walked
<1>2. Lifted[<<rel, rel>>] # {} /\ contexts[<<rel, rel>>] # {}
  BY <1>1, LiftedTyped, SamePairs
<1>3. ASSUME rel \in templated, ~FileViewIsCapped(rel)
      PROVE  \A p \in Pairs : p[2] = rel => contexts[p] = Lifted[p]
  <2>1. rel \in MacroTops(rel)
    BY <1>1, <1>2, <1>3, MacroTopsAre DEF Reaches
  <2>2. MacroTops(rel) \intersect capped = {}
    BY <1>3, <2>1 DEF FileViewIsCapped
  <2>3. ASSUME NEW p \in Pairs, p[2] = rel, contexts[p] # Lifted[p] PROVE FALSE
    <3>1. PICK c \in capped : Reaches(Lifted, c, rel)
      BY <2>3, SamePairs DEF Between
    <3>2. QED
      BY <1>3, <2>2, <3>1, MacroTopsAre
  <2>4. QED
    BY <2>3
<1>4. CASE rel \in templated
  BY <1>3, <1>4, ViewsDepend, MacroTopsAre DEF FileViewIsCapped
<1>5. CASE rel \notin templated
  BY <1>2, <1>5, PlainFile, MacroTopsAre DEF FileViewIsCapped
<1>6. QED
  BY <1>4, <1>5

(* A channel of a display view comes from one of the pairs of the display. *)
LEMMA ShownFrom ==
  ASSUME NEW of, NEW rel, NEW ch \in Channels(DisplayEvents(of, rel))
  PROVE  \E p \in Pairs :
           /\ p[1] = rel /\ p[2] = ch[1] /\ of[p] # {}
           /\ \E ev \in EventsAt(of, p) : ev.resolved /\ ev.channel = ch
<1>1. PICK ev \in DisplayEvents(of, rel) : ev.resolved /\ ev.channel = ch
  BY DEF Channels
<1>2. PICK p \in Pairs : of[p] # {} /\ ev \in EventsAt(of, p)
  BY EventsAre DEF DisplayEvents
<1>3. p[1] = rel
  BY <1>1, <1>2, EventsFrom DEF DisplayEvents
<1>4. ev.channel[1] = p[2]
  BY <1>2 DEF EventsAt, Plainly, Bound
<1>5. QED
  BY <1>1, <1>2, <1>3, <1>4

LEMMA ShownInto ==
  ASSUME NEW of, NEW p \in Pairs, of[p] # {}, NEW ev \in EventsAt(of, p), ev.resolved
  PROVE  ev.channel \in Channels(DisplayEvents(of, p[1]))
<1>1. ev \in Events(of) /\ ev.top = p[1]
  BY EventsAre, EventsFrom
<1>2. QED
  BY <1>1 DEF DisplayEvents, Channels

LEMMA DisplayViewKnown ==
  ASSUME Sizes, Walk, NEW rel \in Files
  PROVE  LET full == Channels(DisplayEvents(Lifted, rel))
             shown == Channels(DisplayEvents(contexts, rel))
         IN /\ shown \subseteq full
            /\ ~DisplayViewIsCapped(rel) =>
                 \A ch \in full \ shown :
                   \E x \in capped : Mute(rel, x) /\ Lifted[<<x, ch[1]>>] # {}
<1>1. ASSUME NEW ch \in Channels(DisplayEvents(contexts, rel))
      PROVE  ch \in Channels(DisplayEvents(Lifted, rel))
  <2>1. PICK p \in Pairs :
          /\ p[1] = rel /\ p[2] = ch[1] /\ contexts[p] # {}
          /\ \E ev \in EventsAt(contexts, p) : ev.resolved /\ ev.channel = ch
    BY ShownFrom
  <2>2. contexts[p] \subseteq Lifted[p] /\ Lifted[p] # {}
    BY <2>1 DEF Walk, Walked, Compared
  <2>3. EventsAt(contexts, p) \subseteq EventsAt(Lifted, p)
    BY <2>2 DEF EventsAt
  <2>4. QED
    BY <2>1, <2>2, <2>3, ShownInto
<1>2. ASSUME ~DisplayViewIsCapped(rel),
             NEW ch \in Channels(DisplayEvents(Lifted, rel)),
             ch \notin Channels(DisplayEvents(contexts, rel))
      PROVE  \E x \in capped : Mute(rel, x) /\ Lifted[<<x, ch[1]>>] # {}
  <2>1. PICK p \in Pairs :
          /\ p[1] = rel /\ p[2] = ch[1] /\ Lifted[p] # {}
          /\ \E ev \in EventsAt(Lifted, p) : ev.resolved /\ ev.channel = ch
    BY ShownFrom
  <2>2. contexts[p] # Lifted[p]
    <3>1. SUFFICES ASSUME contexts[p] = Lifted[p] PROVE FALSE
      OBVIOUS
    <3>2. EventsAt(contexts, p) = EventsAt(Lifted, p)
      BY <3>1 DEF EventsAt
    <3>3. QED
      BY <1>2, <2>1, <3>1, <3>2, ShownInto
  <2>3. PICK c \in capped : Reaches(Lifted, rel, c) /\ Reaches(Lifted, c, ch[1])
    BY <2>1, <2>2, SamePairs DEF Between
  <2>4. c \notin Origins(rel)
    BY <1>2, <2>3 DEF DisplayViewIsCapped
  <2>5. QED
    BY <2>3, <2>4, OriginsAre DEF Reaches
<1>3. QED
  BY <1>1, <1>2
-----------------------------------------------------------------------------
(* What was extracted is what the views are, and stays so.                 *)
Extraction ==
  found # <<>> =>
    /\ left = {}
    /\ FileViewComplete /\ FileViewNotSlandered /\ DisplayViewComplete

VInv == Walked /\ Extraction

LEMMA InitVInv ==
  ASSUME Sizes, Init
  PROVE  VInv
BY InitWalked DEF VInv, Extraction

LEMMA ViewsStay ==
  ASSUME UNCHANGED <<embeds, plain, templated, contexts, capped>>
  PROVE  /\ Lifted' = Lifted
         /\ \A rel : /\ FileEvents(Lifted, rel)' = FileEvents(Lifted, rel)
                     /\ DisplayEvents(Lifted, rel)' = DisplayEvents(Lifted, rel)
<1>1. Lifted' = Lifted
  BY LiftedStays
<1>2. Events(Lifted)' = Events(Lifted)
  BY <1>1 DEF Events
<1>3. QED
  BY <1>1, <1>2 DEF FileEvents, DisplayEvents

LEMMA ExtractKnows ==
  ASSUME Sizes, VInv, Extract
  PROVE  VInv'
<1>1. /\ Walk /\ UNCHANGED <<embeds, plain, templated, contexts, capped, left>>
      /\ \A rel \in Files :
           /\ found'[rel].file = Channels(FileEvents(contexts, rel))
           /\ found'[rel].fileCapped = FileViewIsCapped(rel)
           /\ found'[rel].shown = Channels(DisplayEvents(contexts, rel))
           /\ found'[rel].shownCapped = DisplayViewIsCapped(rel)
      /\ DOMAIN found' = Files
  BY DEF Extract, VInv, Walk
<1>2. /\ Lifted' = Lifted
      /\ \A rel : /\ FileEvents(Lifted, rel)' = FileEvents(Lifted, rel)
                  /\ DisplayEvents(Lifted, rel)' = DisplayEvents(Lifted, rel)
  BY <1>1, ViewsStay
<1>3. Walked'
  BY <1>1, <1>2 DEF Walk, Walked, Displays, Compared, Between, Reaches
<1>4. Extracted' = Files
  BY <1>1 DEF Extracted
<1>5. (\A rel \in Files :
        ~found'[rel].fileCapped => found'[rel].file = Channels(FileEvents(Lifted, rel)))
  BY <1>1, FileViewKnown
<1>6. (\A rel \in Files : found'[rel].fileCapped => rel \in templated /\ capped # {})
  BY <1>1, FileViewKnown
<1>7. (\A rel \in Files :
        LET full == Channels(DisplayEvents(Lifted, rel)) IN
          /\ found'[rel].shown \subseteq full
          /\ ~found'[rel].shownCapped =>
               \A ch \in full \ found'[rel].shown :
                 \E x \in capped : Mute(rel, x) /\ Lifted[<<x, ch[1]>>] # {})
  BY <1>1, DisplayViewKnown
<1>8. FileViewComplete'
  BY <1>2, <1>4, <1>5 DEF FileViewComplete, Channels
<1>9. FileViewNotSlandered'
  BY <1>1, <1>4, <1>6 DEF FileViewNotSlandered
<1>10. DisplayViewComplete'
  <2>1. \A rel \in Files :
          /\ Channels(DisplayEvents(Lifted, rel))' = Channels(DisplayEvents(Lifted, rel))
          /\ \A x : Mute(rel, x)' <=> Mute(rel, x)
    BY <1>1, <1>2 DEF Channels, Mute
  <2>2. QED
    BY <1>1, <1>2, <1>4, <1>7, <2>1 DEF DisplayViewComplete
<1>11. QED
  BY <1>1, <1>3, <1>8, <1>9, <1>10 DEF VInv, Extraction, Walk

LEMMA NextVInv ==
  ASSUME Sizes, VInv, [Next]_vars
  PROVE  VInv'
<1>1. ASSUME NEW p \in Pairs, Visit(p[1], p[2]) PROVE VInv'
  <2>1. left # {} /\ found' = found
    BY <1>1 DEF Visit
  <2>2. found' = <<>>
    BY <2>1 DEF VInv, Extraction
  <2>3. QED
    BY <1>1, <2>2, VisitWalks DEF VInv, Extraction
<1>2. CASE Extract
  BY <1>2, ExtractKnows
<1>3. CASE UNCHANGED vars
  <2>1. UNCHANGED <<embeds, plain, templated, contexts, capped, left, found>>
    BY <1>3 DEF vars
  <2>2. /\ Lifted' = Lifted
        /\ \A rel : /\ FileEvents(Lifted, rel)' = FileEvents(Lifted, rel)
                    /\ DisplayEvents(Lifted, rel)' = DisplayEvents(Lifted, rel)
    BY <2>1, ViewsStay
  <2>3. Walked'
    BY <2>1, <2>2 DEF VInv, Walked, Displays, Compared, Between, Reaches
  <2>4. Extraction'
    <3>1. /\ \A rel : /\ Channels(DisplayEvents(Lifted, rel))' = Channels(DisplayEvents(Lifted, rel))
                       /\ Channels(FileEvents(Lifted, rel))' = Channels(FileEvents(Lifted, rel))
                       /\ \A x : Mute(rel, x)' <=> Mute(rel, x)
          /\ Extracted' = Extracted
      BY <2>1, <2>2 DEF Channels, Mute, Extracted
    <3>2. /\ FileViewComplete' <=> FileViewComplete
          /\ FileViewNotSlandered' <=> FileViewNotSlandered
      BY <2>1, <3>1 DEF FileViewComplete, FileViewNotSlandered
    <3>3. ASSUME DisplayViewComplete PROVE DisplayViewComplete'
      <4> SUFFICES ASSUME NEW rel \in Extracted
          PROVE  LET full == Channels(DisplayEvents(Lifted, rel)) IN
                   /\ found[rel].shown \subseteq full
                   /\ ~found[rel].shownCapped =>
                        \A ch \in full \ found[rel].shown :
                          \E x \in capped : Mute(rel, x)' /\ Lifted[<<x, ch[1]>>] # {}
        BY <2>1, <2>2, <3>1 DEF DisplayViewComplete
      <4>1. QED
        BY <3>1, <3>3 DEF DisplayViewComplete
    <3>4. QED
      BY <2>1, <3>2, <3>3 DEF VInv, Extraction
  <2>5. QED
    BY <2>3, <2>4 DEF VInv
<1>4. QED
  BY <1>1, <1>2, <1>3 DEF Next

(* Whatever the embeddings, the channels and what a capped walk drops: a   *)
(* file view that is not called a lower bound has every channel of the     *)
(* file, and one that is called so could grow; a display view invents      *)
(* nothing, and one that is not called a lower bound lacks channels only   *)
(* behind a capped file that shows none of its own in it                   *)
(* (_file_view_is_capped, _display_view_is_capped).                        *)
THEOREM ViewsHonest ==
  ASSUME Sizes
  PROVE  Spec => [](FileViewComplete /\ FileViewNotSlandered /\ DisplayViewComplete)
<1>1. Init => VInv
  BY InitVInv
<1>2. VInv /\ [Next]_vars => VInv'
  BY NextVInv
<1>3. VInv => FileViewComplete /\ FileViewNotSlandered /\ DisplayViewComplete
  <2>1. ASSUME found = <<>> PROVE Extracted = {}
    BY <2>1 DEF Extracted
  <2>2. QED
    BY <2>1 DEF VInv, Extraction, FileViewComplete, FileViewNotSlandered, DisplayViewComplete
<1>4. QED
  BY <1>1, <1>2, <1>3, PTL DEF Spec
=============================================================================
