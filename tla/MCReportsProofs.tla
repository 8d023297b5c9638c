---------------------------- MODULE MCReportsProofs ----------------------------
(***************************************************************************)
(* TLAPS proofs about the composite tools (MCReports): what the diagnosis, *)
(* the coverage audit, the cross-plane check, the lookup of a device and   *)
(* the self-check say of a site that changes while they ask, and where the *)
(* writes of a server that started can go.  Each tool has an invariant of  *)
(* its own, which the steps of the others leave alone.                     *)
(***************************************************************************)
EXTENDS MCReports, FiniteSetTheorems, NaturalsInduction, WellFoundedInduction, TLAPS

(* Every step leaves all tools but one as they are.                        *)
LEMMA OneAtATime ==
  ASSUME [Next]_vars
  PROVE  /\ Diagnosis!Next \/ UNCHANGED diagnosisVars
         /\ Audit!Next \/ UNCHANGED auditVars
         /\ Provenance!Next \/ UNCHANGED crossplaneVars
         /\ Lookup!Next \/ UNCHANGED lookupVars
         /\ SelfCheck!Next \/ UNCHANGED doctorVars
         /\ Boot!Next \/ UNCHANGED bootVars
<1>1. ASSUME NEW p, Elsewhere(p)
      PROVE  /\ p = "diagnosis" \/ UNCHANGED diagnosisVars
             /\ p = "audit" \/ UNCHANGED auditVars
             /\ p = "crossplane" \/ UNCHANGED crossplaneVars
             /\ p = "lookup" \/ UNCHANGED lookupVars
             /\ p = "doctor" \/ UNCHANGED doctorVars
             /\ p = "boot" \/ UNCHANGED bootVars
  BY <1>1 DEF Elsewhere, Rest
<1>2. \/ Elsewhere("diagnosis") /\ Diagnosis!Next
      \/ Elsewhere("audit") /\ Audit!Next
      \/ Elsewhere("crossplane") /\ Provenance!Next
      \/ Elsewhere("lookup") /\ Lookup!Next
      \/ Elsewhere("doctor") /\ SelfCheck!Next
      \/ Elsewhere("boot") /\ Boot!Next
      \/ UNCHANGED vars
  BY DEF Next, Drift, Steps, Diagnosing, Auditing, Joining, LookingUp, Checking, Serving,
     Diagnosis!Next, Audit!Next, Provenance!Next, Lookup!Next, SelfCheck!Next
<1>3. CASE UNCHANGED vars
  BY <1>3 DEF vars
<1>4. QED
  BY <1>1, <1>2, <1>3
-----------------------------------------------------------------------------
(* What each look can show, and of which moment it is true.                *)
LiveSaid == {Diagnosis!Pending, Diagnosis!Yes, Diagnosis!Internal,
             Diagnosis!Failure("PV_TIMEOUT"), Diagnosis!Failure("PV_NOT_FOUND")}
FinderSaid == {Diagnosis!Pending, Diagnosis!Unasked, Diagnosis!Withheld, Diagnosis!Row("up"),
               Diagnosis!Row("down"), Diagnosis!Miss(TRUE), Diagnosis!Miss(FALSE)}
PlaneSaid == {Diagnosis!Pending, Diagnosis!Unasked, Diagnosis!Withheld, Diagnosis!Yes, Diagnosis!No}
AlarmSaid == {Diagnosis!Unasked, Diagnosis!Withheld, [kind |-> "unknown"]}

LooksTyped ==
  /\ DOMAIN evidence = Diagnosis!Looks
  /\ evidence = [l \in Diagnosis!Looks |-> evidence[l]]
  /\ evidence["live"] \in LiveSaid
  /\ evidence["channelfinder"] \in FinderSaid
  /\ evidence["naming"] \in PlaneSaid
  /\ evidence["archiver"] \in PlaneSaid
  /\ evidence["alarm"] \in AlarmSaid

LooksTrue ==
  /\ evidence["live"] = Diagnosis!Yes => \E w \in worlds : w.serves
  /\ evidence["channelfinder"] = Diagnosis!Row("up") => \E w \in worlds : w.registered = "up"
  /\ evidence["channelfinder"] = Diagnosis!Row("down") => \E w \in worlds : w.registered = "down"
  /\ evidence["channelfinder"] = Diagnosis!Miss(FALSE) => \E w \in worlds : w.registered = "none"
  /\ evidence["naming"] = Diagnosis!Yes => \E w \in worlds : w.device = "active"
  /\ evidence["naming"] = Diagnosis!No => \E w \in worlds : w.device # "active"
  /\ evidence["archiver"] = Diagnosis!Yes => \E w \in worlds : w.archived

(* A report is made of the looks as they stand, once all have shown.       *)
Concluded ==
  diagnosis # Diagnosis!NoReport =>
    /\ \A l \in Diagnosis!Looks : evidence[l] # Diagnosis!Pending
    /\ diagnosis.state = Diagnosis!State(evidence["live"])
    /\ diagnosis.cause = Diagnosis!Cause(evidence)
    /\ diagnosis.confidence = Diagnosis!Confidence(evidence)

DiagnosisInv ==
  /\ world \in Diagnosis!World /\ world \in worlds /\ pattern \in BOOLEAN
  /\ LooksTyped /\ LooksTrue /\ Concluded

LEMMA DiagnosisStarts == Diagnosis!Init => DiagnosisInv
<1>1. ASSUME Diagnosis!Init
      PROVE  DiagnosisInv
  <2>1. /\ world \in Diagnosis!World /\ world \in worlds /\ pattern \in BOOLEAN
        /\ diagnosis = Diagnosis!NoReport
    BY <1>1 DEF Diagnosis!Init
  <2>2. setup \in [Diagnosis!Planes -> {"on", "unasked", "unset"}]
    BY <1>1 DEF Diagnosis!Init, Diagnosis!Setups, Diagnosis!AllOn
  <2>3. evidence = [l \in Diagnosis!Looks |->
                      IF l = "live" THEN Diagnosis!Pending ELSE Diagnosis!AtStart(l, setup)]
    BY <1>1 DEF Diagnosis!Init
  <2>4. ASSUME NEW p \in Diagnosis!Planes
        PROVE  /\ p = "alarm" => Diagnosis!AtStart(p, setup) \in AlarmSaid
               /\ p # "alarm" => Diagnosis!AtStart(p, setup) \in
                    {Diagnosis!Pending, Diagnosis!Unasked, Diagnosis!Withheld}
    BY <2>2 DEF Diagnosis!AtStart, AlarmSaid
  <2>5. /\ evidence["live"] = Diagnosis!Pending
        /\ evidence["alarm"] \in AlarmSaid
        /\ evidence["channelfinder"] \in {Diagnosis!Pending, Diagnosis!Unasked, Diagnosis!Withheld}
        /\ evidence["naming"] \in {Diagnosis!Pending, Diagnosis!Unasked, Diagnosis!Withheld}
        /\ evidence["archiver"] \in {Diagnosis!Pending, Diagnosis!Unasked, Diagnosis!Withheld}
    BY <2>3, <2>4 DEF Diagnosis!Looks, Diagnosis!Planes
  <2>6. LooksTyped
    BY <2>3, <2>5 DEF LooksTyped, LiveSaid, FinderSaid, PlaneSaid
  <2>7. LooksTrue
    BY <2>5 DEF LooksTrue, Diagnosis!Pending, Diagnosis!Unasked, Diagnosis!Withheld,
       Diagnosis!Yes, Diagnosis!No, Diagnosis!Row, Diagnosis!Miss
  <2>8. QED
    BY <2>1, <2>6, <2>7 DEF DiagnosisInv, Concluded
<1>2. QED
  BY <1>1

(* A look that shows something is the only one to change.                  *)
LEMMA OneLookShows ==
  ASSUME DiagnosisInv, NEW l \in Diagnosis!Looks, NEW e, Diagnosis!Shows(l, e)
  PROVE  /\ DOMAIN evidence' = Diagnosis!Looks
         /\ evidence' = [k \in Diagnosis!Looks |-> evidence'[k]]
         /\ evidence'[l] = e
         /\ \A k \in Diagnosis!Looks \ {l} : evidence'[k] = evidence[k]
         /\ UNCHANGED <<setup, pattern, world, worlds, diagnosis>>
         /\ diagnosis = Diagnosis!NoReport
         /\ world' \in Diagnosis!World /\ world' \in worlds' /\ pattern' \in BOOLEAN
         /\ Concluded'
<1>1. /\ evidence' = [evidence EXCEPT ![l] = e] /\ evidence[l] = Diagnosis!Pending
      /\ UNCHANGED <<setup, pattern, world, worlds, diagnosis>>
  BY DEF Diagnosis!Shows
<1>2. diagnosis = Diagnosis!NoReport
  BY <1>1 DEF DiagnosisInv, Concluded
<1>3. QED
  BY <1>1, <1>2 DEF DiagnosisInv, LooksTyped, Concluded

LEMMA DiagnosisKept ==
  ASSUME DiagnosisInv, Diagnosis!Next
  PROVE  DiagnosisInv'
<1>0. /\ world \in Diagnosis!World /\ world \in worlds /\ pattern \in BOOLEAN
      /\ LooksTyped /\ LooksTrue /\ Concluded
  BY DEF DiagnosisInv
<1>1. CASE Diagnosis!Drift
  <2>1. /\ world' \in Diagnosis!World /\ worlds' = worlds \union {world'}
        /\ UNCHANGED <<pattern, evidence, diagnosis>>
    BY <1>0, <1>1 DEF Diagnosis!Drift, Diagnosis!World
  <2>2. LooksTyped' /\ Concluded'
    BY <1>0, <2>1 DEF LooksTyped, Concluded
  <2>3. LooksTrue'
    BY <1>0, <2>1 DEF LooksTrue
  <2>4. QED
    BY <1>0, <2>1, <2>2, <2>3 DEF DiagnosisInv
<1>2. CASE Diagnosis!ProbeLive
  <2>1. PICK e \in LiveSaid : Diagnosis!Shows("live", e) /\ (e = Diagnosis!Yes => world.serves)
    BY <1>2 DEF Diagnosis!ProbeLive, LiveSaid, Diagnosis!Codes, Diagnosis!Yes, Diagnosis!Failure,
       Diagnosis!Internal
  <2>2. "live" \in Diagnosis!Looks
    BY DEF Diagnosis!Looks
  <2>3. LooksTyped'
    BY <1>0, <2>1, <2>2, OneLookShows DEF LooksTyped, Diagnosis!Looks, Diagnosis!Planes
  <2>4. LooksTrue'
    BY <1>0, <2>1, <2>2, OneLookShows DEF LooksTrue, Diagnosis!Looks, Diagnosis!Planes
  <2>5. QED
    BY <2>1, <2>2, <2>3, <2>4, OneLookShows DEF DiagnosisInv
<1>3. CASE Diagnosis!GatherChannelFinder
  <2>1. PICK e \in FinderSaid :
          /\ Diagnosis!Shows("channelfinder", e)
          /\ e = Diagnosis!Row("up") => world.registered = "up"
          /\ e = Diagnosis!Row("down") => world.registered = "down"
          /\ e = Diagnosis!Miss(FALSE) => world.registered = "none"
    <3>1. CASE world.registered # "none" /\ Diagnosis!Shows("channelfinder", Diagnosis!Row(world.registered))
      <4>1. world.registered \in {"up", "down"}
        BY <1>0, <3>1 DEF Diagnosis!World
      <4>2. QED
        BY <3>1, <4>1 DEF FinderSaid, Diagnosis!Row, Diagnosis!Miss
    <3>2. CASE Diagnosis!Shows("channelfinder", Diagnosis!Miss(TRUE))
      BY <3>2 DEF FinderSaid, Diagnosis!Row, Diagnosis!Miss
    <3>3. CASE world.registered = "none" /\ Diagnosis!Shows("channelfinder", Diagnosis!Miss(FALSE))
      BY <3>3 DEF FinderSaid, Diagnosis!Row, Diagnosis!Miss
    <3>4. CASE Diagnosis!Shows("channelfinder", Diagnosis!Withheld)
      BY <3>4 DEF FinderSaid, Diagnosis!Row, Diagnosis!Miss, Diagnosis!Withheld
    <3>5. QED
      BY <1>0, <1>3, <3>1, <3>2, <3>3, <3>4 DEF Diagnosis!GatherChannelFinder
  <2>2. "channelfinder" \in Diagnosis!Looks
    BY DEF Diagnosis!Looks, Diagnosis!Planes
  <2>3. LooksTyped'
    BY <1>0, <2>1, <2>2, OneLookShows DEF LooksTyped, Diagnosis!Looks, Diagnosis!Planes
  <2>4. LooksTrue'
    <3>1. /\ worlds' = worlds /\ world \in worlds /\ evidence'["channelfinder"] = e
          /\ \A k \in Diagnosis!Looks \ {"channelfinder"} : evidence'[k] = evidence[k]
      BY <1>0, <2>1, <2>2, OneLookShows
    <3>2. /\ e = Diagnosis!Row("up") => \E w \in worlds : w.registered = "up"
          /\ e = Diagnosis!Row("down") => \E w \in worlds : w.registered = "down"
          /\ e = Diagnosis!Miss(FALSE) => \E w \in worlds : w.registered = "none"
      BY <2>1, <3>1
    <3>3. QED
      BY <1>0, <3>1, <3>2 DEF LooksTrue, Diagnosis!Looks, Diagnosis!Planes
  <2>5. QED
    BY <2>1, <2>2, <2>3, <2>4, OneLookShows DEF DiagnosisInv
<1>4. CASE Diagnosis!GatherNaming
  <2>1. PICK e \in PlaneSaid :
          /\ Diagnosis!Shows("naming", e)
          /\ e = Diagnosis!Yes => world.device = "active"
          /\ e = Diagnosis!No => world.device # "active"
    BY <1>4 DEF Diagnosis!GatherNaming, PlaneSaid, Diagnosis!Yes, Diagnosis!No, Diagnosis!Withheld
  <2>2. "naming" \in Diagnosis!Looks
    BY DEF Diagnosis!Looks, Diagnosis!Planes
  <2>3. LooksTyped'
    BY <1>0, <2>1, <2>2, OneLookShows DEF LooksTyped, Diagnosis!Looks, Diagnosis!Planes
  <2>4. LooksTrue'
    <3>1. /\ worlds' = worlds /\ world \in worlds /\ evidence'["naming"] = e
          /\ \A k \in Diagnosis!Looks \ {"naming"} : evidence'[k] = evidence[k]
      BY <1>0, <2>1, <2>2, OneLookShows
    <3>2. /\ evidence'["naming"] = Diagnosis!Yes => \E w \in worlds' : w.device = "active"
          /\ evidence'["naming"] = Diagnosis!No => \E w \in worlds' : w.device # "active"
      BY <2>1, <3>1
    <3>3. QED
      BY <1>0, <3>1, <3>2 DEF LooksTrue, Diagnosis!Looks, Diagnosis!Planes
  <2>5. QED
    BY <2>1, <2>2, <2>3, <2>4, OneLookShows DEF DiagnosisInv
<1>5. CASE Diagnosis!GatherArchiver
  <2>1. PICK e \in PlaneSaid :
          Diagnosis!Shows("archiver", e) /\ (e = Diagnosis!Yes => world.archived)
    BY <1>5 DEF Diagnosis!GatherArchiver, PlaneSaid, Diagnosis!Yes, Diagnosis!No, Diagnosis!Withheld
  <2>2. "archiver" \in Diagnosis!Looks
    BY DEF Diagnosis!Looks, Diagnosis!Planes
  <2>3. LooksTyped'
    BY <1>0, <2>1, <2>2, OneLookShows DEF LooksTyped, Diagnosis!Looks, Diagnosis!Planes
  <2>4. LooksTrue'
    <3>1. /\ worlds' = worlds /\ world \in worlds /\ evidence'["archiver"] = e
          /\ \A k \in Diagnosis!Looks \ {"archiver"} : evidence'[k] = evidence[k]
      BY <1>0, <2>1, <2>2, OneLookShows
    <3>2. /\ evidence'["archiver"] = Diagnosis!Yes => \E w \in worlds' : w.archived
      BY <2>1, <3>1
    <3>3. QED
      BY <1>0, <3>1, <3>2 DEF LooksTrue, Diagnosis!Looks, Diagnosis!Planes
  <2>5. QED
    BY <2>1, <2>2, <2>3, <2>4, OneLookShows DEF DiagnosisInv
<1>6. CASE Diagnosis!Report
  <2>1. /\ UNCHANGED <<pattern, world, worlds, evidence>>
        /\ \A l \in Diagnosis!Looks : evidence[l] # Diagnosis!Pending
        /\ diagnosis'.state = Diagnosis!State(evidence["live"])
        /\ diagnosis'.cause = Diagnosis!Cause(evidence)
        /\ diagnosis'.confidence = Diagnosis!Confidence(evidence)
    BY <1>6 DEF Diagnosis!Report
  <2>2. LooksTyped' /\ LooksTrue'
    BY <1>0, <2>1 DEF LooksTyped, LooksTrue
  <2>3. Concluded'
    BY <2>1 DEF Concluded
  <2>4. QED
    BY <1>0, <2>1, <2>2, <2>3 DEF DiagnosisInv
<1>7. QED
  BY <1>1, <1>2, <1>3, <1>4, <1>5, <1>6 DEF Diagnosis!Next, Diagnosis!Steps

LEMMA DiagnosisInvariant == FairSpec => []DiagnosisInv
<1>1. Init => DiagnosisInv
  BY DiagnosisStarts DEF Init
<1>2. DiagnosisInv /\ [Next]_vars => DiagnosisInv'
  <2>1. ASSUME DiagnosisInv, UNCHANGED diagnosisVars
        PROVE  DiagnosisInv'
    <3>1. UNCHANGED <<setup, pattern, world, worlds, evidence, diagnosis>>
      BY <2>1 DEF diagnosisVars
    <3>2. LooksTyped' /\ LooksTrue' /\ Concluded'
      BY <2>1, <3>1 DEF DiagnosisInv, LooksTyped, LooksTrue, Concluded
    <3>3. QED
      BY <2>1, <3>1, <3>2 DEF DiagnosisInv
  <2>2. QED
    BY <2>1, DiagnosisKept, OneAtATime
<1>3. QED
  BY <1>1, <1>2, PTL DEF FairSpec

(* A verdict on a connection: only a value of the PV makes it connected,   *)
(* each thing a cause says was true at a moment of the call, and a plane   *)
(* that did not answer counts for nothing (derive_cause).                  *)
THEOREM DiagnosisIsEarned == FairSpec => []DiagnosisEarned
<1> DEFINE value == evidence["live"]
           cf == evidence["channelfinder"]
           cause == Diagnosis!Cause(evidence)
<1>1. ASSUME DiagnosisInv, diagnosis # Diagnosis!NoReport
      PROVE  Diagnosis!StateEarned /\ Diagnosis!CauseEarned /\ Diagnosis!SilenceIsNoAnswer
  <2>0. /\ LooksTyped /\ LooksTrue
        /\ diagnosis.state = Diagnosis!State(value) /\ diagnosis.cause = cause
        /\ diagnosis.confidence = Diagnosis!Confidence(evidence)
        /\ \A l \in Diagnosis!Looks : evidence[l] # Diagnosis!Pending
    BY <1>1 DEF DiagnosisInv, Concluded
  <2>1. /\ cause = "healthy" <=> Diagnosis!State(value) = "connected"
        /\ Diagnosis!State(value) = "connected" <=> value = Diagnosis!Yes
    <3>1. Diagnosis!State(value) \in {"connected", "unknown", "disconnected"}
      BY DEF Diagnosis!State
    <3>2. Diagnosis!DeriveDisconnected(evidence) # "healthy"
      BY DEF Diagnosis!DeriveDisconnected
    <3>3. Diagnosis!State(value) = "connected" <=> value = Diagnosis!Yes
      BY DEF Diagnosis!State, Diagnosis!Yes, Diagnosis!Internal
    <3>4. QED
      BY <3>1, <3>2, <3>3 DEF Diagnosis!Cause
  <2>2. cause \in {"name_typo", "unregistered", "ioc_down"} =>
          cause = Diagnosis!DeriveDisconnected(evidence)
    BY DEF Diagnosis!Cause
  <2>3. /\ cf.kind = "yes" <=> cf \in {Diagnosis!Row("up"), Diagnosis!Row("down")}
        /\ cf = Diagnosis!Row("up") => cf.status = "up"
        /\ cf = Diagnosis!Row("down") => cf.status = "down"
        /\ (cf.kind = "no" /\ ~cf.capped) <=> cf = Diagnosis!Miss(FALSE)
        /\ cf.kind \in Diagnosis!SilencePlays <=> cf = Diagnosis!Withheld
    <3> USE DEF Diagnosis!Row, Diagnosis!Miss, Diagnosis!Withheld, Diagnosis!Unasked,
                Diagnosis!Pending, Diagnosis!SilencePlays
    <3>1. cf \in FinderSaid
      BY <2>0 DEF LooksTyped
    <3>2. CASE cf \in {Diagnosis!Row("up"), Diagnosis!Row("down")}
      BY <3>2
    <3>3. CASE cf = Diagnosis!Miss(TRUE)
      BY <3>3
    <3>4. CASE cf = Diagnosis!Miss(FALSE)
      BY <3>4
    <3>5. CASE cf \in {Diagnosis!Pending, Diagnosis!Unasked, Diagnosis!Withheld}
      BY <3>5
    <3>6. QED
      BY <3>1, <3>2, <3>3, <3>4, <3>5 DEF FinderSaid
  <2>4. /\ cause \in {"name_typo", "unregistered"} => cf = Diagnosis!Miss(FALSE)
        /\ cause = "name_typo" => evidence["naming"] = Diagnosis!No
        /\ cause = "unregistered" => evidence["naming"] = Diagnosis!Yes
        /\ cause = "ioc_down" => cf \in {Diagnosis!Row("up"), Diagnosis!Row("down")}
    <3>1. CASE cf.kind = "yes"
      BY <2>2, <2>3, <3>1 DEF Diagnosis!DeriveDisconnected
    <3>2. CASE cf.kind = "no" /\ ~cf.capped
      BY <2>2, <2>3, <3>2 DEF Diagnosis!DeriveDisconnected, Diagnosis!Yes, Diagnosis!No
    <3>3. CASE cf.kind # "yes" /\ ~(cf.kind = "no" /\ ~cf.capped)
      BY <2>2, <2>3, <3>3 DEF Diagnosis!DeriveDisconnected
    <3>4. QED
      BY <3>1, <3>2, <3>3
  <2>5. cause = "ioc_down" /\ diagnosis.confidence = "confirmed" =>
          cf = Diagnosis!Row("down") /\ evidence["archiver"] = Diagnosis!Yes
    BY <2>0, <2>3, <2>4 DEF Diagnosis!Confidence
  <2>6. Diagnosis!StateEarned /\ Diagnosis!CauseEarned
    BY <2>0, <2>1, <2>4, <2>5 DEF LooksTrue, Diagnosis!StateEarned, Diagnosis!CauseEarned
  <2> DEFINE told == [l \in Diagnosis!Looks |->
                         IF evidence[l].kind \in Diagnosis!SilencePlays THEN Diagnosis!Unasked
                         ELSE evidence[l]]
  <2>7. /\ told["live"] = value
        /\ cf # Diagnosis!Withheld => told["channelfinder"] = cf
        /\ cf = Diagnosis!Withheld => told["channelfinder"] = Diagnosis!Unasked
    BY <2>0, <2>3 DEF LooksTyped, LiveSaid, Diagnosis!Pending, Diagnosis!Yes, Diagnosis!Internal,
       Diagnosis!Failure, Diagnosis!SilencePlays, Diagnosis!Looks, Diagnosis!Planes
  <2>8. /\ told["naming"] = Diagnosis!Yes <=> evidence["naming"] = Diagnosis!Yes
        /\ told["naming"] = Diagnosis!No <=> evidence["naming"] = Diagnosis!No
        /\ told["archiver"] = Diagnosis!Yes <=> evidence["archiver"] = Diagnosis!Yes
    BY <2>0 DEF LooksTyped, PlaneSaid, Diagnosis!Pending, Diagnosis!Yes, Diagnosis!No,
       Diagnosis!Withheld, Diagnosis!Unasked, Diagnosis!SilencePlays, Diagnosis!Looks,
       Diagnosis!Planes
  <2> HIDE DEF told
  <2>9. Diagnosis!DeriveDisconnected(told) = Diagnosis!DeriveDisconnected(evidence)
    <3>1. CASE cf = Diagnosis!Withheld
      <4>1. /\ told["channelfinder"].kind \notin {"yes", "no"}
            /\ cf.kind \notin {"yes", "no"}
        BY <2>7, <3>1 DEF Diagnosis!Unasked, Diagnosis!Withheld
      <4>2. QED
        BY <4>1 DEF Diagnosis!DeriveDisconnected
    <3>2. CASE cf # Diagnosis!Withheld
      BY <2>7, <2>8, <3>2 DEF Diagnosis!DeriveDisconnected
    <3>3. QED
      BY <3>1, <3>2
  <2>10. Diagnosis!Cause(told) = cause
    BY <2>7, <2>9 DEF Diagnosis!Cause
  <2>11. Diagnosis!Confidence(told) = Diagnosis!Confidence(evidence)
    <3>1. CASE cause = "ioc_down"
      <4>1. told["channelfinder"] = cf
        BY <2>4, <2>7, <3>1 DEF Diagnosis!Row, Diagnosis!Withheld
      <4>2. QED
        BY <2>8, <2>10, <4>1 DEF Diagnosis!Confidence
    <3>2. CASE cause # "ioc_down"
      BY <2>10, <3>2 DEF Diagnosis!Confidence
    <3>3. QED
      BY <3>1, <3>2
  <2>12. Diagnosis!SilenceIsNoAnswer
    BY <2>0, <2>10, <2>11 DEF Diagnosis!SilenceIsNoAnswer, told
  <2>13. QED
    BY <2>6, <2>12
<1>2. DiagnosisInv => DiagnosisEarned
  BY <1>1 DEF DiagnosisEarned, Diagnosis!Reported, Diagnosis!StateEarned, Diagnosis!CauseEarned,
     Diagnosis!SilenceIsNoAnswer
<1>3. QED
  BY <1>2, DiagnosisInvariant, PTL
-----------------------------------------------------------------------------
(* What the audit has found so far: of the displays, of the registry at    *)
(* the moment of its answer, and of each cell at the moment it was asked.  *)
AuditTyped ==
  /\ scope \subseteq Records /\ auditShown \in [Records -> Audit!Shows]
  /\ auditSite \in auditMoments /\ IsFiniteSet(auditMoments)
  /\ DOMAIN cells = Audit!Planes
  /\ \A p \in Audit!Planes : cells[p] = [r \in Records |-> cells[p][r]]
  /\ audit.kind = "report" => auditAt = "done"

RegistryTrue ==
  auditRegistry.kind = "live" =>
    \E w \in auditMoments :
      /\ auditRegistry.set = w.registered \intersect scope
      /\ ~(Audit!Cardinality(w.registered \intersect scope) >= CfMax)

DisplayKnown ==
  auditAt \in {"registry", "records"} => display = {r \in scope : auditShown[r] = "expanded"}

CellsKnown ==
  \A p \in Audit!Planes, r \in Records :
    /\ cells[p][r] = "yes" => \E w \in auditMoments : r \in w[p]
    /\ cells[p][r] = "no" => Audit!On(p) /\ \E w \in auditMoments : r \notin w[p]

AuditInv ==
  /\ AuditTyped /\ RegistryTrue /\ DisplayKnown /\ CellsKnown
  /\ Audit!CellsTrue /\ Audit!CriticalProven /\ Audit!NothingLeftOut

LEMMA AuditStarts == Audit!Init => AuditInv
<1>1. ASSUME Audit!Init
      PROVE  AuditInv
  <2>1. IsFiniteSet(auditMoments)
    BY <1>1, FS_Singleton DEF Audit!Init
  <2>2. \A p \in Audit!Planes, r \in Records : cells[p][r] = "not asked"
    BY <1>1 DEF Audit!Init, Audit!NotAsked
  <2>3. AuditTyped
    BY <1>1, <2>1 DEF Audit!Init, Audit!NotAsked, Audit!NoReport, AuditTyped
  <2>4. RegistryTrue /\ DisplayKnown /\ CellsKnown
    BY <1>1, <2>2 DEF Audit!Init, RegistryTrue, DisplayKnown, CellsKnown
  <2>5. ~Audit!Reported
    BY <1>1 DEF Audit!Init, Audit!Reported, Audit!NoReport
  <2>6. QED
    BY <2>3, <2>4, <2>5 DEF AuditInv, Audit!CellsTrue, Audit!CriticalProven, Audit!NothingLeftOut
<1>2. QED
  BY <1>1

(* The universe of an audit is what is in scope.                           *)
LEMMA UniverseScoped ==
  ASSUME AuditTyped, RegistryTrue, DisplayKnown, auditAt = "records"
  PROVE  /\ Audit!Universe \subseteq scope
         /\ display = {r \in scope : auditShown[r] = "expanded"}
BY DEF AuditTyped, RegistryTrue, DisplayKnown, Audit!Universe, Audit!Live

LEMMA AuditReports ==
  ASSUME AuditInv, Audit!Finish
  PROVE  (Audit!CellsTrue /\ Audit!CriticalProven /\ Audit!NothingLeftOut)'
<1>0. /\ AuditTyped /\ RegistryTrue /\ DisplayKnown /\ CellsKnown /\ auditAt = "records"
      /\ UNCHANGED <<auditArguments, scope, auditShown, auditSite, auditMoments, display,
                     auditRegistry, cells>>
  BY DEF AuditInv, Audit!Finish, Audit!fixed
<1>1. /\ Audit!Universe \subseteq scope
      /\ display = {r \in scope : auditShown[r] = "expanded"}
  BY <1>0, UniverseScoped
<1>2. /\ audit'.rows = [r \in Audit!Universe |-> Audit!Row(r)]
      /\ audit'.both = IF Audit!Live THEN auditRegistry.set \intersect display ELSE {}
      /\ audit'.cfOnly = IF Audit!Live THEN auditRegistry.set \ display ELSE {}
      /\ audit'.displayOnly = IF Audit!Live THEN display \ auditRegistry.set ELSE {}
      /\ audit'.critical = {r \in Audit!Delivered : Audit!Gaps(r) # {}}
      /\ \A r \in audit'.excluded : Audit!Gaps(r) = {}
  BY DEF Audit!Finish, Audit!AuditCoverage
<1>3. ASSUME NEW r \in Audit!Universe
      PROVE  /\ r \in Records /\ r \in scope
             /\ Audit!Row(r).display = "yes" => auditShown[r] = "expanded"
             /\ Audit!Row(r).display = "no" => auditShown[r] \in {"not", "glob"}
             /\ Audit!Row(r).registered = "yes" <=> Audit!Live /\ r \in auditRegistry.set
             /\ Audit!Row(r).registered = "no" => Audit!Live /\ r \notin auditRegistry.set
             /\ \A p \in Audit!Planes : Audit!Row(r)[p] = cells[p][r]
  <2>1. r \in Records /\ r \in scope
    BY <1>0, <1>1 DEF AuditTyped
  <2>2. auditShown[r] \in Audit!Shows
    BY <1>0, <2>1 DEF AuditTyped
  <2>3. /\ Audit!HasDisplay(r) = "yes" => auditShown[r] = "expanded"
        /\ Audit!HasDisplay(r) = "no" => auditShown[r] \in {"not", "glob"}
    BY <1>1, <2>1, <2>2 DEF Audit!HasDisplay, Audit!ContextCapped, Audit!Shows
  <2>4. /\ Audit!RegisteredCf(r) = "yes" <=> Audit!Live /\ r \in auditRegistry.set
        /\ Audit!RegisteredCf(r) = "no" => Audit!Live /\ r \notin auditRegistry.set
    BY DEF Audit!RegisteredCf
  <2>5. QED
    BY <2>1, <2>3, <2>4 DEF Audit!Row, Audit!Planes
<1>4. Audit!Live => auditRegistry.kind = "live"
  BY DEF Audit!Live
<1>5. Audit!CellsTrue'
  <2>1. ASSUME NEW r \in Audit!Universe
        PROVE  /\ audit'.rows[r].display = "yes" => auditShown[r] = "expanded"
               /\ audit'.rows[r].display = "no" => auditShown[r] \in {"not", "glob"}
               /\ audit'.rows[r].registered = "yes" => \E w \in auditMoments : r \in w.registered
               /\ audit'.rows[r].registered = "no" => \E w \in auditMoments : r \notin w.registered
               /\ \A p \in Audit!Planes :
                    /\ audit'.rows[r][p] = "yes" => \E w \in auditMoments : r \in w[p]
                    /\ audit'.rows[r][p] = "no" => \E w \in auditMoments : r \notin w[p]
    <3>1. audit'.rows[r] = Audit!Row(r)
      BY <1>2
    <3>2. /\ audit'.rows[r].registered = "yes" => \E w \in auditMoments : r \in w.registered
          /\ audit'.rows[r].registered = "no" => \E w \in auditMoments : r \notin w.registered
      <4>1. CASE Audit!Live
        <5>1. PICK w \in auditMoments : auditRegistry.set = w.registered \intersect scope
          BY <1>0, <1>4, <4>1 DEF RegistryTrue
        <5>2. QED
          BY <1>3, <3>1, <5>1
      <4>2. CASE ~Audit!Live
        BY <1>3, <3>1, <4>2
      <4>3. QED
        BY <4>1, <4>2
    <3>3. ASSUME NEW p \in Audit!Planes
          PROVE  /\ audit'.rows[r][p] = "yes" => \E w \in auditMoments : r \in w[p]
                 /\ audit'.rows[r][p] = "no" => \E w \in auditMoments : r \notin w[p]
      BY <1>0, <1>3, <3>1 DEF CellsKnown
    <3>4. QED
      BY <1>3, <3>1, <3>2, <3>3
  <2>2. DOMAIN audit'.rows = Audit!Universe
    BY <1>2
  <2>3. QED
    BY <1>0, <2>1, <2>2 DEF Audit!CellsTrue
<1>6. Audit!CriticalProven'
  <2>1. ASSUME NEW r \in audit'.critical
        PROVE  /\ \E w \in auditMoments : r \in w.registered
               /\ \/ auditShown[r] \in {"not", "glob"}
                  \/ \E p \in Audit!Planes, w \in auditMoments : Audit!On(p) /\ r \notin w[p]
    <3>1. /\ r \in Audit!Universe /\ Audit!RegisteredCf(r) = "yes" /\ Audit!Gaps(r) # {}
      BY <1>2 DEF Audit!Delivered
    <3>2. PICK p \in {"display", "archiver", "alarm"} : Audit!Row(r)[p] = "no"
      BY <3>1 DEF Audit!Gaps
    <3>3. Audit!Row(r).registered = "yes"
      BY <3>1 DEF Audit!Row
    <3>4. QED
      <4>1. \E w \in auditMoments : r \in w.registered
        <5>1. Audit!Live /\ r \in auditRegistry.set
          BY <1>3, <3>1, <3>3
        <5>2. PICK w \in auditMoments : auditRegistry.set = w.registered \intersect scope
          BY <1>0, <1>4, <5>1 DEF RegistryTrue
        <5>3. QED
          BY <5>1, <5>2
      <4>2. CASE p = "display"
        <5>1. auditShown[r] \in {"not", "glob"}
          BY <1>3, <3>1, <3>2, <4>2
        <5>2. QED
          BY <4>1, <5>1
      <4>3. CASE p \in Audit!Planes
        <5>1. r \in Records /\ cells[p][r] = "no"
          BY <1>3, <3>1, <3>2, <4>3
        <5>2. Audit!On(p) /\ \E w \in auditMoments : r \notin w[p]
          BY <1>0, <4>3, <5>1 DEF CellsKnown
        <5>3. QED
          BY <4>1, <4>3, <5>2
      <4>4. QED
        BY <4>2, <4>3 DEF Audit!Planes
  <2>2. ASSUME \A w \in auditMoments :
                 Audit!Cardinality(w.registered \intersect scope) >= CfMax
        PROVE  audit'.critical \union audit'.cfOnly \union audit'.displayOnly
                 \union audit'.both = {}
    <3>1. ~Audit!Live
      BY <1>0, <1>4, <2>2 DEF RegistryTrue
    <3>2. audit'.critical = {}
      BY <1>2, <1>3, <3>1 DEF Audit!Delivered, Audit!RegisteredCf
    <3>3. QED
      BY <1>2, <3>1, <3>2
  <2>3. \A r \in audit'.excluded : r \notin audit'.critical
    BY <1>2
  <2>4. QED
    BY <1>0, <2>1, <2>2, <2>3 DEF Audit!CriticalProven, Audit!On, Audit!Cardinality
<1>7. Audit!NothingLeftOut'
  <2>1. ASSUME Audit!Live, Audit!Cardinality(auditMoments) = 1
        PROVE  /\ audit'.both \union audit'.cfOnly = auditSite.registered \intersect scope
               /\ audit'.displayOnly =
                    {r \in scope : auditShown[r] = "expanded"} \ auditSite.registered
               /\ DOMAIN audit'.rows \subseteq scope
    <3>1. Cardinality(auditMoments) = 1
      BY <2>1 DEF Audit!Cardinality, Cardinality
    <3>2. PICK w : auditMoments = {w}
      BY <1>0, <3>1, FS_Singleton DEF AuditTyped
    <3>3. auditRegistry.set = auditSite.registered \intersect scope
      BY <1>0, <1>4, <2>1, <3>2 DEF RegistryTrue, AuditTyped
    <3>4. QED
      BY <1>1, <1>2, <2>1, <3>3
  <2>2. QED
    BY <1>0, <2>1 DEF Audit!NothingLeftOut, Audit!Live, Audit!Cardinality
<1>8. QED
  BY <1>5, <1>6, <1>7

LEMMA AuditKept ==
  ASSUME AuditInv, Audit!Next
  PROVE  AuditInv'
<1>0. /\ AuditTyped /\ RegistryTrue /\ DisplayKnown /\ CellsKnown
      /\ Audit!Reported => auditAt = "done"
  BY DEF AuditInv, AuditTyped, Audit!Reported
<1>1. ASSUME ~Audit!Reported'
      PROVE  (Audit!CellsTrue /\ Audit!CriticalProven /\ Audit!NothingLeftOut)'
  BY <1>1 DEF Audit!CellsTrue, Audit!CriticalProven, Audit!NothingLeftOut
<1>2. ASSUME NEW code, Audit!Fail(code)
      PROVE  AuditInv'
  <2>1. /\ UNCHANGED <<auditArguments, scope, auditShown, auditSite, auditMoments, display,
                       auditRegistry, cells>>
        /\ auditAt' = "done" /\ audit'.kind = "error"
    BY <1>2 DEF Audit!Fail, Audit!fixed
  <2>2. AuditTyped' /\ RegistryTrue' /\ DisplayKnown' /\ CellsKnown'
    BY <1>0, <2>1 DEF AuditTyped, RegistryTrue, DisplayKnown, CellsKnown, Audit!On
  <2>3. QED
    BY <1>1, <2>1, <2>2 DEF AuditInv, Audit!Reported
<1>3. CASE Audit!Drift
  <2>1. /\ UNCHANGED <<auditArguments, scope, auditShown, auditAt, display, auditRegistry,
                       cells, audit>>
        /\ auditAt # "done" /\ auditMoments' = auditMoments \union {auditSite'}
    BY <1>3 DEF Audit!Drift, Audit!fixed
  <2>2. AuditTyped'
    BY <1>0, <2>1, FS_AddElement DEF AuditTyped
  <2>3. RegistryTrue' /\ DisplayKnown' /\ CellsKnown'
    BY <1>0, <2>1 DEF RegistryTrue, DisplayKnown, CellsKnown, Audit!On, Audit!Cardinality
  <2>4. QED
    BY <1>0, <1>1, <2>1, <2>2, <2>3 DEF AuditInv, Audit!Reported
<1>4. CASE Audit!Start
  <2>1. CASE Audit!Fail("INVALID_INPUT")
    BY <1>2, <2>1
  <2>2. CASE ~Audit!Fail("INVALID_INPUT")
    <3>1. /\ UNCHANGED <<auditArguments, scope, auditShown, auditSite, auditMoments, display,
                         auditRegistry, cells, audit>>
          /\ auditAt = "start" /\ auditAt' = "walk"
      BY <1>4, <2>2 DEF Audit!Start, Audit!fixed
    <3>2. AuditTyped' /\ RegistryTrue' /\ DisplayKnown' /\ CellsKnown'
      BY <1>0, <3>1 DEF AuditTyped, RegistryTrue, DisplayKnown, CellsKnown, Audit!On,
         Audit!Reported
    <3>3. QED
      BY <1>0, <1>1, <3>1, <3>2 DEF AuditInv, Audit!Reported
  <2>3. QED
    BY <2>1, <2>2
<1>5. CASE Audit!Walk
  <2>1. /\ UNCHANGED <<auditArguments, scope, auditShown, auditSite, auditMoments,
                       auditRegistry, cells, audit>>
        /\ auditAt = "walk" /\ auditAt' = "registry"
        /\ display' = {r \in scope : auditShown[r] = "expanded"}
    BY <1>5 DEF Audit!Walk, Audit!fixed
  <2>2. AuditTyped' /\ RegistryTrue' /\ DisplayKnown' /\ CellsKnown'
    BY <1>0, <2>1 DEF AuditTyped, RegistryTrue, DisplayKnown, CellsKnown, Audit!On,
       Audit!Reported
  <2>3. QED
    BY <1>0, <1>1, <2>1, <2>2 DEF AuditInv, Audit!Reported
<1>6. CASE Audit!AskRegistry
  <2>1. CASE Audit!Fail("READ_RATE_LIMIT_EXCEEDED")
    BY <1>2, <2>1
  <2>2. CASE ~Audit!Fail("READ_RATE_LIMIT_EXCEEDED")
    <3>1. /\ UNCHANGED <<auditArguments, scope, auditShown, auditSite, auditMoments, display,
                         cells, audit>>
          /\ auditAt = "registry" /\ auditAt' = "records"
          /\ auditRegistry' \in {Audit!Answered, [kind |-> "withheld"]}
      BY <1>6, <2>2 DEF Audit!AskRegistry, Audit!fixed
    <3>2. RegistryTrue'
      <4>1. CASE Audit!Cardinality(auditSite.registered \intersect scope) >= CfMax
        BY <3>1, <4>1 DEF Audit!Answered, RegistryTrue
      <4>2. CASE ~(Audit!Cardinality(auditSite.registered \intersect scope) >= CfMax)
        <5>1. Audit!Answered = [kind |-> "live", set |-> auditSite.registered \intersect scope]
          BY <4>2 DEF Audit!Answered
        <5>2. auditRegistry'.kind = "live" =>
                auditRegistry'.set = auditSite.registered \intersect scope
          BY <3>1, <5>1
        <5>3. QED
          BY <1>0, <3>1, <4>2, <5>2 DEF RegistryTrue, AuditTyped, Audit!Cardinality
      <4>3. QED
        BY <4>1, <4>2
    <3>3. AuditTyped' /\ DisplayKnown' /\ CellsKnown'
      BY <1>0, <3>1 DEF AuditTyped, DisplayKnown, CellsKnown, Audit!On, Audit!Reported
    <3>4. QED
      BY <1>0, <1>1, <3>1, <3>2, <3>3 DEF AuditInv, Audit!Reported
  <2>3. QED
    BY <2>1, <2>2
<1>7. CASE Audit!Finish
  <2>1. /\ UNCHANGED <<auditArguments, scope, auditShown, auditSite, auditMoments, display,
                       auditRegistry, cells>>
        /\ auditAt' = "done"
    BY <1>7 DEF Audit!Finish, Audit!fixed
  <2>2. AuditTyped' /\ RegistryTrue' /\ DisplayKnown' /\ CellsKnown'
    BY <1>0, <2>1 DEF AuditTyped, RegistryTrue, DisplayKnown, CellsKnown, Audit!On
  <2>3. QED
    BY <1>7, <2>2, AuditReports DEF AuditInv
<1>8. ASSUME NEW p \in Audit!Planes, NEW r \in Records, Audit!AskPlane(p, r)
      PROVE  AuditInv'
  <2>1. CASE Audit!Fail("READ_RATE_LIMIT_EXCEEDED")
    BY <1>2, <2>1
  <2>2. CASE ~Audit!Fail("READ_RATE_LIMIT_EXCEEDED")
    <3>1. PICK v \in Audit!PlaneVerdict(p, r) : cells' = [cells EXCEPT ![p][r] = v]
      BY <1>8, <2>2 DEF Audit!AskPlane
    <3>2. /\ UNCHANGED <<auditArguments, scope, auditShown, auditSite, auditMoments, auditAt,
                         display, auditRegistry, audit>>
          /\ auditAt = "records"
      BY <1>8, <2>2 DEF Audit!AskPlane, Audit!fixed
    <3>3. /\ v = "yes" => r \in auditSite[p]
          /\ v = "no" => Audit!On(p) /\ r \notin auditSite[p]
      BY <3>1 DEF Audit!PlaneVerdict, Audit!Verdict
    <3>4. /\ cells'[p][r] = v
          /\ \A q \in Audit!Planes, o \in Records :
               q # p \/ o # r => cells'[q][o] = cells[q][o]
          /\ DOMAIN cells' = Audit!Planes
          /\ \A q \in Audit!Planes : cells'[q] = [o \in Records |-> cells'[q][o]]
      BY <1>0, <3>1 DEF AuditTyped
    <3>5. CellsKnown'
      <4>1. ASSUME NEW q \in Audit!Planes, NEW o \in Records
            PROVE  /\ cells'[q][o] = "yes" => \E w \in auditMoments : o \in w[q]
                   /\ cells'[q][o] = "no" => Audit!On(q) /\ \E w \in auditMoments : o \notin w[q]
        <5>1. CASE q = p /\ o = r
          BY <1>0, <3>3, <3>4, <5>1 DEF AuditTyped
        <5>2. CASE ~(q = p /\ o = r)
          BY <1>0, <3>4, <5>2 DEF CellsKnown
        <5>3. QED
          BY <5>1, <5>2
      <4>2. QED
        BY <3>2, <4>1 DEF CellsKnown, Audit!On
    <3>6. AuditTyped' /\ RegistryTrue' /\ DisplayKnown'
      BY <1>0, <3>2, <3>4 DEF AuditTyped, RegistryTrue, DisplayKnown, Audit!Reported
    <3>7. QED
      BY <1>0, <1>1, <3>2, <3>5, <3>6 DEF AuditInv, Audit!Reported
  <2>3. QED
    BY <2>1, <2>2
<1>9. QED
  BY <1>3, <1>4, <1>5, <1>6, <1>7, <1>8 DEF Audit!Next, Audit!Steps

(* The audit: each yes and no was so when it was asked, what is critical   *)
(* is delivered and lacks a plane, and the lists leave nothing out         *)
(* (audit_coverage).                                                       *)
THEOREM AuditIsEarned == FairSpec => []AuditEarned
<1>1. Init => AuditInv
  BY AuditStarts DEF Init
<1>2. AuditInv /\ [Next]_vars => AuditInv'
  <2>1. ASSUME AuditInv, UNCHANGED auditVars
        PROVE  AuditInv'
    <3>1. UNCHANGED <<auditArguments, scope, auditShown, auditSite, auditMoments, auditAt,
                      display, auditRegistry, cells, audit>>
      BY <2>1 DEF auditVars
    <3>2. AuditTyped' /\ RegistryTrue' /\ DisplayKnown' /\ CellsKnown'
      BY <2>1, <3>1 DEF AuditInv, AuditTyped, RegistryTrue, DisplayKnown, CellsKnown, Audit!On
    <3>3. Audit!CellsTrue'
      BY <2>1, <3>1 DEF AuditInv, Audit!CellsTrue, Audit!Reported
    <3>4. Audit!CriticalProven'
      BY <2>1, <3>1 DEF AuditInv, Audit!CriticalProven, Audit!Reported, Audit!On,
         Audit!Cardinality
    <3>5. Audit!NothingLeftOut'
      BY <2>1, <3>1 DEF AuditInv, Audit!NothingLeftOut, Audit!Reported, Audit!Live,
         Audit!Cardinality
    <3>6. QED
      BY <3>2, <3>3, <3>4, <3>5 DEF AuditInv
  <2>2. QED
    BY <2>1, AuditKept, OneAtATime
<1>3. AuditInv => AuditEarned
  BY DEF AuditInv, AuditEarned
<1>4. QED
  BY <1>1, <1>2, <1>3, PTL DEF FairSpec
-----------------------------------------------------------------------------
(* How far the look at a REST plane is, and what earned it its status.     *)
Asked(p) == SelfCheck!Configured(p) /\ (p = "archiver_retrieval" => "archiver" \in urls)
Passed(p) ==
  \E o \in SelfCheck!Outcomes : SelfCheck!Passes(p, o) /\ <<"probe", o>> \in sent[p]
NameGiven(p) == <<"identify", "2xx">> \in sent[p] /\ hosts[p].name = "own"

NotAskedYet(p) ==
  /\ sent[p] = {}
  /\ \/ SelfCheck!At(p, "start")
     \/ SelfCheck!At(p, "probe") /\ Asked(p)
     \/ checks[p] = SelfCheck!Check("disabled", "unprobed") /\ ~SelfCheck!Configured(p)
     \/ /\ checks[p] = SelfCheck!Check("config_error", "unprobed")
        /\ p = "archiver_retrieval" /\ SelfCheck!Configured(p) /\ "archiver" \notin urls

ProbeFailed(p) ==
  /\ \E st \in {"ca_error", "api_error", "unreachable"} :
       checks[p] = SelfCheck!Check(st, "unprobed")
  /\ \E o \in SelfCheck!Outcomes \ {"2xx"} : <<"probe", o>> \in sent[p]

Identifying(p) ==
  /\ Passed(p)
  /\ \/ SelfCheck!At(p, "identify")
     \/ SelfCheck!At(p, "metrics") /\ p = "archiver" /\ NameGiven(p)
     \/ /\ checks[p] = SelfCheck!Check("unverified", "no")
        /\ \E o \in {"2xx", "unreadable"} : <<"identify", o>> \in sent[p]
     \/ checks[p] = SelfCheck!Check("identity_probe_failed", "no")
     \/ /\ checks[p] = SelfCheck!Check("ok", "yes") /\ NameGiven(p)
        /\ p = "alarm" => hosts[p].works # "no"
     \/ /\ checks[p] = SelfCheck!Check("no_ingest", "yes") /\ NameGiven(p)
        /\ p = "archiver" /\ hosts[p].works = "no"
     \/ /\ checks[p] = SelfCheck!Check("backend_down", "yes") /\ NameGiven(p)
        /\ p = "alarm" /\ hosts[p].works = "no"

RestLook(p) == NotAskedYet(p) \/ (Asked(p) /\ (ProbeFailed(p) \/ Identifying(p)))

LiveLook ==
  \/ /\ checks["live"] \in {SelfCheck!Pending("start"), SelfCheck!Pending("probe"),
                            SelfCheck!Check("info", "unprobed")}
     /\ sent["live"] = {}
  \/ checks["live"] = SelfCheck!Check("ok", "unprobed") /\ sent["live"] = {<<"probe", "2xx">>}
  \/ /\ checks["live"] = SelfCheck!Check("disconnected", "unprobed")
     /\ sent["live"] = {<<"probe", "transport">>}

(* The exit code is drawn when no look is pending.                         *)
Drawn ==
  /\ exitCode # "running" => \A p \in SelfCheck!Planes : checks[p].status # "pending"
  /\ exitCode = "clean" => \A p \in SelfCheck!Planes : checks[p].status \in SelfCheck!NonFailing
  /\ exitCode = "failed" =>
       \E p \in SelfCheck!Planes :
         checks[p].status \notin SelfCheck!NonFailing \union SelfCheck!Inconclusive

DoctorInv ==
  /\ urls \subseteq SelfCheck!RestPlanes /\ hosts \in [SelfCheck!RestPlanes -> SelfCheck!Hosts]
  /\ checks = [p \in SelfCheck!Planes |-> checks[p]]
  /\ sent = [p \in SelfCheck!Planes |-> sent[p]]
  /\ \A p \in SelfCheck!RestPlanes : RestLook(p)
  /\ LiveLook /\ Drawn

LEMMA DoctorStarts == SelfCheck!Init => DoctorInv
<1>1. ASSUME SelfCheck!Init
      PROVE  DoctorInv
  <2>1. /\ \A p \in SelfCheck!Planes : checks[p] = SelfCheck!Pending("start") /\ sent[p] = {}
        /\ exitCode = "running"
    BY <1>1 DEF SelfCheck!Init
  <2>2. \A p \in SelfCheck!RestPlanes : RestLook(p)
    BY <2>1 DEF SelfCheck!Planes, RestLook, NotAskedYet, SelfCheck!At
  <2>3. LiveLook /\ Drawn
    BY <2>1 DEF SelfCheck!Planes, LiveLook, Drawn
  <2>4. QED
    BY <1>1, <2>2, <2>3 DEF SelfCheck!Init, DoctorInv
<1>2. QED
  BY <1>1

(* A look that goes on is the only one to change, and none is drawn yet.   *)
LEMMA OnePlaneLooks ==
  ASSUME DoctorInv, NEW p \in SelfCheck!Planes, NEW request, NEW outcome, NEW check,
         SelfCheck!Request(p, request, outcome), SelfCheck!Looked(p, check)
  PROVE  /\ checks[p] = SelfCheck!Pending(request)
         /\ checks'[p] = check /\ sent'[p] = sent[p] \union {<<request, outcome>>}
         /\ \A q \in SelfCheck!Planes \ {p} : checks'[q] = checks[q] /\ sent'[q] = sent[q]
         /\ checks' = [q \in SelfCheck!Planes |-> checks'[q]]
         /\ sent' = [q \in SelfCheck!Planes |-> sent'[q]]
         /\ UNCHANGED <<urls, probePv, hosts, exitCode>>
         /\ Drawn'
         /\ \A q \in SelfCheck!RestPlanes \ {p} : RestLook(q)'
         /\ p # "live" => LiveLook'
<1>1. /\ checks[p] = SelfCheck!Pending(request)
      /\ checks' = [checks EXCEPT ![p] = check]
      /\ sent' = [sent EXCEPT ![p] = sent[p] \union {<<request, outcome>>}]
      /\ UNCHANGED <<urls, probePv, hosts, exitCode>>
  BY DEF SelfCheck!Request, SelfCheck!Looked, SelfCheck!At
<1>2. /\ checks'[p] = check /\ sent'[p] = sent[p] \union {<<request, outcome>>}
      /\ \A q \in SelfCheck!Planes \ {p} : checks'[q] = checks[q] /\ sent'[q] = sent[q]
      /\ checks' = [q \in SelfCheck!Planes |-> checks'[q]]
      /\ sent' = [q \in SelfCheck!Planes |-> sent'[q]]
  BY <1>1 DEF DoctorInv
<1>3. exitCode = "running"
  BY <1>1 DEF DoctorInv, Drawn, SelfCheck!Pending
<1>4. Drawn'
  BY <1>1, <1>3 DEF Drawn
<1>5. ASSUME NEW q \in SelfCheck!RestPlanes \ {p}
      PROVE  RestLook(q)'
  <2>1. RestLook(q) /\ checks'[q] = checks[q] /\ sent'[q] = sent[q]
    BY <1>2 DEF DoctorInv, SelfCheck!Planes
  <2>2. QED
    BY <1>1, <2>1 DEF RestLook, NotAskedYet, ProbeFailed, Identifying, Asked, Passed, NameGiven,
       SelfCheck!Configured, SelfCheck!At
<1>6. p # "live" => LiveLook'
  BY <1>2 DEF DoctorInv, LiveLook, SelfCheck!Planes
<1>7. QED
  BY <1>1, <1>2, <1>4, <1>5, <1>6

(* The fields of a pending look and of a result.                           *)
LEMMA LookFields ==
  /\ \A r : SelfCheck!Pending(r).status = "pending" /\ SelfCheck!Pending(r).next = r
  /\ \A st, i : SelfCheck!Check(st, i).status = st /\ SelfCheck!Check(st, i).identified = i
BY DEF SelfCheck!Pending, SelfCheck!Check

(* What is known of a plane whose next request is still to be made.        *)
LEMMA WhatIsPending ==
  ASSUME NEW p, RestLook(p), NEW r, checks[p] = SelfCheck!Pending(r)
  PROVE  \/ r = "start" /\ sent[p] = {}
         \/ r = "probe" /\ sent[p] = {} /\ Asked(p)
         \/ r = "identify" /\ Asked(p) /\ Passed(p)
         \/ r = "metrics" /\ Asked(p) /\ Passed(p) /\ NameGiven(p)
<1>1. checks[p].status = "pending" /\ checks[p].next = r
  BY LookFields
<1>2. CASE NotAskedYet(p)
  BY <1>1, <1>2, LookFields DEF NotAskedYet, SelfCheck!At
<1>3. CASE Asked(p) /\ ProbeFailed(p)
  BY <1>1, <1>3, LookFields DEF ProbeFailed
<1>4. CASE Asked(p) /\ Identifying(p)
  BY <1>1, <1>4, LookFields DEF Identifying, SelfCheck!At
<1>5. QED
  BY <1>2, <1>3, <1>4 DEF RestLook

LEMMA LiveIsPending ==
  ASSUME LiveLook, NEW r, checks["live"] = SelfCheck!Pending(r)
  PROVE  sent["live"] = {}
BY LookFields DEF LiveLook

LEMMA DoctorKept ==
  ASSUME DoctorInv, SelfCheck!Next
  PROVE  DoctorInv'
<1>0. /\ urls \subseteq SelfCheck!RestPlanes /\ hosts \in [SelfCheck!RestPlanes -> SelfCheck!Hosts]
      /\ \A p \in SelfCheck!RestPlanes : RestLook(p) /\ p # "live" /\ p \in SelfCheck!Planes
      /\ "live" \in SelfCheck!Planes /\ SelfCheck!Planes = SelfCheck!RestPlanes \union {"live"}
  BY DEF DoctorInv, SelfCheck!Planes, SelfCheck!RestPlanes
<1>1. ASSUME NEW p \in SelfCheck!RestPlanes, NEW request, NEW outcome, NEW check,
             SelfCheck!Request(p, request, outcome), SelfCheck!Looked(p, check),
             RestLook(p)'
      PROVE  DoctorInv'
  BY <1>0, <1>1, OnePlaneLooks DEF DoctorInv
<1>2. CASE SelfCheck!Gather
  <2>1. /\ \A p \in SelfCheck!Planes : checks'[p] = SelfCheck!Begun(p)
        /\ checks' = [p \in SelfCheck!Planes |-> checks'[p]]
        /\ UNCHANGED <<urls, probePv, hosts, sent, exitCode>>
        /\ \A p \in SelfCheck!Planes : checks[p] = SelfCheck!Pending("start")
    BY <1>2 DEF SelfCheck!Gather, SelfCheck!At
  <2>2. ASSUME NEW p \in SelfCheck!RestPlanes
        PROVE  RestLook(p)'
    <3>1. sent[p] = {}
      <4>1. RestLook(p) /\ checks[p] = SelfCheck!Pending("start")
        BY <1>0, <2>1
      <4>2. QED
        BY <4>1, WhatIsPending
    <3>2. NotAskedYet(p)'
      <4>1. checks'[p] = SelfCheck!Begun(p) /\ sent'[p] = {}
        BY <1>0, <2>1, <3>1
      <4>2. CASE ~SelfCheck!Configured(p)
        BY <1>0, <2>1, <4>1, <4>2 DEF SelfCheck!Begun, NotAskedYet, SelfCheck!Configured
      <4>3. CASE SelfCheck!Configured(p) /\ p = "archiver_retrieval" /\ "archiver" \notin urls
        <5>1. SelfCheck!Begun(p) = SelfCheck!Check("config_error", "unprobed")
          BY <4>3 DEF SelfCheck!Begun
        <5>2. QED
          BY <2>1, <4>1, <4>3, <5>1 DEF NotAskedYet, SelfCheck!Configured
      <4>4. CASE Asked(p)
        <5>1. SelfCheck!Begun(p) = SelfCheck!Pending("probe")
          BY <1>0, <4>4 DEF SelfCheck!Begun, Asked
        <5>2. QED
          BY <2>1, <4>1, <4>4, <5>1 DEF NotAskedYet, SelfCheck!At, Asked, SelfCheck!Configured
      <4>5. QED
        BY <4>2, <4>3, <4>4 DEF Asked
    <3>3. QED
      BY <3>2 DEF RestLook
  <2>3. LiveLook'
    <3>1. sent["live"] = {}
      BY <1>0, <2>1, LiveIsPending DEF DoctorInv
    <3>2. checks'["live"] \in {SelfCheck!Pending("probe"), SelfCheck!Check("info", "unprobed")}
      BY <1>0, <2>1 DEF SelfCheck!Begun
    <3>3. QED
      BY <2>1, <3>1, <3>2 DEF LiveLook
  <2>4. Drawn'
    BY <1>0, <2>1 DEF DoctorInv, Drawn, SelfCheck!Pending
  <2>5. QED
    BY <1>0, <2>1, <2>2, <2>3, <2>4 DEF DoctorInv
<1>3. ASSUME NEW p \in SelfCheck!RestPlanes, SelfCheck!Probe(p)
      PROVE  DoctorInv'
  <2> DEFINE check(o) == IF SelfCheck!Passes(p, o) THEN SelfCheck!Pending("identify")
                         ELSE SelfCheck!Check(SelfCheck!ClassifyFailure(o), "unprobed")
  <2>1. PICK o \in SelfCheck!ProbeOutcomes(p) :
          SelfCheck!Request(p, "probe", o) /\ SelfCheck!Looked(p, check(o))
    BY <1>3 DEF SelfCheck!Probe
  <2>2. /\ checks[p] = SelfCheck!Pending("probe") /\ checks'[p] = check(o)
        /\ <<"probe", o>> \in sent'[p]
        /\ UNCHANGED <<urls, hosts>>
    <3> HIDE DEF check
    <3>1. sent'[p] = sent[p] \union {<<"probe", o>>}
      BY <1>0, <2>1, OnePlaneLooks
    <3>2. QED
      BY <1>0, <2>1, <3>1, OnePlaneLooks
  <2>3. Asked(p)
    BY <1>0, <2>2, WhatIsPending
  <2>4. o \in SelfCheck!Outcomes
    BY DEF SelfCheck!ProbeOutcomes
  <2>5. CASE SelfCheck!Passes(p, o)
    <3>1. checks'[p] = SelfCheck!Pending("identify")
      BY <2>2, <2>5
    <3>2. Identifying(p)'
      BY <2>2, <2>4, <2>5, <3>1 DEF Identifying, Passed, SelfCheck!At
    <3>3. RestLook(p)'
      BY <2>2, <2>3, <3>2 DEF RestLook, Asked, SelfCheck!Configured
    <3>4. QED
      BY <1>1, <2>1, <3>3
  <2>6. CASE ~SelfCheck!Passes(p, o)
    <3>1. /\ checks'[p] = SelfCheck!Check(SelfCheck!ClassifyFailure(o), "unprobed")
          /\ SelfCheck!ClassifyFailure(o) \in {"ca_error", "api_error", "unreachable"}
          /\ o # "2xx"
      BY <2>2, <2>6 DEF SelfCheck!ClassifyFailure, SelfCheck!Passes
    <3>2. ProbeFailed(p)'
      BY <2>2, <2>4, <3>1 DEF ProbeFailed
    <3>3. RestLook(p)'
      BY <2>2, <2>3, <3>2 DEF RestLook, Asked, SelfCheck!Configured
    <3>4. QED
      BY <1>1, <2>1, <3>3
  <2>7. QED
    BY <2>5, <2>6
<1>4. ASSUME NEW p \in SelfCheck!RestPlanes, SelfCheck!Identify(p)
      PROVE  DoctorInv'
  <2> DEFINE check(o) == IF o = "2xx" THEN SelfCheck!Named(p)
                         ELSE SelfCheck!Check(SelfCheck!IdentityFetchFailure(o), "no")
  <2>1. PICK o \in SelfCheck!Outcomes :
          SelfCheck!Request(p, "identify", o) /\ SelfCheck!Looked(p, check(o))
    BY <1>4 DEF SelfCheck!Identify
  <2>2. /\ checks[p] = SelfCheck!Pending("identify") /\ checks'[p] = check(o)
        /\ sent'[p] = sent[p] \union {<<"identify", o>>}
        /\ UNCHANGED <<urls, hosts>>
    <3> HIDE DEF check
    <3>1. QED
      BY <1>0, <2>1, OnePlaneLooks
  <2>3. Asked(p) /\ Passed(p)
    BY <1>0, <2>2, WhatIsPending
  <2>4. Asked(p)' /\ Passed(p)'
    BY <2>2, <2>3 DEF Asked, Passed, SelfCheck!Configured
  <2>5. CASE o = "2xx"
    <3>1. checks'[p] = SelfCheck!Named(p) /\ <<"identify", "2xx">> \in sent'[p]
      BY <2>2, <2>5
    <3>2. Identifying(p)'
      <4>1. CASE hosts[p].name # "own"
        <5>1. SelfCheck!Named(p) = SelfCheck!Check("unverified", "no")
          BY <4>1 DEF SelfCheck!Named
        <5>2. QED
          BY <2>4, <3>1, <5>1 DEF Identifying
      <4>2. CASE hosts[p].name = "own" /\ p = "archiver"
        <5>1. SelfCheck!Named(p) = SelfCheck!Pending("metrics")
          BY <4>2 DEF SelfCheck!Named
        <5>2. QED
          BY <2>2, <2>4, <3>1, <4>2, <5>1 DEF Identifying, NameGiven, SelfCheck!At
      <4>3. CASE hosts[p].name = "own" /\ p = "alarm" /\ hosts[p].works = "no"
        <5>1. SelfCheck!Named(p) = SelfCheck!Check("backend_down", "yes")
          BY <4>3 DEF SelfCheck!Named
        <5>2. QED
          BY <2>2, <2>4, <3>1, <4>3, <5>1 DEF Identifying, NameGiven
      <4>4. CASE hosts[p].name = "own" /\ p # "archiver" /\ ~(p = "alarm" /\ hosts[p].works = "no")
        <5>1. SelfCheck!Named(p) = SelfCheck!Check("ok", "yes")
          BY <4>4 DEF SelfCheck!Named
        <5>2. QED
          BY <2>2, <2>4, <3>1, <4>4, <5>1 DEF Identifying, NameGiven
      <4>5. QED
        BY <4>1, <4>2, <4>3, <4>4
    <3>3. QED
      BY <1>1, <2>1, <2>4, <3>2 DEF RestLook
  <2>6. CASE o # "2xx"
    <3>1. checks'[p] = SelfCheck!Check(SelfCheck!IdentityFetchFailure(o), "no")
      BY <2>2, <2>6
    <3>2. Identifying(p)'
      <4>1. CASE o = "unreadable"
        BY <2>2, <2>4, <3>1, <4>1 DEF SelfCheck!IdentityFetchFailure, Identifying
      <4>2. CASE o # "unreadable"
        BY <2>2, <2>4, <3>1, <4>2 DEF SelfCheck!IdentityFetchFailure, Identifying
      <4>3. QED
        BY <4>1, <4>2
    <3>3. QED
      BY <1>1, <2>1, <2>4, <3>2 DEF RestLook
  <2>7. QED
    BY <2>5, <2>6
<1>5. CASE SelfCheck!Metrics
  <2> DEFINE st(o) == IF o = "2xx" /\ hosts["archiver"].works = "no" THEN "no_ingest" ELSE "ok"
  <2>1. PICK o \in SelfCheck!Outcomes \union {"rowless"} :
          /\ SelfCheck!Request("archiver", "metrics", o)
          /\ SelfCheck!Looked("archiver", SelfCheck!Check(st(o), "yes"))
    BY <1>5 DEF SelfCheck!Metrics
  <2>2. "archiver" \in SelfCheck!RestPlanes
    BY DEF SelfCheck!RestPlanes
  <2>3. /\ checks["archiver"] = SelfCheck!Pending("metrics")
        /\ checks'["archiver"] = SelfCheck!Check(st(o), "yes")
        /\ sent'["archiver"] = sent["archiver"] \union {<<"metrics", o>>}
        /\ UNCHANGED <<urls, hosts>>
    <3> HIDE DEF st
    <3>1. "archiver" \in SelfCheck!Planes
      BY <1>0, <2>2
    <3>2. QED
      BY <2>1, <3>1, OnePlaneLooks
  <2>4. Asked("archiver") /\ Passed("archiver") /\ NameGiven("archiver")
    BY <1>0, <2>2, <2>3, WhatIsPending
  <2>5. Asked("archiver")' /\ Passed("archiver")' /\ NameGiven("archiver")'
    BY <2>3, <2>4 DEF Asked, Passed, NameGiven, SelfCheck!Configured
  <2>6. Identifying("archiver")'
    <3>1. CASE o = "2xx" /\ hosts["archiver"].works = "no"
      BY <2>3, <2>5, <3>1 DEF Identifying
    <3>2. CASE ~(o = "2xx" /\ hosts["archiver"].works = "no")
      BY <2>3, <2>5, <3>2 DEF Identifying
    <3>3. QED
      BY <3>1, <3>2
  <2>7. QED
    BY <1>1, <2>1, <2>2, <2>5, <2>6 DEF RestLook
<1>6. CASE SelfCheck!ProbeLive
  <2> DEFINE st(o) == IF o = "2xx" THEN "ok" ELSE "disconnected"
  <2>1. PICK o \in {"2xx", "transport"} :
          /\ SelfCheck!Request("live", "probe", o)
          /\ SelfCheck!Looked("live", SelfCheck!Check(st(o), "unprobed"))
    BY <1>6 DEF SelfCheck!ProbeLive
  <2>2. /\ checks["live"] = SelfCheck!Pending("probe")
        /\ checks'["live"] = SelfCheck!Check(st(o), "unprobed")
        /\ sent'["live"] = sent["live"] \union {<<"probe", o>>}
    <3> HIDE DEF st
    <3>1. QED
      BY <1>0, <2>1, OnePlaneLooks
  <2>3. sent["live"] = {}
    BY <2>2, LiveIsPending DEF DoctorInv
  <2>4. LiveLook'
    BY <2>2, <2>3 DEF LiveLook
  <2>5. QED
    BY <1>0, <2>1, <2>4, OnePlaneLooks DEF DoctorInv
<1>7. CASE SelfCheck!Finish
  <2>1. /\ UNCHANGED <<urls, probePv, hosts, sent, checks>>
        /\ \A p \in SelfCheck!Planes : checks[p].status # "pending"
        /\ exitCode' = "clean" => \A p \in SelfCheck!Planes : checks[p].status \in SelfCheck!NonFailing
        /\ exitCode' = "failed" =>
             \E p \in SelfCheck!Planes :
               checks[p].status \notin SelfCheck!NonFailing \union SelfCheck!Inconclusive
    BY <1>7 DEF SelfCheck!Finish, SelfCheck!With
  <2>2. ASSUME NEW p \in SelfCheck!RestPlanes
        PROVE  RestLook(p)'
    BY <1>0, <2>1 DEF RestLook, NotAskedYet, ProbeFailed, Identifying, Asked, Passed, NameGiven,
       SelfCheck!Configured, SelfCheck!At
  <2>3. LiveLook' /\ Drawn'
    BY <2>1 DEF DoctorInv, LiveLook, Drawn
  <2>4. QED
    BY <1>0, <2>1, <2>2, <2>3 DEF DoctorInv
<1>8. QED
  BY <1>2, <1>3, <1>4, <1>5, <1>6, <1>7 DEF SelfCheck!Next, SelfCheck!Steps

(* What the status of a plane says of the requests to it.                  *)
LEMMA StatusMeans ==
  ASSUME NEW p, RestLook(p), checks[p].status # "pending"
  PROVE  /\ checks[p].status \in {"ok", "no_ingest", "backend_down"} <=> checks[p].identified = "yes"
         /\ checks[p].identified = "yes" => NameGiven(p)
         /\ checks[p].status = "backend_down" => p = "alarm" /\ hosts[p].works = "no"
         /\ checks[p].status = "no_ingest" => p = "archiver" /\ hosts[p].works = "no"
         /\ checks[p].status = "ok" /\ p = "alarm" => hosts[p].works # "no"
         /\ checks[p].status \in {"ok", "no_ingest", "backend_down", "unverified"} =>
              Passed(p) /\ \E o \in {"2xx", "unreadable"} : <<"identify", o>> \in sent[p]
         /\ checks[p].status = "disabled" => ~SelfCheck!Configured(p)
         /\ checks[p].status = "config_error" =>
              p = "archiver_retrieval" /\ SelfCheck!Configured(p) /\ "archiver" \notin urls
         /\ checks[p].status \in {"ca_error", "api_error", "unreachable"} =>
              \E o \in SelfCheck!Outcomes \ {"2xx"} : <<"probe", o>> \in sent[p]
         /\ checks[p].status \in {"disabled", "config_error", "ca_error", "api_error",
                                  "unreachable", "unverified", "identity_probe_failed", "ok",
                                  "no_ingest", "backend_down"}
         /\ sent[p] # {} <=> Asked(p)
<1>1. CASE NotAskedYet(p)
  <2>1. sent[p] = {} /\ checks[p].status \in {"disabled", "config_error"} /\ ~Asked(p)
    BY <1>1, LookFields DEF NotAskedYet, SelfCheck!At, Asked
  <2>2. /\ checks[p].status = "disabled" => ~SelfCheck!Configured(p)
        /\ checks[p].status = "config_error" =>
             p = "archiver_retrieval" /\ SelfCheck!Configured(p) /\ "archiver" \notin urls
        /\ checks[p].identified = "unprobed"
    BY <1>1, LookFields DEF NotAskedYet, SelfCheck!At
  <2>3. QED
    BY <2>1, <2>2
<1>2. CASE Asked(p) /\ ProbeFailed(p)
  <2>1. PICK st \in {"ca_error", "api_error", "unreachable"} :
          checks[p] = SelfCheck!Check(st, "unprobed")
    BY <1>2 DEF ProbeFailed
  <2>2. checks[p].status = st /\ checks[p].identified = "unprobed"
    BY <2>1, LookFields
  <2>3. PICK o \in SelfCheck!Outcomes \ {"2xx"} : <<"probe", o>> \in sent[p]
    BY <1>2 DEF ProbeFailed
  <2>4. QED
    BY <1>2, <2>2, <2>3
<1>3. CASE Asked(p) /\ Identifying(p)
  <2>1. sent[p] # {}
    BY <1>3 DEF Identifying, Passed
  <2>2. CASE checks[p] = SelfCheck!Check("unverified", "no")
    <3>1. checks[p].status = "unverified" /\ checks[p].identified = "no"
      BY <2>2, LookFields
    <3>2. QED
      BY <1>3, <2>1, <3>1, LookFields DEF Identifying, SelfCheck!At
  <2>3. CASE checks[p] = SelfCheck!Check("identity_probe_failed", "no")
    <3>1. checks[p].status = "identity_probe_failed" /\ checks[p].identified = "no"
      BY <2>3, LookFields
    <3>2. QED
      BY <1>3, <2>1, <3>1
  <2>4. CASE checks[p] \in {SelfCheck!Check(st, "yes") : st \in {"ok", "no_ingest", "backend_down"}}
    <3>1. PICK st \in {"ok", "no_ingest", "backend_down"} : checks[p] = SelfCheck!Check(st, "yes")
      BY <2>4
    <3>2. checks[p].status = st /\ checks[p].identified = "yes"
      BY <3>1, LookFields
    <3>3. /\ Passed(p) /\ NameGiven(p)
          /\ st = "ok" /\ p = "alarm" => hosts[p].works # "no"
          /\ st = "no_ingest" => p = "archiver" /\ hosts[p].works = "no"
          /\ st = "backend_down" => p = "alarm" /\ hosts[p].works = "no"
      BY <1>3, <3>2, LookFields DEF Identifying, SelfCheck!At
    <3>4. <<"identify", "2xx">> \in sent[p]
      BY <3>3 DEF NameGiven
    <3>5. QED
      BY <1>3, <2>1, <3>2, <3>3, <3>4
  <2>5. QED
    BY <1>3, <2>2, <2>3, <2>4, LookFields DEF Identifying, SelfCheck!At
<1>4. QED
  BY <1>1, <1>2, <1>3 DEF RestLook

(* What the exit code and the statuses of a finished self-check say.       *)
LEMMA DoctorEarns ==
  ASSUME DoctorInv
  PROVE  SelfCheck!IdentityEarned /\ SelfCheck!ExitEarned /\ SelfCheck!OnlyConfiguredAsked
<1>0. /\ \A p \in SelfCheck!RestPlanes : RestLook(p) /\ p # "live" /\ p \in SelfCheck!Planes
      /\ "live" \in SelfCheck!Planes /\ SelfCheck!Planes = SelfCheck!RestPlanes \union {"live"}
      /\ "alarm" \in SelfCheck!RestPlanes
      /\ LiveLook /\ Drawn /\ urls \subseteq SelfCheck!RestPlanes
      /\ hosts \in [SelfCheck!RestPlanes -> SelfCheck!Hosts]
  BY DEF DoctorInv, SelfCheck!Planes, SelfCheck!RestPlanes
<1>1. exitCode # "running" =>
        \A p \in SelfCheck!RestPlanes : checks[p].status # "pending"
  BY <1>0 DEF Drawn
<1>2. ASSUME NEW p \in SelfCheck!RestPlanes, exitCode # "running"
      PROVE  /\ checks[p].status \in {"ok", "no_ingest", "backend_down"} <=> checks[p].identified = "yes"
             /\ checks[p].identified = "yes" =>
                  hosts[p].name = "own" /\ <<"identify", "2xx">> \in sent[p]
             /\ checks[p].status = "backend_down" => hosts[p].works = "no"
             /\ checks[p].status = "no_ingest" => hosts[p].works = "no"
             /\ sent[p] # {} <=> Asked(p)
  BY <1>0, <1>1, <1>2, StatusMeans DEF NameGiven
<1>3. SelfCheck!IdentityEarned /\ SelfCheck!OnlyConfiguredAsked
  BY <1>2 DEF SelfCheck!IdentityEarned, SelfCheck!OnlyConfiguredAsked, SelfCheck!Done, Asked
<1>4. ASSUME exitCode = "clean"
      PROVE  /\ \A p \in {q \in SelfCheck!RestPlanes : SelfCheck!Configured(q)} :
                  \/ SelfCheck!Answered(p, "probe", SelfCheck!Outcomes \ SelfCheck!Failures)
                  \/ SelfCheck!Answered(p, "probe", {"status"})
             /\ \A p \in {q \in SelfCheck!RestPlanes : SelfCheck!Configured(q)} :
                  SelfCheck!Answered(p, "identify", {"2xx", "unreadable"})
             /\ ~SelfCheck!Answered("live", "probe", {"transport"})
             /\ checks["alarm"].identified = "yes" => hosts["alarm"].works # "no"
  <2>1. ASSUME NEW p \in SelfCheck!RestPlanes
        PROVE  /\ checks[p].status \in SelfCheck!NonFailing
               /\ checks[p].status # "pending" /\ RestLook(p)
    BY <1>0, <1>4 DEF Drawn
  <2>2. ASSUME NEW p \in SelfCheck!RestPlanes, SelfCheck!Configured(p)
        PROVE  /\ Passed(p)
               /\ \E o \in {"2xx", "unreadable"} : <<"identify", o>> \in sent[p]
    <3>1. checks[p].status \in {"ok", "no_ingest", "unverified"}
      BY <2>1, <2>2, StatusMeans DEF SelfCheck!NonFailing
    <3>2. QED
      BY <2>1, <3>1, StatusMeans
  <2>3. ASSUME NEW p, Passed(p)
        PROVE  \/ SelfCheck!Answered(p, "probe", SelfCheck!Outcomes \ SelfCheck!Failures)
               \/ SelfCheck!Answered(p, "probe", {"status"})
    BY <2>3 DEF Passed, SelfCheck!Passes, SelfCheck!Answered, SelfCheck!Outcomes,
       SelfCheck!Failures
  <2>4. ~SelfCheck!Answered("live", "probe", {"transport"})
    <3>1. checks["live"].status # "disconnected"
      BY <1>0, <1>4 DEF Drawn, SelfCheck!NonFailing
    <3>2. sent["live"] = {} \/ sent["live"] = {<<"probe", "2xx">>}
      BY <1>0, <3>1, LookFields DEF LiveLook
    <3>3. QED
      BY <3>2 DEF SelfCheck!Answered
  <2>5. checks["alarm"].identified = "yes" => hosts["alarm"].works # "no"
    BY <1>0, <2>1, StatusMeans DEF SelfCheck!NonFailing
  <2>6. QED
    BY <2>2, <2>3, <2>4, <2>5 DEF SelfCheck!Answered
<1>5. ASSUME exitCode = "failed"
      PROVE  \/ \E p \in SelfCheck!Planes :
                  SelfCheck!Answered(p, "probe", SelfCheck!Outcomes \ {"2xx"})
             \/ "archiver_retrieval" \in urls /\ "archiver" \notin urls
             \/ "alarm" \in urls /\ hosts["alarm"] = [name |-> "own", works |-> "no"]
  <2>1. PICK p \in SelfCheck!Planes :
          /\ checks[p].status # "pending"
          /\ checks[p].status \notin SelfCheck!NonFailing \union SelfCheck!Inconclusive
    BY <1>5 DEF Drawn, DoctorInv
  <2>2. CASE p = "live"
    <3>1. sent["live"] = {<<"probe", "transport">>}
      BY <1>0, <2>1, <2>2, LookFields DEF LiveLook, SelfCheck!NonFailing
    <3>2. QED
      BY <1>0, <3>1 DEF SelfCheck!Answered, SelfCheck!Outcomes, SelfCheck!Failures
  <2>3. CASE p # "live"
    <3>1. p \in SelfCheck!RestPlanes /\ RestLook(p)
      BY <1>0, <2>3
    <3>2. checks[p].status \in {"ca_error", "api_error", "unreachable", "config_error",
                               "backend_down"}
      BY <2>1, <3>1, StatusMeans DEF SelfCheck!NonFailing, SelfCheck!Inconclusive
    <3>3. CASE checks[p].status \in {"ca_error", "api_error", "unreachable"}
      BY <2>1, <3>1, <3>3, StatusMeans DEF SelfCheck!Answered
    <3>4. CASE checks[p].status = "config_error"
      BY <2>1, <3>1, <3>4, StatusMeans DEF SelfCheck!Configured
    <3>5. CASE checks[p].status = "backend_down"
      <4>1. p = "alarm" /\ hosts["alarm"].works = "no" /\ NameGiven(p) /\ Asked(p)
        BY <2>1, <3>1, <3>5, StatusMeans DEF NameGiven
      <4>2. "alarm" \in urls /\ hosts["alarm"].name = "own"
        BY <4>1 DEF Asked, NameGiven, SelfCheck!Configured
      <4>3. hosts["alarm"] \in SelfCheck!Hosts
        BY <1>0
      <4>4. QED
        BY <4>1, <4>2, <4>3 DEF SelfCheck!Hosts
    <3>6. QED
      BY <3>2, <3>3, <3>4, <3>5
  <2>4. QED
    BY <2>2, <2>3
<1>6. SelfCheck!ExitEarned
  BY <1>4, <1>5 DEF SelfCheck!ExitEarned
<1>7. QED
  BY <1>3, <1>6

LEMMA DoctorInvariant == FairSpec => []DoctorInv
<1>1. Init => DoctorInv
  BY DoctorStarts DEF Init
<1>2. DoctorInv /\ [Next]_vars => DoctorInv'
  <2>1. ASSUME DoctorInv, UNCHANGED doctorVars
        PROVE  DoctorInv'
    <3>1. UNCHANGED <<urls, probePv, hosts, sent, checks, exitCode>>
      BY <2>1 DEF doctorVars
    <3>2. ASSUME NEW p \in SelfCheck!RestPlanes
          PROVE  RestLook(p)'
      <4>1. RestLook(p)
        BY <2>1 DEF DoctorInv
      <4>2. QED
        BY <3>1, <4>1 DEF RestLook, NotAskedYet, ProbeFailed, Identifying, Asked, Passed,
           NameGiven, SelfCheck!Configured, SelfCheck!At
    <3>3. LiveLook' /\ Drawn'
      BY <2>1, <3>1 DEF DoctorInv, LiveLook, Drawn
    <3>4. QED
      BY <2>1, <3>1, <3>2, <3>3 DEF DoctorInv
  <2>2. QED
    BY <2>1, DoctorKept, OneAtATime
<1>3. QED
  BY <1>1, <1>2, PTL DEF FairSpec
-----------------------------------------------------------------------------
(* What let a write through.  That the server serves says what the start   *)
(* found of the environment, for nothing changes it later.                 *)
BootInv ==
  /\ config \in Boot!Configs /\ environ \in [Boot!Providers -> Boot!Environ]
  /\ writes \subseteq {"pv", "olog"}
  /\ bootAt = "serving" => ~Boot!Refused
  /\ "pv" \in writes => bootAt = "serving" /\ config.pv
  /\ olog = "built" => bootAt = "serving" /\ config.audit # "unwritable"
  /\ "olog" \in writes => olog = "built" /\ config.olog

LEMMA BootInvariant == FairSpec => []BootInv
<1>1. Init => BootInv
  BY DEF Init, Boot!Init, BootInv
<1>2. BootInv /\ [Next]_vars => BootInv'
  <2>1. ASSUME UNCHANGED <<config, environ>>
        PROVE  Boot!Refused' = Boot!Refused
    BY <2>1 DEF Boot!Refused, Boot!Violations
  <2>2. ASSUME BootInv, UNCHANGED bootVars
        PROVE  BootInv'
    <3>1. UNCHANGED <<config, environ, bootAt, olog, writes>>
      BY <2>2 DEF bootVars
    <3>2. QED
      BY <2>1, <2>2, <3>1 DEF BootInv
  <2>3. ASSUME BootInv, Boot!Main
        PROVE  BootInv'
    <3>1. /\ bootAt = "boot" /\ UNCHANGED <<config, environ, olog, writes>>
          /\ bootAt' = "serving" => ~Boot!Refused
      BY <2>3 DEF Boot!Main
    <3>2. QED
      BY <2>1, <2>3, <3>1 DEF BootInv
  <2>4. ASSUME BootInv, Boot!WritePv
        PROVE  BootInv'
    <3>1. /\ bootAt = "serving" /\ config.pv /\ writes' = writes \union {"pv"}
          /\ UNCHANGED <<config, environ, bootAt, olog>>
      BY <2>4 DEF Boot!WritePv
    <3>2. QED
      BY <2>1, <2>4, <3>1 DEF BootInv
  <2>5. ASSUME BootInv, Boot!BuildOlogGate
        PROVE  BootInv'
    <3>1. /\ bootAt = "serving" /\ olog # "built" /\ UNCHANGED <<config, environ, bootAt, writes>>
          /\ olog' = "built" => config.audit # "unwritable"
      BY <2>5 DEF Boot!BuildOlogGate
    <3>2. QED
      BY <2>1, <2>5, <3>1 DEF BootInv
  <2>6. ASSUME BootInv, Boot!WriteOlog
        PROVE  BootInv'
    <3>1. /\ olog = "built" /\ config.olog /\ writes' = writes \union {"olog"}
          /\ UNCHANGED <<config, environ, bootAt, olog>>
      BY <2>6 DEF Boot!WriteOlog
    <3>2. QED
      BY <2>1, <2>6, <3>1 DEF BootInv
  <2>7. QED
    BY <2>2, <2>3, <2>4, <2>5, <2>6, OneAtATime DEF Boot!Next
<1>3. QED
  BY <1>1, <1>2, PTL DEF FairSpec

(* The parser of the server is the parser of each client, and what it      *)
(* takes for a loopback host is one.                                       *)
LEMMA ParsersAgree ==
  ASSUME NEW p \in Boot!Providers, NEW spelling
  PROVE  Boot!AutoAddrSearchDisabled(p, spelling) <=> ~Boot!Broadcasts(p, spelling)
BY DEF Boot!Providers, Boot!AutoAddrSearchDisabled, Boot!Broadcasts

LEMMA ReachChecked ==
  ASSUME NEW p \in Boot!Providers
  PROVE  p \notin Boot!Violations <=> ~Boot!Leaves(p)
<1>1. (\E h \in environ[p].hosts : ~Boot!IsLoopback(h)) <=> ~(environ[p].hosts \subseteq Boot!Here)
  BY DEF Boot!IsLoopback, Boot!Here
<1>2. QED
  BY <1>1, ParsersAgree DEF Boot!Violations, Boot!Leaves

(* The self-check and the start: a plane is identified by its own name     *)
(* only, the exit code follows from what answered, and what may write or   *)
(* is called isolated does not leave the host (run_doctor, _exit_category, *)
(* main, write_reach_violations, _live_search_posture).                    *)
THEOREM PostureIsEarned == FairSpec => []PostureEarned
<1>1. ASSUME BootInv
      PROVE  Boot!WritesStayHere /\ Boot!PostureTrue
  <2>1. "pv" \in writes => config.pv /\ ~Boot!Refused
    BY <1>1 DEF BootInv
  <2>2. config.pv /\ ~Boot!Refused => config.audit = "writable" /\ config.pattern = "good"
    BY <1>1 DEF BootInv, Boot!Configs, Boot!Refused
  <2>3. config.pv /\ ~Boot!Refused => \A p \in Boot!Providers : ~Boot!Leaves(p)
    BY ReachChecked DEF Boot!Refused
  <2>4. "olog" \in writes => config.audit = "writable"
    BY <1>1 DEF BootInv, Boot!Configs, Boot!Refused
  <2>5. Boot!WritesStayHere
    BY <1>1, <2>1, <2>2, <2>3, <2>4 DEF BootInv, Boot!WritesStayHere
  <2>6. config.provider \in Boot!Providers
    BY <1>1 DEF BootInv, Boot!Configs
  <2>7. Boot!Isolated => ~Boot!Leaves(config.provider)
    BY <2>6, ParsersAgree DEF Boot!Isolated, Boot!Leaves
  <2>8. bootAt = "serving" /\ config.pv /\ (\A p \in Boot!Providers : environ[p].hosts = {}) =>
          Boot!Isolated
    BY <1>1, <2>3, <2>6, ParsersAgree DEF BootInv, Boot!Isolated, Boot!Leaves
  <2>9. QED
    BY <2>5, <2>7, <2>8 DEF Boot!PostureTrue
<1>2. DoctorInv /\ BootInv => PostureEarned
  BY <1>1, DoctorEarns DEF PostureEarned
<1>3. QED
  BY <1>2, DoctorInvariant, BootInvariant, PTL
-----------------------------------------------------------------------------
(* What is made of the script stays while the script does.                 *)
LEMMA ScriptFixed ==
  ASSUME UNCHANGED <<script, shown>>
  PROVE  /\ Provenance!Prefix' = Provenance!Prefix
         /\ Provenance!Resolved' = Provenance!Resolved
         /\ Provenance!Served' = Provenance!Served
         /\ Provenance!Linked' = Provenance!Linked
         /\ Provenance!Plain' <=> Provenance!Plain
<1>1. ASSUME NEW i
      PROVE  /\ Provenance!SetsBefore(i)' = Provenance!SetsBefore(i)
             /\ Provenance!IsLoad(i)' = Provenance!IsLoad(i)
  BY DEF Provenance!SetsBefore, Provenance!IsLoad
<1>2. ASSUME NEW S
      PROVE  Provenance!Latest(S)' = Provenance!Latest(S)
  BY DEF Provenance!Latest
<1>3. Provenance!Env' = Provenance!Env
  BY <1>1 DEF Provenance!Env, Provenance!SetsBefore
<1>4. Provenance!Parsed' = Provenance!Parsed
  BY <1>1 DEF Provenance!Parsed, Provenance!IsLoad
<1>5. ASSUME NEW i
      PROVE  Provenance!Expanded(i)' = Provenance!Expanded(i)
  BY <1>2, <1>3 DEF Provenance!Expanded
<1>6. Provenance!Prefix' = Provenance!Prefix
  <2>1. ASSUME NEW p
        PROVE  Provenance!Votes(p)' = Provenance!Votes(p)
    <3> DEFINE voters == {i \in Provenance!Parsed : script[i].form # "dbLoadTemplate"
                                                   /\ p \in Provenance!Expanded(i)}
    <3>1. voters' = voters
      BY <1>4, <1>5
    <3>2. Provenance!Votes(p) = Provenance!Cardinality(voters)
      BY DEF Provenance!Votes
    <3>3. Provenance!Votes(p)' = Provenance!Cardinality(voters')
      BY DEF Provenance!Votes, Provenance!Cardinality
    <3>4. QED
      BY <3>1, <3>2, <3>3
  <2>2. Provenance!Candidates' = Provenance!Candidates
    BY <2>1 DEF Provenance!Candidates
  <2>3. QED
    BY <2>1, <2>2 DEF Provenance!Prefix
<1>7. Provenance!Resolved' = Provenance!Resolved
  BY <1>4, <1>5 DEF Provenance!Resolved, Provenance!Form
<1>8. Provenance!Served' = Provenance!Served
  BY <1>1, <1>2 DEF Provenance!Served
<1>9. Provenance!Linked' = Provenance!Linked
  BY <1>6 DEF Provenance!Linked, Provenance!Concrete
<1>10. Provenance!Plain' <=> Provenance!Plain
  BY <1>1, <1>2, <1>3 DEF Provenance!Plain
<1>11. QED
  BY <1>6, <1>7, <1>8, <1>9, <1>10

(* If reading and running a script agree, and the loader followed it all,  *)
(* what the IOC serves is what the loader found.                           *)
LEMMA PlainServed ==
  ASSUME script \in Seq(Provenance!Statements), Provenance!Plain, Provenance!Complete
  PROVE  Provenance!Served \subseteq Provenance!Resolved
<1> SUFFICES ASSUME NEW n \in Provenance!Served
             PROVE  n \in Provenance!Resolved
  OBVIOUS
<1>1. PICK i \in DOMAIN script :
        /\ Provenance!IsLoad(i)
        /\ \/ script[i].arg # Provenance!MacroP /\ n = <<script[i].arg, script[i].property>>
           \/ /\ script[i].arg = Provenance!MacroP /\ Provenance!SetsBefore(i) # {}
              /\ n = <<Provenance!Latest(Provenance!SetsBefore(i)), script[i].property>>
  BY DEF Provenance!Served
<1>2. script[i].form = "db" /\ i \in Provenance!Form("db")
  <2>1. script[i] \in Provenance!Statements /\ script[i].do = "load"
    BY <1>1 DEF Provenance!IsLoad
  <2>2. script[i].form \in Provenance!Loads
    BY <2>1 DEF Provenance!Statements, Provenance!Set, Provenance!Load
  <2>3. script[i].form \notin {"unseen", "other"}
    BY <1>1 DEF Provenance!Plain
  <2>4. i \in Provenance!Parsed
    BY <1>1, <2>3 DEF Provenance!Parsed
  <2>5. script[i].form \notin {"missing", "ambiguous", "templated", "iocshLoad", "dbLoadTemplate"}
    BY <2>4 DEF Provenance!Complete, Provenance!Form, Provenance!Unresolved, Provenance!Unfollowed
  <2>6. script[i].form = "db"
    BY <2>2, <2>3, <2>5 DEF Provenance!Loads
  <2>7. QED
    BY <2>4, <2>6 DEF Provenance!Form
<1>3. CASE script[i].arg # Provenance!MacroP
  <2>1. Provenance!Expanded(i) = {script[i].arg}
    BY <1>3 DEF Provenance!Expanded
  <2>2. QED
    BY <1>1, <1>2, <1>3, <2>1 DEF Provenance!Resolved
<1>4. CASE script[i].arg = Provenance!MacroP
  <2>1. /\ Provenance!SetsBefore(i) # {}
        /\ n = <<Provenance!Latest(Provenance!SetsBefore(i)), script[i].property>>
    BY <1>1, <1>4
  <2>2. Provenance!SetsBefore(i) \subseteq Provenance!Env
    <3>1. i \in 1 .. Len(script) /\ Len(script) \in Nat
      BY <1>1
    <3>2. QED
      BY <3>1 DEF Provenance!SetsBefore, Provenance!Env
  <2>3. Provenance!Env # {}
    BY <2>1, <2>2
  <2>4. Provenance!Latest(Provenance!SetsBefore(i)) = Provenance!Latest(Provenance!Env)
    BY <1>1, <1>4, <2>3 DEF Provenance!Plain
  <2>5. Provenance!Expanded(i) = {Provenance!Latest(Provenance!Env)}
    BY <1>4, <2>3 DEF Provenance!Expanded
  <2>6. QED
    BY <1>2, <2>1, <2>4, <2>5 DEF Provenance!Resolved
<1>5. QED
  BY <1>3, <1>4

(* Of which moment each answer to the cross-plane check is true.           *)
CrossTyped ==
  /\ script \in Seq(Provenance!Statements) /\ site \in moments
  /\ report.kind = "report" => at = "done"

Listed(w) == {n \in w.registered : n[1] \in Provenance!Prefix}
AnswersTrue ==
  /\ registry.kind = "live" =>
       \E w \in moments :
         registry.set = Listed(w) /\ ~(Provenance!Cardinality(Listed(w)) >= CfMax)
  /\ naming # Provenance!NoVerdict =>
       \E w \in moments : naming.registered = (w.device = "ACTIVE")

CrossInv ==
  /\ CrossTyped /\ AnswersTrue
  /\ Provenance!BrokenIfPlain /\ Provenance!AbsencesTrue /\ Provenance!OnlyLinkedJudged

LEMMA CrossStarts == Provenance!Init => CrossInv
BY DEF Provenance!Init, CrossInv, CrossTyped, AnswersTrue, Provenance!NoReport,
   Provenance!Reported, Provenance!BrokenIfPlain, Provenance!AbsencesTrue,
   Provenance!OnlyLinkedJudged

LEMMA CrossJoins ==
  ASSUME CrossInv, Provenance!Join
  PROVE  (Provenance!BrokenIfPlain /\ Provenance!AbsencesTrue /\ Provenance!OnlyLinkedJudged)'
<1>0. /\ CrossTyped /\ AnswersTrue
      /\ UNCHANGED <<script, shown, asked, site, moments, naming, registry>>
  BY DEF CrossInv, Provenance!Join, Provenance!fixed
<1> DEFINE open == asked.root /\ ~Provenance!Complete
           broken == IF asked.root /\ Provenance!Complete
                       THEN Provenance!Linked \ Provenance!Resolved ELSE {}
           unregistered == IF registry.kind = "live" THEN Provenance!Linked \ registry.set ELSE {}
           others == Provenance!Concrete \ Provenance!Linked
           full == registry.kind = "capped"
           failed == registry.kind = "withheld"
<1>1. /\ report'.kind = "report" /\ report'.naming = naming
      /\ report'.broken = broken /\ report'.unregistered = unregistered
      /\ report'.withheld.broken = open
  <2> DEFINE made == [kind |-> "report", naming |-> naming,
                      linked |-> Provenance!Linked, otherPrefix |-> others,
                      broken |-> broken, brokenWrite |-> Provenance!Written(broken),
                      unregistered |-> unregistered,
                      unregisteredWrite |-> Provenance!Written(unregistered),
                      withheld |-> [broken |-> open, capped |-> full, failed |-> failed]]
  <2>1. report' = made
    BY DEF Provenance!Join
  <2> HIDE DEF open, broken, unregistered, others, full, failed
  <2>2. QED
    BY <2>1
<1>2. Provenance!BrokenIfPlain'
  <2>1. ASSUME Provenance!Plain
        PROVE  broken \intersect Provenance!Served = {}
    BY <1>0, <2>1, PlainServed DEF CrossTyped
  <2>2. QED
    BY <1>0, <1>1, <2>1, ScriptFixed DEF Provenance!BrokenIfPlain
<1>3. Provenance!AbsencesTrue'
  <2>1. \A n \in unregistered : \E w \in moments : n \notin w.registered
    BY <1>0 DEF AnswersTrue, Listed, Provenance!Linked
  <2>2. (\A w \in moments : Provenance!Cardinality(Listed(w)) >= CfMax) => unregistered = {}
    BY <1>0 DEF AnswersTrue
  <2>3. naming # Provenance!NoVerdict =>
          \E w \in moments : naming.registered = (w.device = "ACTIVE")
    BY <1>0 DEF AnswersTrue
  <2> HIDE DEF unregistered
  <2>4. ASSUME NEW w
        PROVE  {n \in w.registered : n[1] \in Provenance!Prefix'} = Listed(w)
    BY <1>0, ScriptFixed DEF Listed
  <2>5. (\A w \in moments' : Provenance!Cardinality({n \in w.registered :
                                n[1] \in Provenance!Prefix'}) >= CfMax) => report'.unregistered = {}
    BY <1>0, <1>1, <2>2, <2>4
  <2>6. \A n \in report'.unregistered : \E w \in moments' : n \notin w.registered
    BY <1>0, <1>1, <2>1
  <2>7. report'.naming # Provenance!NoVerdict =>
          \E w \in moments' : report'.naming.registered = (w.device = "ACTIVE")
    BY <1>0, <1>1, <2>3
  <2>8. QED
    BY <2>5, <2>6, <2>7 DEF Provenance!AbsencesTrue, Provenance!NoVerdict, Provenance!Cardinality
<1>4. Provenance!OnlyLinkedJudged'
  <2>1. \A n \in broken \union unregistered :
          shown[n] \in {"read", "write"} /\ n[1] \in Provenance!Prefix
    BY DEF Provenance!Linked, Provenance!Concrete
  <2>2. \A n \in Provenance!Linked :
          asked.root /\ ~open /\ n \notin broken => n \in Provenance!Resolved
    OBVIOUS
  <2> HIDE DEF open, broken, unregistered
  <2>3. QED
    BY <1>0, <1>1, <2>1, <2>2, ScriptFixed DEF Provenance!OnlyLinkedJudged
<1>5. QED
  BY <1>2, <1>3, <1>4

LEMMA ListedFixed ==
  ASSUME UNCHANGED <<script, shown>>, NEW w
  PROVE  Listed(w)' = Listed(w)
BY ScriptFixed DEF Listed

LEMMA AnswersStay ==
  ASSUME AnswersTrue, UNCHANGED <<script, shown, registry, naming>>, moments \subseteq moments'
  PROVE  AnswersTrue'
<1>1. registry'.kind = "live" =>
        \E w \in moments' :
          registry'.set = Listed(w)' /\ ~(Provenance!Cardinality(Listed(w)') >= CfMax)
  BY ListedFixed DEF AnswersTrue
<1>2. QED
  BY <1>1 DEF AnswersTrue, Provenance!NoVerdict, Provenance!Cardinality

LEMMA CrossKept ==
  ASSUME CrossInv, Provenance!Next
  PROVE  CrossInv'
<1>0. /\ CrossTyped /\ AnswersTrue /\ site \in moments
      /\ Provenance!Reported => at = "done"
  BY DEF CrossInv, CrossTyped, Provenance!Reported
<1>1. ASSUME ~Provenance!Reported'
      PROVE  (Provenance!BrokenIfPlain /\ Provenance!AbsencesTrue /\ Provenance!OnlyLinkedJudged)'
  BY <1>1 DEF Provenance!BrokenIfPlain, Provenance!AbsencesTrue, Provenance!OnlyLinkedJudged
<1>2. ASSUME NEW code, Provenance!Fail(code)
      PROVE  CrossInv'
  <2>1. /\ UNCHANGED <<script, shown, asked, site, moments, naming, registry>>
        /\ report'.kind = "error"
    BY <1>2 DEF Provenance!Fail, Provenance!fixed
  <2>2. CrossTyped' /\ AnswersTrue' /\ ~Provenance!Reported'
    BY <1>0, <2>1, AnswersStay DEF CrossTyped, Provenance!Reported
  <2>3. QED
    BY <1>1, <2>2 DEF CrossInv
<1>3. CASE Provenance!Drift
  <2>1. /\ UNCHANGED <<script, shown, asked, at, naming, registry, report>>
        /\ at # "done" /\ moments' = moments \union {site'}
    BY <1>3 DEF Provenance!Drift, Provenance!fixed
  <2>2. CrossTyped' /\ AnswersTrue' /\ ~Provenance!Reported'
    BY <1>0, <2>1, AnswersStay DEF CrossTyped, Provenance!Reported
  <2>3. QED
    BY <1>1, <2>2 DEF CrossInv
<1>4. CASE Provenance!Start
  <2>1. CASE Provenance!Fail("INVALID_INPUT")
    BY <1>2, <2>1
  <2>2. CASE ~Provenance!Fail("INVALID_INPUT")
    <3>1. /\ UNCHANGED <<script, shown, asked, site, moments, naming, registry, report>>
          /\ at = "start"
      BY <1>4, <2>2 DEF Provenance!Start, Provenance!fixed
    <3>2. CrossTyped' /\ AnswersTrue' /\ ~Provenance!Reported'
      BY <1>0, <3>1, AnswersStay DEF CrossTyped, Provenance!Reported
    <3>3. QED
      BY <1>1, <3>2 DEF CrossInv
  <2>3. QED
    BY <2>1, <2>2
<1>5. CASE Provenance!AskNaming
  <2>1. CASE Provenance!Fail("READ_RATE_LIMIT_EXCEEDED")
    BY <1>2, <2>1
  <2>2. CASE ~Provenance!Fail("READ_RATE_LIMIT_EXCEEDED")
    <3> DEFINE active == site.device = "ACTIVE"
    <3>1. /\ UNCHANGED <<script, shown, asked, site, moments, registry, report>>
          /\ at = "naming"
          /\ naming' \in {[kind |-> "status", registered |-> active], Provenance!NoVerdict}
      BY <1>5, <2>2 DEF Provenance!AskNaming, Provenance!fixed
    <3>2. naming' # Provenance!NoVerdict => naming'.registered = active
      <4> HIDE DEF active
      <4>1. QED
        BY <3>1
    <3>3. AnswersTrue'
      <4>1. naming' # Provenance!NoVerdict =>
              \E w \in moments' : naming'.registered = (w.device = "ACTIVE")
        BY <1>0, <3>1, <3>2
      <4>2. registry'.kind = "live" =>
              \E w \in moments' :
                registry'.set = Listed(w)' /\ ~(Provenance!Cardinality(Listed(w)') >= CfMax)
        BY <1>0, <3>1, ListedFixed DEF AnswersTrue
      <4>3. QED
        BY <4>1, <4>2 DEF AnswersTrue, Provenance!NoVerdict, Provenance!Cardinality
    <3>4. CrossTyped' /\ ~Provenance!Reported'
      BY <1>0, <3>1 DEF CrossTyped, Provenance!Reported
    <3>5. QED
      BY <1>1, <3>3, <3>4 DEF CrossInv
  <2>3. QED
    BY <2>1, <2>2
<1>6. CASE Provenance!AskRegistry
  <2>1. CASE Provenance!Fail("READ_RATE_LIMIT_EXCEEDED")
    BY <1>2, <2>1
  <2>2. CASE ~Provenance!Fail("READ_RATE_LIMIT_EXCEEDED")
    <3>1. /\ UNCHANGED <<script, shown, asked, site, moments, naming, report>>
          /\ at = "registry"
          /\ registry' \in {Provenance!Answer, [kind |-> "withheld"], [kind |-> "none"]}
      BY <1>6, <2>2 DEF Provenance!AskRegistry, Provenance!fixed
    <3>2. registry'.kind = "live" =>
            registry'.set = Listed(site) /\ ~(Provenance!Cardinality(Listed(site)) >= CfMax)
      <4>1. CASE Provenance!Cardinality(Listed(site)) >= CfMax
        BY <3>1, <4>1 DEF Provenance!Answer, Provenance!Registered, Listed
      <4>2. CASE ~(Provenance!Cardinality(Listed(site)) >= CfMax)
        <5>1. Provenance!Answer = [kind |-> "live", set |-> Listed(site)]
          BY <4>2 DEF Provenance!Answer, Provenance!Registered, Listed
        <5>2. QED
          BY <3>1, <4>2, <5>1
      <4>3. QED
        BY <4>1, <4>2
    <3>3. AnswersTrue'
      <4>1. registry'.kind = "live" =>
              \E w \in moments' :
                registry'.set = Listed(w)' /\ ~(Provenance!Cardinality(Listed(w)') >= CfMax)
        <5>1. \A w : Listed(w)' = Listed(w)
          BY <3>1, ListedFixed
        <5>2. QED
          BY <1>0, <3>1, <3>2, <5>1
      <4>2. naming' # Provenance!NoVerdict =>
              \E w \in moments' : naming'.registered = (w.device = "ACTIVE")
        BY <1>0, <3>1 DEF AnswersTrue
      <4>3. QED
        BY <4>1, <4>2 DEF AnswersTrue, Provenance!NoVerdict, Provenance!Cardinality
    <3>4. CrossTyped' /\ ~Provenance!Reported'
      BY <1>0, <3>1 DEF CrossTyped, Provenance!Reported
    <3>5. QED
      BY <1>1, <3>3, <3>4 DEF CrossInv
  <2>3. QED
    BY <2>1, <2>2
<1>7. CASE Provenance!Join
  <2>1. /\ UNCHANGED <<script, shown, asked, site, moments, naming, registry>>
        /\ at' = "done"
    BY <1>7 DEF Provenance!Join, Provenance!fixed
  <2>2. CrossTyped' /\ AnswersTrue'
    BY <1>0, <2>1, AnswersStay DEF CrossTyped
  <2>3. QED
    BY <1>7, <2>2, CrossJoins DEF CrossInv
<1>8. QED
  BY <1>3, <1>4, <1>5, <1>6, <1>7 DEF Provenance!Next, Provenance!Steps

LEMMA CrossInvariant == FairSpec => []CrossInv
<1>1. Init => CrossInv
  BY CrossStarts DEF Init
<1>2. CrossInv /\ [Next]_vars => CrossInv'
  <2>1. ASSUME CrossInv, UNCHANGED crossplaneVars
        PROVE  CrossInv'
    <3>1. UNCHANGED <<script, shown, asked, site, moments, at, naming, registry, report>>
      BY <2>1 DEF crossplaneVars
    <3>2. CrossTyped' /\ AnswersTrue'
      BY <2>1, <3>1, AnswersStay DEF CrossInv, CrossTyped
    <3>3. Provenance!BrokenIfPlain'
      BY <2>1, <3>1, ScriptFixed DEF CrossInv, Provenance!BrokenIfPlain, Provenance!Reported
    <3>4. Provenance!AbsencesTrue'
      <4>1. \A w : {n \in w.registered : n[1] \in Provenance!Prefix'}
                   = {n \in w.registered : n[1] \in Provenance!Prefix}
        BY <3>1, ScriptFixed
      <4>2. Provenance!AbsencesTrue
        BY <2>1 DEF CrossInv
      <4>3. QED
        BY <3>1, <4>1, <4>2 DEF Provenance!AbsencesTrue, Provenance!Reported,
           Provenance!NoVerdict, Provenance!Cardinality
    <3>5. Provenance!OnlyLinkedJudged'
      BY <2>1, <3>1, ScriptFixed DEF CrossInv, Provenance!OnlyLinkedJudged, Provenance!Reported
    <3>6. QED
      BY <3>2, <3>3, <3>4, <3>5 DEF CrossInv
  <2>2. QED
    BY <2>1, CrossKept, OneAtATime
<1>3. QED
  BY <1>1, <1>2, PTL DEF FairSpec
-----------------------------------------------------------------------------
(* Every set of numbers has a least one.                                   *)
LEMMA LeastNumber ==
  ASSUME NEW S \in SUBSET Nat, S # {}
  PROVE  \E n \in S : \A k \in S : n <= k
<1> DEFINE Below == {p \in Nat \X Nat : p[1] < p[2]}
<1>1. IsWellFoundedOn(Below, Nat)
  BY NatLessThanWellFounded DEF OpToRel
<1>2. \A j, k \in Nat : j < k => <<j, k>> \in Below
  OBVIOUS
<1> HIDE DEF Below
<1>3. PICK n \in S : \A k \in S : ~(<<k, n>> \in Below)
  BY <1>1, WFMin
<1>4. ASSUME NEW k \in S
      PROVE  n <= k
  <2>1. n \in Nat /\ k \in Nat /\ <<k, n>> \notin Below
    BY <1>3
  <2>2. QED
    BY <1>2, <2>1
<1>5. QED
  BY <1>4

(* The batch of a lookup is never larger than a batch may be.              *)
LEMMA BatchFits ==
  ASSUME matched \subseteq Lookup!Channels
  PROVE  IsFiniteSet(Lookup!Read) /\ Lookup!Cardinality(Lookup!Read) <= MaxBatch
<1> DEFINE upTo(m) == {d \in matched : d <= m}
           size(S) == Lookup!Cardinality(S)
           bounds == {m \in Nat : \A c \in Lookup!Read : c <= m}
<1>0. \A S : size(S) = Cardinality(S)
  BY DEF Lookup!Cardinality, Cardinality
<1>1. IsFiniteSet(matched) /\ matched \subseteq 1 .. NumChannels
  <2>1. matched \subseteq 1 .. NumChannels
    BY DEF Lookup!Channels
  <2>2. IsFiniteSet(1 .. NumChannels)
    BY ReportsAssumption, FS_Interval
  <2>3. QED
    BY <2>1, <2>2, FS_Subset
<1>2. Lookup!Read \subseteq matched /\ IsFiniteSet(Lookup!Read)
  <2>1. Lookup!Read \subseteq matched
    BY DEF Lookup!Read
  <2>2. QED
    BY <1>1, <2>1, FS_Subset
<1>3. CASE Lookup!Read = {}
  BY <1>0, <1>3, FS_EmptySet, ReportsAssumption
<1>4. CASE Lookup!Read # {}
  <2>1. NumChannels \in bounds
    BY <1>1, <1>2, ReportsAssumption
  <2>2. PICK m \in bounds : \A k \in bounds : m <= k
    BY <2>1, LeastNumber
  <2>3. m \in Lookup!Read
    <3>1. PICK c \in Lookup!Read : c \in 1 .. NumChannels
      BY <1>1, <1>2, <1>4
    <3>2. m \in Nat /\ m - 1 \in Nat
      BY <3>1
    <3>3. ASSUME m \notin Lookup!Read
          PROVE  m - 1 \in bounds
      BY <1>1, <1>2, <3>2, <3>3
    <3>4. QED
      BY <2>2, <3>2, <3>3
  <2>4. Cardinality(upTo(m)) <= MaxBatch
    BY <1>0, <2>3 DEF Lookup!Read
  <2>5. Lookup!Read \subseteq upTo(m)
    BY <1>2
  <2>6. IsFiniteSet(upTo(m))
    BY <1>1, FS_Subset
  <2> HIDE DEF upTo, bounds
  <2>7. /\ Cardinality(Lookup!Read) <= Cardinality(upTo(m))
        /\ Cardinality(Lookup!Read) \in Nat /\ Cardinality(upTo(m)) \in Nat
    BY <1>2, <2>5, <2>6, FS_Subset, FS_CardinalityType
  <2>8. QED
    BY <1>0, <1>2, <2>4, <2>7, ReportsAssumption
<1>5. QED
  BY <1>2, <1>3, <1>4

(* Of which moment each answer to the lookup is true.                      *)
LookupTyped ==
  /\ matched \subseteq Lookup!Channels /\ beside \in Nat /\ lookupSite \in lookupMoments
  /\ lookup.kind = "report" => lookupAt = "done"

LiveTrue ==
  /\ lookupAt \in {"iocs", "merge"} => live.kind \in {"read", "malformed"}
  /\ live.kind = "read" =>
       /\ live.up \union live.down = Lookup!Read /\ live.up \subseteq Lookup!Read
       /\ \A c \in live.up : \E w \in lookupMoments : c \in w.served

IocsTrue ==
  /\ lookupAt = "merge" => iocs.kind \in {"disabled", "unreachable", "list"}
  /\ iocs.kind = "list" =>
       /\ \A c \in iocs.named : \E w \in lookupMoments : c \in w.registered \intersect w.named
       /\ iocs.capped \/ \A c \in matched \ iocs.named :
                            \E w \in lookupMoments : c \notin w.registered \/ c \notin w.named

LookupInv ==
  /\ LookupTyped /\ LiveTrue /\ IocsTrue
  /\ Lookup!RowsTrue /\ Lookup!MissingIocExplained

LEMMA LookupStarts == Lookup!Init => LookupInv
BY ReportsAssumption DEF Lookup!Init, LookupInv, LookupTyped, LiveTrue, IocsTrue, Lookup!NoReport,
   Lookup!NoLive, Lookup!Reported, Lookup!RowsTrue, Lookup!MissingIocExplained

LEMMA LookupMerges ==
  ASSUME LookupInv, Lookup!Merge
  PROVE  (Lookup!RowsTrue /\ Lookup!MissingIocExplained)'
<1>0. /\ LookupTyped /\ LiveTrue /\ IocsTrue /\ lookupAt = "merge"
      /\ UNCHANGED <<arguments, matched, fields, capped, beside, lookupSite, lookupMoments,
                     live, iocs>>
  BY DEF LookupInv, Lookup!Merge, Lookup!fixed
<1>1. /\ lookup'.channels = IF live.kind = "read" THEN live.up \union live.down ELSE {}
      /\ lookup'.connected = IF live.kind = "read" THEN live.up ELSE {}
      /\ lookup'.withIoc = IF live.kind = "read" THEN {c \in Lookup!Read : Lookup!HasIoc(c)} ELSE {}
  BY DEF Lookup!Merge
<1>2. /\ "live_capped" \in lookup'.notes <=> matched # Lookup!Read
      /\ "live" \in lookup'.notes <=> live.kind = "malformed"
      /\ "cf_disabled" \in lookup'.notes <=> iocs.kind = "disabled"
      /\ "cf_unreachable" \in lookup'.notes <=> iocs.kind = "unreachable"
      /\ "cf_capped" \in lookup'.notes <=> iocs.kind = "list" /\ iocs.capped
  BY DEF Lookup!Merge
<1>3. Lookup!Read \subseteq matched
  BY DEF Lookup!Read
<1>4. Lookup!RowsTrue'
  <2>1. \A c \in lookup'.connected : \E w \in lookupMoments : c \in w.served
    BY <1>0, <1>1 DEF LiveTrue
  <2>2. \A c \in lookup'.withIoc :
          \E w \in lookupMoments : c \in w.registered \intersect w.named
    BY <1>0, <1>1 DEF IocsTrue, Lookup!HasIoc
  <2>3. lookup'.channels # matched => lookup'.notes \intersect {"live", "live_capped"} # {}
    BY <1>0, <1>1, <1>2 DEF LiveTrue
  <2>4. Lookup!Cardinality(lookup'.channels) <= MaxBatch
    <3>1. lookup'.channels = Lookup!Read \/ lookup'.channels = {}
      BY <1>0, <1>1 DEF LiveTrue
    <3>2. Lookup!Cardinality({}) = 0
      BY FS_EmptySet DEF Lookup!Cardinality, Cardinality
    <3>3. QED
      BY <1>0, <3>1, <3>2, BatchFits, ReportsAssumption DEF LookupTyped
  <2>5. QED
    BY <1>0, <2>1, <2>2, <2>3, <2>4 DEF Lookup!RowsTrue, Lookup!Explained, Lookup!Cardinality
<1>5. Lookup!MissingIocExplained'
  <2>1. ASSUME NEW c \in lookup'.channels \ (lookup'.withIoc \union fields)
        PROVE  \/ \E w \in lookupMoments : c \notin w.registered \/ c \notin w.named
               \/ lookup'.notes \intersect {"cf_disabled", "cf_unreachable", "cf_capped"} # {}
    <3>1. live.kind = "read" /\ c \in Lookup!Read /\ c \in matched
      BY <1>0, <1>1, <1>3 DEF LiveTrue
    <3>2. ~Lookup!HasIoc(c) /\ c \notin fields
      BY <1>1, <2>1, <3>1
    <3>3. CASE iocs.kind = "list" /\ ~iocs.capped
      <4>1. c \notin iocs.named
        BY <3>2, <3>3 DEF Lookup!HasIoc
      <4>2. QED
        BY <1>0, <3>1, <3>3, <4>1 DEF IocsTrue
    <3>4. CASE iocs.kind \in {"disabled", "unreachable"} \/ (iocs.kind = "list" /\ iocs.capped)
      BY <1>2, <3>4
    <3>5. QED
      BY <1>0, <3>3, <3>4 DEF IocsTrue
  <2>2. QED
    BY <1>0, <2>1 DEF Lookup!MissingIocExplained, Lookup!Explained
<1>6. QED
  BY <1>4, <1>5

LEMMA LookupKept ==
  ASSUME LookupInv, Lookup!Next
  PROVE  LookupInv'
<1>0. LookupTyped /\ LiveTrue /\ IocsTrue /\ (Lookup!Reported => lookupAt = "done")
  BY DEF LookupInv, LookupTyped, Lookup!Reported
<1>1. ASSUME ~Lookup!Reported', LookupTyped', LiveTrue', IocsTrue'
      PROVE  LookupInv'
  BY <1>1 DEF LookupInv, Lookup!RowsTrue, Lookup!MissingIocExplained
<1>2. ASSUME UNCHANGED matched
      PROVE  Lookup!Read' = Lookup!Read
  BY <1>2 DEF Lookup!Read, Lookup!Cardinality
<1>3. CASE Lookup!Drift
  <2>1. /\ UNCHANGED <<arguments, matched, fields, capped, beside, lookupAt, live, iocs, lookup>>
        /\ lookupAt # "done" /\ lookupMoments' = lookupMoments \union {lookupSite'}
    BY <1>3 DEF Lookup!Drift, Lookup!fixed
  <2>2. LookupTyped' /\ LiveTrue' /\ IocsTrue'
    BY <1>0, <1>2, <2>1 DEF LookupTyped, LiveTrue, IocsTrue, Lookup!Channels
  <2>3. QED
    BY <1>0, <1>1, <2>1, <2>2 DEF Lookup!Reported
<1>4. CASE Lookup!Start
  <2>1. /\ UNCHANGED <<arguments, matched, fields, capped, beside, lookupSite, lookupMoments,
                       live, iocs>>
        /\ lookupAt = "start" /\ lookupAt' \in {"done", "read"}
        /\ lookup' = lookup \/ lookup'.kind = "error"
    BY <1>4 DEF Lookup!Start, Lookup!fixed
  <2>2. LookupTyped' /\ LiveTrue' /\ IocsTrue' /\ ~Lookup!Reported'
    BY <1>0, <1>2, <2>1 DEF LookupTyped, LiveTrue, IocsTrue, Lookup!Channels, Lookup!Reported
  <2>3. QED
    BY <1>1, <2>2
<1>5. CASE Lookup!ReadLive
  <2>1. /\ UNCHANGED <<arguments, matched, fields, capped, beside, lookupSite, lookupMoments,
                       iocs, lookup>>
        /\ lookupAt = "read" /\ lookupAt' = "iocs"
    BY <1>5 DEF Lookup!ReadLive, Lookup!fixed
  <2>2. LiveTrue'
    <3>1. CASE \E up \in SUBSET (Lookup!Read \intersect lookupSite.served) :
                 live' = [kind |-> "read", up |-> up, down |-> Lookup!Read \ up]
      <4>1. PICK up \in SUBSET (Lookup!Read \intersect lookupSite.served) :
              live' = [kind |-> "read", up |-> up, down |-> Lookup!Read \ up]
        BY <3>1
      <4>2. live'.kind = "read" /\ live'.up = up /\ live'.down = Lookup!Read \ up
        BY <4>1
      <4>3. QED
        BY <1>0, <1>2, <2>1, <4>2 DEF LiveTrue, LookupTyped
    <3>2. CASE live' = [kind |-> "malformed"]
      BY <3>2 DEF LiveTrue
    <3>3. QED
      BY <1>5, <3>1, <3>2 DEF Lookup!ReadLive
  <2>3. LookupTyped' /\ IocsTrue' /\ ~Lookup!Reported'
    BY <1>0, <2>1 DEF LookupTyped, IocsTrue, Lookup!Channels, Lookup!Reported
  <2>4. QED
    BY <1>1, <2>2, <2>3
<1>6. CASE Lookup!AskIocs
  <2>1. /\ UNCHANGED <<arguments, matched, fields, capped, beside, lookupSite, lookupMoments,
                       live, lookup>>
        /\ lookupAt = "iocs" /\ lookupAt' = "merge"
    BY <1>6 DEF Lookup!AskIocs, Lookup!fixed
  <2>2. IocsTrue'
    <3>1. CASE iocs' = [kind |-> "disabled"] \/ iocs' = Lookup!Unreachable
      BY <3>1 DEF IocsTrue, Lookup!Unreachable
    <3>2. CASE ~(iocs' = [kind |-> "disabled"] \/ iocs' = Lookup!Unreachable)
      <4> DEFINE size == Lookup!Cardinality(Lookup!Rows) + beside
                 over == size > CfMax
      <4>1. PICK rows \in SUBSET Lookup!Rows :
              /\ IF size <= CfMax THEN rows = Lookup!Rows ELSE Lookup!Cardinality(rows) <= CfMax
              /\ iocs' = Lookup!Listed(rows, size)
        BY <1>6, <3>2 DEF Lookup!AskIocs
      <4>2. size \in Nat
        <5>1. IsFiniteSet(Lookup!Rows)
          <6>1. IsFiniteSet(1 .. NumChannels)
            BY ReportsAssumption, FS_Interval
          <6>2. Lookup!Rows \subseteq 1 .. NumChannels
            BY <1>0 DEF LookupTyped, Lookup!Channels, Lookup!Rows
          <6>3. QED
            BY <6>1, <6>2, FS_Subset
        <5>2. Lookup!Cardinality(Lookup!Rows) = Cardinality(Lookup!Rows)
          BY DEF Lookup!Cardinality, Cardinality
        <5>3. Cardinality(Lookup!Rows) \in Nat
          BY <5>1, FS_CardinalityType
        <5>4. QED
          BY <1>0, <5>2, <5>3 DEF LookupTyped
      <4>3. ~over => rows = Lookup!Rows
        BY <4>1, <4>2, ReportsAssumption
      <4> DEFINE named == rows \intersect lookupSite.named
      <4>4. iocs' = [kind |-> "list", rows |-> rows, named |-> named, capped |-> over]
        BY <4>1 DEF Lookup!Listed
      <4> HIDE DEF over, size
      <4>5. iocs'.kind = "list" /\ iocs'.named = named /\ iocs'.capped = over
        BY <4>4
      <4>6. \A c \in named : c \in lookupSite.registered \intersect lookupSite.named
        BY DEF Lookup!Rows
      <4>7. ~over => \A c \in matched \ named :
                       c \notin lookupSite.registered \/ c \notin lookupSite.named
        BY <4>3 DEF Lookup!Rows
      <4> HIDE DEF named
      <4>8. CASE over
        BY <1>0, <2>1, <4>5, <4>6, <4>8 DEF IocsTrue, LookupTyped
      <4>9. CASE ~over
        BY <1>0, <2>1, <4>5, <4>6, <4>7, <4>9 DEF IocsTrue, LookupTyped
      <4>10. QED
        BY <4>8, <4>9
    <3>3. QED
      BY <3>1, <3>2
  <2>3. LookupTyped' /\ LiveTrue' /\ ~Lookup!Reported'
    BY <1>0, <1>2, <2>1 DEF LookupTyped, LiveTrue, Lookup!Channels, Lookup!Reported
  <2>4. QED
    BY <1>1, <2>2, <2>3
<1>7. CASE Lookup!Merge
  <2>1. /\ UNCHANGED <<arguments, matched, fields, capped, beside, lookupSite, lookupMoments,
                       live, iocs>>
        /\ lookupAt' = "done"
    BY <1>7 DEF Lookup!Merge, Lookup!fixed
  <2>2. LookupTyped' /\ LiveTrue' /\ IocsTrue'
    BY <1>0, <1>2, <2>1 DEF LookupTyped, LiveTrue, IocsTrue, Lookup!Channels
  <2>3. QED
    BY <1>7, <2>2, LookupMerges DEF LookupInv
<1>8. QED
  BY <1>3, <1>4, <1>5, <1>6, <1>7 DEF Lookup!Next, Lookup!Steps

LEMMA LookupInvariant == FairSpec => []LookupInv
<1>1. Init => LookupInv
  BY LookupStarts DEF Init
<1>2. LookupInv /\ [Next]_vars => LookupInv'
  <2>1. ASSUME LookupInv, UNCHANGED lookupVars
        PROVE  LookupInv'
    <3>1. UNCHANGED <<arguments, matched, fields, capped, beside, lookupSite, lookupMoments,
                      lookupAt, live, iocs, lookup>>
      BY <2>1 DEF lookupVars
    <3>2. Lookup!Read' = Lookup!Read
      BY <3>1 DEF Lookup!Read, Lookup!Cardinality
    <3>3. LookupTyped' /\ LiveTrue' /\ IocsTrue'
      BY <2>1, <3>1, <3>2 DEF LookupInv, LookupTyped, LiveTrue, IocsTrue, Lookup!Channels
    <3>4. Lookup!RowsTrue' /\ Lookup!MissingIocExplained'
      BY <2>1, <3>1 DEF LookupInv, Lookup!RowsTrue, Lookup!MissingIocExplained, Lookup!Reported,
         Lookup!Explained, Lookup!Cardinality
    <3>5. QED
      BY <3>3, <3>4 DEF LookupInv
  <2>2. QED
    BY <2>1, LookupKept, OneAtATime
<1>3. QED
  BY <1>1, <1>2, PTL DEF FairSpec

(* The cross-plane check and the lookup of a device: nothing that the IOC  *)
(* serves is called broken if the script is plain (for others it may be,   *)
(* see BrokenProven), what is called absent from a registry was, and a row *)
(* that names no IOC is of a field of a record, or had, at some moment of  *)
(* the call, no record that named one to this site, or a note explains it  *)
(* (crossplane_check, build_device_report).                                *)
THEOREM AbsencesAreEarned == FairSpec => []AbsencesEarned
<1>1. CrossInv /\ LookupInv => AbsencesEarned
  BY DEF CrossInv, LookupInv, AbsencesEarned
<1>2. QED
  BY <1>1, CrossInvariant, LookupInvariant, PTL
=============================================================================
