------------------------------- MODULE MCReports -------------------------------
(***************************************************************************)
(* The composite tools for TLC: the diagnosis of a connection, the         *)
(* coverage audit, the cross-plane check, the lookup of a device, the      *)
(* self-check and the start of the server.  They share no state; a         *)
(* behaviour is one run of one of them, the others at rest.                *)
(***************************************************************************)
EXTENDS Integers, Sequences, FiniteSets, SequencesExt

CONSTANTS MaxEvents,                                     \* Diagnose
          Records, CfMax, MaxChanges,                    \* Coverage and below
          DevicePrefixes, Properties, MaxStatements,     \* Crossplane
          NumChannels, MaxBatch                          \* DeviceLookup

ASSUME ReportsAssumption == CfMax \in Nat /\ NumChannels \in Nat /\ MaxBatch \in Nat

VARIABLES setup, pattern, world, worlds, evidence, diagnosis
VARIABLES auditArguments, scope, auditShown, auditSite, auditMoments, auditAt,
          display, auditRegistry, cells, audit
VARIABLES script, shown, asked, site, moments, at, naming, registry, report
VARIABLES arguments, matched, fields, capped, beside, lookupSite, lookupMoments,
          lookupAt, live, iocs, lookup
VARIABLES urls, probePv, hosts, sent, checks, exitCode
VARIABLES config, environ, bootAt, olog, writes
VARIABLE part    \* what the behaviour is a run of

diagnosisVars == <<setup, pattern, world, worlds, evidence, diagnosis>>
auditVars == <<auditArguments, scope, auditShown, auditSite, auditMoments, auditAt,
               display, auditRegistry, cells, audit>>
crossplaneVars == <<script, shown, asked, site, moments, at, naming, registry, report>>
lookupVars == <<arguments, matched, fields, capped, beside, lookupSite, lookupMoments,
                lookupAt, live, iocs, lookup>>
doctorVars == <<urls, probePv, hosts, sent, checks, exitCode>>
bootVars == <<config, environ, bootAt, olog, writes>>
vars == <<part, diagnosisVars, auditVars, crossplaneVars, lookupVars, doctorVars, bootVars>>

Diagnosis == INSTANCE Diagnose WITH moments <- worlds, report <- diagnosis
Audit == INSTANCE Coverage WITH
           arguments <- auditArguments, shown <- auditShown, site <- auditSite,
           moments <- auditMoments, at <- auditAt, registry <- auditRegistry, report <- audit
Provenance == INSTANCE Crossplane
Lookup == INSTANCE DeviceLookup WITH
            site <- lookupSite, moments <- lookupMoments, at <- lookupAt, report <- lookup
SelfCheck == INSTANCE Doctor
Boot == INSTANCE Boot WITH at <- bootAt
-----------------------------------------------------------------------------
(* The diagnosis: every plane on, or one of them not.                      *)
DiagnosisInit ==
  setup \in {Diagnosis!AllOn} \union {[Diagnosis!AllOn EXCEPT ![p] = IF p = "naming" THEN "unasked" ELSE "unset"] :
                                      p \in {"channelfinder", "naming", "archiver"}}

(* The audit: the arguments that say where a verdict may come from; a      *)
(* plane that is not asked holds nothing.                                  *)
AuditOf(cf, archiver, alarm) ==
  [directory |-> TRUE, channelfinder |-> cf, archiver |-> archiver, alarm |-> alarm]
Told == CHOOSE r \in Records : TRUE
AuditInit ==
  /\ auditArguments \in
       {AuditOf("on", "on", "unasked"), AuditOf("on", "unset", "on"), AuditOf("on", "unasked", "empty"),
        AuditOf("unset", "on", "unset"), AuditOf("on", "on", "unnamed"),
        [AuditOf("unasked", "on", "on") EXCEPT !.directory = FALSE]}
  /\ scope \in {Records, {Told}}
  /\ auditShown \in [Records -> {"not", "expanded", "context", "glob"}]
  /\ \A r \in Records \ {Told} : auditShown[r] \in {"not", "expanded"}
  /\ auditSite \in [registered : SUBSET Records, archiver : SUBSET Records, alarm : SUBSET Records]
  /\ \A p \in {"archiver", "alarm"} : auditArguments[p] \notin {"on", "empty"} => auditSite[p] = {}
AuditRest ==
  /\ auditArguments = AuditOf("unset", "unset", "unset") /\ scope = {}
  /\ auditShown = [r \in Records |-> "not"]
  /\ auditSite = [registered |-> {}, archiver |-> {}, alarm |-> {}]

(* Scripts are varied under one display view, with the registries out of   *)
(* the question; views and registries under short scripts.                 *)
AProperty == CHOOSE q \in Properties : TRUE
MCStatements ==
  {Provenance!Set(p) : p \in DevicePrefixes}
  \union {Provenance!Load("db", a, q) : a \in {1, Provenance!MacroP}, q \in Properties}
  \union {Provenance!Load(f, 1, AProperty) : f \in Provenance!Loads \ {"db"}}
Viewed(views) == [n \in Provenance!Names |-> IF n \in DOMAIN views THEN views[n] ELSE "not"]
AskedOf(root, naming_, cf) ==
  [directory |-> TRUE, root |-> root, naming |-> naming_, channelfinder |-> cf]
Quiet == [registered |-> {}, device |-> "absent"]

ScriptInit ==
  /\ script \in BoundedSeq(MCStatements, MaxStatements)
  /\ \E n \in Provenance!Names, v \in {"read", "write"} : shown = Viewed([m \in {n} |-> v])
  /\ asked = AskedOf(TRUE, FALSE, "unset") /\ site = Quiet
PlaneInit ==
  /\ script \in {<<>>, <<Provenance!Load("iocshLoad", 1, AProperty)>>}
  /\ shown \in {Viewed([k \in {<<1, AProperty>>, m} |-> IF k = m THEN "write" ELSE v]) :
                   m \in Provenance!Names, v \in Provenance!Shows}
  /\ asked \in {AskedOf(FALSE, b, c) : b \in BOOLEAN, c \in {"unasked", "unset", "on"}}
               \union {[AskedOf(TRUE, TRUE, "on") EXCEPT !.directory = FALSE]}
  /\ site \in [registered : SUBSET Provenance!Names, device : Provenance!DeviceStatuses]
  /\ asked.naming \/ site.device = "absent"
  /\ asked.channelfinder = "on" \/ site.registered = {}
CrossplaneRest ==
  /\ script = <<>> /\ shown = Viewed(<<>>) /\ asked = AskedOf(FALSE, FALSE, "unasked") /\ site = Quiet

(* The lookup: what the arguments keep from mattering is not varied.       *)
LookupInit ==
  /\ Lookup!Init
  /\ beside \in {0, CfMax}
  /\ Cardinality(fields) <= 1
  /\ arguments \in {"empty_query", "no_directory"} => fields = {} /\ matched = {} /\ beside = 0
  /\ capped => lookupSite = [served |-> {}, registered |-> {}, named |-> {}]
  /\ lookupSite.named \in {{}, Lookup!Channels}
LookupRest ==
  /\ arguments = "no_url" /\ matched = {} /\ fields = {} /\ capped = FALSE /\ beside = 0
  /\ lookupSite = [served |-> {}, registered |-> {}, named |-> {}]

(* The self-check: one plane at a time, two that share nothing, none; a    *)
(* plane of its own archiver.                                              *)
Own == [name |-> "own", works |-> "yes"]
Alone(p) == {[q \in SelfCheck!RestPlanes |-> IF q = p THEN h ELSE Own] : h \in
               IF p \in {"archiver", "alarm"} THEN SelfCheck!Hosts
               ELSE [name : {"own", "foreign", "none"}, works : {"yes"}]}
DoctorInit ==
  \/ urls = {} /\ hosts = [q \in SelfCheck!RestPlanes |-> Own]
  \/ \E p \in SelfCheck!RestPlanes : urls = {p} /\ probePv = FALSE /\ hosts \in Alone(p)
  \/ urls = {"alarm", "naming"} /\ probePv = FALSE /\ hosts \in Alone("alarm") \union Alone("naming")
DoctorRest ==
  urls = {} /\ probePv = FALSE /\ hosts = [q \in SelfCheck!RestPlanes |-> Own]

(* The start: the environment of one provider is varied at a time.         *)
Safe == [auto |-> "NO", hosts |-> {}]
BootInit ==
  \E p \in Boot!Providers, e \in Boot!Environ :
    environ = [q \in Boot!Providers |-> IF q = p THEN e ELSE Safe]
BootRest ==
  /\ environ = [q \in Boot!Providers |-> Safe]
  /\ config = [pv |-> FALSE, olog |-> FALSE, pattern |-> "empty", audit |-> "none", provider |-> "pva"]

Init ==
  /\ part \in {"diagnosis", "audit", "crossplane", "lookup", "doctor", "boot"}
  /\ \/ part = "diagnosis" /\ DiagnosisInit
     \/ /\ part # "diagnosis" /\ setup = Diagnosis!AllOn /\ pattern = FALSE
        /\ world = [serves |-> FALSE, registered |-> "none", device |-> "none", archived |-> FALSE]
  /\ (part = "audit" /\ AuditInit) \/ (part # "audit" /\ AuditRest)
  /\ (part = "crossplane" /\ (ScriptInit \/ PlaneInit)) \/ (part # "crossplane" /\ CrossplaneRest)
  /\ (part = "lookup" /\ LookupInit) \/ (part # "lookup" /\ LookupRest)
  /\ (part = "doctor" /\ DoctorInit) \/ (part # "doctor" /\ DoctorRest)
  /\ (part = "boot" /\ BootInit) \/ (part # "boot" /\ BootRest)
  /\ Diagnosis!Init /\ Audit!Init /\ Provenance!Init /\ Lookup!Init /\ SelfCheck!Init /\ Boot!Init

Rest(p, others) == IF part = p THEN TRUE ELSE UNCHANGED others
Elsewhere(p) ==
  /\ part = p /\ UNCHANGED part
  /\ Rest("diagnosis", diagnosisVars) /\ Rest("audit", auditVars)
  /\ Rest("crossplane", crossplaneVars) /\ Rest("lookup", lookupVars)
  /\ Rest("doctor", doctorVars) /\ Rest("boot", bootVars)

(* What the outside world does, and what the tools do.                     *)
Drift ==
  \/ Elsewhere("diagnosis") /\ Diagnosis!Drift
  \/ Elsewhere("audit") /\ Audit!Drift
  \/ Elsewhere("crossplane") /\ asked.root = FALSE /\ Provenance!Drift
  \/ Elsewhere("lookup") /\ Lookup!Drift

Diagnosing == part = "diagnosis" /\ Diagnosis!Steps /\ Elsewhere("diagnosis")
Auditing == part = "audit" /\ Audit!Steps /\ Elsewhere("audit")
Joining == part = "crossplane" /\ Provenance!Steps /\ Elsewhere("crossplane")
LookingUp == part = "lookup" /\ Lookup!Steps /\ Elsewhere("lookup")
Checking == part = "doctor" /\ SelfCheck!Steps /\ Elsewhere("doctor")
Serving == part = "boot" /\ Boot!Next /\ Elsewhere("boot")

Steps == Diagnosing \/ Auditing \/ Joining \/ LookingUp \/ Checking \/ Serving

Next == Drift \/ Steps

(* Every request ends within its timeout, and of a behaviour one part has  *)
(* steps.                                                                  *)
Fairness == WF_vars(Steps)

FairSpec == Init /\ [][Next]_vars /\ Fairness
-----------------------------------------------------------------------------
(* A verdict on a connection: only a value of the PV makes it connected,   *)
(* each thing a cause says was true at a moment of the call, and a plane   *)
(* that did not answer counts for nothing.                                 *)
DiagnosisEarned ==
  Diagnosis!StateEarned /\ Diagnosis!CauseEarned /\ Diagnosis!SilenceIsNoAnswer

(* The audit: each yes and no was so, what is critical is delivered and    *)
(* lacks a plane, and the lists leave nothing out.                         *)
AuditEarned == Audit!CellsTrue /\ Audit!CriticalProven /\ Audit!NothingLeftOut

(* The cross-plane check: of a script whose macros and load commands are   *)
(* plain (BrokenIfPlain; see BrokenProven for others) what is called       *)
(* broken was not loaded, what is called absent from a registry was, and   *)
(* only what is linked is judged.  The lookup of a device: what a row says *)
(* was so, and where it names no IOC, no record that names one to this     *)
(* site was registered at some moment, or a note explains it.              *)
AbsencesEarned ==
  /\ Provenance!BrokenIfPlain /\ Provenance!AbsencesTrue /\ Provenance!OnlyLinkedJudged
  /\ Lookup!RowsTrue /\ Lookup!MissingIocExplained

(* The self-check and the start: a plane is identified by its own name     *)
(* only, the exit code follows from what answered, and what may write or   *)
(* is called isolated does not leave the host.                             *)
PostureEarned ==
  /\ SelfCheck!IdentityEarned /\ SelfCheck!ExitEarned /\ SelfCheck!OnlyConfiguredAsked
  /\ Boot!WritesStayHere /\ Boot!PostureTrue

(* No channel that the IOC serves is reported as broken.                   *)
BrokenProven == Provenance!BrokenProven

(* Every report is made, and a start ends in a server or in a refusal.     *)
Ended ==
  CASE part = "diagnosis" -> diagnosis # Diagnosis!NoReport
    [] part = "audit" -> auditAt = "done"
    [] part = "crossplane" -> at = "done"
    [] part = "lookup" -> lookupAt = "done"
    [] part = "doctor" -> exitCode # "running"
    [] part = "boot" -> bootAt # "boot"

EveryReportEnds == <>Ended
=============================================================================
