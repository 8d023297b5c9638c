------------------------------- MODULE Coverage -------------------------------
(***************************************************************************)
(* coverage_audit (tools/coverage_audit.py, services/coverage.py): the     *)
(* records that the display files show against those that ChannelFinder    *)
(* registers, and for each of them whether it is archived and alarmed.     *)
(*                                                                         *)
(* The planes are asked one after the other and record by record, while    *)
(* the site goes on changing.  A record stands for every way to write it:  *)
(* the names of both sides lose their field suffix before they meet.       *)
(***************************************************************************)
EXTENDS Integers, FiniteSets

CONSTANTS Records,
          CfMax,        \* CHANNELFINDER_MAX_RESULTS
          MaxChanges    \* how often the site changes during an audit

Planes == {"archiver", "alarm"}

(* How the display files show a record: not at all; on a screen the walk   *)
(* expands; only past the context cap of a screen, which the diagnostics   *)
(* name; only past the cap on a globbed reference, which they count.       *)
Shows == {"not", "expanded", "context", "glob"}

VARIABLES
  arguments,  \* the directory, the planes asked for and their URLs
  scope,      \* the records whose names begin with the prefix
  shown,      \* record -> how the files show it
  site,       \* what is registered, archived, alarmed
  moments,    \* ghost: what the site has been since the audit began
  at,
  display,    \* D, as far as the walk found it
  registry,   \* what ChannelFinder answered
  cells,      \* plane -> record -> verdict, of those asked so far
  report

vars == <<arguments, scope, shown, site, moments, at, display, registry, cells, report>>
fixed == <<arguments, scope, shown>>

NoReport == [kind |-> "none"]

(* on: asked for and with a URL; the alarm plane needs a tree, too, which  *)
(* it may not name or which may have no configuration at all.              *)
Arguments == [directory : BOOLEAN, channelfinder : {"unasked", "unset", "on"},
              archiver : {"unasked", "unset", "on"},
              alarm : {"unasked", "unset", "unnamed", "empty", "on"}]

On(plane) == arguments[plane] \in {"on", "empty"}

NotAsked == [r \in Records |-> "not asked"]

Init ==
  /\ arguments \in Arguments
  /\ scope \in SUBSET Records
  /\ shown \in [Records -> Shows]
  /\ site \in [registered : SUBSET Records, archiver : SUBSET Records, alarm : SUBSET Records]
  /\ moments = {site}
  /\ at = "start"
  /\ display = {} /\ registry = [kind |-> "withheld"]
  /\ cells = [p \in Planes |-> NotAsked]
  /\ report = NoReport

Drift ==
  /\ at # "done" /\ Cardinality(moments) <= MaxChanges
  /\ \E part \in {"registered", "archiver", "alarm"}, r \in Records :
       site' = [site EXCEPT ![part] = IF r \in @ THEN @ \ {r} ELSE @ \union {r}]
  /\ moments' = moments \union {site'}
  /\ UNCHANGED <<fixed, at, display, registry, cells, report>>

Fail(code) ==
  /\ at' = "done"
  /\ report' = [kind |-> "error", code |-> code]
  /\ UNCHANGED <<fixed, site, moments, display, registry, cells>>

(* What the arguments alone decide is refused before the walk.             *)
Start ==
  /\ at = "start"
  /\ IF ~arguments.directory \/ arguments.alarm = "unnamed" THEN Fail("INVALID_INPUT")
     ELSE /\ at' = "walk"
          /\ UNCHANGED <<fixed, site, moments, display, registry, cells, report>>

(* analyze_display_index, and the scope as a filter on what it found.      *)
Walk ==
  /\ at = "walk"
  /\ display' = {r \in scope : shown[r] = "expanded"}
  /\ at' = "registry"
  /\ UNCHANGED <<fixed, site, moments, registry, cells, report>>

(* registered_under: one query for the scope.  A list of the maximum may   *)
(* have been cut and is withheld, as is a query that fails.  The throttle  *)
(* of reads is no ChannelFinderError and ends the audit.                   *)
Answered ==
  LET listed == site.registered \intersect scope IN
  IF Cardinality(listed) >= CfMax THEN [kind |-> "capped"]
  ELSE [kind |-> "live", set |-> listed]

AskRegistry ==
  /\ at = "registry"
  /\ \/ /\ registry' \in IF On("channelfinder") THEN {Answered, [kind |-> "withheld"]}
                         ELSE {[kind |-> "withheld"]}
        /\ at' = "records"
        /\ UNCHANGED <<fixed, site, moments, display, cells, report>>
     \/ On("channelfinder") /\ Fail("READ_RATE_LIMIT_EXCEEDED")

Live == registry.kind = "live"
Universe == IF Live THEN registry.set \union display ELSE display

(* _plane_verdict and the checkers: a failure withholds the one cell.      *)
Verdict(plane, r) == IF r \in site[plane] THEN "yes" ELSE "no"

(* Broken: a query that failed counts as a no.                             *)
FalsePlaneVerdict(plane, r) ==
  IF ~On(plane) THEN {"withheld"} ELSE {Verdict(plane, r), "no"}

PlaneVerdict(plane, r) ==
  IF ~On(plane) THEN {"withheld"}
  ELSE IF arguments[plane] = "empty" THEN {"withheld"}
  ELSE {Verdict(plane, r), "withheld"}

(* Record by record, the archiver before the alarm logger.                 *)
AskPlane(plane, r) ==
  /\ at = "records" /\ r \in Universe /\ cells[plane][r] = "not asked"
  /\ plane = "alarm" => cells["archiver"][r] # "not asked"
  /\ plane = "archiver" =>
       \A o \in Universe : cells["archiver"][o] # "not asked" => cells["alarm"][o] # "not asked"
  /\ \/ /\ \E v \in PlaneVerdict(plane, r) : cells' = [cells EXCEPT ![plane][r] = v]
        /\ UNCHANGED <<fixed, site, moments, at, display, registry, report>>
     \/ On(plane) /\ Fail("READ_RATE_LIMIT_EXCEEDED")
-----------------------------------------------------------------------------
(* One screen past the context cap and any screen may hide a record.       *)
ContextCapped == \E r \in Records : shown[r] = "context"

HasDisplay(r) ==
  CASE r \in display -> "yes"
    [] r \notin display /\ ContextCapped -> "withheld"
    [] OTHER -> "no"

RegisteredCf(r) ==
  CASE ~Live -> "withheld"
    [] Live /\ r \in registry.set -> "yes"
    [] OTHER -> "no"

Row(r) == [display |-> HasDisplay(r), registered |-> RegisteredCf(r),
           archiver |-> cells["archiver"][r], alarm |-> cells["alarm"][r]]

Gaps(r) == {p \in {"display", "archiver", "alarm"} : Row(r)[p] = "no"}

(* Of what is delivered only: what is not registered is no gap of it.      *)
Delivered == {r \in Universe : RegisteredCf(r) = "yes"}

AuditCoverage ==
  [kind |-> "report",
   rows |-> [r \in Universe |-> Row(r)],
   both |-> IF Live THEN registry.set \intersect display ELSE {},
   cfOnly |-> IF Live THEN registry.set \ display ELSE {},
   displayOnly |-> IF Live THEN display \ registry.set ELSE {},
   critical |-> {r \in Delivered : Gaps(r) # {}},
   excluded |-> {r \in Delivered : Gaps(r) = {} /\ \E p \in {"display", "archiver", "alarm"} :
                                                     Row(r)[p] = "withheld"}]

Finish ==
  /\ at = "records"
  /\ \A r \in Universe, p \in Planes : cells[p][r] # "not asked"
  /\ report' = AuditCoverage
  /\ at' = "done"
  /\ UNCHANGED <<fixed, site, moments, display, registry, cells>>

Steps ==
  \/ Start \/ Walk \/ AskRegistry \/ Finish
  \/ \E p \in Planes, r \in Records : AskPlane(p, r)

Next == Drift \/ Steps

Spec == Init /\ [][Next]_vars
-----------------------------------------------------------------------------
Reported == report.kind = "report"

(* A yes or a no is what a plane held at some moment of the audit; what    *)
(* failed, was cut off or was not asked says neither.  A missing display   *)
(* is asserted of a record the files do not show, except past the cap on   *)
(* globbed references.                                                     *)
CellsTrue ==
  Reported => \A r \in DOMAIN report.rows :
    LET row == report.rows[r] IN
    /\ row.display = "yes" => shown[r] = "expanded"
    /\ row.display = "no" => shown[r] \in {"not", "glob"}
    /\ row.registered = "yes" => \E w \in moments : r \in w.registered
    /\ row.registered = "no" => \E w \in moments : r \notin w.registered
    /\ \A p \in Planes :
         /\ row[p] = "yes" => \E w \in moments : r \in w[p]
         /\ row[p] = "no" => \E w \in moments : r \notin w[p]

(* A critical record is delivered and lacks a plane; every record that the *)
(* registry listed, the displays lack or a plane denied is found among the *)
(* lists; a registry cut off at its maximum fills none of them.            *)
CriticalProven ==
  Reported =>
    /\ \A r \in report.critical :
         /\ \E w \in moments : r \in w.registered
         /\ \/ shown[r] \in {"not", "glob"}
            \/ \E p \in Planes, w \in moments : On(p) /\ r \notin w[p]
    /\ (\A w \in moments : Cardinality(w.registered \intersect scope) >= CfMax) =>
         report.critical \union report.cfOnly \union report.displayOnly \union report.both = {}
    /\ \A r \in report.excluded : r \notin report.critical

(* Until the site changes the lists leave nothing out of what is delivered *)
(* or shown under the scope.                                               *)
NothingLeftOut ==
  Reported /\ Live /\ Cardinality(moments) = 1 =>
    /\ report.both \union report.cfOnly = site.registered \intersect scope
    /\ report.displayOnly = {r \in scope : shown[r] = "expanded"} \ site.registered
    /\ DOMAIN report.rows \subseteq scope

(* What the repository says and the code does not do: a gap in             *)
(* critical_uncovered is "proven" and "an incomplete display inventory     *)
(* withholds rather than false-flag a gap" (coverage.py:26).               *)
DisplayGapProven ==
  Reported => \A r \in DOMAIN report.rows : report.rows[r].display = "no" => shown[r] = "not"
=============================================================================
