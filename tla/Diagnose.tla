------------------------------- MODULE Diagnose -------------------------------
(***************************************************************************)
(* diagnose_connection (services/diagnose.py): one live read and a look at *)
(* four planes, at once, and one verdict on why a PV does not answer.      *)
(*                                                                         *)
(* The looks are made at different moments of a world that goes on: an IOC *)
(* starts or dies, ChannelFinder learns of it later or never.  Each catches*)
(* its own errors, so that one that fails is withheld and the others stay. *)
(* What a plane is asked, and which of its answers are readable, is        *)
(* PlaneReads; here a look is one step that answers or fails.              *)
(***************************************************************************)
EXTENDS Integers, FiniteSets

CONSTANT MaxEvents   \* how often the world changes during a call

Planes == {"channelfinder", "naming", "archiver", "alarm"}
Looks == Planes \union {"live"}

(* serves: an IOC answers for the PV.  registered: its channel in          *)
(* ChannelFinder, by the pvStatus that was last recorded.  device: its     *)
(* device name in the naming service.                                      *)
World == [serves : BOOLEAN,
          registered : {"none", "up", "down"},
          device : {"active", "obsolete", "none"},
          archived : BOOLEAN]

VARIABLES
  setup,      \* plane -> not asked for, asked for without a URL, or on
  pattern,    \* the name matches more channels than its own
  world,
  moments,    \* ghost: what the world has been since the call began
  evidence,   \* look -> what it showed
  report

vars == <<setup, pattern, world, moments, evidence, report>>

(* Every plane asked for, or one of them not, or without its URL.          *)
AllOn == [p \in Planes |-> "on"]
Setups == {AllOn} \union {[AllOn EXCEPT ![p] = s] : p \in Planes, s \in {"unasked", "unset"}}

NoReport == [state |-> "none"]
Pending == [kind |-> "pending"]
Unasked == [kind |-> "unasked"]
Withheld == [kind |-> "withheld"]
Yes == [kind |-> "yes"]
No == [kind |-> "no"]
Row(status) == [kind |-> "yes", status |-> status]
Miss(capped) == [kind |-> "no", capped |-> capped]

(* Broken: with no tree the alarm plane is waited for.                     *)
HangingAtStart(p, s) ==
  CASE s[p] = "unasked" -> Unasked
    [] s[p] = "unset" -> Withheld
    [] s[p] = "on" -> Pending

(* Without a URL nothing is sent.  The alarm plane is asked with no tree,  *)
(* which it answers by itself, and neither with a yes nor with a no.       *)
AtStart(p, s) ==
  CASE s[p] = "unasked" -> Unasked
    [] s[p] = "unset" -> Withheld
    [] s[p] = "on" -> IF p = "alarm" THEN [kind |-> "unknown"] ELSE Pending

Init ==
  /\ setup \in Setups /\ pattern \in BOOLEAN
  /\ world \in World /\ moments = {world}
  /\ evidence = [l \in Looks |-> IF l = "live" THEN Pending ELSE AtStart(l, setup)]
  /\ report = NoReport

(* One thing changes at a time.                                            *)
Drift ==
  /\ report = NoReport /\ Cardinality(moments) <= MaxEvents
  /\ \/ \E b \in BOOLEAN : world' = [world EXCEPT !.serves = b]
     \/ \E r \in {"none", "up", "down"} : world' = [world EXCEPT !.registered = r]
     \/ \E d \in {"active", "obsolete", "none"} : world' = [world EXCEPT !.device = d]
     \/ \E b \in BOOLEAN : world' = [world EXCEPT !.archived = b]
  /\ world' # world
  /\ moments' = moments \union {world'}
  /\ UNCHANGED <<setup, pattern, evidence, report>>

Shows(l, e) ==
  /\ evidence[l] = Pending
  /\ evidence' = [evidence EXCEPT ![l] = e]
  /\ UNCHANGED <<setup, pattern, world, moments, report>>

(* Only PV_NOT_FOUND is told apart from the other codes.                   *)
Codes == {"PV_TIMEOUT", "PV_NOT_FOUND"}
Failure(code) == [kind |-> "no", code |-> code]
Internal == [kind |-> "internal"]

(* A value, a coded failure, which a lost message makes of a PV that is    *)
(* served too, or a failure of the probe itself.                           *)
ProbeLive ==
  \/ world.serves /\ Shows("live", Yes)
  \/ \E c \in Codes : Shows("live", Failure(c))
  \/ Shows("live", Internal)

(* Broken: a query that failed found nothing.                              *)
LyingGatherChannelFinder ==
  \/ world.registered # "none" /\ Shows("channelfinder", Row(world.registered))
  \/ Shows("channelfinder", Miss(FALSE))

(* The row of exactly this record; of a capped list it may be cut off.     *)
GatherChannelFinder ==
  \/ world.registered # "none" /\ Shows("channelfinder", Row(world.registered))
  \/ world.registered = "none" /\ \E c \in {FALSE, pattern} : Shows("channelfinder", Miss(c))
  \/ pattern /\ Shows("channelfinder", Miss(TRUE))
  \/ Shows("channelfinder", Withheld)

(* Registered is what is ACTIVE; an obsolete name counts as unregistered.  *)
GatherNaming ==
  \/ Shows("naming", IF world.device = "active" THEN Yes ELSE No)
  \/ Shows("naming", Withheld)

GatherArchiver ==
  \/ Shows("archiver", IF world.archived THEN Yes ELSE No)
  \/ Shows("archiver", Withheld)
-----------------------------------------------------------------------------
(* derive_cause: the live read alone decides the state.                    *)
State(live) ==
  CASE live = Yes -> "connected"
    [] live = Internal -> "unknown"
    [] OTHER -> "disconnected"

(* _derive_disconnected: ChannelFinder first, then the naming service.      *)
DeriveDisconnected(e) ==
  LET cf == e["channelfinder"] naming == e["naming"] IN
  CASE cf.kind = "yes" ->
         IF cf.status = "down" \/ e["live"].code = "PV_NOT_FOUND" THEN "ioc_down" ELSE "indeterminate"
    [] cf.kind = "no" /\ ~cf.capped -> CASE naming = Yes -> "unregistered"
                                         [] naming = No -> "name_typo"
                                         [] OTHER -> "indeterminate"
    [] OTHER -> "indeterminate"

Cause(e) ==
  CASE State(e["live"]) = "connected" -> "healthy"
    [] State(e["live"]) = "unknown" -> "indeterminate"
    [] OTHER -> DeriveDisconnected(e)

(* The archiver confirms a status that says down, never the absence of one.*)
Confidence(e) ==
  CASE Cause(e) = "healthy" -> "confirmed"
    [] Cause(e) = "indeterminate" -> "indeterminate"
    [] Cause(e) = "ioc_down" /\ e["channelfinder"].status = "down" /\ e["archiver"] = Yes ->
         "confirmed"
    [] OTHER -> "likely"

(* _collect_withheld.                                                      *)
WithheldPlanes(e) == {p \in Planes : e[p] = Withheld}

(* The gather returns once every look has.                                 *)
Report ==
  /\ report = NoReport /\ \A l \in Looks : evidence[l] # Pending
  /\ report' = [state |-> State(evidence["live"]), cause |-> Cause(evidence),
                confidence |-> Confidence(evidence), withheld |-> WithheldPlanes(evidence)]
  /\ UNCHANGED <<setup, pattern, world, moments, evidence>>

Steps == ProbeLive \/ GatherChannelFinder \/ GatherNaming \/ GatherArchiver \/ Report

Next == Drift \/ Steps

Spec == Init /\ [][Next]_vars
-----------------------------------------------------------------------------
Reported == report # NoReport

(* Only a value of the PV makes it connected, and nothing a plane says     *)
(* makes it so or takes it back.                                           *)
StateEarned ==
  Reported =>
    /\ report.state = "connected" => \E w \in moments : w.serves
    /\ report.state = "connected" <=> report.cause = "healthy"

(* Each thing a cause says was true at a moment of the call: not at one    *)
(* moment for all of them, since the looks are not made together.          *)
CauseEarned ==
  Reported =>
    /\ report.cause \in {"name_typo", "unregistered"} =>
         \E w \in moments : w.registered = "none"
    /\ report.cause = "name_typo" => \E w \in moments : w.device # "active"
    /\ report.cause = "unregistered" => \E w \in moments : w.device = "active"
    /\ report.cause = "ioc_down" => \E w \in moments : w.registered # "none"
    /\ report.cause = "ioc_down" /\ report.confidence = "confirmed" =>
         /\ \E w \in moments : w.registered = "down"
         /\ \E w \in moments : w.archived

(* A plane that is withheld counts for nothing: the verdict is what it is  *)
(* had the plane not been asked.  And so does one that answered neither    *)
(* way.                                                                    *)
SilencePlays == {"withheld", "unknown"}
SilenceIsNoAnswer ==
  Reported =>
    LET asked == [l \in Looks |-> IF evidence[l].kind \in SilencePlays THEN Unasked
                                  ELSE evidence[l]]
    IN report.cause = Cause(asked) /\ report.confidence = Confidence(asked)

(* What the repository says of the program and the code does not do: a     *)
(* plane that was "REQUESTED but could not contribute" is listed as        *)
(* withheld (DiagnoseReport.withheld, diagnose.py:161).                    *)
WithheldListed ==
  Reported => \A p \in Planes : setup[p] # "unasked" /\ evidence[p].kind \notin {"yes", "no"} =>
                p \in report.withheld
=============================================================================
