------------------------------ MODULE Crossplane ------------------------------
(***************************************************************************)
(* crossplane_check (services/orchestration.py, e3_db.py, crossplane.py):  *)
(* the channels of the display files against the startup script of one     *)
(* IOC, the databases it loads, ChannelFinder and the naming service.      *)
(*                                                                         *)
(* The script is read, not run.  What running it would have the IOC serve  *)
(* is defined beside what parse_st_cmd and load_ioc_db make of it.  A      *)
(* record is a device prefix and a property; a record's fields and the     *)
(* display instances that show it are one here, as they are to the joins.  *)
(***************************************************************************)
EXTENDS Integers, Sequences, FiniteSets, SequencesExt

CONSTANTS DevicePrefixes,   \* what the macro P may stand for: 1, 2 ... in the order of names
          Properties,
          MaxStatements,
          CfMax,
          MaxChanges    \* how often the registries change during a call

Names == DevicePrefixes \X Properties

(* How the displays show a channel: not, as what an operator reads or also *)
(* writes, under a name the walk guessed or could not resolve, or on a     *)
(* protocol that is no channel.                                            *)
Shows == {"not", "read", "write", "indeterminate", "local"}

(* A load of a database that declares one record: a .db found under the    *)
(* root, not found, found twice, or with a macro left in the name; a file  *)
(* of another suffix; a snippet or a template; a call in a form that the   *)
(* pattern for loads does not match.                                       *)
Loads == {"db", "missing", "ambiguous", "templated", "other", "iocshLoad",
          "dbLoadTemplate", "unseen"}
MacroP == 0   \* the argument "P=$(P)"
Set(prefix) == [do |-> "set", to |-> prefix]
Load(form, arg, property) == [do |-> "load", form |-> form, arg |-> arg, property |-> property]

Statements ==
  {Set(p) : p \in DevicePrefixes}
  \union {Load(f, a, q) : f \in Loads, a \in DevicePrefixes \union {MacroP}, q \in Properties}

VARIABLES
  script,     \* st.cmd
  shown,      \* name -> how the displays show it
  asked,      \* the database root, naming and ChannelFinder
  site,       \* what ChannelFinder holds, and the status of the device name
  moments,    \* ghost: what the site has been since the call began
  at,
  naming,     \* the verdict, or none
  registry,   \* what ChannelFinder answered
  report

vars == <<script, shown, asked, site, moments, at, naming, registry, report>>
fixed == <<script, shown, asked>>
-----------------------------------------------------------------------------
(* Running the script: P is what the last epicsEnvSet before the load made *)
(* it; a load with P unset fails.                                          *)
SetsBefore(i) == {j \in 1 .. i - 1 : script[j].do = "set"}
Latest(sets) == script[CHOOSE j \in sets : \A k \in sets : k <= j].to

IsLoad(i) == script[i].do = "load"
Served ==
  LET ran(i) ==
        CASE script[i].arg # MacroP -> {<<script[i].arg, script[i].property>>}
          [] script[i].arg = MacroP /\ SetsBefore(i) # {} ->
               {<<Latest(SetsBefore(i)), script[i].property>>}
          [] OTHER -> {}
  IN UNION {ran(i) : i \in {j \in DOMAIN script : IsLoad(j)}}

(* Reading it: every epicsEnvSet first, then the loads against what is     *)
(* left.                                                                   *)
Parsed == {i \in DOMAIN script : IsLoad(i) /\ script[i].form # "unseen"}
Env == SetsBefore(Len(script) + 1)

(* P= of a load, as a set that is empty while a macro is left in it.       *)
Expanded(i) ==
  CASE script[i].arg # MacroP -> {script[i].arg}
    [] script[i].arg = MacroP /\ Env # {} -> {Latest(Env)}
    [] OTHER -> {}

(* What instantiates records votes for the prefix, templates do not.  Of a *)
(* draw the first name wins.                                               *)
Votes(p) == Cardinality({i \in Parsed : script[i].form # "dbLoadTemplate" /\ p \in Expanded(i)})
Candidates == {p \in DevicePrefixes : Votes(p) > 0}
Prefix ==
  {p \in Candidates : \A q \in Candidates : Votes(q) < Votes(p) \/ (Votes(q) = Votes(p) /\ p <= q)}

(* ioc_db_pvs of the files that load_ioc_db finds.                         *)
Form(f) == {i \in Parsed : script[i].form = f}
Resolved == UNION {{<<p, script[i].property>> : p \in Expanded(i)} : i \in Form("db")}
Unresolved == {i \in Form("db") : Expanded(i) = {}} \union Form("templated")
Unfollowed == Form("iocshLoad") \union Form("dbLoadTemplate")

(* Broken: what the loader cannot follow does not count against it.        *)
CompleteOfWhatWasRead ==
  Resolved # {} /\ Form("missing") = {} /\ Form("ambiguous") = {} /\ Unresolved = {}

Complete ==
  /\ Resolved # {}
  /\ Form("missing") = {} /\ Form("ambiguous") = {} /\ Unresolved = {} /\ Unfollowed = {}
-----------------------------------------------------------------------------
(* The join: channels the displays resolve, by whether they begin with the *)
(* prefix of the IOC.                                                      *)
Concrete == {n \in Names : shown[n] \in {"read", "write"}}
Linked == {n \in Concrete : n[1] \in Prefix}
Written(names) == {n \in names : shown[n] = "write"}

Asked == [directory : BOOLEAN, root : BOOLEAN, naming : BOOLEAN,
          channelfinder : {"unasked", "unset", "on"}]
DeviceStatuses == {"ACTIVE", "OBSOLETE", "absent"}
NoReport == [kind |-> "none"]
NoVerdict == [kind |-> "none"]

Init ==
  /\ script \in Seq(Statements) /\ Len(script) <= MaxStatements
  /\ shown \in [Names -> Shows]
  /\ asked \in Asked
  /\ site \in [registered : SUBSET Names, device : DeviceStatuses]
  /\ moments = {site}
  /\ at = "start"
  /\ naming = NoVerdict /\ registry = [kind |-> "none"] /\ report = NoReport

Drift ==
  /\ at # "done" /\ Cardinality(moments) <= MaxChanges
  /\ \/ \E n \in Names : site' = [site EXCEPT !.registered = IF n \in @ THEN @ \ {n}
                                                             ELSE @ \union {n}]
     \/ \E d \in DeviceStatuses \ {site.device} : site' = [site EXCEPT !.device = d]
  /\ moments' = moments \union {site'}
  /\ UNCHANGED <<fixed, at, naming, registry, report>>

Fail(code) ==
  /\ at' = "done"
  /\ report' = [kind |-> "error", code |-> code]
  /\ UNCHANGED <<fixed, site, moments, naming, registry>>

Start ==
  /\ at = "start"
  /\ IF ~asked.directory THEN Fail("INVALID_INPUT")
     ELSE at' = "naming" /\ UNCHANGED <<fixed, site, moments, naming, registry, report>>

(* Nothing is asked about an IOC without a prefix.  A naming service that  *)
(* cannot answer leaves no verdict; only the throttle ends the call.       *)
AskNaming ==
  /\ at = "naming"
  /\ \/ /\ naming' \in IF asked.naming /\ Prefix # {}
                         THEN {[kind |-> "status", registered |-> site.device = "ACTIVE"], NoVerdict}
                         ELSE {NoVerdict}
        /\ at' = "registry"
        /\ UNCHANGED <<fixed, site, moments, registry, report>>
     \/ asked.naming /\ Prefix # {} /\ Fail("READ_RATE_LIMIT_EXCEEDED")

Registered == {n \in site.registered : n[1] \in Prefix}
Answer ==
  IF Cardinality(Registered) >= CfMax THEN [kind |-> "capped"]
  ELSE [kind |-> "live", set |-> Registered]

AskRegistry ==
  /\ at = "registry"
  /\ \/ /\ registry' \in IF asked.channelfinder = "on" /\ Prefix # {}
                           THEN {Answer, [kind |-> "withheld"]} ELSE {[kind |-> "none"]}
        /\ at' = "join"
        /\ UNCHANGED <<fixed, site, moments, naming, report>>
     \/ asked.channelfinder = "on" /\ Prefix # {} /\ Fail("READ_RATE_LIMIT_EXCEEDED")

(* broken takes a root, and a script whose loads were all followed;        *)
(* cf_unregistered takes a registry that answered in full.                 *)
Join ==
  /\ at = "join"
  /\ LET broken == IF asked.root /\ Complete THEN Linked \ Resolved ELSE {}
         unregistered == IF registry.kind = "live" THEN Linked \ registry.set ELSE {}
     IN report' = [kind |-> "report", naming |-> naming,
                   linked |-> Linked, otherPrefix |-> Concrete \ Linked,
                   broken |-> broken, brokenWrite |-> Written(broken),
                   unregistered |-> unregistered, unregisteredWrite |-> Written(unregistered),
                   withheld |-> [broken |-> asked.root /\ ~Complete,
                                 capped |-> registry.kind = "capped",
                                 failed |-> registry.kind = "withheld"]]
  /\ at' = "done"
  /\ UNCHANGED <<fixed, site, moments, naming, registry>>

Steps == Start \/ AskNaming \/ AskRegistry \/ Join
Next == Drift \/ Steps
Spec == Init /\ [][Next]_vars
-----------------------------------------------------------------------------
Reported == report.kind = "report"

(* The script is plain if reading and running it agree on P at every load  *)
(* and every load is of a form and a file that the parser takes up.        *)
Plain ==
  \A i \in DOMAIN script : IsLoad(i) =>
    /\ script[i].form \notin {"unseen", "other"}
    /\ script[i].arg = MacroP /\ Env # {} =>
         SetsBefore(i) # {} /\ Latest(SetsBefore(i)) = Latest(Env)

(* What is called broken of a plain script is a channel that the displays  *)
(* resolve and the IOC does not serve.                                     *)
BrokenIfPlain == Reported /\ Plain => report.broken \intersect Served = {}

(* What is called unregistered, and the verdict on the device name, was so *)
(* at some moment of the call.                                             *)
AbsencesTrue ==
  Reported =>
    /\ \A n \in report.unregistered : \E w \in moments : n \notin w.registered
    /\ (\A w \in moments : Cardinality({n \in w.registered : n[1] \in Prefix}) >= CfMax) =>
         report.unregistered = {}
    /\ report.naming # NoVerdict =>
         \E w \in moments : report.naming.registered = (w.device = "ACTIVE")

(* Nothing that the displays could not resolve, and no channel of another  *)
(* prefix, is judged; an empty list of either kind is a verdict only where *)
(* the report does not call it withheld.                                   *)
OnlyLinkedJudged ==
  Reported =>
    /\ \A n \in report.broken \union report.unregistered :
         shown[n] \in {"read", "write"} /\ n[1] \in Prefix
    /\ \A n \in Linked : asked.root /\ ~report.withheld.broken /\ n \notin report.broken =>
         n \in Resolved

(* What the repository says of the program and the code does not do: an    *)
(* IOC's set of channels is complete only if it holds "NO record-loading   *)
(* mechanism we cannot statically follow" (e3_db.py:405), and a broken     *)
(* channel is therefore one that the IOC does not serve.                   *)
BrokenProven == Reported => report.broken \intersect Served = {}
=============================================================================
