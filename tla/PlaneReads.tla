------------------------------ MODULE PlaneReads -------------------------------
(***************************************************************************)
(* The read tools of the REST planes that answer a question about one      *)
(* name, or list what a plane holds: lookup_device_name, is_archived,      *)
(* get_archive_info, get_appliance_info, is_alarm_configured,              *)
(* list_archived_pvs, get_pv_history, get_alarm_history and                *)
(* list_channel_vocabulary (services/checkers.py, tools/archiver.py and    *)
(* the clients under them).  find_channels has a module of its own.        *)
(*                                                                         *)
(* What every one of them promises is that only a plane that answered      *)
(* readably is taken for an answer: what could not be read is an error or  *)
(* withheld, never a no and never an empty list.  A call may take several  *)
(* requests, the plane may change between them, and the configured URL may *)
(* lead to a server that is not the plane at all.                          *)
(***************************************************************************)
EXTENDS Integers, Sequences, FiniteSets, SequencesExt

CONSTANTS MaxRecords,   \* the most a plane holds of anything listed
          Limit,        \* of the lists a caller asks for
          EsMax,        \* the size the alarm logger clamps a page to
          MaxChanges    \* how often a plane changes during a call

Verdicts == {"naming", "archived", "info", "appliance", "alarm"}
Lists == {"names", "history", "alarms", "vocabulary"}
Tools == Verdicts \union Lists

(* What the plane of a tool may hold.  The alarm plane of a PV: it is      *)
(* configured; it is, but the record of a sibling is the newer one; only a *)
(* sibling is; only other PVs of the tree are; there is no such tree.      *)
Statuses == {"ACTIVE", "OBSOLETE"}
SafeProperties == {"iocName"}
Truths(t) ==
  CASE t = "naming"     -> Statuses \union {"absent"}
    [] t = "archived"   -> {"archiving", "paused"}
    [] t = "info"       -> {"record", "none"}
    [] t = "appliance"  -> {"identity"}
    [] t = "alarm"      -> {"configured", "masked", "sibling", "others", "no tree"}
    [] t \in {"names", "history"} -> 0 .. MaxRecords
    [] t = "alarms"     -> BoundedSeq({"state", "config"}, MaxRecords)
    [] t = "vocabulary" -> [props : SUBSET {"iocName", "engineer"}, tags : SUBSET {"aa"}]

(* An argument a tool refuses: a window that cannot be read, a pattern for *)
(* one appliance, no alarm tree.  "command" filters an alarm history.      *)
Arguments(t) ==
  CASE t \in {"names", "history", "alarm"} -> {"plain", "bad"}
    [] t = "alarms" -> {"plain", "bad", "command"}
    [] OTHER -> {"plain"}

VARIABLES
  tool, argument,
  enabled,    \* the URL of the plane is set
  host,       \* who answers at the URL: the plane, or another server
  truth,      \* what the plane holds now
  moments,    \* ghost: what it has held since the call began
  at,         \* the next request of the call
  listed,     \* the property names a vocabulary has so far
  failed,     \* ghost: a request got no readable answer
  answer

vars == <<tool, argument, enabled, host, truth, moments, at, listed, failed, answer>>
callVars == <<tool, argument, enabled, host>>

NoAnswer == [kind |-> "none"]

Init ==
  /\ tool \in Tools
  /\ argument \in Arguments(tool)
  /\ enabled \in BOOLEAN
  /\ host \in {"own", "foreign"}
  /\ truth \in Truths(tool)
  /\ moments = {truth}
  /\ at = "start"
  /\ listed = {}
  /\ failed = FALSE
  /\ answer = NoAnswer

Drift ==
  /\ at # "done" /\ Cardinality(moments) <= MaxChanges
  /\ truth' \in Truths(tool) \ {truth}
  /\ moments' = moments \union {truth'}
  /\ UNCHANGED <<callVars, at, listed, failed, answer>>

Done(a) ==
  /\ answer' = a
  /\ at' = "done"

Error(code) == [kind |-> "error", code |-> code]
Withheld == [kind |-> "withheld"]
Verdict(yes, status) == [kind |-> "verdict", yes |-> yes, status |-> status]
Listing(total, capped) == [kind |-> "list", total |-> total, capped |-> capped]

(* The gate of the configuration and the arguments that are refused before *)
(* anything is sent.                                                       *)
Start ==
  /\ at = "start"
  /\ CASE tool = "names" /\ argument = "bad" -> Done(Error("INVALID_ARGUMENT"))
       [] OTHER ->
            IF ~enabled THEN Done([kind |-> "disabled"])
            ELSE IF argument # "bad"
                   THEN /\ at' = IF tool = "naming" THEN "head" ELSE "get"
                        /\ UNCHANGED answer
                   ELSE Done(IF tool = "alarm" THEN Withheld ELSE Error("INVALID_TIME_WINDOW"))
  /\ UNCHANGED <<callVars, truth, moments, listed, failed>>
-----------------------------------------------------------------------------
(* A request of a call that is under way.                                  *)
Request(t, phase) ==
  /\ tool = t /\ at = phase
  /\ UNCHANGED <<callVars, truth, moments>>

(* rest_get_json raised, or the answer is not readable (RestCall): no      *)
(* connection, a status, a payload of another shape, the throttle.         *)
ErrorOf(outcome) ==
  CASE outcome = "conn" -> Error("EPICS_CONNECTION_FAILED")
    [] outcome = "status" -> Error("HTTP")
    [] outcome = "junk" -> Error("RESPONSE_ERROR")
    [] outcome = "limited" -> Error("READ_RATE_LIMIT_EXCEEDED")

Unreadable(outcomes) ==
  /\ \E o \in outcomes : Done(ErrorOf(o))
  /\ failed' = TRUE
  /\ UNCHANGED listed

Raises == {"conn", "status", "junk", "limited"}

Readable(a) ==
  /\ Done(a)
  /\ UNCHANGED <<listed, failed>>

Onward(phase) ==
  /\ at' = phase
  /\ UNCHANGED <<listed, failed, answer>>

(* Of the naming plane every NamingServiceError withholds; the throttle    *)
(* raises another exception.                                               *)
Withhold ==
  /\ Done(Withheld)
  /\ failed' = TRUE
  /\ UNCHANGED listed
-----------------------------------------------------------------------------
(* check_connectivity: any answer will do.                                 *)
NamingHead ==
  /\ Request("naming", "head")
  /\ Onward("get") \/ Withhold

(* 204 or 404: the service's answer for a name it does not have, and that  *)
(* of any server without such a path.                                      *)
NotThere == host = "foreign" \/ truth = "absent"

(* A record: of the service, or of a server that serves one by chance.     *)
Records == IF host = "own" THEN {truth} \intersect Statuses ELSE Statuses

NamingGet ==
  /\ Request("naming", "get")
  /\ \/ Withhold
     \/ Unreadable({"limited"})
     \/ NotThere /\ Onward("identity")
     \/ \E status \in Records : Readable(Verdict(status = "ACTIVE", status))

(* Broken: whatever answers 204 or 404 is the naming service.              *)
LaxVerified == TRUE

(* _require_verified_identity: the swagger beacon; its probe swallows      *)
(* every failure.                                                          *)
Verified == host = "own"

NamingIdentity ==
  /\ Request("naming", "identity")
  /\ \/ Verified /\ Readable(Verdict(FALSE, ""))
     \/ Withhold

(* getPVStatus: a record even for an unknown PV.                           *)
ArchivedAnswer == Verdict(truth = "archiving", truth)

ArchivedGet ==
  /\ Request("archived", "get")
  /\ \/ Unreadable(Raises)
     \/ host = "own" /\ Readable(ArchivedAnswer)

(* getPVTypeInfo: a 404 is its answer for a PV that has no record.         *)
InfoAnswer(found) == Verdict(found, "")
NoRecord == host = "foreign" \/ truth = "none"

InfoGet ==
  /\ Request("info", "get")
  /\ \/ Unreadable(Raises)
     \/ host = "own" /\ truth = "record" /\ Readable(InfoAnswer(TRUE))
     \/ NoRecord /\ Readable(InfoAnswer(FALSE))

(* getApplianceInfo: there a 404 is an error like any other.               *)
ApplianceAnswer == Verdict(TRUE, truth)

ApplianceGet ==
  /\ Request("appliance", "get")
  /\ \/ Unreadable(Raises)
     \/ host = "own" /\ Readable(ApplianceAnswer)

(* The one newest config record that matches *<pv>: its leaf must be it.   *)
AlarmHit == host = "own" /\ truth = "configured"

AlarmGet ==
  /\ Request("alarm", "get")
  /\ \/ Unreadable(Raises)
     \/ AlarmHit /\ Readable(Verdict(TRUE, "leaf"))
     \/ ~AlarmHit /\ Onward("tree")

(* _alarm_tree_answers: a record of the bare tree; JSON of another shape   *)
(* is no proof.                                                            *)
TreeAnswers == host = "own" /\ truth # "no tree"

AlarmTree ==
  /\ Request("alarm", "tree")
  /\ \/ Unreadable(Raises \ {"junk"})
     \/ TreeAnswers /\ Readable(Verdict(FALSE, "tree"))
     \/ Withhold
     \/ ~TreeAnswers /\ Readable(Withheld)
-----------------------------------------------------------------------------
(* The first limit of what came, and whether more came.                    *)
Cut(fetched) == Listing(IF fetched < Limit THEN fetched ELSE Limit, fetched > Limit)

(* getAllPVs, getPVsForThisAppliance: limit + 1 is asked for, and a server *)
(* may ignore it.                                                          *)
Fetched == IF host = "foreign" THEN {0}
           ELSE {truth, IF truth < Limit + 1 THEN truth ELSE Limit + 1}

NamesAnswer(n) == Cut(n)

NamesGet ==
  /\ Request("names", "get")
  /\ \/ Unreadable(Raises)
     \/ \E n \in Fetched : Readable(NamesAnswer(n))

(* Broken: what cannot be read is left out.                                *)
SkippingSamples(count, broken) == Cut(count - Cardinality(broken))

(* getData.json gives every sample of the window.  One that cannot be read *)
(* among the first limit withholds them all.                               *)
Samples(count, broken) ==
  IF count > 0 /\ \E i \in broken : i <= Limit THEN Withheld ELSE Cut(count)

HistoryGet ==
  /\ Request("history", "get")
  /\ \/ Unreadable(Raises)
     \/ Withhold
     \/ host = "own" /\ \E broken \in SUBSET (1 .. truth) :
          /\ Done(Samples(truth, broken))
          /\ failed' = (\E i \in broken : i <= Limit)
          /\ UNCHANGED listed

(* /search/alarm: the newest, size = limit + 1, clamped by the server.     *)
Page(docs) ==
  LET size == IF EsMax < Limit + 1 THEN EsMax ELSE Limit + 1
  IN IF Len(docs) <= size THEN docs ELSE SubSeq(docs, 1, size)

(* With a command only config documents are kept; that more matched is     *)
(* taken from the page as it came.                                         *)
Configs(docs) == Cardinality({i \in 1 .. Len(docs) : docs[i] = "config"})
Alarms(page) ==
  LET kept == IF argument = "command" THEN Configs(page) ELSE Len(page)
      total == IF kept < Limit THEN kept ELSE Limit
  IN Listing(total, Len(page) > Limit \/ kept > Limit)

AlarmsGet ==
  /\ Request("alarms", "get")
  /\ \/ Unreadable(Raises)
     \/ host = "own" /\ Readable(Alarms(Page(truth)))
     \/ host = "foreign" /\ Readable(Alarms(<<>>))

(* Two listings, the properties reduced to the allowlist.                  *)
VocabularyGet ==
  /\ Request("vocabulary", "get")
  /\ \/ Unreadable(Raises)
     \/ /\ listed' = IF host = "own" THEN truth.props \intersect SafeProperties ELSE {}
        /\ at' = "tags"
        /\ UNCHANGED <<failed, answer>>

TagsGet ==
  /\ Request("vocabulary", "tags")
  /\ \/ Unreadable(Raises)
     \/ Readable([kind |-> "vocabulary", props |-> listed,
                  tags |-> IF host = "own" THEN truth.tags ELSE {}])

Steps ==
  \/ Start
  \/ NamingHead \/ NamingGet \/ NamingIdentity
  \/ ArchivedGet \/ InfoGet \/ ApplianceGet
  \/ AlarmGet \/ AlarmTree
  \/ NamesGet \/ HistoryGet \/ AlarmsGet
  \/ VocabularyGet \/ TagsGet

Next == Drift \/ Steps

Spec == Init /\ [][Next]_vars
-----------------------------------------------------------------------------
Said(yes) == answer.kind = "verdict" /\ answer.yes = yes

(* A no of the naming, archiver or alarm plane is one that the plane       *)
(* itself, and not some other server at its URL, gave, and that was true   *)
(* at a moment of the call.  (A name that has a record is taken as the     *)
(* record says, whoever sent it.)  The alarm plane's no includes that of a *)
(* masked PV, a limit of the logger that the client documents.             *)
NegativeEarned ==
  Said(FALSE) =>
    /\ tool = "naming" =>
         IF answer.status = "" THEN host = "own" /\ "absent" \in moments
                               ELSE host = "own" => answer.status \in moments
    /\ tool = "archived" => host = "own" /\ "paused" \in moments
    /\ tool = "alarm" => host = "own" /\ moments # {"configured"}

(* The same of the archive configuration: "not found" is the appliance's.  *)
InfoEarned ==
  Said(FALSE) /\ tool = "info" => host = "own" /\ "none" \in moments

(* A yes was true at a moment of the call.                                 *)
PositiveEarned ==
  Said(TRUE) =>
    /\ tool = "naming" => (host = "own" => "ACTIVE" \in moments)
    /\ tool = "archived" => host = "own" /\ "archiving" \in moments
    /\ tool = "info" => host = "own" /\ "record" \in moments
    /\ tool = "appliance" => host = "own"
    /\ tool = "alarm" => host = "own" /\ "configured" \in moments

(* A request that got no readable answer, at any point of the call, leaves *)
(* no verdict and no list behind.                                          *)
FailureNeverAnswers ==
  failed => answer.kind \in {"none", "error", "withheld"}

(* A list of the plane that is not called capped is all that the plane     *)
(* held at a moment of the call; a capped one leaves something out.        *)
Held(t) == IF tool = "alarms"
             THEN IF argument = "command" THEN Configs(t) ELSE Len(t)
             ELSE t

ListHonest ==
  host = "own" =>
    /\ answer.kind = "list" =>
         \E t \in moments :
           IF answer.capped THEN (IF tool = "alarms" THEN Len(t) ELSE t) > Limit
                            ELSE answer.total = Held(t)
    /\ answer.kind = "vocabulary" =>
         /\ \E t \in moments : answer.props = t.props \intersect SafeProperties
         /\ \E t \in moments : answer.tags = t.tags

=============================================================================
