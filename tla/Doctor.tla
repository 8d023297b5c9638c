-------------------------------- MODULE Doctor --------------------------------
(***************************************************************************)
(* epics-doctor (services/doctor.py, cli_doctor.py): one look at every     *)
(* configured plane, all at once, and an exit code.                        *)
(*                                                                         *)
(* A look at a REST plane is a probe of its transport, a request in which  *)
(* the service names itself, and for the archiver one for its metrics.     *)
(* Each may fail by itself: the plane may go down between them, and a      *)
(* proxy may answer for some paths only.  What a failure makes of a plane  *)
(* is a status, what the statuses make of the run is the exit code.        *)
(***************************************************************************)
EXTENDS FiniteSets

RestPlanes == {"channelfinder", "archiver", "archiver_retrieval", "alarm", "naming", "olog"}
Planes == RestPlanes \union {"live"}

(* Who answers at the URL of a plane, by the name it gives: the service,   *)
(* another one or a proxy, or none; and what the service would say of      *)
(* itself: of the Elasticsearch it stands on, or of what it archives.      *)
Hosts == [name : {"own", "foreign", "none"}, works : {"yes", "no", "unsaid"}]

VARIABLES
  urls,      \* the planes whose URL variable is set
  probePv,   \* --probe-pv was given
  hosts,
  sent,      \* ghost: plane -> how the requests to it went, by request
  checks,    \* plane -> what run_doctor has of it
  exitCode

vars == <<urls, probePv, hosts, sent, checks, exitCode>>

Pending(next) == [status |-> "pending", next |-> next]
Check(status, identified) == [status |-> status, identified |-> identified]

Init ==
  /\ urls \in SUBSET RestPlanes
  /\ probePv \in BOOLEAN
  /\ hosts \in [RestPlanes -> Hosts]
  /\ sent = [p \in Planes |-> {}]
  /\ checks = [p \in Planes |-> Pending("start")]
  /\ exitCode = "running"

At(p, request) == checks[p] = Pending(request)

Looked(p, check) == checks' = [checks EXCEPT ![p] = check]

(* A request of plane p went as outcome says.                              *)
Request(p, request, outcome) ==
  /\ At(p, request)
  /\ sent' = [sent EXCEPT ![p] = @ \union {<<request, outcome>>}]
  /\ UNCHANGED <<urls, probePv, hosts, exitCode>>

(* The retrieval plane is that of the archiver unless it has a URL of its  *)
(* own, and nothing would use one without the archiver's.                  *)
Configured(p) ==
  IF p = "archiver_retrieval" THEN {"archiver", "archiver_retrieval"} \intersect urls # {}
  ELSE p \in urls

(* The gather starts every look in turn, each up to its first request.     *)
Begun(p) ==
  CASE p = "live" -> IF probePv THEN Pending("probe") ELSE Check("info", "unprobed")
    [] p # "live" /\ ~Configured(p) -> Check("disabled", "unprobed")
    [] p = "archiver_retrieval" /\ urls \intersect {"archiver"} = {} /\ Configured(p) ->
         Check("config_error", "unprobed")
    [] OTHER -> Pending("probe")

Gather ==
  /\ \A p \in Planes : At(p, "start")
  /\ checks' = [p \in Planes |-> Begun(p)]
  /\ UNCHANGED <<urls, probePv, hosts, sent, exitCode>>

(* How a request may go.  redirect: to another host, followed or refused;  *)
(* retried: a 5xx that outlasts the retries.                               *)
Failures == {"tls", "status", "retried", "transport", "limited"}
Outcomes == {"2xx", "unreadable", "redirect"} \union Failures

(* The planes that are probed with HEAD take any answer at all, even one   *)
(* that says no; only a 5xx that outlasts the retries is an error.  The    *)
(* archiver's must answer with JSON, after any redirect.                   *)
Heads == RestPlanes \ {"archiver", "archiver_retrieval"}

Passes(p, outcome) ==
  IF p \in Heads THEN outcome \in {"2xx", "unreadable", "redirect", "status"}
  ELSE outcome \in {"2xx", "redirect"}

ProbeOutcomes(p) == IF p \in Heads THEN Outcomes \ {"limited"} ELSE Outcomes

(* _classify_failure.                                                      *)
ClassifyFailure(outcome) ==
  CASE outcome = "tls" -> "ca_error"
    [] outcome \in {"status", "retried"} -> "api_error"
    [] OTHER -> "unreachable"

Probe(p) ==
  \E outcome \in ProbeOutcomes(p) :
    /\ Request(p, "probe", outcome)
    /\ Looked(p, IF Passes(p, outcome) THEN Pending("identify")
                 ELSE Check(ClassifyFailure(outcome), "unprobed"))
-----------------------------------------------------------------------------
(* Broken: a request for the name that fails is as good as no name.        *)
LenientFetchFailure(outcome) == "unverified"

(* _identity_fetch_failure: an answer that cannot be read is an answer.    *)
IdentityFetchFailure(outcome) ==
  IF outcome = "unreadable" THEN "unverified" ELSE "identity_probe_failed"

(* The name must be the plane's own: another proves nothing either way.    *)
(* What follows is read from the same answer, but for the archiver's       *)
(* metrics.                                                                *)
Named(p) ==
  CASE hosts[p].name # "own" -> Check("unverified", "no")
    [] hosts[p].name = "own" /\ p = "archiver" -> Pending("metrics")
    [] hosts[p].name = "own" /\ p = "alarm" /\ hosts[p].works = "no" -> Check("backend_down", "yes")
    [] OTHER -> Check("ok", "yes")

Identify(p) ==
  \E outcome \in Outcomes :
    /\ Request(p, "identify", outcome)
    /\ Looked(p, IF outcome = "2xx" THEN Named(p)
                 ELSE Check(IdentityFetchFailure(outcome), "no"))

(* One attempt.  A row of another appliance, and a failure, leave the      *)
(* verdict that stands.                                                    *)
Metrics ==
  \E outcome \in Outcomes \union {"rowless"} :
    /\ Request("archiver", "metrics", outcome)
    /\ Looked("archiver", Check(IF outcome = "2xx" /\ hosts["archiver"].works = "no"
                                  THEN "no_ingest" ELSE "ok", "yes"))

(* The live plane: one read, whose every failure is a disconnect.          *)
ProbeLive ==
  \E outcome \in {"2xx", "transport"} :
    /\ Request("live", "probe", outcome)
    /\ Looked("live", Check(IF outcome = "2xx" THEN "ok" ELSE "disconnected", "unprobed"))

(* Clean, and neither clean nor failing.  Whatever is in neither fails.    *)
NonFailing == {"ok", "disabled", "info", "unverified", "no_ingest"}
Inconclusive == {"identity_probe_failed"}

With(statuses) == {p \in Planes : checks[p].status \in statuses}

(* The gather returns when every look has; _exit_category and main.        *)
Finish ==
  /\ exitCode = "running" /\ With({"pending"}) = {}
  /\ exitCode' = CASE With(NonFailing \union Inconclusive) # Planes -> "failed"
                   [] With(Inconclusive) # {} /\ With(NonFailing \union Inconclusive) = Planes ->
                        "inconclusive"
                   [] OTHER -> "clean"
  /\ UNCHANGED <<urls, probePv, hosts, sent, checks>>

Steps ==
  \/ Gather \/ Metrics \/ ProbeLive \/ Finish
  \/ \E p \in RestPlanes : Probe(p) \/ Identify(p)

Next == Steps

Spec == Init /\ [][Next]_vars /\ WF_vars(Steps)
-----------------------------------------------------------------------------
Done == exitCode # "running"
Answered(p, request, outcomes) == \E o \in outcomes : <<request, o>> \in sent[p]

(* ok, and identified, take the name of the service, given by the host at  *)
(* the URL itself and not by one that it redirects to; and nobody who gave *)
(* another is called by it, or called broken.                              *)
IdentityEarned ==
  Done => \A p \in RestPlanes :
    /\ checks[p].status \in {"ok", "no_ingest", "backend_down"} <=> checks[p].identified = "yes"
    /\ checks[p].identified = "yes" =>
         hosts[p].name = "own" /\ <<"identify", "2xx">> \in sent[p]
    /\ checks[p].status = "backend_down" => hosts[p].works = "no"
    /\ checks[p].status = "no_ingest" => hosts[p].works = "no"

(* A clean exit takes that every configured plane answered its probe and   *)
(* the request for its name, and that no alarm logger gave its name and    *)
(* its broken backend; a failed one takes a request that failed, a PV that *)
(* did not connect, such a backend, or a URL that nothing uses.            *)
ExitEarned ==
  /\ exitCode = "clean" =>
       /\ \A p \in {q \in RestPlanes : Configured(q)} :
            Answered(p, "probe", Outcomes \ Failures) \/ Answered(p, "probe", {"status"})
       /\ \A p \in {q \in RestPlanes : Configured(q)} :
            Answered(p, "identify", {"2xx", "unreadable"})
       /\ ~Answered("live", "probe", {"transport"})
       /\ checks["alarm"].identified = "yes" => hosts["alarm"].works # "no"
  /\ exitCode = "failed" =>
       \/ \E p \in Planes : Answered(p, "probe", Outcomes \ {"2xx"})
       \/ "archiver_retrieval" \in urls /\ "archiver" \notin urls
       \/ "alarm" \in urls /\ hosts["alarm"] = [name |-> "own", works |-> "no"]

(* Nothing is sent to a plane that is off, nor to the URL that nothing     *)
(* uses; every other one gets a request.                                   *)
OnlyConfiguredAsked ==
  Done => \A p \in RestPlanes :
    sent[p] # {} <=> Configured(p) /\ (p = "archiver_retrieval" => "archiver" \in urls)

EveryRunEnds == <>Done
=============================================================================
