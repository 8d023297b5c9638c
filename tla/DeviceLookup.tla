------------------------------ MODULE DeviceLookup ------------------------------
(***************************************************************************)
(* find_device (tools/find_device.py, services/device_lookup.py): the      *)
(* screens that show a device, a live read of its channels, and the IOC    *)
(* that ChannelFinder has for each.                                        *)
(*                                                                         *)
(* The screens are the answer; the read is one batch at most (PVBatch) and *)
(* ChannelFinder is asked last, for a pattern that is wider than the query *)
(* (ChannelQuery).  Either may fail and only leaves its half out.          *)
(***************************************************************************)
EXTENDS Integers, FiniteSets

CONSTANTS NumChannels,
          MaxBatch,     \* max_batch_size
          CfMax,        \* CHANNELFINDER_MAX_RESULTS
          MaxChanges    \* how often the site changes during a call

Channels == 1 .. NumChannels   \* in the order of their names

VARIABLES
  arguments,  \* empty query, missing directory, or good; ChannelFinder's URL
  matched,    \* the channels of the screens that the walk found
  fields,     \* those of them that are a field of a record
  capped,     \* the walk hit one of its caps
  beside,     \* registered channels the pattern matches and the query does not
  site,       \* the channels that are served, the records registered, and the
              \* channels whose record has an iocName that the allowlist of
              \* ChannelFinder's properties lets through
  moments,    \* ghost: what the site has been since the call began
  at,
  live,       \* channel -> connected or not, of those read; or nothing
  iocs,       \* what ChannelFinder answered
  report

vars == <<arguments, matched, fields, capped, beside, site, moments, at, live, iocs, report>>
fixed == <<arguments, matched, fields, capped, beside>>

NoReport == [kind |-> "none"]
NoLive == [kind |-> "none"]
Arguments == {"empty_query", "no_directory", "no_url", "good"}

Init ==
  /\ arguments \in Arguments
  /\ matched \in SUBSET Channels /\ fields \in SUBSET matched
  /\ capped \in BOOLEAN /\ beside \in 0 .. CfMax
  /\ site \in [served : SUBSET Channels, registered : SUBSET Channels,
               named : SUBSET Channels]
  /\ moments = {site}
  /\ at = "start"
  /\ live = NoLive /\ iocs = [kind |-> "none"] /\ report = NoReport

Drift ==
  /\ at # "done" /\ Cardinality(moments) <= MaxChanges
  /\ \E part \in {"served", "registered", "named"}, c \in Channels :
       site' = [site EXCEPT ![part] = IF c \in @ THEN @ \ {c} ELSE @ \union {c}]
  /\ moments' = moments \union {site'}
  /\ UNCHANGED <<fixed, at, live, iocs, report>>

(* The query and the path, before the walk.                                *)
Start ==
  /\ at = "start"
  /\ IF arguments \in {"empty_query", "no_directory"}
       THEN at' = "done" /\ report' = [kind |-> "error", code |-> "INVALID_INPUT"]
       ELSE at' = "read" /\ UNCHANGED report
  /\ UNCHANGED <<fixed, site, moments, live, iocs>>

(* channels[:max_batch_size]: the first by name, so that the batch is      *)
(* never refused for its size.                                             *)
Read == {c \in matched : Cardinality({d \in matched : d <= c}) <= MaxBatch}

(* A channel that is served answers or not; one that is not does not.  A   *)
(* provider that answers another number of values fails the whole batch,   *)
(* and nothing at all is read for no channels.                             *)
ReadLive ==
  /\ at = "read"
  /\ \/ \E up \in SUBSET (Read \intersect site.served) :
          live' = [kind |-> "read", up |-> up, down |-> Read \ up]
     \/ Read # {} /\ live' = [kind |-> "malformed"]
  /\ at' = "iocs"
  /\ UNCHANGED <<fixed, site, moments, iocs, report>>

(* Any failure at all degrades to a note.                                  *)
Unreachable == [kind |-> "unreachable"]
Rows == {c \in matched : c \in site.registered}

(* size channels match the pattern, of which rows are among the first; the *)
(* record of a row may name no IOC, or none that is surfaced.              *)
Listed(rows, size) ==
  [kind |-> "list", rows |-> rows, named |-> rows \intersect site.named, capped |-> size > CfMax]

AskIocs ==
  /\ at = "iocs"
  /\ IF arguments = "no_url" THEN iocs' = [kind |-> "disabled"]
     ELSE \/ iocs' = Unreachable
          \/ \E rows \in SUBSET Rows :
               LET size == Cardinality(Rows) + beside IN
               /\ IF size <= CfMax THEN rows = Rows ELSE Cardinality(rows) <= CfMax
               /\ iocs' = Listed(rows, size)
  /\ at' = "merge"
  /\ UNCHANGED <<fixed, site, moments, live, report>>

(* build_device_report.  The join is by the exact name: the record of a    *)
(* field has another one.  A row that names no IOC shows none.             *)
HasIoc(c) == iocs.kind = "list" /\ c \in iocs.named /\ c \notin fields

Merge ==
  /\ at = "merge"
  /\ report' = [kind |-> "report",
                channels |-> IF live.kind = "read" THEN live.up \union live.down ELSE {},
                connected |-> IF live.kind = "read" THEN live.up ELSE {},
                withIoc |-> IF live.kind = "read" THEN {c \in Read : HasIoc(c)} ELSE {},
                total |-> Cardinality(matched),
                notes |-> {n \in {"no_screen", "walk_capped", "live_capped", "live", "cf_disabled",
                                  "cf_unreachable", "cf_capped"} :
                             CASE n = "no_screen" -> matched = {}
                               [] n = "walk_capped" -> capped
                               [] n = "live_capped" -> matched # Read
                               [] n = "live" -> live.kind = "malformed"
                               [] n = "cf_disabled" -> iocs.kind = "disabled"
                               [] n = "cf_unreachable" -> iocs.kind = "unreachable"
                               [] n = "cf_capped" -> iocs.kind = "list" /\ iocs.capped}]
  /\ at' = "done"
  /\ UNCHANGED <<fixed, site, moments, live, iocs>>

Steps == Start \/ ReadLive \/ AskIocs \/ Merge
Next == Drift \/ Steps
Spec == Init /\ [][Next]_vars
-----------------------------------------------------------------------------
Reported == report.kind = "report"
Explained(notes) == report.notes \intersect notes # {}

(* Connected, and registered with the name of its IOC, at some moment of   *)
(* the call; every matched channel has its row or a note says why it has   *)
(* none.                                                                   *)
RowsTrue ==
  Reported =>
    /\ \A c \in report.connected : \E w \in moments : c \in w.served
    /\ \A c \in report.withIoc : \E w \in moments : c \in w.registered \intersect w.named
    /\ report.channels # matched => Explained({"live", "live_capped"})
    /\ Cardinality(report.channels) <= MaxBatch

(* A row without an IOC is that of a field of a record, of a channel that  *)
(* was not registered, or of one whose record named no IOC to this site,   *)
(* which no note tells apart from the other two; unless a note says that   *)
(* ChannelFinder was off, silent or capped.                                *)
MissingIocExplained ==
  Reported => \A c \in report.channels \ (report.withIoc \union fields) :
    \/ \E w \in moments : c \notin w.registered \/ c \notin w.named
    \/ Explained({"cf_disabled", "cf_unreachable", "cf_capped"})
=============================================================================
