-------------------------------- MODULE MCReads --------------------------------
(***************************************************************************)
(* The read side of the REST planes for TLC: the transport, the windows,   *)
(* the filters of ChannelFinder, the calls of the read tools and those of  *)
(* the logbook.  They meet only in what the one hands to the other (a      *)
(* failure, a refusal), which each module has as a choice; a behaviour     *)
(* here is one call of one of them, the others at rest.                    *)
(***************************************************************************)
EXTENDS Integers, FiniteSets, Sequences

CONSTANTS Retries, MaxHops, MaxBytes, Sizes, Budget,
          Times, Amounts, Now, Zone, Limits,
          MaxRecords, Limit, EsMax, MaxChanges,
          MaxHits, PageSize, AttachMax, Base64Max,
          Allowed, Registry, Queries

(* The alarm logger does not clamp a page below what is asked for, as it   *)
(* does not by default.                                                    *)
ASSUME ReadsAssumption ==
  /\ {Retries, MaxHops, MaxBytes, Budget, Now, Zone} \subseteq Nat
  /\ Sizes \subseteq Nat /\ Times \subseteq Nat /\ Amounts \subseteq Nat
  /\ {MaxRecords, EsMax, MaxChanges, MaxHits, AttachMax, Base64Max} \subseteq Nat
  /\ {Limit, PageSize} \subseteq Nat \ {0} /\ Limits \subseteq Nat \ {0}
  /\ EsMax > Limit
  /\ IsFiniteSet(Registry)
  /\ \A q \in Queries : \A e \in q.differs : IsFiniteSet(e[2])

VARIABLES kind, follow, phase, left, hops, tokens, reply, body, out, sent, applied
VARIABLES plane, from, to, window
VARIABLES query, countOnly, maxResults, step, params, result
VARIABLES tool, argument, enabled, host, truth, moments, at, listed, failed, answer
VARIABLES op, args, configured, levels, past, hits, entry, file, stage, page, outcome
VARIABLE part    \* what the behaviour is a call of

transportVars == <<kind, follow, phase, left, hops, tokens, reply, body, out, sent, applied>>
windowVars == <<plane, from, to, window>>
channelVars == <<query, countOnly, maxResults, step, params, result>>
planeVars == <<tool, argument, enabled, host, truth, moments, at, listed, failed, answer>>
logbookVars == <<op, args, configured, levels, past, hits, entry, file, stage, page, outcome>>
vars == <<part, transportVars, windowVars, channelVars, planeVars, logbookVars>>

Transport == INSTANCE RestCall
Windows == INSTANCE TimeWindow
-----------------------------------------------------------------------------
MCAllowed == {"p", "q"}

(* "secret" is a property that the allowlist leaves out.                   *)
MCRegistry ==
  {[prop |-> [n \in {"p", "q", "secret"} |-> CASE n = "p" -> a [] n = "q" -> "v" [] OTHER -> s],
    tags |-> g] : a \in {"absent", "v", "w"}, s \in {"absent", "v"}, g \in {{}, {"t"}}}

(* "_p" is a name with a blank before it.                                  *)
FilterNames == {"p", "_p", "q", "secret", "~name", "p!", ""}
Alternatives == {{}, {"v"}, {"v", "w"}, {"*"}}
Some == Alternatives \ {{}}
Filters ==
  {{}} \union {{<<n, v>>} : n \in FilterNames, v \in Alternatives}
       \union {{<<"p", v>>} \union {<<n, w>>} : n \in {"_p", "q"}, v \in Some, w \in Some}
Single == {f \in Filters : Cardinality(f) <= 1}
Lacking == {<<>>, <<"p", "p">>, <<"p", "_p">>, <<"p", "q">>} \union {<<n>> : n \in FilterNames}
TagSets == {{}, {"t"}, {"t", "u"}, {"~tag"}}

Query(has, lacks, differs, tags, noTags) ==
  [has |-> has, lacks |-> lacks, differs |-> differs, hasTags |-> tags, lacksTags |-> noTags]
NoQuery == Query({}, <<>>, {}, {}, {})

(* Every pair of the five arguments.                                       *)
MCQueries ==
  {Query(h, l, {}, {}, {}) : h \in Filters, l \in Lacking}
  \union {Query(h, <<>>, d, {}, {}) : h \in Filters, d \in Single}
  \union {Query({}, l, d, {}, {}) : l \in Lacking, d \in Single}
  \union {Query({}, <<>>, {}, t, u) : t \in TagSets, u \in TagSets}
  \union {Query(h, <<>>, {}, {"t"}, u) : h \in Filters, u \in TagSets}

Channels == INSTANCE ChannelQuery
Planes == INSTANCE PlaneReads

LevelTexts == {"", "Info", "INFO", "nbsp Info", "Warnign", "Inf*"}
MCLevelFilters ==
  {l \in SUBSET LevelTexts : Cardinality(l) \in {1, 2}} \union {{"none"}}
MCTitleFilters == SUBSET {"word", ",", "+", " ", "nbsp"} \union {{"none"}}

Logbook == INSTANCE LogbookReads WITH
             LevelFilters <- MCLevelFilters, TitleFilters <- MCTitleFilters
-----------------------------------------------------------------------------
(* At rest a part is in one initial state of its own.                      *)
Unset == [form |-> "unset", t |-> 0]

Init ==
  /\ part \in {"transport", "windows", "channels", "planes", "logbook"}
  /\ part = "transport" \/ (part # "transport" /\ kind = "put" /\ tokens = 0)
  /\ part = "windows" \/ (part # "windows" /\ plane = "olog" /\ from = Unset /\ to = Unset)
  /\ part = "channels" \/ (part # "channels" /\ query = NoQuery /\ countOnly = FALSE /\ maxResults = 1)
  /\ part = "planes" \/ (part # "planes" /\ tool = "appliance" /\ enabled = FALSE /\ host = "own")
  /\ part = "logbook" \/ (part # "logbook" /\ op = "tags" /\ configured = FALSE)
  /\ Transport!Init /\ Windows!Init /\ Channels!Init /\ Planes!Init /\ Logbook!Init

TransportStep ==
  /\ part = "transport" /\ Transport!Next
  /\ UNCHANGED <<part, windowVars, channelVars, planeVars, logbookVars>>

WindowStep ==
  /\ part = "windows" /\ Windows!Next
  /\ UNCHANGED <<part, transportVars, channelVars, planeVars, logbookVars>>

ChannelStep ==
  /\ part = "channels" /\ Channels!Next
  /\ UNCHANGED <<part, transportVars, windowVars, planeVars, logbookVars>>

PlaneDrift ==
  /\ part = "planes" /\ Planes!Drift
  /\ UNCHANGED <<part, transportVars, windowVars, channelVars, logbookVars>>

PlaneStep ==
  /\ part = "planes" /\ Planes!Steps
  /\ UNCHANGED <<part, transportVars, windowVars, channelVars, logbookVars>>

LogbookDrift ==
  /\ part = "logbook" /\ Logbook!Elsewhere
  /\ UNCHANGED <<part, transportVars, windowVars, channelVars, planeVars>>

LogbookStep ==
  /\ part = "logbook" /\ Logbook!Steps
  /\ UNCHANGED <<part, transportVars, windowVars, channelVars, planeVars>>

Next == TransportStep \/ WindowStep \/ ChannelStep \/ PlaneDrift \/ PlaneStep
        \/ LogbookDrift \/ LogbookStep

(* Every request ends within its timeout; what a plane holds need never    *)
(* change.                                                                 *)
Fairness == WF_vars(TransportStep) /\ WF_vars(PlaneStep) /\ WF_vars(LogbookStep)

FairSpec == Init /\ [][Next]_vars /\ Fairness
-----------------------------------------------------------------------------
(* The transport: a write is carried out at most once, data come from the  *)
(* configured host unless redirects are allowed, a server that answered is *)
(* never blamed as unreachable, and of a body no more than the cap is held *)
(* and never a part of it handed over.                                     *)
TransportHonest ==
  /\ Transport!WrittenOnce /\ Transport!OriginKept
  /\ Transport!OutageNamed /\ Transport!BodyCapped

(* Each server understands what it is sent as the caller meant it: both    *)
(* ends of a window, the filters of ChannelFinder, those of Olog; what it  *)
(* would misunderstand is refused, and what is off the allowlist has no    *)
(* influence.                                                              *)
FiltersMean ==
  /\ Windows!WindowMeans /\ Windows!SwapNamed
  /\ Channels!QueryMeans /\ Channels!HiddenUnasked
  /\ Logbook!FilterApplied

(* A yes or a no of a plane is its own and was true at a moment of the     *)
(* call; an entry is missing and a default level the default only if so.   *)
VerdictsEarned ==
  /\ Planes!NegativeEarned /\ Planes!PositiveEarned
  /\ Logbook!MissingEarned /\ Logbook!DefaultUnambiguous

(* A list or a page is complete or called capped; after an answer that     *)
(* could not be read there is none, and no verdict either.                 *)
ListsHonest ==
  /\ Channels!CapHonest /\ Planes!ListHonest /\ Logbook!PageHonest
  /\ Planes!FailureNeverAnswers

(* A search by levels that found nothing says which levels do not exist.   *)
EmptyExplained == Logbook!EmptyExplained

(* A download never writes over a file that someone else made.             *)
TheirsIsKept == Logbook!TheirsIsKept

(* Every call of the transport, of a read tool and of the logbook ends.    *)
EveryReadEnds ==
  /\ part = "transport" => <>(phase = "done")
  /\ part = "planes" => <>(at = "done")
  /\ part = "logbook" => <>(stage = "done")

(* A search that Olog answered is not overturned by the cross-check.       *)
SearchNotOverturned == Logbook!SearchNotOverturned
=============================================================================
