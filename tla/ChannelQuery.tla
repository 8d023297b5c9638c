----------------------------- MODULE ChannelQuery ------------------------------
(***************************************************************************)
(* find_channels: how query_channels (services/checkers.py) and            *)
(* _build_query_params (services/channelfinder_client.py) turn the filters *)
(* of a call into the flat parameters of ChannelFinder, and what the       *)
(* answer says of the registry.                                            *)
(*                                                                         *)
(* A name is a string with the blanks (a leading "_"), the leading ~ and   *)
(* the trailing ! that matter; a value is the set of its alternatives, for *)
(* a separator in it makes several; Star is the lone star.  The server is  *)
(* modelled from the grammar the client's docstrings record.               *)
(***************************************************************************)
EXTENDS Integers, Sequences, FiniteSets, SequencesExt

CONSTANTS Allowed,     \* the properties of the allowlist
          Registry,    \* the channels: the value of each property, the tags
          Queries,     \* the arguments a caller gives
          Limits       \* max_results

Star == "*"
Absent == "absent"
Trimmed == [n \in {"_p"} |-> "p"]
Clean(name) == IF name \in DOMAIN Trimmed THEN Trimmed[name] ELSE name

VARIABLES
  query,      \* the filters asked for
  countOnly,
  maxResults,
  step,       \* "build", "ask" or "done"
  params,     \* the parameters sent: <<key, negated, value>>
  result      \* the answer or the error

vars == <<query, countOnly, maxResults, step, params, result>>

NoResult == [kind |-> "none"]

Init ==
  /\ query \in Queries
  /\ countOnly \in BOOLEAN
  /\ maxResults \in Limits
  /\ step = "build"
  /\ params = {}
  /\ result = NoResult

End(r) ==
  /\ result' = r
  /\ step' = "done"

Error(code) == [kind |-> "error", code |-> code]
-----------------------------------------------------------------------------
Blank == {""}
Reserved == {"~name", "~tag"}
Negations == {"p!"}

(* _validate_filter_name.                                                  *)
ValidName(name) == Clean(name) \notin Blank \union Reserved \union Negations

(* The names the three property arguments claim, in the order of the code. *)
Claims(q) ==
  SetToSeq({Clean(e[1]) : e \in q.has}) \o
  (IF Cardinality({Clean(e[1]) : e \in q.has}) < Cardinality(q.has) THEN <<"twice", "twice">>
                                                                     ELSE <<>>) \o
  [i \in 1 .. Len(q.lacks) |-> Clean(q.lacks[i])] \o
  SetToSeq({Clean(e[1]) : e \in q.differs})

Contradictory(q) ==
  \/ ~IsInjective(Claims(q))
  \/ q.hasTags \intersect q.lacksTags # {}

RawNames(q) == {e[1] : e \in q.has \union q.differs} \union Range(q.lacks)

(* Broken: a negated value may hold a separator.                           *)
SplitRejected(q) ==
  \/ \E n \in RawNames(q) \union q.hasTags \union q.lacksTags : ~ValidName(n)
  \/ \E n \in RawNames(q) : Clean(n) \notin Allowed
  \/ Contradictory(q)
  \/ \E e \in q.has \union q.differs : e[2] = {}

(* Every ValueError of _build_query_params.                                *)
Rejected(q) ==
  \/ \E n \in RawNames(q) \union q.hasTags \union q.lacksTags : ~ValidName(n)
  \/ \E n \in RawNames(q) : Clean(n) \notin Allowed
  \/ Contradictory(q)
  \/ \E e \in q.has \union q.differs : e[2] = {}
  \/ \E e \in q.differs : Cardinality(e[2]) > 1

(* The parameters, a map in the code: that no two arguments claim one key, *)
(* which would lose one of them, is what Contradictory refuses.            *)
Params(q) ==
  {<<Clean(e[1]), FALSE, e[2]>> : e \in q.has}
  \union {<<Clean(n), TRUE, {Star}>> : n \in Range(q.lacks)}
  \union {<<Clean(e[1]), TRUE, e[2]>> : e \in q.differs}
  \union {<<"~tag", FALSE, t>> : t \in {q.hasTags} \ {{}}}
  \union {<<"~tag", TRUE, t>> : t \in {q.lacksTags} \ {{}}}

(* ChannelFinder is not configured.                                        *)
Disabled ==
  /\ step = "build"
  /\ End([kind |-> "disabled"])
  /\ UNCHANGED <<query, countOnly, maxResults, params>>

Reject ==
  /\ step = "build"
  /\ Rejected(query)
  /\ End(Error("INVALID_INPUT"))
  /\ UNCHANGED <<query, countOnly, maxResults, params>>

Build ==
  /\ step = "build"
  /\ ~Rejected(query)
  /\ params' = Params(query)
  /\ step' = "ask"
  /\ UNCHANGED <<query, countOnly, maxResults, result>>
-----------------------------------------------------------------------------
(* ChannelFinder's reading of one parameter: a property has one of the     *)
(* values, or any for a star; negated with a star it lacks the property,   *)
(* negated with a value it has another one.                                *)
Holds(param, ch) ==
  LET key == param[1]  negated == param[2]  value == param[3]
  IN CASE key = "~tag" -> negated <=> ch.tags \intersect value = {}
       [] key \in Reserved \ {"~tag"} -> TRUE
       [] OTHER -> IF ~negated
                     THEN ch.prop[key] # Absent /\ (Star \in value \/ ch.prop[key] \in value)
                     ELSE IF value = {Star} THEN ch.prop[key] = Absent
                     ELSE ch.prop[key] # Absent /\ \E v \in value : ch.prop[key] # v

Matching(ps) == {ch \in Registry : \A p \in ps : Holds(p, ch)}

(* One more than the limit is asked for, and a prefix of it kept.          *)
Asked(limit) == limit + 1
Capped(fetched) == fetched > maxResults

List ==
  /\ step = "ask" /\ ~countOnly
  /\ LET all == Matching(params)
         asked == Asked(maxResults)
     IN \E page \in SUBSET all :
          /\ Cardinality(page) = IF Cardinality(all) < asked THEN Cardinality(all) ELSE asked
          /\ \E kept \in SUBSET page :
               /\ Cardinality(kept) = IF Cardinality(page) < maxResults
                                        THEN Cardinality(page) ELSE maxResults
               /\ End([kind |-> "channels", channels |-> kept,
                       capped |-> Capped(Cardinality(page))])
  /\ UNCHANGED <<query, countOnly, maxResults, params>>

Count ==
  /\ step = "ask" /\ countOnly
  /\ End([kind |-> "count", count |-> Cardinality(Matching(params))])
  /\ UNCHANGED <<query, countOnly, maxResults, params>>

(* No answer; an error, no list, a record without a name, no number.       *)
Unanswered ==
  /\ step = "ask"
  /\ \E code \in {"EPICS_CONNECTION_FAILED", "CHANNELFINDER_HTTP", "CHANNELFINDER_RESPONSE_ERROR",
                  "READ_RATE_LIMIT_EXCEEDED"} : End(Error(code))
  /\ UNCHANGED <<query, countOnly, maxResults, params>>

Next == Disabled \/ Reject \/ Build \/ List \/ Count \/ Unanswered

Spec == Init /\ [][Next]_vars
-----------------------------------------------------------------------------
(* What the arguments other than not_property_values say, as find_channels *)
(* documents them.                                                         *)
Others(q, ch) ==
  /\ \A e \in q.has : LET v == ch.prop[Clean(e[1])]
                      IN v # Absent /\ (Star \in e[2] \/ v \in e[2])
  /\ \A n \in Range(q.lacks) : ch.prop[Clean(n)] = Absent
  /\ q.hasTags # {} => ch.tags \intersect q.hasTags # {}
  /\ ch.tags \intersect q.lacksTags = {}

(* It documents of not_property_values that the property is there with     *)
(* another value; a star that _build_query_params lets through there is    *)
(* lacks_properties by the grammar in its docstring.                       *)
HasAnother(v, values) == v # Absent /\ v \notin values
Understood(v, values) == IF Star \in values THEN v = Absent ELSE HasAnother(v, values)

Meant(q) ==
  {ch \in Registry : /\ Others(q, ch)
                     /\ \A e \in q.differs : HasAnother(ch.prop[Clean(e[1])], e[2])}
Selected(q) ==
  {ch \in Registry : /\ Others(q, ch)
                     /\ \A e \in q.differs : Understood(ch.prop[Clean(e[1])], e[2])}

(* A query that is answered selects what its arguments mean, where a star  *)
(* among not_property_values means a lack of the property: an argument     *)
(* that would mean anything else to the server is refused.                 *)
QueryMeans ==
  /\ result.kind = "channels" => result.channels \subseteq Selected(query)
  /\ result.kind = "count" => result.count = Cardinality(Selected(query))

(* The same with that star as find_channels documents it: a channel that   *)
(* lacks the property does not match.                                      *)
NegatedStarMeans ==
  result.kind = "channels" => result.channels \subseteq Meant(query)

(* A list that is not called capped is all that matches, and one that is   *)
(* leaves something out.                                                   *)
CapHonest ==
  result.kind = "channels" =>
    (result.capped <=> result.channels # Matching(params))

(* What is not on the allowlist cannot be asked about: two registries that *)
(* differ there only give the same channels.                               *)
HiddenUnasked ==
  step # "build" => \A p \in params : \A ch, other \in Registry :
    (\A n \in Allowed : ch.prop[n] = other.prop[n]) /\ ch.tags = other.tags
      => (Holds(p, ch) <=> Holds(p, other))
=============================================================================
