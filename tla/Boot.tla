--------------------------------- MODULE Boot ---------------------------------
(***************************************************************************)
(* The start of the server with its write gates (server.main, safety.py,   *)
(* epics_address.py), and the posture epics-doctor reports of the same     *)
(* environment (_live_search_posture).                                     *)
(*                                                                         *)
(* Where a write may go is not for the server to say: the EPICS clients    *)
(* read their environment themselves, each with a parser of its own.  What *)
(* the server makes of a spelling is beside what the clients make of it.   *)
(***************************************************************************)
EXTENDS Integers, FiniteSets

Providers == {"pva", "ca"}

(* Values of *_AUTO_ADDR_LIST, unset among them.                           *)
Spellings == {"", "NO", "no", "No", " NO", "0", "false", "nowhere"}

(* pvxs takes exactly NO in any case, or 0, and keeps its default, which   *)
(* is to broadcast, for all else; libca looks for no or NO anywhere.       *)
Broadcasts(provider, spelling) ==
  IF provider = "pva" THEN spelling \notin {"NO", "no", "No", "0"}
  ELSE spelling \notin {"NO", "no", " NO", "nowhere"}

(* What an address list or name server list may hold: hosts by how they    *)
(* are written, and whether they are this host.                            *)
Hosts == {"localhost", "127.0.0.1:5075", "[::1]", "gateway", "10.0.0.5", "[::1:5075"}
Here == {"localhost", "127.0.0.1:5075", "[::1]"}

VARIABLES
  config,    \* the gates, the pattern, the audit file, the provider
  environ,   \* provider -> auto search and listed hosts
  at,        \* "boot", "serving", "refused"
  olog,      \* the logbook gate: not built, built, or it refused
  writes     \* the gates that let a write through

vars == <<config, environ, at, olog, writes>>

Configs == [pv : BOOLEAN, olog : BOOLEAN, pattern : {"empty", "bad", "good"},
            audit : {"none", "unwritable", "writable"}, provider : Providers]
Environ == [auto : Spellings, hosts : {S \in SUBSET Hosts : Cardinality(S) <= 1}]

Init ==
  /\ config \in Configs
  /\ environ \in [Providers -> Environ]
  /\ at = "boot" /\ olog = "none" /\ writes = {}
-----------------------------------------------------------------------------
(* auto_addr_search_disabled.                                              *)
AutoAddrSearchDisabled(provider, spelling) ==
  IF provider = "ca" THEN spelling \in {"NO", "no", " NO", "nowhere"}
  ELSE spelling \in {"NO", "no", "No", "0"}

(* split_host and is_loopback_host: a name is never resolved, and what     *)
(* cannot be split is no loopback.                                         *)
IsLoopback(host) == host \in {"localhost", "127.0.0.1:5075", "[::1]"}

(* write_reach_violations, of both providers whichever is configured.      *)
Violations ==
  {p \in Providers : \/ ~AutoAddrSearchDisabled(p, environ[p].auto)
                     \/ \E h \in environ[p].hosts : ~IsLoopback(h)}

(* main: no write gate without an audit file; then SafetyLayer, for the    *)
(* gate of the PVs only.                                                   *)
Refused ==
  \/ (config.pv \/ config.olog) /\ config.audit = "none"
  \/ /\ config.pv
     /\ \/ config.pattern \in {"bad", "empty"}
        \/ Violations # {}
        \/ config.audit = "unwritable"

Main ==
  /\ at = "boot"
  /\ at' = IF Refused THEN "refused" ELSE "serving"
  /\ UNCHANGED <<config, environ, olog, writes>>

(* A write of a PV that the pattern takes.                                 *)
WritePv ==
  /\ at = "serving" /\ config.pv
  /\ writes' = writes \union {"pv"}
  /\ UNCHANGED <<config, environ, at, olog>>

(* The first of the logbook builds its gate, which opens the audit file;   *)
(* what refuses is built again for the next one.                           *)
BuildOlogGate ==
  /\ at = "serving" /\ olog # "built"
  /\ olog' = IF config.audit = "unwritable" THEN "refused" ELSE "built"
  /\ UNCHANGED <<config, environ, at, writes>>

WriteOlog ==
  /\ olog = "built" /\ config.olog
  /\ writes' = writes \union {"olog"}
  /\ UNCHANGED <<config, environ, at, olog>>

Next == Main \/ WritePv \/ BuildOlogGate \/ WriteOlog

Spec == Init /\ [][Next]_vars

(* _live_search_posture, for the provider that is configured.              *)
Isolated ==
  /\ \A p \in Providers : environ[p].hosts = {}
  /\ AutoAddrSearchDisabled(config.provider, environ[config.provider].auto)
-----------------------------------------------------------------------------
Leaves(p) == Broadcasts(p, environ[p].auto) \/ ~(environ[p].hosts \subseteq Here)

(* A write goes to this host only, whichever client carries it, and to no  *)
(* gate without an audit file that takes its line.                         *)
WritesStayHere ==
  /\ "pv" \in writes => \A p \in Providers : ~Leaves(p)
  /\ writes # {} => config.audit = "writable"
  /\ "pv" \in writes => config.pattern = "good"

(* Isolated is said only where the client in use does not leave the host,  *)
(* and whoever may write and lists no host is isolated.                    *)
PostureTrue ==
  /\ Isolated => ~Leaves(config.provider)
  /\ at = "serving" /\ config.pv /\ (\A p \in Providers : environ[p].hosts = {}) => Isolated
=============================================================================
