----------------------------- MODULE GatedWrite ------------------------------
(***************************************************************************)
(* What the Olog write gate promises of a write, whatever threads and      *)
(* timeouts do underneath: the gate denies it, which is recorded and costs *)
(* nothing, or it admits it for one token; only an admitted write can      *)
(* reach the logbook, once; and what became of an admitted write is        *)
(* recorded at most once, as ALLOW only if it reached the logbook.         *)
(* OlogWrite implements it.                                                *)
(***************************************************************************)
CONSTANT Calls

VARIABLES recorded,   \* what the audit log says of each call
          charged,    \* calls that took a token
          written     \* calls that reached the logbook

gateVars == <<recorded, charged, written>>

GateInit ==
  /\ recorded = [c \in Calls |-> "nothing"]
  /\ charged = {}
  /\ written = {}

Say(c, event) ==
  /\ recorded[c] = "nothing"
  /\ recorded' = [recorded EXCEPT ![c] = event]
  /\ UNCHANGED <<charged, written>>

Deny(c) == c \notin charged /\ Say(c, "DENY")

Admit(c) ==
  /\ recorded[c] = "nothing"
  /\ c \notin charged
  /\ charged' = charged \union {c}
  /\ UNCHANGED <<recorded, written>>

Write(c) ==
  /\ c \in charged \ written
  /\ written' = written \union {c}
  /\ UNCHANGED <<recorded, charged>>

Allow(c) == c \in written /\ Say(c, "ALLOW")

Fail(c) == c \in charged /\ Say(c, "FAILED")

GateNext ==
  \E c \in Calls : Deny(c) \/ Admit(c) \/ Write(c) \/ Allow(c) \/ Fail(c)

GateSpec == GateInit /\ [][GateNext]_gateVars
=============================================================================
