----------------------------- MODULE AuditedWrite -----------------------------
(***************************************************************************)
(* What the audit log promises of a PV write, whatever threads, timeouts   *)
(* and cancellations do underneath (docs/safety.md, write-gate-contract):  *)
(* a call is refused, or it is recorded as attempted before its value can  *)
(* reach the IOC; an attempt ends in at most one outcome; ALLOW is only    *)
(* said of a value that did reach the IOC; and a readback verdict is only  *)
(* given of an allowed write, once.  PVWrite implements it.                *)
(***************************************************************************)
CONSTANT Calls

VARIABLES phase,     \* what the log says of the call itself
          landed,    \* calls whose value reached the IOC
          verdict    \* what the log says of the readback

auditVars == <<phase, landed, verdict>>

Outcomes == {"ALLOW", "FAILED", "UNKNOWN_PENDING"}
Verdicts == {"READBACK_OK", "READBACK_MISMATCH", "READBACK_UNVERIFIED"}

AuditInit ==
  /\ phase = [c \in Calls |-> "new"]
  /\ landed = {}
  /\ verdict = [c \in Calls |-> "none"]

Move(c, from, to) ==
  /\ phase[c] = from
  /\ phase' = [phase EXCEPT ![c] = to]

Refuse(c) == Move(c, "new", "refused") /\ UNCHANGED <<landed, verdict>>

Attempt(c) == Move(c, "new", "attempted") /\ UNCHANGED <<landed, verdict>>

Land(c) ==
  /\ phase[c] \notin {"new", "refused"}
  /\ c \notin landed
  /\ landed' = landed \union {c}
  /\ UNCHANGED <<phase, verdict>>

Conclude(c, outcome) ==
  /\ outcome = "ALLOW" => c \in landed
  /\ Move(c, "attempted", outcome)
  /\ UNCHANGED <<landed, verdict>>

ReadBack(c, v) ==
  /\ phase[c] = "ALLOW"
  /\ verdict[c] = "none"
  /\ verdict' = [verdict EXCEPT ![c] = v]
  /\ UNCHANGED <<phase, landed>>

AuditNext ==
  \E c \in Calls :
    \/ Refuse(c)
    \/ Attempt(c)
    \/ Land(c)
    \/ \E outcome \in Outcomes : Conclude(c, outcome)
    \/ \E v \in Verdicts : ReadBack(c, v)

AuditSpec == AuditInit /\ [][AuditNext]_auditVars
=============================================================================
