------------------------------- MODULE PVWrite --------------------------------
(***************************************************************************)
(* set_pv_value: the tool coroutine (tools/write.py), the write gate       *)
(* (safety.py) and the p4p calls it hands to worker threads                *)
(* (services/epics_client.py), with the clients that cancel it, the        *)
(* process that dies and restarts, and the IOC.                            *)
(*                                                                         *)
(* The coroutines share one event loop: what a coroutine does between two  *)
(* awaits is one step.  At an await the reply is produced in a worker and  *)
(* consumed by a later step of the loop, and a cancellation can be         *)
(* delivered at any time in between.  The worker of a put is not stopped   *)
(* by a cancellation, nor is a request stopped by the death of the process *)
(* that sent it.                                                           *)
(*                                                                         *)
(* The audit log is a durable file.  Its lines are kept by call: the       *)
(* operation id joins them.  A record does not always keep what it is sent:*)
(* its type may not hold the value, its limits, which may have changed     *)
(* since they were read, force it into them, and a command record clears   *)
(* itself after the pulse.  Values, limits and the tolerance of the        *)
(* readback compare are abstract here.                                     *)
(***************************************************************************)
EXTENDS Naturals, Sequences

CONSTANTS Calls,      \* set_pv_value requests, each made once
          PVs,
          Writable,   \* PVs that pv_write_pattern matches
          Commands,   \* PVs of records that clear themselves after a pulse
          Values,     \* values written and stored
          Idle,       \* what a command record clears itself to
          Cast,       \* what the type of a record makes of a value
          Near,       \* values that compare equal to a written one: isclose
          Ranges,     \* drive limits a record may declare: sets of values
          NoLimits,   \* what the pre-read shows of a record without limits
          NoSample,   \* nothing read yet
          Outsider,   \* whoever writes the same PVs by another way
          Itself,     \* a command record, as the author of its clearing
          Limit,      \* write_rate_limit
          MaxBoots,   \* bound: processes started, one after the other
          MaxOutside  \* bound: outside writes and changes of limits

ASSUME PVWriteAssumption ==
  /\ Writable \subseteq PVs
  /\ Commands \subseteq PVs
  /\ Idle \in Values
  /\ Cast \in [PVs -> [Values -> Values]]
  /\ Near \in [Values -> SUBSET Values]
  /\ \A r \in Ranges : r \subseteq Values /\ r # {}
  /\ NoLimits \notin Ranges
  /\ NoSample \notin [val : Values, drive : Ranges \union {NoLimits}]
  /\ Outsider \notin Calls /\ Itself \notin Calls
  /\ Limit \in Nat
  /\ MaxBoots \in Nat
  /\ MaxOutside \in Nat

VARIABLES
  allow,       \* allow_pv_write, read from the environment at the start
  boot,        \* processes started so far
  tokens,      \* len(_timestamps) of the gate
  nextOp,      \* _operation_counter
  pc,          \* where each call is
  request,     \* its arguments: the PV and the value
  pre,         \* its pre-read: the old value and the limits
  back,        \* its readback
  op,          \* its operation id, and the process that minted it
  trail,       \* its lines in the audit log
  worker,      \* the thread of its put
  flying,      \* puts sent and not yet applied nor lost
  value,       \* the IOC: the value of each PV
  drive,       \* the IOC: the limits each record declares
  landings,    \* history: what was applied at the IOC, in order
  outside      \* counts the steps of the Outsider

process == <<allow, boot>>
ioc == <<value, drive, landings, outside>>
put == <<worker, flying>>
vars == <<allow, boot, tokens, nextOp, pc, request, pre, back, op, trail,
          worker, flying, value, drive, landings, outside>>

Requests == [pv : PVs, val : Values]
Drives == Ranges \union {NoLimits}
Samples == [val : Values, drive : Drives]
Landings == [pv : PVs, val : Values, by : Calls \union {Outsider, Itself},
             drive : Drives]

Awaiting == {"prereading", "preread", "putting", "readingback", "readback"}
Finished == {"returned", "raised", "cancelled", "crashed"}
PCs == {"idle"} \union Awaiting \union Finished
WorkerStates == {"none", "queued", "running", "sent", "ok", "failed", "dropped", "dead"}

Refusals == {"DENY", "BOUNDS_DENY"}
Outcomes == {"ALLOW", "FAILED", "UNKNOWN_PENDING"}
Verdicts == {"READBACK_OK", "READBACK_MISMATCH", "READBACK_UNVERIFIED"}
Events == Refusals \union {"ATTEMPT"} \union Outcomes \union Verdicts

PV(c) == request[c].pv
Val(c) == request[c].val
HasLanded(c) == \E i \in 1 .. Len(landings) : landings[i].by = c
-----------------------------------------------------------------------------
Init ==
  /\ allow \in BOOLEAN
  /\ boot = 1
  /\ tokens = 0
  /\ nextOp = 1
  /\ pc = [c \in Calls |-> "idle"]
  /\ request \in [Calls -> Requests]
  /\ pre = [c \in Calls |-> NoSample]
  /\ back = [c \in Calls |-> NoSample]
  /\ op = [c \in Calls |-> <<0, 0>>]
  /\ trail = [c \in Calls |-> <<>>]
  /\ worker = [c \in Calls |-> "none"]
  /\ flying = {}
  /\ value \in [PVs -> Values]
  /\ drive \in [PVs -> Drives]
  /\ landings = <<>>
  /\ outside = 0

Goto(c, from, to) ==
  /\ pc[c] = from
  /\ pc' = [pc EXCEPT ![c] = to]

Audit(c, event) == trail' = [trail EXCEPT ![c] = Append(@, event)]
-----------------------------------------------------------------------------
(* The gate, which runs before the first await of the call.                *)

Denied(c) ==
  \/ ~allow
  \/ PV(c) \notin Writable
  \/ tokens >= Limit

Deny(c) ==
  /\ Denied(c)
  /\ Goto(c, "idle", "raised")
  /\ Audit(c, "DENY")
  /\ UNCHANGED <<process, tokens, nextOp, request, pre, back, op, put, ioc>>

Admit(c) ==
  /\ ~Denied(c)
  /\ Goto(c, "idle", "prereading")
  /\ tokens' = tokens + 1
  /\ UNCHANGED <<process, nextOp, request, pre, back, op, trail, put, ioc>>

(* Broken variant: purges without looking whether there is a token.        *)
EmptyExpire ==
  /\ tokens' = tokens - 1
  /\ UNCHANGED <<process, nextOp, pc, request, pre, back, op, trail, put, ioc>>

(* The oldest token leaves the window (see TokenPool, RateWindow).         *)
Expire ==
  /\ tokens > 0
  /\ tokens' = tokens - 1
  /\ UNCHANGED <<process, nextOp, pc, request, pre, back, op, trail, put, ioc>>
-----------------------------------------------------------------------------
(* The pre-read, and what is decided from it.                              *)

PreReadReply(c) ==
  /\ Goto(c, "prereading", "preread")
  /\ pre' = [pre EXCEPT ![c] = [val |-> value[PV(c)], drive |-> drive[PV(c)]]]
  /\ UNCHANGED <<process, tokens, nextOp, request, back, op, trail, put, ioc>>

(* A failed pre-read is the tool's error, and is not audited.              *)
PreReadFail(c) ==
  /\ Goto(c, "prereading", "raised")
  /\ UNCHANGED <<process, tokens, nextOp, request, pre, back, op, trail, put, ioc>>

(* check_value_in_bounds: a record without limits is not checked.          *)
OutOfBounds(c) == pre[c].drive # NoLimits /\ Val(c) \notin pre[c].drive

RefuseBounds(c) ==
  /\ Goto(c, "preread", "raised")
  /\ OutOfBounds(c)
  /\ Audit(c, "BOUNDS_DENY")
  /\ UNCHANGED <<process, tokens, nextOp, request, pre, back, op, put, ioc>>

(* Broken variant: the value is not checked.                               *)
UncheckedAttempt(c) ==
  /\ Goto(c, "preread", "putting")
  /\ op' = [op EXCEPT ![c] = <<boot, nextOp>>]
  /\ nextOp' = nextOp + 1
  /\ Audit(c, "ATTEMPT")
  /\ worker' = [worker EXCEPT ![c] = "queued"]
  /\ UNCHANGED <<process, tokens, request, pre, back, flying, ioc>>

Attempt(c) ==
  /\ Goto(c, "preread", "putting")
  /\ ~OutOfBounds(c)
  /\ op' = [op EXCEPT ![c] = <<boot, nextOp>>]
  /\ nextOp' = nextOp + 1
  /\ Audit(c, "ATTEMPT")
  /\ worker' = [worker EXCEPT ![c] = "queued"]
  /\ UNCHANGED <<process, tokens, request, pre, back, flying, ioc>>
-----------------------------------------------------------------------------
(* The worker thread of the put: p4p searches the channel, sends the       *)
(* request and waits for the reply, not longer than the timeout.           *)

SetWorker(c, from, to) ==
  /\ worker[c] \in from
  /\ worker' = [worker EXCEPT ![c] = to]
  /\ UNCHANGED <<process, tokens, nextOp, pc, request, pre, back, op, trail, ioc>>

WorkerStart(c) == SetWorker(c, {"queued"}, "running") /\ UNCHANGED flying

WorkerSend(c) == SetWorker(c, {"running"}, "sent") /\ flying' = flying \union {c}

(* Broken variant: the put does not wait for the reply.                    *)
UnconfirmedOk(c) == SetWorker(c, {"sent"}, "ok") /\ UNCHANGED flying

WorkerOk(c) == HasLanded(c) /\ SetWorker(c, {"sent"}, "ok") /\ UNCHANGED flying

(* Broken variant: no timeout once the request is sent.                    *)
UnsentFail(c) == SetWorker(c, {"running"}, "failed") /\ UNCHANGED flying

(* No such channel, a lost connection, or the timeout.                     *)
WorkerFail(c) == SetWorker(c, {"running", "sent"}, "failed") /\ UNCHANGED flying

(* What a record makes of a value, under the limits it has at that moment. *)
Stored(r, v, d) ==
  IF d = NoLimits \/ Cast[r][v] \in d THEN {Cast[r][v]} ELSE d

Takes(r, w, who) ==
  /\ value' = [value EXCEPT ![r] = w]
  /\ landings' = Append(landings, [pv |-> r, val |-> w, by |-> who, drive |-> drive[r]])

(* The IOC: a request is applied once or lost, however late.               *)
Land(c) ==
  /\ c \in flying
  /\ flying' = flying \ {c}
  /\ \E w \in Stored(PV(c), Val(c), drive[PV(c)]) : Takes(PV(c), w, c)
  /\ UNCHANGED <<process, tokens, nextOp, pc, request, pre, back, op, trail,
                 worker, drive, outside>>

Lose(c) ==
  /\ c \in flying
  /\ flying' = flying \ {c}
  /\ UNCHANGED <<process, tokens, nextOp, pc, request, pre, back, op, trail,
                 worker, ioc>>

OutsideStep ==
  /\ outside < MaxOutside
  /\ outside' = outside + 1
  /\ UNCHANGED <<process, tokens, nextOp, pc, request, pre, back, op, trail, put>>

OutsideWrite(p, v) ==
  /\ OutsideStep
  /\ \E w \in Stored(p, v, drive[p]) : Takes(p, w, Outsider)
  /\ UNCHANGED drive

(* A command record clears itself, at any time after the pulse.            *)
Clear(p) ==
  /\ p \in Commands /\ value[p] # Idle
  /\ Takes(p, Idle, Itself)
  /\ UNCHANGED <<process, tokens, nextOp, pc, request, pre, back, op, trail,
                 put, drive, outside>>

OutsideLimits(p, d) ==
  /\ OutsideStep
  /\ drive' = [drive EXCEPT ![p] = d]
  /\ UNCHANGED <<value, landings>>
-----------------------------------------------------------------------------
(* The put await ends: its three ways out.                                 *)

PutReturned(c) ==
  /\ worker[c] = "ok"
  /\ Goto(c, "putting", "readingback")
  /\ Audit(c, "ALLOW")
  /\ UNCHANGED <<process, tokens, nextOp, request, pre, back, op, put, ioc>>

(* Broken variants: a failed put is put again; a failure is swallowed.     *)
RetryFailedPut(c) ==
  /\ worker[c] = "failed"
  /\ pc[c] = "putting"
  /\ worker' = [worker EXCEPT ![c] = "queued"]
  /\ UNCHANGED <<process, tokens, nextOp, pc, request, pre, back, op, trail,
                 flying, ioc>>

SwallowFailedPut(c) ==
  /\ worker[c] = "failed"
  /\ Goto(c, "putting", "readingback")
  /\ Audit(c, "ALLOW")
  /\ UNCHANGED <<process, tokens, nextOp, request, pre, back, op, put, ioc>>

PutFailed(c) ==
  /\ worker[c] = "failed"
  /\ Goto(c, "putting", "raised")
  /\ Audit(c, "FAILED")
  /\ UNCHANGED <<process, tokens, nextOp, request, pre, back, op, put, ioc>>

(* Only work that no thread has taken up yet is withdrawn.                 *)
Withdrawn(c) == IF worker[c] = "queued" THEN "dropped" ELSE worker[c]

(* Broken variant: the cancellation is not audited.                        *)
SilentCancelPut(c) ==
  /\ Goto(c, "putting", "cancelled")
  /\ worker' = [worker EXCEPT ![c] = Withdrawn(c)]
  /\ UNCHANGED <<process, tokens, nextOp, request, pre, back, op, trail, flying, ioc>>

CancelPut(c) ==
  /\ Goto(c, "putting", "cancelled")
  /\ Audit(c, "UNKNOWN_PENDING")
  /\ worker' = [worker EXCEPT ![c] = Withdrawn(c)]
  /\ UNCHANGED <<process, tokens, nextOp, request, pre, back, op, flying, ioc>>
-----------------------------------------------------------------------------
(* The readback.                                                           *)

(* Broken variant: the value read before the put is compared.              *)
StaleReadbackReply(c) ==
  /\ Goto(c, "readingback", "readback")
  /\ back' = [back EXCEPT ![c] = pre[c]]
  /\ UNCHANGED <<process, tokens, nextOp, request, pre, op, trail, put, ioc>>

ReadbackReply(c) ==
  /\ Goto(c, "readingback", "readback")
  /\ back' = [back EXCEPT ![c] = [val |-> value[PV(c)], drive |-> drive[PV(c)]]]
  /\ UNCHANGED <<process, tokens, nextOp, request, pre, op, trail, put, ioc>>

Conclude(c, verdict) ==
  /\ Audit(c, verdict)
  /\ UNCHANGED <<process, tokens, nextOp, request, pre, back, op, put, ioc>>

(* The readback failed, or the value cannot be compared.                   *)
Unverified(c) ==
  /\ Goto(c, "readingback", "returned")
  /\ Conclude(c, "READBACK_UNVERIFIED")

Verify(c) ==
  /\ Goto(c, "readback", "returned")
  /\ Conclude(c, IF back[c].val \in Near[Val(c)]
                   THEN "READBACK_OK" ELSE "READBACK_MISMATCH")

(* Broken variant: one handler for the cancellation of any await after the *)
(* ATTEMPT.                                                                *)
OverreachingCancelRead(c) ==
  /\ pc[c] \in Awaiting \ {"putting"}
  /\ pc' = [pc EXCEPT ![c] = "cancelled"]
  /\ IF pc[c] \in {"readingback", "readback"}
       THEN Audit(c, "UNKNOWN_PENDING") ELSE UNCHANGED trail
  /\ UNCHANGED <<process, tokens, nextOp, request, pre, back, op, put, ioc>>

(* A cancellation at one of the two reads propagates and leaves no line.   *)
CancelRead(c) ==
  /\ pc[c] \in Awaiting \ {"putting"}
  /\ pc' = [pc EXCEPT ![c] = "cancelled"]
  /\ UNCHANGED <<process, tokens, nextOp, request, pre, back, op, trail, put, ioc>>
-----------------------------------------------------------------------------
(* The process dies at any time and another starts, perhaps with another   *)
(* setting.  The window of the gate and the operation counter are in       *)
(* memory; the log and the requests on the wire are not.                   *)
Restart ==
  /\ boot < MaxBoots
  /\ boot' = boot + 1
  /\ allow' \in BOOLEAN
  /\ tokens' = 0
  /\ nextOp' = 1
  /\ pc' = [c \in Calls |-> IF pc[c] \in Awaiting THEN "crashed" ELSE pc[c]]
  /\ worker' = [c \in Calls |-> IF worker[c] = "none" THEN "none" ELSE "dead"]
  /\ UNCHANGED <<request, pre, back, op, trail, flying, ioc>>
-----------------------------------------------------------------------------
LoopStep(c) ==
  \/ RefuseBounds(c) \/ Attempt(c)
  \/ PutReturned(c) \/ PutFailed(c)
  \/ Verify(c)

ReadStep(c) == PreReadReply(c) \/ PreReadFail(c) \/ ReadbackReply(c) \/ Unverified(c)

WorkerStep(c) == WorkerStart(c) \/ WorkerSend(c) \/ WorkerOk(c) \/ WorkerFail(c)

Next ==
  \/ \E c \in Calls :
       \/ Deny(c) \/ Admit(c)
       \/ LoopStep(c) \/ ReadStep(c) \/ WorkerStep(c)
       \/ CancelPut(c) \/ CancelRead(c)
       \/ Land(c) \/ Lose(c)
  \/ Expire
  \/ \E p \in PVs : \/ \E v \in Values : OutsideWrite(p, v)
                    \/ \E d \in Drives : OutsideLimits(p, d)
                    \/ Clear(p)
  \/ Restart

Spec == Init /\ [][Next]_vars

(* The event loop runs what is ready, a thread that was given work runs,   *)
(* and each p4p call carries a timeout, so that it ends with a reply or    *)
(* without.  Nothing is assumed of the client, the IOC or the Outsider.    *)
FairSpec ==
  Spec /\ \A c \in Calls : WF_vars(LoopStep(c) \/ ReadStep(c)) /\ WF_vars(WorkerStep(c))
-----------------------------------------------------------------------------
(* Every variable holds a value the code gives it.                         *)
TypeOK ==
  /\ allow \in BOOLEAN
  /\ boot \in Nat /\ tokens \in Nat /\ nextOp \in Nat /\ outside \in Nat
  /\ pc \in [Calls -> PCs]
  /\ request \in [Calls -> Requests]
  /\ pre \in [Calls -> Samples \union {NoSample}]
  /\ back \in [Calls -> Samples \union {NoSample}]
  /\ op \in [Calls -> Nat \X Nat]
  /\ trail \in [Calls -> Seq(Events)]
  /\ worker \in [Calls -> WorkerStates]
  /\ flying \subseteq Calls
  /\ value \in [PVs -> Values]
  /\ drive \in [PVs -> Drives]
  /\ landings \in Seq(Landings)

(* A value of ours reaches the IOC only if its PV is in the allowlist, it  *)
(* is within the limits the pre-read saw, and the ATTEMPT was logged       *)
(* first, whatever happened to the call or to the process since.           *)
OnlySanctionedLands ==
  \A c \in Calls : HasLanded(c) \/ c \in flying =>
    /\ PV(c) \in Writable
    /\ pre[c] # NoSample /\ ~OutOfBounds(c)
    /\ trail[c] # <<>> /\ trail[c][1] = "ATTEMPT"

(* The log says ALLOW only of a value that did reach the IOC.              *)
AllowMeansLanded ==
  \A c \in Calls :
    (\E i \in 1 .. Len(trail[c]) : trail[c][i] = "ALLOW") => HasLanded(c)

(* A write is never repeated: one call lands at most once, however its put *)
(* was timed out or cancelled.                                             *)
LandsAtMostOnce ==
  \A i, j \in 1 .. Len(landings) :
    landings[i].by = landings[j].by /\ landings[i].by \in Calls => i = j

(* The lines of one call: a refusal alone, or an attempt, at most one      *)
(* outcome, and a readback verdict only after an ALLOW.                    *)
LegalTrails ==
  {<<>>, <<"ATTEMPT">>} \union {<<r>> : r \in Refusals}
    \union {<<"ATTEMPT", o>> : o \in Outcomes}
    \union {<<"ATTEMPT", "ALLOW", v>> : v \in Verdicts}

TrailLegal == \A c \in Calls : trail[c] \in LegalTrails

(* An attempt is left without an outcome only while the put is under way,  *)
(* or by the death of the process.                                         *)
NoDanglingAttempt ==
  \A c \in Calls : trail[c] = <<"ATTEMPT">> => pc[c] \in {"putting", "crashed"}

(* The record took a value, of ours or of somebody else's, when ours landed *)
(* or after that.  The value ours became is another than the one sent only *)
(* if the type of the record does not hold that, or if the limits are no   *)
(* longer those of the pre-read.                                           *)
ShownSince(c, seen) ==
  \E i, j \in 1 .. Len(landings) :
    /\ i <= j
    /\ landings[i].by = c
    /\ landings[j].pv = PV(c) /\ landings[j].val \in seen
    /\ landings[j].by = c =>
         \/ landings[j].val = Val(c)
         \/ Cast[PV(c)][Val(c)] # Val(c)
         \/ landings[j].drive # pre[c].drive

Verdict(c, v) == Len(trail[c]) = 3 /\ trail[c][3] = v

(* The verdict of a readback is about a value the record took when ours    *)
(* landed or later, never about an older one: a mismatch has a cause at    *)
(* the IOC (another write, a record that cleared itself, a type or new     *)
(* limits that made another value of ours), and a match is never that of   *)
(* a value that was there before.                                          *)
ReadbackExplained ==
  \A c \in Calls :
    /\ Verdict(c, "READBACK_MISMATCH") => ShownSince(c, Values \ Near[Val(c)])
    /\ Verdict(c, "READBACK_OK") => ShownSince(c, Near[Val(c)])

(* Every call that was admitted ends, unless the process dies: a lost      *)
(* reply or a lost request does not hang it.                               *)
EveryCallEnds == \A c \in Calls : pc[c] \in Awaiting ~> pc[c] \in Finished

(* What a log says of its call, and of the readback.                       *)
PhaseOf(t) ==
  CASE t = <<>> -> "new"
    [] t # <<>> /\ t[1] \in Refusals -> "refused"
    [] t # <<>> /\ t[1] \notin Refusals /\ Len(t) = 1 -> "attempted"
    [] OTHER -> t[2]

VerdictOf(t) == IF Len(t) = 3 THEN t[3] ELSE "none"

(* The code's write implements the audited write.                          *)
Audited == INSTANCE AuditedWrite WITH
  phase <- [c \in Calls |-> PhaseOf(trail[c])],
  landed <- {c \in Calls : HasLanded(c)},
  verdict <- [c \in Calls |-> VerdictOf(trail[c])]

AuditRefined == Audited!AuditSpec
-----------------------------------------------------------------------------
(* What the repository says of the program and the code does not do.       *)

(* A FAILED write "would imply nothing was written" (safety.py), and a     *)
(* timed out one has the UNKNOWN outcome (write-gate-contract.md).         *)
FailedMeansNotWritten ==
  \A c \in Calls : HasLanded(c) => trail[c] # <<"ATTEMPT", "FAILED">>

(* "Every write is read back (always-on)": a READBACK line follows the     *)
(* ALLOW (safety.md).                                                      *)
AllowIsReadBack ==
  \A c \in Calls :
    pc[c] \in Finished \ {"crashed"} => trail[c] # <<"ATTEMPT", "ALLOW">>

(* "Exactly one terminal line per gate verdict": ALLOW, DENY or FAILED     *)
(* (write-gate-contract.md).                                               *)
VerdictIsAudited ==
  \A c \in Calls : pc[c] \in {"returned", "raised"} => trail[c] # <<>>
=============================================================================
