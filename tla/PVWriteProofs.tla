---------------------------- MODULE PVWriteProofs -----------------------------
(***************************************************************************)
(* TLAPS proofs about PVWrite, for every set of calls, PVs, values and     *)
(* limits, any rate limit and any number of restarts.                      *)
(*                                                                         *)
(* The properties follow from what is known of a call at each await        *)
(* (StageInv) and of its put once a worker has it (WorkerInv): a worker is *)
(* only ever given a sanctioned and audited write, a request is only ever  *)
(* sent by a worker, and "ok" is only ever reported of a request that      *)
(* landed.                                                                 *)
(***************************************************************************)
EXTENDS PVWrite, SequenceTheorems, TLAPS

(* What the code knows of a call at each of its awaits, and of its log.    *)
Stage(c) ==
  /\ pc[c] \in {"idle", "prereading", "preread"} =>
       worker[c] = "none" /\ trail[c] = <<>>
  /\ pc[c] \in {"prereading", "preread"} => PV(c) \in Writable
  /\ pc[c] = "preread" => pre[c] # NoSample
  /\ pc[c] = "putting" => worker[c] # "none" /\ trail[c] = <<"ATTEMPT">>
  /\ pc[c] \in {"readingback", "readback"} =>
       worker[c] # "none" /\ trail[c] = <<"ATTEMPT", "ALLOW">>

(* What is known of a put that was handed to a worker, wherever its call is. *)
Work(c) ==
  /\ worker[c] # "none" => /\ PV(c) \in Writable
                           /\ pre[c] # NoSample /\ ~OutOfBounds(c)
                           /\ trail[c] # <<>> /\ trail[c][1] = "ATTEMPT"
  /\ worker[c] \in {"none", "queued", "running"} => c \notin flying /\ ~HasLanded(c)
  /\ c \in flying => ~HasLanded(c)
  /\ worker[c] = "ok" => HasLanded(c)

(* What the log says of a call. *)
Log(c) ==
  /\ trail[c] \in LegalTrails
  /\ trail[c] = <<"ATTEMPT">> => pc[c] \in {"putting", "crashed"}
  /\ trail[c] \in {<<"ATTEMPT", "ALLOW">>} \union {<<"ATTEMPT", "ALLOW", v>> : v \in Verdicts}
       => HasLanded(c)

CallInv(c) == Stage(c) /\ Work(c) /\ Log(c)

IInv == TypeOK /\ LandsAtMostOnce /\ \A c \in Calls : CallInv(c)

USE PVWriteAssumption

(* A line is appended to the log of one call. *)
LEMMA AuditLine ==
  ASSUME trail \in [Calls -> Seq(Events)], NEW c \in Calls, NEW e \in Events,
         Audit(c, e)
  PROVE  /\ trail' \in [Calls -> Seq(Events)]
         /\ trail'[c] = Append(trail[c], e)
         /\ \A d \in Calls : d # c => trail'[d] = trail[d]
<1>1. Append(trail[c], e) \in Seq(Events)
  OBVIOUS
<1>2. QED
  BY <1>1 DEF Audit

(* A read yields a value and the limits. *)
LEMMA SampleType ==
  ASSUME TypeOK, NEW c \in Calls
  PROVE  [val |-> value[PV(c)], drive |-> drive[PV(c)]] \in Samples
<1>1. PV(c) \in PVs
  BY DEF TypeOK, PV, Requests
<1>2. QED
  BY <1>1 DEF TypeOK, Samples

(* What a record makes of a value is a value. *)
LEMMA StoredType ==
  ASSUME TypeOK, NEW r \in PVs, NEW v \in Values, NEW w \in Stored(r, v, drive[r])
  PROVE  w \in Values /\ drive[r] \in Drives
BY DEF TypeOK, Stored, Drives

(* The PV and the value of a call. *)
LEMMA RequestType ==
  ASSUME TypeOK, NEW c \in Calls PROVE PV(c) \in PVs /\ Val(c) \in Values
BY DEF TypeOK, PV, Val, Requests

(* An application at the IOC. *)
LEMMA TakesType ==
  ASSUME TypeOK, NEW r \in PVs, NEW w \in Values,
         NEW who \in Calls \union {Outsider, Itself}, Takes(r, w, who)
  PROVE  value' \in [PVs -> Values] /\ landings' \in Seq(Landings)
BY DEF TypeOK, Takes, Landings

(* Type correctness of the write path. *)
THEOREM TypeCorrect == Spec => []TypeOK
<1>1. Init => TypeOK
  BY DEF Init, TypeOK, PCs, Awaiting, Finished, WorkerStates
<1>2. TypeOK /\ [Next]_vars => TypeOK'
  <2> SUFFICES ASSUME TypeOK, [Next]_vars PROVE TypeOK'
    OBVIOUS
  <2> USE DEF TypeOK, PCs, Awaiting, Finished, WorkerStates, Goto, process, ioc, put
  <2>0. \A e \in {"DENY", "BOUNDS_DENY", "ATTEMPT", "ALLOW", "FAILED",
                   "UNKNOWN_PENDING", "READBACK_OK", "READBACK_MISMATCH",
                   "READBACK_UNVERIFIED"} : e \in Events
    BY DEF Events, Refusals, Outcomes, Verdicts
  <2>1. ASSUME NEW c \in Calls, Deny(c) PROVE TypeOK'
    BY <2>0, <2>1, AuditLine DEF Deny
  <2>2. ASSUME NEW c \in Calls, Admit(c) PROVE TypeOK'
    BY <2>2 DEF Admit
  <2>3. ASSUME NEW c \in Calls, RefuseBounds(c) PROVE TypeOK'
    BY <2>0, <2>3, AuditLine DEF RefuseBounds
  <2>4. ASSUME NEW c \in Calls, Attempt(c) PROVE TypeOK'
    <3>1. trail' \in [Calls -> Seq(Events)]
      BY <2>0, <2>4, AuditLine DEF Attempt
    <3>2. op' \in [Calls -> Nat \X Nat]
      BY <2>4 DEF Attempt
    <3>3. QED
      BY <2>4, <3>1, <3>2 DEF Attempt
  <2>5. ASSUME NEW c \in Calls, PutReturned(c) PROVE TypeOK'
    BY <2>0, <2>5, AuditLine DEF PutReturned
  <2>6. ASSUME NEW c \in Calls, PutFailed(c) PROVE TypeOK'
    BY <2>0, <2>6, AuditLine DEF PutFailed
  <2>7. ASSUME NEW c \in Calls, Verify(c) PROVE TypeOK'
    <3>1. trail' \in [Calls -> Seq(Events)]
      BY <2>0, <2>7, AuditLine DEF Verify, Conclude
    <3>2. QED
      BY <2>7, <3>1 DEF Verify, Conclude
  <2>8. ASSUME NEW c \in Calls, Unverified(c) PROVE TypeOK'
    BY <2>0, <2>8, AuditLine DEF Unverified, Conclude
  <2>9. ASSUME NEW c \in Calls, PreReadReply(c) PROVE TypeOK'
    BY <2>9, SampleType DEF PreReadReply
  <2>10. ASSUME NEW c \in Calls, ReadbackReply(c) PROVE TypeOK'
    BY <2>10, SampleType DEF ReadbackReply
  <2>11. ASSUME NEW c \in Calls, PreReadFail(c) \/ CancelRead(c) PROVE TypeOK'
    BY <2>11 DEF PreReadFail, CancelRead
  <2>12. ASSUME NEW c \in Calls, WorkerStep(c) PROVE TypeOK'
    BY <2>12 DEF WorkerStep, WorkerStart, WorkerSend, WorkerOk, WorkerFail, SetWorker
  <2>13. ASSUME NEW c \in Calls, CancelPut(c) PROVE TypeOK'
    <3>1. trail' \in [Calls -> Seq(Events)]
      BY <2>0, <2>13, AuditLine DEF CancelPut
    <3>2. Withdrawn(c) \in WorkerStates
      BY DEF Withdrawn
    <3>3. QED
      BY <2>13, <3>1, <3>2 DEF CancelPut
  <2>14. ASSUME NEW c \in Calls, Land(c) PROVE TypeOK'
    <3>1. PICK w \in Stored(PV(c), Val(c), drive[PV(c)]) : Takes(PV(c), w, c)
      BY <2>14 DEF Land
    <3>2. value' \in [PVs -> Values] /\ landings' \in Seq(Landings)
      BY <3>1, RequestType, StoredType, TakesType
    <3>3. QED
      BY <2>14, <3>2 DEF Land
  <2>15. ASSUME NEW c \in Calls, Lose(c) PROVE TypeOK'
    BY <2>15 DEF Lose
  <2>16. CASE Expire
    BY <2>16 DEF Expire
  <2>17. ASSUME NEW p \in PVs, NEW v \in Values, OutsideWrite(p, v) PROVE TypeOK'
    <3>1. PICK w \in Stored(p, v, drive[p]) : Takes(p, w, Outsider)
      BY <2>17 DEF OutsideWrite
    <3>2. value' \in [PVs -> Values] /\ landings' \in Seq(Landings)
      BY <3>1, StoredType, TakesType
    <3>3. QED
      BY <2>17, <3>2 DEF OutsideWrite, OutsideStep
  <2>18. ASSUME NEW p \in PVs, NEW d \in Drives, OutsideLimits(p, d) PROVE TypeOK'
    BY <2>18 DEF OutsideLimits, OutsideStep
  <2>19. CASE Restart
    BY <2>19 DEF Restart
  <2>20. CASE UNCHANGED vars
    BY <2>20 DEF vars
  <2>21. ASSUME NEW p \in PVs, Clear(p) PROVE TypeOK'
    <3>1. value' \in [PVs -> Values] /\ landings' \in Seq(Landings)
      BY <2>21, TakesType DEF Clear
    <3>2. QED
      BY <2>21, <3>1 DEF Clear
  <2>22. QED
    BY <2>1, <2>2, <2>3, <2>4, <2>5, <2>6, <2>7, <2>8, <2>9, <2>10, <2>11, <2>12,
       <2>13, <2>14, <2>15, <2>16, <2>17, <2>18, <2>19, <2>20, <2>21
       DEF Next, LoopStep, ReadStep
<1>3. QED
  BY <1>1, <1>2, PTL DEF Spec

(* The logs a call can have, line by line. *)
LEMMA TrailSteps ==
  ASSUME NEW e
  PROVE  /\ Append(<<>>, e) = <<e>>
         /\ Append(<<"ATTEMPT">>, e) = <<"ATTEMPT", e>>
         /\ Append(<<"ATTEMPT", "ALLOW">>, e) = <<"ATTEMPT", "ALLOW", e>>
<1>1. Append(<<>>, e) = <<e>>
  OBVIOUS
<1> DEFINE S == {"ATTEMPT", "ALLOW", e}
<1>2. Append(<<"ATTEMPT">>, e) = <<"ATTEMPT", e>>
  <2> DEFINE s == <<"ATTEMPT">>
             t == <<"ATTEMPT", e>>
  <2>1. s \in Seq(S) /\ t \in Seq(S) /\ Len(s) = 1 /\ Len(t) = 2
    OBVIOUS
  <2>2. /\ Append(s, e) \in Seq(S) /\ Len(Append(s, e)) = 2
        /\ Append(s, e)[1] = "ATTEMPT" /\ Append(s, e)[2] = e
    BY <2>1, AppendProperties
  <2>3. \A k \in 1 .. 2 : Append(s, e)[k] = t[k]
    BY <2>2
  <2> HIDE DEF s, t
  <2>4. Append(s, e) = t
    BY <2>1, <2>2, <2>3, SeqEqual
  <2>5. QED
    BY <2>4 DEF s, t
<1>3. Append(<<"ATTEMPT", "ALLOW">>, e) = <<"ATTEMPT", "ALLOW", e>>
  <2> DEFINE s == <<"ATTEMPT", "ALLOW">>
             t == <<"ATTEMPT", "ALLOW", e>>
  <2>1. s \in Seq(S) /\ t \in Seq(S) /\ Len(s) = 2 /\ Len(t) = 3
    OBVIOUS
  <2>2. /\ Append(s, e) \in Seq(S) /\ Len(Append(s, e)) = 3
        /\ Append(s, e)[1] = "ATTEMPT" /\ Append(s, e)[2] = "ALLOW"
        /\ Append(s, e)[3] = e
    BY <2>1, AppendProperties
  <2>3. \A k \in 1 .. 3 : Append(s, e)[k] = t[k]
    BY <2>2
  <2> HIDE DEF s, t
  <2>4. Append(s, e) = t
    BY <2>1, <2>2, <2>3, SeqEqual
  <2>5. QED
    BY <2>4 DEF s, t
<1>4. QED
  BY <1>1, <1>2, <1>3

(* Logs of different lengths or outcomes differ. *)
LEMMA TrailsDiffer ==
  ASSUME NEW e, NEW f, NEW v
  PROVE  /\ <<e>> # <<>> /\ <<e>>[1] = e
         /\ <<e, f>> # <<>> /\ <<e, f>>[1] = e /\ <<e, f>>[2] = f
         /\ <<e, f, v>> # <<>> /\ <<e, f, v>>[1] = e
         /\ <<e>> # <<e, f>> /\ <<e, f>> # <<e, f, v>> /\ <<e>> # <<e, f, v>>
         /\ Len(<<e>>) = 1 /\ Len(<<e, f>>) = 2 /\ Len(<<e, f, v>>) = 3
OBVIOUS

(* An application at the IOC adds one landing, and takes none away. *)
LEMMA LandingAdded ==
  ASSUME landings \in Seq(Landings), NEW r \in Landings, landings' = Append(landings, r)
  PROVE  \A c \in Calls : HasLanded(c)' <=> HasLanded(c) \/ r.by = c
<1>1. /\ Len(landings') = Len(landings) + 1
      /\ \A k \in 1 .. Len(landings) : landings'[k] = landings[k]
      /\ landings'[Len(landings) + 1] = r
      /\ Len(landings) \in Nat
  OBVIOUS
<1> SUFFICES ASSUME NEW c \in Calls PROVE HasLanded(c)' <=> HasLanded(c) \/ r.by = c
  OBVIOUS
<1>2. ASSUME HasLanded(c)' PROVE HasLanded(c) \/ r.by = c
  <2>1. PICK k \in 1 .. Len(landings') : landings'[k].by = c
    BY <1>2 DEF HasLanded
  <2>2. k \in 1 .. Len(landings) \/ k = Len(landings) + 1
    BY <1>1
  <2>3. QED
    BY <1>1, <2>1, <2>2 DEF HasLanded
<1>3. ASSUME HasLanded(c) PROVE HasLanded(c)'
  BY <1>1, <1>3 DEF HasLanded
<1>4. ASSUME r.by = c PROVE HasLanded(c)'
  <2>1. Len(landings) + 1 \in 1 .. Len(landings')
    BY <1>1
  <2>2. QED
    BY <1>1, <1>4, <2>1 DEF HasLanded
<1>5. QED
  BY <1>2, <1>3, <1>4

(* A call that a step does not touch keeps its invariant. *)
LEMMA FrameCall ==
  ASSUME NEW c \in Calls, CallInv(c),
         pc'[c] = pc[c], worker'[c] = worker[c], trail'[c] = trail[c],
         request'[c] = request[c], pre'[c] = pre[c],
         c \in flying' <=> c \in flying,
         HasLanded(c)' <=> HasLanded(c)
  PROVE  CallInv(c)'
BY DEF CallInv, Stage, Work, Log, PV, Val, OutOfBounds

(* A step of one call that applies nothing at the IOC. *)
OwnStep(c) ==
  /\ UNCHANGED <<request, landings>>
  /\ \A d \in Calls : d # c =>
       /\ pc'[d] = pc[d] /\ worker'[d] = worker[d] /\ trail'[d] = trail[d]
       /\ pre'[d] = pre[d] /\ (d \in flying' <=> d \in flying)

(* Such a step keeps the invariant if it keeps that of its own call.       *)
LEMMA OwnStepKeeps ==
  ASSUME IInv, TypeOK', NEW c \in Calls, OwnStep(c), CallInv(c)'
  PROVE  IInv'
<1>1. LandsAtMostOnce'
  BY DEF IInv, LandsAtMostOnce, OwnStep
<1>2. ASSUME NEW d \in Calls, d # c PROVE CallInv(d)'
  <2>1. HasLanded(d)' <=> HasLanded(d)
    BY DEF HasLanded, OwnStep
  <2>2. QED
    BY <1>2, <2>1, FrameCall DEF IInv, OwnStep
<1>3. QED
  BY <1>1, <1>2 DEF IInv

(* Every action of a call but its landing is such a step. *)
CallAction(c) ==
  \/ Deny(c) \/ Admit(c)
  \/ LoopStep(c) \/ ReadStep(c) \/ WorkerStep(c)
  \/ CancelPut(c) \/ CancelRead(c) \/ Lose(c)

LEMMA CallActionOwn ==
  ASSUME TypeOK, NEW c \in Calls, CallAction(c)
  PROVE  OwnStep(c) /\ (HasLanded(c)' <=> HasLanded(c))
<1> USE DEF TypeOK, OwnStep, HasLanded, Goto, Audit, process, ioc, put
<1>1. CASE Deny(c) \/ Admit(c)
  BY <1>1 DEF Deny, Admit
<1>2. CASE LoopStep(c)
  BY <1>2 DEF LoopStep, RefuseBounds, Attempt, PutReturned, PutFailed, Verify, Conclude
<1>3. CASE ReadStep(c)
  BY <1>3 DEF ReadStep, PreReadReply, PreReadFail, ReadbackReply, Unverified, Conclude
<1>4. CASE WorkerStep(c)
  BY <1>4 DEF WorkerStep, WorkerStart, WorkerSend, WorkerOk, WorkerFail, SetWorker
<1>5. CASE CancelPut(c) \/ CancelRead(c) \/ Lose(c)
  BY <1>5 DEF CancelPut, CancelRead, Lose
<1>6. QED
  BY <1>1, <1>2, <1>3, <1>4, <1>5 DEF CallAction

(* The logs of an allowed write.                                           *)
AllowedTrails == {<<"ATTEMPT", "ALLOW">>} \union {<<"ATTEMPT", "ALLOW", v>> : v \in Verdicts}

(* Which logs are legal, and which of them are of an allowed write.        *)
LEMMA LegalLines ==
  /\ <<>> \in LegalTrails \ AllowedTrails
  /\ <<"ATTEMPT">> \in LegalTrails \ AllowedTrails
  /\ \A r \in Refusals : <<r>> \in LegalTrails \ AllowedTrails /\ <<r>> # <<"ATTEMPT">>
  /\ \A o \in {"FAILED", "UNKNOWN_PENDING"} :
       <<"ATTEMPT", o>> \in LegalTrails \ AllowedTrails
  /\ <<"ATTEMPT", "ALLOW">> \in LegalTrails
  /\ \A v \in Verdicts : <<"ATTEMPT", "ALLOW", v>> \in LegalTrails
<1> USE DEF LegalTrails, AllowedTrails, Refusals, Outcomes, Verdicts
<1>1. <<>> \in LegalTrails /\ <<>> \notin AllowedTrails
  BY TrailsDiffer
<1>2. <<"ATTEMPT">> \in LegalTrails /\ <<"ATTEMPT">> \notin AllowedTrails
  BY TrailsDiffer
<1>3. ASSUME NEW r \in Refusals
      PROVE  <<r>> \in LegalTrails /\ <<r>> \notin AllowedTrails /\ <<r>> # <<"ATTEMPT">>
  <2>1. <<r>>[1] # <<"ATTEMPT">>[1]
    BY TrailsDiffer
  <2>2. QED
    BY <2>1, TrailsDiffer
<1>4. ASSUME NEW o \in {"FAILED", "UNKNOWN_PENDING"}
      PROVE  <<"ATTEMPT", o>> \in LegalTrails /\ <<"ATTEMPT", o>> \notin AllowedTrails
  <2>1. <<"ATTEMPT", o>>[2] # <<"ATTEMPT", "ALLOW">>[2]
    BY TrailsDiffer
  <2>2. QED
    BY <2>1, TrailsDiffer
<1>5. /\ <<"ATTEMPT", "ALLOW">> \in LegalTrails
      /\ \A v \in Verdicts : <<"ATTEMPT", "ALLOW", v>> \in LegalTrails
  OBVIOUS
<1>6. QED
  BY <1>1, <1>2, <1>3, <1>4, <1>5

(* The gate: a refusal or an admission is all the log and the workers know. *)
LEMMA GateStep ==
  ASSUME IInv, TypeOK', NEW c \in Calls, Deny(c) \/ Admit(c) PROVE CallInv(c)'
<1> USE DEF TypeOK, Goto
<1>1. /\ pc[c] = "idle" /\ worker[c] = "none" /\ trail[c] = <<>>
      /\ c \notin flying /\ ~HasLanded(c)
      /\ UNCHANGED <<request, pre, worker, flying, landings>>
  BY DEF IInv, CallInv, Stage, Work, Deny, Admit, put, ioc
<1>2. CASE Deny(c)
  <2>1. pc'[c] = "raised" /\ trail'[c] = <<"DENY">>
    BY <1>1, <1>2, TrailSteps DEF Deny, Audit
  <2>2. trail'[c] \in LegalTrails \ AllowedTrails /\ trail'[c] # <<"ATTEMPT">>
    BY <2>1, LegalLines DEF Refusals
  <2>3. QED
    BY <1>1, <2>1, <2>2 DEF CallInv, Stage, Work, Log, HasLanded, AllowedTrails
<1>3. CASE Admit(c)
  <2>1. pc'[c] = "prereading" /\ trail'[c] = <<>> /\ PV(c)' \in Writable
    BY <1>1, <1>3 DEF Admit, Denied, PV
  <2>2. trail'[c] \in LegalTrails \ AllowedTrails /\ trail'[c] # <<"ATTEMPT">>
    BY <2>1, LegalLines, TrailsDiffer
  <2>3. QED
    BY <1>1, <2>1, <2>2 DEF CallInv, Stage, Work, Log, HasLanded, AllowedTrails
<1>4. QED
  BY <1>2, <1>3

(* The pre-read and the decision taken from it. *)
LEMMA PreReadStep ==
  ASSUME IInv, TypeOK', NEW c \in Calls,
         PreReadReply(c) \/ PreReadFail(c) \/ RefuseBounds(c) \/ Attempt(c)
  PROVE  CallInv(c)'
<1> USE DEF TypeOK, Goto
<1>1. /\ pc[c] \in {"prereading", "preread"}
      /\ worker[c] = "none" /\ trail[c] = <<>> /\ PV(c) \in Writable
      /\ c \notin flying /\ ~HasLanded(c)
      /\ UNCHANGED <<request, flying, landings>>
      /\ PV(c)' = PV(c) /\ Val(c)' = Val(c) /\ HasLanded(c)' = HasLanded(c)
  BY DEF IInv, CallInv, Stage, Work, PreReadReply, PreReadFail, RefuseBounds, Attempt,
         put, ioc, PV, Val, HasLanded
<1>2. <<>> \in LegalTrails \ AllowedTrails /\ <<>> # <<"ATTEMPT">>
  BY LegalLines, TrailsDiffer
<1>3. CASE PreReadReply(c)
  <2>1. /\ pc'[c] = "preread" /\ trail'[c] = <<>> /\ worker'[c] = "none"
        /\ pre'[c] \in Samples
    BY <1>1, <1>3, SampleType DEF IInv, PreReadReply, put
  <2>2. pre'[c] # NoSample
    BY <2>1, PVWriteAssumption DEF Samples, Drives
  <2>3. QED
    BY <1>1, <1>2, <2>1, <2>2 DEF CallInv, Stage, Work, Log, AllowedTrails
<1>4. CASE PreReadFail(c)
  <2>1. pc'[c] = "raised" /\ trail'[c] = <<>> /\ worker'[c] = "none"
    BY <1>1, <1>4 DEF PreReadFail, put
  <2>2. QED
    BY <1>1, <1>2, <2>1 DEF CallInv, Stage, Work, Log, AllowedTrails
<1>5. CASE RefuseBounds(c)
  <2>1. pc'[c] = "raised" /\ trail'[c] = <<"BOUNDS_DENY">> /\ worker'[c] = "none"
    BY <1>1, <1>5, TrailSteps DEF RefuseBounds, Audit, put
  <2>2. trail'[c] \in LegalTrails \ AllowedTrails /\ trail'[c] # <<"ATTEMPT">>
    BY <2>1, LegalLines DEF Refusals
  <2>3. QED
    BY <1>1, <2>1, <2>2 DEF CallInv, Stage, Work, Log, AllowedTrails
<1>6. CASE Attempt(c)
  <2>1. /\ pc'[c] = "putting" /\ trail'[c] = <<"ATTEMPT">> /\ worker'[c] = "queued"
        /\ pre' = pre
    BY <1>1, <1>6, TrailSteps DEF Attempt, Audit
  <2>2. pre[c] # NoSample /\ ~OutOfBounds(c)
    BY <1>6 DEF Attempt, IInv, CallInv, Stage
  <2>3. pre'[c] # NoSample /\ ~OutOfBounds(c)'
    BY <1>1, <2>1, <2>2 DEF OutOfBounds
  <2>4. trail'[c] \in LegalTrails \ AllowedTrails
    BY <2>1, LegalLines
  <2>5. trail'[c] # <<>> /\ trail'[c][1] = "ATTEMPT"
    BY <2>1, TrailsDiffer
  <2>6. QED
    BY <1>1, <2>1, <2>3, <2>4, <2>5 DEF CallInv, Stage, Work, Log, AllowedTrails
<1>7. QED
  BY <1>3, <1>4, <1>5, <1>6

(* The worker: nothing is sent but by a running worker, and nothing is     *)
(* confirmed that did not land.                                            *)
LEMMA WorkerCallInv ==
  ASSUME IInv, TypeOK', NEW c \in Calls, WorkerStep(c) \/ Lose(c)
  PROVE  CallInv(c)'
<1> USE DEF TypeOK
<1>1. CallInv(c)
  BY DEF IInv
<1>2. /\ UNCHANGED <<pc, trail, request, pre, landings>>
      /\ PV(c)' = PV(c) /\ Val(c)' = Val(c) /\ HasLanded(c)' = HasLanded(c)
      /\ OutOfBounds(c)' = OutOfBounds(c)
  BY DEF WorkerStep, WorkerStart, WorkerSend, WorkerOk, WorkerFail, SetWorker, Lose,
         ioc, PV, Val, HasLanded, OutOfBounds
<1>3. Stage(c)' /\ Log(c)'
  BY <1>1, <1>2 DEF CallInv, Stage, Log, WorkerStep, WorkerStart, WorkerSend,
                   WorkerOk, WorkerFail, SetWorker, Lose
<1>4. Work(c)'
  <2>1. CASE WorkerStart(c)
    BY <1>1, <1>2, <2>1 DEF CallInv, Work, WorkerStart, SetWorker
  <2>2. CASE WorkerSend(c)
    BY <1>1, <1>2, <2>2 DEF CallInv, Work, WorkerSend, SetWorker
  <2>3. CASE WorkerOk(c)
    BY <1>1, <1>2, <2>3 DEF CallInv, Work, WorkerOk, SetWorker
  <2>4. CASE WorkerFail(c)
    BY <1>1, <1>2, <2>4 DEF CallInv, Work, WorkerFail, SetWorker
  <2>5. CASE Lose(c)
    BY <1>1, <1>2, <2>5 DEF CallInv, Work, Lose
  <2>6. QED
    BY <2>1, <2>2, <2>3, <2>4, <2>5 DEF WorkerStep
<1>5. QED
  BY <1>3, <1>4 DEF CallInv

(* The ways out of the put await. *)
LEMMA PutEnds ==
  ASSUME IInv, TypeOK', NEW c \in Calls, PutReturned(c) \/ PutFailed(c) \/ CancelPut(c)
  PROVE  CallInv(c)'
<1> USE DEF TypeOK, Goto
<1>1. CallInv(c) /\ pc[c] = "putting" /\ worker[c] # "none" /\ trail[c] = <<"ATTEMPT">>
  BY DEF IInv, CallInv, Stage, PutReturned, PutFailed, CancelPut
<1>2. /\ UNCHANGED <<request, pre, flying, landings>>
      /\ PV(c)' = PV(c) /\ Val(c)' = Val(c) /\ HasLanded(c)' = HasLanded(c)
      /\ OutOfBounds(c)' = OutOfBounds(c)
  BY DEF PutReturned, PutFailed, CancelPut, put, ioc, PV, Val, HasLanded, OutOfBounds
<1>3. \E e \in {"ALLOW", "FAILED", "UNKNOWN_PENDING"} : trail'[c] = <<"ATTEMPT", e>>
  BY <1>1, TrailSteps DEF PutReturned, PutFailed, CancelPut, Audit
<1>4. trail'[c] # <<>> /\ trail'[c][1] = "ATTEMPT" /\ trail'[c] # <<"ATTEMPT">>
  BY <1>3, TrailsDiffer
<1>5. /\ worker'[c] # "none"
      /\ worker'[c] \in {"none", "queued", "running"} =>
           worker[c] \in {"none", "queued", "running"}
      /\ worker'[c] = "ok" <=> worker[c] = "ok"
  BY <1>1 DEF PutReturned, PutFailed, CancelPut, put, Withdrawn
<1>6. Work(c)'
  <2>1. worker'[c] \in {"none", "queued", "running"} => c \notin flying /\ ~HasLanded(c)
    BY <1>1, <1>5 DEF CallInv, Work
  <2>2. QED
    BY <1>1, <1>2, <1>4, <1>5, <2>1 DEF CallInv, Work
<1>7. CASE PutReturned(c)
  <2>1. pc'[c] = "readingback" /\ trail'[c] = <<"ATTEMPT", "ALLOW">> /\ HasLanded(c)
    BY <1>1, <1>7, TrailSteps DEF PutReturned, Audit, CallInv, Work
  <2>2. trail'[c] \in LegalTrails
    BY <2>1, LegalLines
  <2>3. QED
    BY <1>2, <1>4, <1>5, <1>6, <2>1, <2>2 DEF CallInv, Stage, Log
<1>8. CASE PutFailed(c) \/ CancelPut(c)
  <2>1. /\ pc'[c] \in {"raised", "cancelled"}
        /\ \E o \in {"FAILED", "UNKNOWN_PENDING"} : trail'[c] = <<"ATTEMPT", o>>
    BY <1>1, <1>8, TrailSteps DEF PutFailed, CancelPut, Audit
  <2>2. trail'[c] \in LegalTrails \ AllowedTrails
    BY <2>1, LegalLines
  <2>3. QED
    BY <1>4, <1>6, <2>1, <2>2 DEF CallInv, Stage, Log, AllowedTrails
<1>9. QED
  BY <1>7, <1>8

(* The readback, and the cancellation of a read. *)
LEMMA ReadbackStep ==
  ASSUME IInv, TypeOK', NEW c \in Calls,
         ReadbackReply(c) \/ Unverified(c) \/ Verify(c) \/ CancelRead(c)
  PROVE  CallInv(c)'
<1> USE DEF TypeOK, Goto
<1>1. CallInv(c)
  BY DEF IInv
<1>2. /\ UNCHANGED <<request, pre, worker, flying, landings>>
      /\ PV(c)' = PV(c) /\ Val(c)' = Val(c) /\ HasLanded(c)' = HasLanded(c)
      /\ OutOfBounds(c)' = OutOfBounds(c)
  BY DEF ReadbackReply, Unverified, Verify, CancelRead, Conclude, put, ioc, PV, Val,
         HasLanded, OutOfBounds
<1>3. CASE ReadbackReply(c)
  <2>1. pc[c] = "readingback" /\ pc'[c] = "readback" /\ trail' = trail
    BY <1>3 DEF ReadbackReply
  <2>2. trail[c] = <<"ATTEMPT", "ALLOW">> /\ worker[c] # "none"
    BY <1>1, <2>1 DEF CallInv, Stage
  <2>3. trail[c] # <<"ATTEMPT">>
    BY <2>2, TrailsDiffer
  <2>4. QED
    BY <1>1, <1>2, <2>1, <2>2, <2>3 DEF CallInv, Stage, Work, Log
<1>4. CASE Unverified(c) \/ Verify(c)
  <2>1. /\ pc[c] \in {"readingback", "readback"} /\ pc'[c] = "returned"
        /\ \E v \in Verdicts : trail'[c] = Append(trail[c], v)
    BY <1>4 DEF Unverified, Verify, Conclude, Audit, Verdicts
  <2>2. trail[c] = <<"ATTEMPT", "ALLOW">> /\ worker[c] # "none"
    BY <1>1, <2>1 DEF CallInv, Stage
  <2>3. HasLanded(c)
    BY <1>1, <2>2 DEF CallInv, Log
  <2>4. PICK v \in Verdicts : trail'[c] = <<"ATTEMPT", "ALLOW", v>>
    BY <2>1, <2>2, TrailSteps
  <2>5. /\ trail'[c] \in LegalTrails /\ trail'[c] # <<>> /\ trail'[c][1] = "ATTEMPT"
        /\ trail'[c] # <<"ATTEMPT">>
    BY <2>4, LegalLines, TrailsDiffer
  <2>6. Work(c)'
    BY <1>1, <1>2, <2>5 DEF CallInv, Work
  <2>7. QED
    BY <1>2, <2>1, <2>3, <2>5, <2>6 DEF CallInv, Stage, Log
<1>5. CASE CancelRead(c)
  <2>1. /\ pc[c] \in {"prereading", "preread", "readingback", "readback"}
        /\ pc'[c] = "cancelled" /\ trail' = trail
    BY <1>5 DEF CancelRead, Awaiting
  <2>2. trail[c] # <<"ATTEMPT">>
    BY <1>1, <2>1, TrailsDiffer DEF CallInv, Log
  <2>3. QED
    BY <1>1, <1>2, <2>1, <2>2 DEF CallInv, Stage, Work, Log
<1>6. QED
  BY <1>3, <1>4, <1>5

(* Any of these actions keeps the invariant.                               *)
LEMMA CallActionIInv ==
  ASSUME IInv, TypeOK', NEW c \in Calls, CallAction(c) PROVE IInv'
<1>1. OwnStep(c)
  BY CallActionOwn DEF IInv
<1>2. CallInv(c)'
  BY GateStep, PreReadStep, WorkerCallInv, PutEnds, ReadbackStep
     DEF CallAction, LoopStep, ReadStep
<1>3. QED
  BY <1>1, <1>2, OwnStepKeeps

(* A request is applied: it was flying, so it had not landed before. *)
LEMMA LandIInv ==
  ASSUME IInv, TypeOK', NEW c \in Calls, Land(c) PROVE IInv'
<1>0. PICK w \in Stored(PV(c), Val(c), drive[PV(c)]) : Takes(PV(c), w, c)
  BY DEF Land
<1> DEFINE r == [pv |-> PV(c), val |-> w, by |-> c, drive |-> drive[PV(c)]]
<1>1. TypeOK /\ CallInv(c) /\ LandsAtMostOnce
  BY DEF IInv
<1>2. r \in Landings
  BY <1>1, RequestType, StoredType DEF Landings
<1>3. /\ c \in flying /\ flying' = flying \ {c} /\ landings' = Append(landings, r)
      /\ UNCHANGED <<pc, request, pre, trail, worker>>
  BY <1>0 DEF Land, Takes
<1>4. \A d \in Calls : HasLanded(d)' <=> HasLanded(d) \/ d = c
  BY <1>1, <1>2, <1>3, LandingAdded DEF TypeOK
<1>5. ~HasLanded(c) /\ worker[c] \notin {"none", "queued", "running"}
  BY <1>1, <1>3 DEF CallInv, Work
<1>6. CallInv(c)'
  BY <1>1, <1>3, <1>4, <1>5 DEF CallInv, Stage, Work, Log, PV, Val, OutOfBounds
<1>7. ASSUME NEW d \in Calls, d # c PROVE CallInv(d)'
  <2>1. d \in flying' <=> d \in flying
    BY <1>3, <1>7
  <2>2. HasLanded(d)' <=> HasLanded(d)
    BY <1>4, <1>7
  <2>3. QED
    BY <1>3, <2>1, <2>2, FrameCall DEF IInv
<1>8. LandsAtMostOnce'
  <2>1. /\ Len(landings') = Len(landings) + 1 /\ Len(landings) \in Nat
        /\ \A k \in 1 .. Len(landings) : landings'[k] = landings[k]
        /\ landings'[Len(landings) + 1] = r
    BY <1>1, <1>2, <1>3 DEF TypeOK
  <2>2. \A k \in 1 .. Len(landings) : landings[k].by # c
    BY <1>5 DEF HasLanded
  <2> SUFFICES ASSUME NEW i \in 1 .. Len(landings'), NEW j \in 1 .. Len(landings'),
                      landings'[i].by = landings'[j].by, landings'[i].by \in Calls
               PROVE  i = j
    BY DEF LandsAtMostOnce
  <2>3. CASE i \in 1 .. Len(landings) /\ j \in 1 .. Len(landings)
    BY <1>1, <2>1, <2>3 DEF LandsAtMostOnce
  <2>4. CASE i = Len(landings) + 1 /\ j \in 1 .. Len(landings)
    BY <2>1, <2>2, <2>4
  <2>5. CASE j = Len(landings) + 1 /\ i \in 1 .. Len(landings)
    BY <2>1, <2>2, <2>5
  <2>6. QED
    BY <2>1, <2>3, <2>4, <2>5
<1>9. QED
  BY <1>6, <1>7, <1>8 DEF IInv

(* Somebody else writes a PV, or a record clears itself. *)
LEMMA OutsideIInv ==
  ASSUME IInv, TypeOK', NEW p \in PVs, NEW w \in Values, NEW who \in {Outsider, Itself},
         Takes(p, w, who), UNCHANGED <<pc, request, pre, trail, worker, flying>>
  PROVE  IInv'
<1> DEFINE r == [pv |-> p, val |-> w, by |-> who, drive |-> drive[p]]
<1>1. TypeOK /\ LandsAtMostOnce
  BY DEF IInv
<1>2. r \in Landings
  BY <1>1 DEF Landings, TypeOK
<1>3. /\ landings' = Append(landings, r)
      /\ UNCHANGED <<pc, request, pre, trail, worker, flying>>
  BY DEF Takes
<1>4. \A d \in Calls : HasLanded(d)' <=> HasLanded(d)
  BY <1>1, <1>2, <1>3, LandingAdded DEF TypeOK
<1>5. \A d \in Calls : CallInv(d)'
  BY <1>3, <1>4, FrameCall DEF IInv
<1>6. LandsAtMostOnce'
  <2>1. /\ Len(landings') = Len(landings) + 1 /\ Len(landings) \in Nat
        /\ \A k \in 1 .. Len(landings) : landings'[k] = landings[k]
        /\ landings'[Len(landings) + 1].by \notin Calls
    BY <1>1, <1>2, <1>3 DEF TypeOK
  <2> SUFFICES ASSUME NEW i \in 1 .. Len(landings'), NEW j \in 1 .. Len(landings'),
                      landings'[i].by = landings'[j].by, landings'[i].by \in Calls
               PROVE  i = j
    BY DEF LandsAtMostOnce
  <2>2. i \in 1 .. Len(landings) /\ j \in 1 .. Len(landings)
    BY <2>1
  <2>3. QED
    BY <1>1, <2>1, <2>2 DEF LandsAtMostOnce
<1>7. QED
  BY <1>5, <1>6 DEF IInv

(* The process dies: what was sent may still land, and nothing else can. *)
LEMMA RestartIInv == ASSUME IInv, TypeOK', Restart PROVE IInv'
<1>1. TypeOK /\ LandsAtMostOnce
  BY DEF IInv
<1>2. LandsAtMostOnce'
  BY <1>1 DEF LandsAtMostOnce, Restart, ioc
<1>3. ASSUME NEW c \in Calls PROVE CallInv(c)'
  <2>1. CallInv(c)
    BY DEF IInv
  <2>2. /\ UNCHANGED <<request, pre, trail, flying, landings>>
        /\ PV(c)' = PV(c) /\ HasLanded(c)' = HasLanded(c)
        /\ OutOfBounds(c)' = OutOfBounds(c)
    BY DEF Restart, ioc, PV, Val, HasLanded, OutOfBounds
  <2>3. /\ worker'[c] = IF worker[c] = "none" THEN "none" ELSE "dead"
        /\ pc'[c] = IF pc[c] \in Awaiting THEN "crashed" ELSE pc[c]
    BY DEF Restart
  <2>4. Stage(c)' /\ Log(c)'
    BY <2>1, <2>2, <2>3 DEF CallInv, Stage, Log, Awaiting
  <2>5. Work(c)'
    BY <2>1, <2>2, <2>3 DEF CallInv, Work
  <2>6. QED
    BY <2>4, <2>5 DEF CallInv
<1>4. QED
  BY <1>2, <1>3 DEF IInv

(* The invariant holds when the first process starts.                      *)
LEMMA InitIInv == Init => IInv
<1> SUFFICES ASSUME Init PROVE IInv
  OBVIOUS
<1>1. TypeOK
  BY DEF Init, TypeOK, PCs, Awaiting, Finished, WorkerStates
<1>2. LandsAtMostOnce /\ \A c \in Calls : ~HasLanded(c)
  BY DEF Init, LandsAtMostOnce, HasLanded
<1>3. <<>> \in LegalTrails \ AllowedTrails /\ <<>> # <<"ATTEMPT">>
  BY LegalLines, TrailsDiffer
<1>4. \A c \in Calls : CallInv(c)
  BY <1>2, <1>3 DEF Init, CallInv, Stage, Work, Log, AllowedTrails
<1>5. QED
  BY <1>1, <1>2, <1>4 DEF IInv

(* No step of the system breaks it.                                        *)
LEMMA NextIInv == IInv /\ TypeOK' /\ [Next]_vars => IInv'
<1> SUFFICES ASSUME IInv, TypeOK', [Next]_vars PROVE IInv'
  OBVIOUS
<1>1. ASSUME NEW c \in Calls, CallAction(c) PROVE IInv'
  BY <1>1, CallActionIInv
<1>2. ASSUME NEW c \in Calls, Land(c) PROVE IInv'
  BY <1>2, LandIInv
<1>3. ASSUME NEW p \in PVs, (\E v \in Values : OutsideWrite(p, v)) \/ Clear(p)
      PROVE  IInv'
  <2>1. UNCHANGED <<pc, request, pre, trail, worker, flying>>
    BY <1>3 DEF OutsideWrite, OutsideStep, Clear, put
  <2>2. \E w \in Values, who \in {Outsider, Itself} : Takes(p, w, who)
    BY <1>3, StoredType DEF OutsideWrite, Clear, IInv
  <2>3. QED
    BY <2>1, <2>2, OutsideIInv
<1>4. ASSUME UNCHANGED <<pc, request, pre, trail, worker, flying, landings>> PROVE IInv'
  <2>1. \A c \in Calls : HasLanded(c)' <=> HasLanded(c)
    BY <1>4 DEF HasLanded
  <2>2. LandsAtMostOnce'
    BY <1>4 DEF IInv, LandsAtMostOnce
  <2>3. QED
    BY <1>4, <2>1, <2>2, FrameCall DEF IInv
<1>5. CASE Expire \/ (\E p \in PVs, d \in Drives : OutsideLimits(p, d)) \/ UNCHANGED vars
  BY <1>4, <1>5 DEF Expire, OutsideLimits, OutsideStep, vars, put, ioc
<1>6. CASE Restart
  BY <1>6, RestartIInv
<1>7. QED
  BY <1>1, <1>2, <1>3, <1>5, <1>6 DEF Next, CallAction

(* The inductive invariant, for every instance.                            *)
LEMMA InvariantHolds == Spec => []IInv
<1>1. TypeOK /\ IInv /\ TypeOK' /\ [Next]_vars => IInv'
  BY NextIInv
<1>2. QED
  BY <1>1, InitIInv, TypeCorrect, PTL DEF Spec
-----------------------------------------------------------------------------
(* What reaches the IOC, or is on its way there, was in the allowlist and  *)
(* within the limits, and was logged first.                                *)
THEOREM OnlySanctioned == Spec => []OnlySanctionedLands
<1>1. IInv => OnlySanctionedLands
  <2> SUFFICES ASSUME IInv, NEW c \in Calls, HasLanded(c) \/ c \in flying
               PROVE  /\ PV(c) \in Writable
                      /\ pre[c] # NoSample /\ ~OutOfBounds(c)
                      /\ trail[c] # <<>> /\ trail[c][1] = "ATTEMPT"
    BY DEF OnlySanctionedLands
  <2>1. Work(c) /\ worker[c] # "none"
    BY DEF IInv, CallInv, Work
  <2>2. QED
    BY <2>1 DEF Work
<1>2. QED
  BY <1>1, InvariantHolds, PTL

(* A legal log that says ALLOW is that of an allowed write.                *)
LEMMA AllowLine ==
  ASSUME NEW t \in LegalTrails, NEW i \in 1 .. Len(t), t[i] = "ALLOW"
  PROVE  t \in AllowedTrails
<1> USE DEF LegalTrails, AllowedTrails
<1>1. CASE t = <<>>
  BY <1>1
<1>2. CASE t = <<"ATTEMPT">>
  <2>1. i = 1
    BY <1>2, TrailsDiffer
  <2>2. QED
    BY <1>2, <2>1, TrailsDiffer
<1>3. CASE \E r \in Refusals : t = <<r>>
  <2>1. PICK r \in Refusals : t = <<r>>
    BY <1>3
  <2>2. i = 1 /\ t[1] = r
    BY <2>1, TrailsDiffer
  <2>3. QED
    BY <2>2 DEF Refusals
<1>4. CASE \E o \in Outcomes : t = <<"ATTEMPT", o>>
  <2>1. PICK o \in Outcomes : t = <<"ATTEMPT", o>>
    BY <1>4
  <2>2. (i = 1 \/ i = 2) /\ t[1] = "ATTEMPT" /\ t[2] = o
    BY <2>1, TrailsDiffer
  <2>3. o = "ALLOW"
    BY <2>2
  <2>4. QED
    BY <2>1, <2>3
<1>5. CASE \E v \in Verdicts : t = <<"ATTEMPT", "ALLOW", v>>
  BY <1>5
<1>6. QED
  BY <1>1, <1>2, <1>3, <1>4, <1>5

(* The log says ALLOW only of a write that reached the IOC.                *)
THEOREM AllowsLanded == Spec => []AllowMeansLanded
<1>1. IInv => AllowMeansLanded
  <2> SUFFICES ASSUME IInv, NEW c \in Calls, NEW i \in 1 .. Len(trail[c]),
                      trail[c][i] = "ALLOW"
               PROVE  HasLanded(c)
    BY DEF AllowMeansLanded
  <2>1. Log(c)
    BY DEF IInv, CallInv
  <2>2. trail[c] \in AllowedTrails
    BY <2>1, AllowLine DEF Log
  <2>3. QED
    BY <2>1, <2>2 DEF Log, AllowedTrails
<1>2. QED
  BY <1>1, InvariantHolds, PTL

(* No write is repeated.                                                   *)
THEOREM NeverRepeated == Spec => []LandsAtMostOnce
<1>1. IInv => LandsAtMostOnce
  BY DEF IInv
<1>2. QED
  BY <1>1, InvariantHolds, PTL

(* The log of a call is always one that the audit contract knows.          *)
THEOREM TrailsLegal == Spec => []TrailLegal
<1>1. IInv => TrailLegal
  BY DEF IInv, CallInv, Log, TrailLegal
<1>2. QED
  BY <1>1, InvariantHolds, PTL

(* An attempt is followed by an outcome, unless the process dies first.    *)
THEOREM AttemptsConcluded == Spec => []NoDanglingAttempt
<1>1. IInv => NoDanglingAttempt
  BY DEF IInv, CallInv, Log, NoDanglingAttempt
<1>2. QED
  BY <1>1, InvariantHolds, PTL
-----------------------------------------------------------------------------
(* Wherever a value shows after a call landed, at the IOC, in the readback *)
(* or in the verdict, the record took it then or later.                    *)
Explained(c) ==
  /\ HasLanded(c) => ShownSince(c, {value[PV(c)]})
  /\ pc[c] = "readback" => back[c].val \in Values /\ ShownSince(c, {back[c].val})
  /\ Verdict(c, "READBACK_MISMATCH") => ShownSince(c, Values \ Near[Val(c)])
  /\ Verdict(c, "READBACK_OK") => ShownSince(c, Near[Val(c)])

ExplainedInv == \A c \in Calls : Explained(c)

(* ShownSince, of any landings, PV r, value v and limits d.                *)
Traced(ls, c, r, v, d, seen) ==
  \E i, j \in 1 .. Len(ls) :
    /\ i <= j
    /\ ls[i].by = c
    /\ ls[j].pv = r /\ ls[j].val \in seen
    /\ ls[j].by = c => ls[j].val = v \/ Cast[r][v] # v \/ ls[j].drive # d

LEMMA ShownIsTraced ==
  ASSUME NEW c \in Calls, NEW seen
  PROVE  ShownSince(c, seen) <=> Traced(landings, c, PV(c), Val(c), pre[c].drive, seen)
BY DEF ShownSince, Traced

(* What showed a value showed one of any set that holds it.                *)
LEMMA TracedWider ==
  ASSUME NEW ls, NEW c, NEW r, NEW v, NEW d, NEW seen, NEW more,
         seen \subseteq more, Traced(ls, c, r, v, d, seen)
  PROVE  Traced(ls, c, r, v, d, more)
BY DEF Traced

(* What showed stays so, whatever the IOC applies next.                    *)
LEMMA TracedStays ==
  ASSUME NEW ls \in Seq(Landings), NEW l \in Landings, NEW c, NEW r, NEW v, NEW d, NEW seen,
         Traced(ls, c, r, v, d, seen)
  PROVE  Traced(Append(ls, l), c, r, v, d, seen)
<1>1. /\ Len(Append(ls, l)) = Len(ls) + 1 /\ Len(ls) \in Nat
      /\ \A k \in 1 .. Len(ls) : Append(ls, l)[k] = ls[k]
  OBVIOUS
<1>2. PICK i \in 1 .. Len(ls), j \in 1 .. Len(ls) :
        /\ i <= j
        /\ ls[i].by = c
        /\ ls[j].pv = r /\ ls[j].val \in seen
        /\ ls[j].by = c => ls[j].val = v \/ Cast[r][v] # v \/ ls[j].drive # d
  BY DEF Traced
<1>3. i \in 1 .. Len(Append(ls, l)) /\ j \in 1 .. Len(Append(ls, l))
  BY <1>1
<1>4. Append(ls, l)[i] = ls[i] /\ Append(ls, l)[j] = ls[j]
  BY <1>1
<1>5. QED
  BY <1>2, <1>3, <1>4 DEF Traced

(* The newest value of a PV shows, of a call that landed with it or before.*)
LEMMA TracedLast ==
  ASSUME NEW ls \in Seq(Landings), NEW l \in Landings, NEW c, NEW v, NEW d, NEW seen,
         l.val \in seen,
         \E i \in 1 .. Len(Append(ls, l)) : Append(ls, l)[i].by = c,
         l.by = c => l.val = v \/ Cast[l.pv][v] # v \/ l.drive # d
  PROVE  Traced(Append(ls, l), c, l.pv, v, d, seen)
<1>1. /\ Len(Append(ls, l)) = Len(ls) + 1 /\ Len(ls) \in Nat
      /\ Append(ls, l)[Len(ls) + 1] = l
  OBVIOUS
<1>2. PICK i \in 1 .. Len(Append(ls, l)) : Append(ls, l)[i].by = c
  OBVIOUS
<1>3. Len(ls) + 1 \in 1 .. Len(Append(ls, l)) /\ i <= Len(ls) + 1
  BY <1>1
<1>4. QED
  BY <1>1, <1>2, <1>3 DEF Traced

(* A call keeps its explanations when its request and pre-read stay, what  *)
(* shows at the IOC is explained, and neither its readback nor a verdict   *)
(* is new.                                                                 *)
LEMMA ExplainedFrame ==
  ASSUME TypeOK, NEW c \in Calls, Explained(c), request' = request,
         HasLanded(c) => pre'[c] = pre[c],
         landings' = landings \/ \E r \in Landings : landings' = Append(landings, r),
         (HasLanded(c) => ShownSince(c, {value[PV(c)]}))',
         pc'[c] = "readback" => pc[c] = "readback" /\ back'[c] = back[c],
         \A v \in {"READBACK_MISMATCH", "READBACK_OK"} :
           Verdict(c, v)' => Verdict(c, v)
  PROVE  Explained(c)'
<1> DEFINE Then(seen) == Traced(landings', c, PV(c)', Val(c)', pre'[c].drive, seen)
<1>1. ASSUME NEW seen, ShownSince(c, seen) PROVE Then(seen)
  <2>1. HasLanded(c) /\ Traced(landings, c, PV(c), Val(c), pre[c].drive, seen)
    BY <1>1 DEF ShownSince, Traced, HasLanded
  <2>2. PV(c)' = PV(c) /\ Val(c)' = Val(c) /\ pre'[c] = pre[c]
    BY <2>1 DEF PV, Val
  <2>3. Traced(landings', c, PV(c), Val(c), pre[c].drive, seen)
    <3>1. CASE landings' = landings
      BY <2>1, <3>1
    <3>2. CASE \E r \in Landings : landings' = Append(landings, r)
      BY <2>1, <3>2, TracedStays DEF TypeOK
    <3>3. QED
      BY <3>1, <3>2
  <2>4. QED
    BY <2>2, <2>3
<1>2. Val(c)' = Val(c)
  BY DEF Val
<1>3. pc'[c] = "readback" => Then({back'[c].val}) /\ back'[c].val \in Values
  BY <1>1 DEF Explained
<1>4. Verdict(c, "READBACK_MISMATCH")' => Then(Values \ Near[Val(c)'])
  BY <1>1, <1>2 DEF Explained
<1>5. Verdict(c, "READBACK_OK")' => Then(Near[Val(c)'])
  BY <1>1, <1>2 DEF Explained
<1>6. pc'[c] = "readback" => ShownSince(c, {back[c].val})'
  BY <1>3 DEF ShownSince, Traced
<1>7. Verdict(c, "READBACK_MISMATCH")' => ShownSince(c, Values \ Near[Val(c)])'
  BY <1>4 DEF ShownSince, Traced
<1>8. Verdict(c, "READBACK_OK")' => ShownSince(c, Near[Val(c)])'
  BY <1>5 DEF ShownSince, Traced
<1> HIDE DEF Then
<1>9. QED
  BY <1>3, <1>6, <1>7, <1>8 DEF Explained

(* The same for a step that leaves the IOC alone.                          *)
LEMMA QuietFrame ==
  ASSUME TypeOK, NEW c \in Calls, Explained(c), UNCHANGED <<request, value, landings>>,
         HasLanded(c) => pre'[c] = pre[c],
         pc'[c] = "readback" => pc[c] = "readback" /\ back'[c] = back[c],
         \A v \in {"READBACK_MISMATCH", "READBACK_OK"} :
           Verdict(c, v)' => Verdict(c, v)
  PROVE  Explained(c)'
<1>1. HasLanded(c)' <=> HasLanded(c)
  BY DEF HasLanded
<1>2. HasLanded(c) => ShownSince(c, {value[PV(c)]})'
  BY DEF Explained, ShownSince, PV, Val
<1>3. QED
  BY <1>1, <1>2, ExplainedFrame

(* A new line ends a log; no log ends in a verdict but by such a line.     *)
LEMMA OtherLines ==
  ASSUME TypeOK, NEW c \in Calls, NEW e \in Events, Audit(c, e), NEW v, v # e
  PROVE  ~Verdict(c, v)'
<1>1. trail[c] \in Seq(Events) /\ trail'[c] = Append(trail[c], e)
  BY DEF TypeOK, Audit
<1>2. Len(trail'[c]) = Len(trail[c]) + 1 /\ trail'[c][Len(trail[c]) + 1] = e
      /\ Len(trail[c]) \in Nat
  BY <1>1, AppendProperties
<1>3. QED
  BY <1>2 DEF Verdict

(* The steps of a call but its landing. *)
LEMMA CallActionExplained ==
  ASSUME IInv, ExplainedInv, NEW c \in Calls, CallAction(c)
  PROVE  ExplainedInv'
<1> USE DEF Goto, put, ioc, process
<1>0. TypeOK /\ Explained(c)
  BY DEF IInv, ExplainedInv
<1>1. OwnStep(c) /\ UNCHANGED value
  BY <1>0, CallActionOwn DEF CallAction, Deny, Admit, LoopStep, RefuseBounds, Attempt,
     PutReturned, PutFailed, Verify, Conclude, ReadStep, PreReadReply, PreReadFail,
     ReadbackReply, Unverified, WorkerStep, WorkerStart, WorkerSend, WorkerOk, WorkerFail,
     SetWorker, CancelPut, CancelRead, Lose
<1>2. \A d \in Calls : d # c => back'[d] = back[d]
  BY <1>0 DEF TypeOK, CallAction, Deny, Admit, LoopStep, RefuseBounds, Attempt,
     PutReturned, PutFailed, Verify, Conclude, ReadStep, PreReadReply, PreReadFail,
     ReadbackReply, Unverified, WorkerStep, WorkerStart, WorkerSend, WorkerOk, WorkerFail,
     SetWorker, CancelPut, CancelRead, Lose
<1>3. ASSUME NEW d \in Calls, d # c PROVE Explained(d)'
  <2>1. \A v \in {"READBACK_MISMATCH", "READBACK_OK"} : Verdict(d, v)' => Verdict(d, v)
    BY <1>1, <1>3 DEF OwnStep, Verdict
  <2>2. QED
    BY <1>0, <1>1, <1>2, <1>3, <2>1, QuietFrame DEF ExplainedInv, OwnStep
<1> SUFFICES Explained(c)'
  BY <1>3 DEF ExplainedInv
<1>4. {"DENY", "BOUNDS_DENY", "ATTEMPT", "ALLOW", "FAILED", "UNKNOWN_PENDING"} \union Verdicts
        \subseteq Events
  BY DEF Events, Refusals, Outcomes, Verdicts
<1>5. UNCHANGED <<request, value, landings>>
  BY <1>1 DEF OwnStep
<1>6. HasLanded(c) => pre'[c] = pre[c]
  <2>1. CASE PreReadReply(c)
    BY <2>1 DEF IInv, CallInv, Stage, Work, PreReadReply
  <2>2. CASE ~PreReadReply(c)
    BY <2>2 DEF CallAction, Deny, Admit, LoopStep, RefuseBounds, Attempt,
     PutReturned, PutFailed, Verify, Conclude, ReadStep, PreReadReply, PreReadFail,
     ReadbackReply, Unverified, WorkerStep, WorkerStart, WorkerSend, WorkerOk, WorkerFail,
     SetWorker, CancelPut, CancelRead, Lose
  <2>3. QED
    BY <2>1, <2>2
<1>7. CASE Deny(c) \/ RefuseBounds(c) \/ Attempt(c) \/ PutReturned(c) \/ PutFailed(c)
             \/ CancelPut(c) \/ Unverified(c)
  <2>1. pc'[c] # "readback"
    BY <1>0, <1>7 DEF TypeOK, Deny, RefuseBounds, Attempt, PutReturned, PutFailed,
       CancelPut, Unverified
  <2>2. \E e \in Events \ {"READBACK_MISMATCH", "READBACK_OK"} : Audit(c, e)
    BY <1>4, <1>7 DEF Deny, RefuseBounds, Attempt, PutReturned, PutFailed,
       CancelPut, Unverified, Conclude, Verdicts
  <2>3. \A v \in {"READBACK_MISMATCH", "READBACK_OK"} : ~Verdict(c, v)'
    BY <1>0, <2>2, OtherLines
  <2>4. QED
    BY <1>0, <1>5, <1>6, <2>1, <2>3, QuietFrame
<1>8. CASE Admit(c) \/ PreReadReply(c) \/ PreReadFail(c) \/ CancelRead(c)
             \/ WorkerStep(c) \/ Lose(c)
  <2>1. /\ pc'[c] = "readback" => pc[c] = "readback" /\ back'[c] = back[c]
        /\ UNCHANGED trail
    BY <1>0, <1>8 DEF TypeOK, Admit, PreReadReply, PreReadFail, CancelRead, WorkerStep,
       WorkerStart, WorkerSend, WorkerOk, WorkerFail, SetWorker, Lose
  <2>2. \A v \in {"READBACK_MISMATCH", "READBACK_OK"} : Verdict(c, v)' => Verdict(c, v)
    BY <2>1 DEF Verdict
  <2>3. QED
    BY <1>0, <1>5, <1>6, <2>1, <2>2, QuietFrame
<1>9. CASE ReadbackReply(c)
  <2>1. HasLanded(c)
    BY <1>9 DEF IInv, CallInv, Stage, Log, ReadbackReply
  <2>2. back'[c].val = value[PV(c)] /\ UNCHANGED <<trail, pre>>
    BY <1>0, <1>9 DEF TypeOK, ReadbackReply
  <2>3. PV(c)' = PV(c) /\ Val(c)' = Val(c) /\ value[PV(c)] \in Values
    BY <1>0, <1>5 DEF PV, Val, TypeOK, Requests
  <2>4. \A seen : ShownSince(c, seen)' <=> ShownSince(c, seen)
    BY <1>5, <2>2, <2>3 DEF ShownSince
  <2>5. ShownSince(c, {value[PV(c)]})
    BY <1>0, <2>1 DEF Explained
  <2>6. ShownSince(c, {value[PV(c)]})' /\ ShownSince(c, {back[c].val})'
    BY <1>5, <2>2, <2>3, <2>5 DEF ShownSince
  <2>7. ASSUME NEW v \in {"READBACK_MISMATCH", "READBACK_OK"} PROVE ~Verdict(c, v)'
    <3>1. trail'[c] = <<"ATTEMPT", "ALLOW">>
      BY <1>9, <2>2 DEF IInv, CallInv, Stage, ReadbackReply
    <3>2. QED
      BY <3>1, TrailsDiffer DEF Verdict
  <2>8. QED
    BY <2>2, <2>3, <2>6, <2>7 DEF Explained
<1>10. CASE Verify(c)
  <2>1. pc[c] = "readback" /\ pc'[c] = "returned" /\ UNCHANGED <<back, pre>>
    BY <1>0, <1>10 DEF TypeOK, Verify, Conclude
  <2>2. back[c].val \in Values /\ ShownSince(c, {back[c].val})
    BY <1>0, <2>1 DEF Explained
  <2>3. /\ PV(c)' = PV(c) /\ Val(c)' = Val(c) /\ Near[Val(c)]' = Near[Val(c)]
        /\ HasLanded(c)' <=> HasLanded(c)
    BY <1>5 DEF PV, Val, HasLanded
  <2>4. HasLanded(c)' => ShownSince(c, {value[PV(c)]})'
    BY <1>0, <1>5, <2>1, <2>3 DEF Explained, ShownSince
  <2>5. CASE back[c].val \in Near[Val(c)]
    <3>1. Audit(c, "READBACK_OK") /\ "READBACK_OK" \in Events
      BY <1>4, <1>10, <2>5 DEF Verify, Conclude, Verdicts
    <3>2. ~Verdict(c, "READBACK_MISMATCH")'
      BY <1>0, <3>1, OtherLines
    <3>3. ShownSince(c, Near[Val(c)])
      BY <2>2, <2>5, TracedWider, ShownIsTraced
    <3>4. ShownSince(c, Near[Val(c)])'
      BY <1>5, <2>1, <2>3, <3>3 DEF ShownSince
    <3>5. QED
      BY <2>1, <2>4, <3>2, <3>4 DEF Explained
  <2>6. CASE back[c].val \notin Near[Val(c)]
    <3>1. Audit(c, "READBACK_MISMATCH") /\ "READBACK_MISMATCH" \in Events
      BY <1>4, <1>10, <2>6 DEF Verify, Conclude, Verdicts
    <3>2. ~Verdict(c, "READBACK_OK")'
      BY <1>0, <3>1, OtherLines
    <3>3. ShownSince(c, Values \ Near[Val(c)])
      BY <2>2, <2>6, TracedWider, ShownIsTraced
    <3>4. ShownSince(c, Values \ Near[Val(c)])'
      BY <1>5, <2>1, <2>3, <3>3 DEF ShownSince
    <3>5. QED
      BY <2>1, <2>4, <3>2, <3>4 DEF Explained
  <2>7. QED
    BY <2>5, <2>6
<1>11. QED
  BY <1>7, <1>8, <1>9, <1>10 DEF CallAction, LoopStep, ReadStep

(* An application at the IOC, of ours, of somebody else's or of the record *)
(* itself.                                                                 *)
LEMMA ApplicationExplained ==
  ASSUME IInv, ExplainedInv, NEW r \in Landings,
         landings' = Append(landings, r), value' = [value EXCEPT ![r.pv] = r.val],
         UNCHANGED <<request, pre, pc, back, trail>>,
         r.by \in Calls =>
           /\ r.pv = PV(r.by)
           /\ \/ r.val = Val(r.by)
              \/ Cast[PV(r.by)][Val(r.by)] # Val(r.by)
              \/ r.drive # pre[r.by].drive
  PROVE  ExplainedInv'
<1>0. TypeOK
  BY DEF IInv
<1> SUFFICES ASSUME NEW c \in Calls PROVE Explained(c)'
  BY DEF ExplainedInv
<1>1. /\ PV(c)' = PV(c) /\ Val(c)' = Val(c) /\ PV(c) \in PVs /\ r.pv \in PVs
      /\ Explained(c)
      /\ \A v : Verdict(c, v)' <=> Verdict(c, v)
  BY <1>0 DEF PV, Val, TypeOK, Requests, Landings, ExplainedInv, Verdict
<1>2. HasLanded(c)' <=> HasLanded(c) \/ r.by = c
  BY <1>0, LandingAdded DEF TypeOK
<1>3. /\ Len(landings') = Len(landings) + 1 /\ Len(landings) \in Nat
      /\ \A k \in 1 .. Len(landings) : landings'[k] = landings[k]
      /\ landings'[Len(landings) + 1] = r
  BY <1>0 DEF TypeOK
<1>4. value'[PV(c)] = IF PV(c) = r.pv THEN r.val ELSE value[PV(c)]
  BY <1>0, <1>1 DEF TypeOK
<1>5. ASSUME HasLanded(c)' PROVE ShownSince(c, {value[PV(c)]})'
  <2>1. CASE PV(c) = r.pv
    <3>1. \E i \in 1 .. Len(landings') : landings'[i].by = c
      BY <1>5 DEF HasLanded
    <3>2. r.by = c => r.val = Val(c) \/ Cast[r.pv][Val(c)] # Val(c)
                        \/ r.drive # pre[c].drive
      BY <2>1
    <3>3. Traced(landings', c, r.pv, Val(c), pre[c].drive, {r.val})
      BY <1>0, <3>1, <3>2, TracedLast DEF TypeOK
    <3>4. r.pv = PV(c)' /\ r.val = value'[PV(c)'] /\ Val(c)' = Val(c)
      BY <1>1, <1>4, <2>1
    <3>5. QED
      BY <3>3, <3>4 DEF ShownSince, Traced
  <2>2. CASE PV(c) # r.pv
    <3>1. HasLanded(c) /\ value'[PV(c)'] = value[PV(c)]
      BY <1>1, <1>2, <1>4, <1>5, <2>2
    <3>2. ShownSince(c, {value[PV(c)]})
      BY <1>1, <3>1 DEF Explained
    <3>3. Traced(landings, c, PV(c), Val(c), pre[c].drive, {value[PV(c)]})
      BY <3>2, ShownIsTraced
    <3>4. Traced(landings', c, PV(c), Val(c), pre[c].drive, {value[PV(c)]})
      BY <1>0, <3>3, TracedStays DEF TypeOK
    <3>5. QED
      BY <1>1, <3>1, <3>4 DEF ShownSince, Traced
  <2>3. QED
    BY <2>1, <2>2
<1>6. QED
  BY <1>0, <1>1, <1>5, ExplainedFrame

LEMMA NextExplained == IInv /\ ExplainedInv /\ [Next]_vars => ExplainedInv'
<1> SUFFICES ASSUME IInv, ExplainedInv, [Next]_vars PROVE ExplainedInv'
  OBVIOUS
<1>0. TypeOK
  BY DEF IInv
<1>1. ASSUME NEW c \in Calls, CallAction(c) PROVE ExplainedInv'
  BY <1>1, CallActionExplained
<1>2. ASSUME NEW c \in Calls, Land(c) PROVE ExplainedInv'
  <2>1. PICK w \in Stored(PV(c), Val(c), drive[PV(c)]) : Takes(PV(c), w, c)
    BY <1>2 DEF Land
  <2> DEFINE r == [pv |-> PV(c), val |-> w, by |-> c, drive |-> drive[PV(c)]]
  <2>2. r \in Landings
    BY <1>0, <2>1, RequestType, StoredType DEF Landings
  <2>3. landings' = Append(landings, r) /\ value' = [value EXCEPT ![r.pv] = r.val]
        /\ UNCHANGED <<request, pre, pc, back, trail>>
    BY <1>2, <2>1 DEF Land, Takes
  <2>4. ~OutOfBounds(c)
    BY <1>2 DEF IInv, CallInv, Work, Land
  <2>5. r.by \in Calls =>
           /\ r.pv = PV(r.by)
           /\ \/ r.val = Val(r.by)
              \/ Cast[PV(r.by)][Val(r.by)] # Val(r.by)
              \/ r.drive # pre[r.by].drive
    BY <2>1, <2>4 DEF Stored, OutOfBounds
  <2> HIDE DEF r
  <2>6. QED
    BY <2>2, <2>3, <2>5, ApplicationExplained
<1>3. ASSUME NEW p \in PVs, NEW w \in Values, NEW who \in {Outsider, Itself},
             Takes(p, w, who), UNCHANGED <<request, pre, pc, back, trail>>
      PROVE  ExplainedInv'
  <2> DEFINE r == [pv |-> p, val |-> w, by |-> who, drive |-> drive[p]]
  <2>1. r \in Landings /\ r.by \notin Calls
    BY <1>0 DEF Landings, TypeOK
  <2>2. landings' = Append(landings, r) /\ value' = [value EXCEPT ![r.pv] = r.val]
    BY <1>3 DEF Takes
  <2> HIDE DEF r
  <2>3. QED
    BY <1>3, <2>1, <2>2, ApplicationExplained
<1>4. ASSUME NEW p \in PVs, NEW v \in Values, OutsideWrite(p, v) PROVE ExplainedInv'
  BY <1>0, <1>3, <1>4, StoredType DEF OutsideWrite, OutsideStep
<1>5. ASSUME NEW p \in PVs, Clear(p) PROVE ExplainedInv'
  BY <1>3, <1>5 DEF Clear
<1>6. CASE Expire \/ Restart \/ UNCHANGED vars
             \/ \E p \in PVs, d \in Drives : OutsideLimits(p, d)
  <2>1. UNCHANGED <<request, pre, value, landings, back, trail>>
    BY <1>6 DEF Expire, Restart, OutsideLimits, OutsideStep, vars, ioc
  <2>2. \A c \in Calls : pc'[c] = "readback" => pc[c] = "readback"
    BY <1>6 DEF Expire, Restart, OutsideLimits, OutsideStep, vars
  <2>3. \A c \in Calls : \A v : Verdict(c, v)' <=> Verdict(c, v)
    BY <2>1 DEF Verdict
  <2>4. QED
    BY <1>0, <2>1, <2>2, <2>3, QuietFrame DEF ExplainedInv
<1>7. QED
  BY <1>1, <1>2, <1>4, <1>5, <1>6 DEF Next, CallAction

(* The verdict of a readback (verify_readback of readback.py) is about     *)
(* what the record took when ours landed or since: a mismatch is the trace *)
(* of another write, of the record's clearing, or of a type or of new      *)
(* limits that made another value of ours.                                 *)
THEOREM ReadbacksExplained == Spec => []ReadbackExplained
<1>1. Init => ExplainedInv
  <2> SUFFICES ASSUME Init, NEW c \in Calls PROVE Explained(c)
    BY DEF ExplainedInv
  <2>1. ~HasLanded(c) /\ pc[c] = "idle" /\ trail[c] = <<>>
    BY DEF Init, HasLanded
  <2>2. QED
    BY <2>1 DEF Explained, Verdict
<1>2. ExplainedInv => ReadbackExplained
  BY DEF ExplainedInv, Explained, ReadbackExplained
<1>3. QED
  BY <1>1, <1>2, NextExplained, InvariantHolds, PTL DEF Spec
-----------------------------------------------------------------------------
(* What each legal log says.                                               *)
LEMMA LogSays ==
  /\ PhaseOf(<<>>) = "new" /\ VerdictOf(<<>>) = "none"
  /\ \A r \in Refusals : PhaseOf(<<r>>) = "refused" /\ VerdictOf(<<r>>) = "none"
  /\ PhaseOf(<<"ATTEMPT">>) = "attempted" /\ VerdictOf(<<"ATTEMPT">>) = "none"
  /\ \A o \in Outcomes : PhaseOf(<<"ATTEMPT", o>>) = o
                         /\ VerdictOf(<<"ATTEMPT", o>>) = "none"
  /\ \A v \in Verdicts : PhaseOf(<<"ATTEMPT", "ALLOW", v>>) = "ALLOW"
                         /\ VerdictOf(<<"ATTEMPT", "ALLOW", v>>) = v
<1> USE DEF PhaseOf, VerdictOf
<1>1. PhaseOf(<<>>) = "new" /\ VerdictOf(<<>>) = "none"
  OBVIOUS
<1>2. ASSUME NEW r \in Refusals
      PROVE  PhaseOf(<<r>>) = "refused" /\ VerdictOf(<<r>>) = "none"
  BY <1>2, TrailsDiffer
<1>3. PhaseOf(<<"ATTEMPT">>) = "attempted" /\ VerdictOf(<<"ATTEMPT">>) = "none"
  BY TrailsDiffer DEF Refusals
<1>4. ASSUME NEW o \in Outcomes
      PROVE  PhaseOf(<<"ATTEMPT", o>>) = o /\ VerdictOf(<<"ATTEMPT", o>>) = "none"
  BY TrailsDiffer DEF Refusals
<1>5. ASSUME NEW v \in Verdicts
      PROVE  /\ PhaseOf(<<"ATTEMPT", "ALLOW", v>>) = "ALLOW"
             /\ VerdictOf(<<"ATTEMPT", "ALLOW", v>>) = v
  BY TrailsDiffer DEF Refusals
<1>6. QED
  BY <1>1, <1>2, <1>3, <1>4, <1>5

(* A line in the log of one call moves that call alone.                    *)
LEMMA LogMoves ==
  ASSUME NEW c \in Calls, \A d \in Calls : d # c => trail'[d] = trail[d],
         NEW ph, NEW v, PhaseOf(trail'[c]) = ph, VerdictOf(trail'[c]) = v
  PROVE  /\ [d \in Calls |-> PhaseOf(trail[d])]'
              = [[d \in Calls |-> PhaseOf(trail[d])] EXCEPT ![c] = ph]
         /\ [d \in Calls |-> VerdictOf(trail[d])]'
              = [[d \in Calls |-> VerdictOf(trail[d])] EXCEPT ![c] = v]
  BY DEF PhaseOf, VerdictOf

(* Every step of the write path is a step of the audited write, or none.   *)
THEOREM AuditImplemented == Spec => AuditRefined
<1> DEFINE phase == [c \in Calls |-> PhaseOf(trail[c])]
           landed == {c \in Calls : HasLanded(c)}
           verdict == [c \in Calls |-> VerdictOf(trail[c])]
<1>1. Init => Audited!AuditInit
  <2> SUFFICES ASSUME Init PROVE Audited!AuditInit
    OBVIOUS
  <2>1. \A c \in Calls : trail[c] = <<>>
    BY DEF Init
  <2>2. \A c \in Calls : ~HasLanded(c)
    <3>1. landings = <<>>
      BY DEF Init
    <3>2. QED
      BY <3>1 DEF HasLanded
  <2>3. QED
    BY <2>1, <2>2, LogSays DEF Audited!AuditInit
<1>2. IInv /\ IInv' /\ [Next]_vars => [Audited!AuditNext]_(Audited!auditVars)
  <2> SUFFICES ASSUME IInv, IInv', [Next]_vars
               PROVE  Audited!AuditNext \/ UNCHANGED <<phase, landed, verdict>>
    BY DEF Audited!auditVars
  <2>1. TypeOK
    BY DEF IInv
  <2>2. ASSUME NEW c \in Calls, Deny(c) \/ RefuseBounds(c) PROVE Audited!AuditNext
    <3>1. OwnStep(c) /\ landed' = landed
      BY <2>1, <2>2, CallActionOwn DEF CallAction, LoopStep, OwnStep, HasLanded
    <3>2. PICK r \in Refusals : Audit(c, r)
      BY <2>2 DEF Deny, RefuseBounds, Refusals
    <3>3. trail[c] = <<>>
      BY <2>2 DEF IInv, CallInv, Stage, Deny, RefuseBounds, Goto
    <3>4. trail'[c] = <<r>>
      BY <2>1, <3>2, <3>3, TrailSteps DEF TypeOK, Audit
    <3>5. phase[c] = "new" /\ verdict[c] = "none"
      BY <3>3, LogSays
    <3>6. /\ phase' = [phase EXCEPT ![c] = "refused"]
          /\ verdict' = [verdict EXCEPT ![c] = "none"]
      <4>1. PhaseOf(trail'[c]) = "refused" /\ VerdictOf(trail'[c]) = "none"
        BY <3>4, LogSays
      <4>2. \A d \in Calls : d # c => trail'[d] = trail[d]
        BY <3>1 DEF OwnStep
      <4>3. QED
        BY <4>1, <4>2, LogMoves
    <3>7. Audited!Refuse(c)
      BY <3>1, <3>5, <3>6 DEF Audited!Refuse, Audited!Move
    <3>8. QED
      BY <3>7 DEF Audited!AuditNext
  <2>3. ASSUME NEW c \in Calls, Attempt(c) PROVE Audited!AuditNext
    <3>1. OwnStep(c) /\ landed' = landed
      BY <2>1, <2>3, CallActionOwn DEF CallAction, LoopStep, OwnStep, HasLanded
    <3>2. trail[c] = <<>>
      BY <2>3 DEF IInv, CallInv, Stage, Attempt, Goto
    <3>3. trail'[c] = <<"ATTEMPT">>
      BY <2>1, <2>3, <3>2, TrailSteps DEF TypeOK, Attempt, Audit
    <3>4. phase[c] = "new" /\ verdict[c] = "none"
      BY <3>2, LogSays
    <3>5. /\ phase' = [phase EXCEPT ![c] = "attempted"]
          /\ verdict' = [verdict EXCEPT ![c] = "none"]
      <4>1. PhaseOf(trail'[c]) = "attempted" /\ VerdictOf(trail'[c]) = "none"
        BY <3>3, LogSays
      <4>2. \A d \in Calls : d # c => trail'[d] = trail[d]
        BY <3>1 DEF OwnStep
      <4>3. QED
        BY <4>1, <4>2, LogMoves
    <3>6. Audited!Attempt(c)
      BY <3>1, <3>4, <3>5 DEF Audited!Attempt, Audited!Move
    <3>7. QED
      BY <3>6 DEF Audited!AuditNext
  <2>4. ASSUME NEW c \in Calls, PutReturned(c) \/ PutFailed(c) \/ CancelPut(c)
        PROVE  Audited!AuditNext
    <3>1. OwnStep(c) /\ landed' = landed
      BY <2>1, <2>4, CallActionOwn DEF CallAction, LoopStep, OwnStep, HasLanded
    <3>2. PICK o \in Outcomes : Audit(c, o) /\ (o = "ALLOW" => worker[c] = "ok")
      BY <2>4 DEF PutReturned, PutFailed, CancelPut, Outcomes
    <3>3. trail[c] = <<"ATTEMPT">> /\ (o = "ALLOW" => HasLanded(c))
      BY <2>4, <3>2 DEF IInv, CallInv, Stage, Work, PutReturned, PutFailed,
                        CancelPut, Goto
    <3>4. trail'[c] = <<"ATTEMPT", o>>
      BY <2>1, <3>2, <3>3, TrailSteps DEF TypeOK, Audit
    <3>5. phase[c] = "attempted" /\ verdict[c] = "none"
      BY <3>3, LogSays
    <3>6. /\ phase' = [phase EXCEPT ![c] = o]
          /\ verdict' = [verdict EXCEPT ![c] = "none"]
      <4>1. PhaseOf(trail'[c]) = o /\ VerdictOf(trail'[c]) = "none"
        BY <3>4, LogSays
      <4>2. \A d \in Calls : d # c => trail'[d] = trail[d]
        BY <3>1 DEF OwnStep
      <4>3. QED
        BY <4>1, <4>2, LogMoves
    <3>7. Audited!Conclude(c, o)
      BY <3>1, <3>3, <3>5, <3>6 DEF Audited!Conclude, Audited!Move
    <3>8. QED
      BY <3>7 DEF Audited!AuditNext, Audited!Outcomes, Outcomes
  <2>5. ASSUME NEW c \in Calls, Unverified(c) \/ Verify(c) PROVE Audited!AuditNext
    <3>1. OwnStep(c) /\ landed' = landed
      BY <2>1, <2>5, CallActionOwn
         DEF CallAction, LoopStep, ReadStep, OwnStep, HasLanded
    <3>2. PICK v \in Verdicts : Audit(c, v)
      BY <2>5 DEF Unverified, Verify, Conclude, Verdicts
    <3>3. trail[c] = <<"ATTEMPT", "ALLOW">>
      BY <2>5 DEF IInv, CallInv, Stage, Unverified, Verify, Goto
    <3>4. trail'[c] = <<"ATTEMPT", "ALLOW", v>>
      BY <2>1, <3>2, <3>3, TrailSteps DEF TypeOK, Audit
    <3>5. phase[c] = "ALLOW" /\ verdict[c] = "none"
      BY <3>3, LogSays DEF Outcomes
    <3>6. /\ phase' = [phase EXCEPT ![c] = "ALLOW"]
          /\ verdict' = [verdict EXCEPT ![c] = v]
      <4>1. PhaseOf(trail'[c]) = "ALLOW" /\ VerdictOf(trail'[c]) = v
        BY <3>4, LogSays
      <4>2. \A d \in Calls : d # c => trail'[d] = trail[d]
        BY <3>1 DEF OwnStep
      <4>3. QED
        BY <4>1, <4>2, LogMoves
    <3>7. Audited!ReadBack(c, v)
      BY <3>1, <3>5, <3>6 DEF Audited!ReadBack
    <3>8. QED
      BY <3>7 DEF Audited!AuditNext, Audited!Verdicts, Verdicts
  <2>6. ASSUME NEW c \in Calls, Land(c) PROVE Audited!AuditNext
    <3>0. PICK w \in Stored(PV(c), Val(c), drive[PV(c)]) : Takes(PV(c), w, c)
      BY <2>6 DEF Land
    <3> DEFINE r == [pv |-> PV(c), val |-> w, by |-> c, drive |-> drive[PV(c)]]
    <3>1. c \in flying /\ UNCHANGED trail /\ landings' = Append(landings, r)
      BY <2>6, <3>0 DEF Land, Takes
    <3>2. \A d \in Calls : HasLanded(d)' <=> HasLanded(d) \/ d = c
      <4>1. r \in Landings
        BY <2>1, RequestType, StoredType DEF Landings
      <4>2. QED
        BY <2>1, <3>1, <4>1, LandingAdded DEF TypeOK
    <3>3. ~HasLanded(c) /\ trail[c] \in LegalTrails
      /\ trail[c] # <<>> /\ trail[c][1] = "ATTEMPT"
      BY <3>1 DEF IInv, CallInv, Work, Log
    <3>4. phase[c] \notin {"new", "refused"}
      <4>1. trail[c] = <<"ATTEMPT">> \/ (\E o \in Outcomes : trail[c] = <<"ATTEMPT", o>>)
              \/ (\E v \in Verdicts : trail[c] = <<"ATTEMPT", "ALLOW", v>>)
        BY <3>3, TrailsDiffer DEF LegalTrails, Refusals
      <4>2. QED
        BY <4>1, LogSays DEF Outcomes
    <3>5. landed' = landed \union {c} /\ c \notin landed
      BY <3>2, <3>3
    <3>6. Audited!Land(c)
      BY <3>1, <3>4, <3>5 DEF Audited!Land
    <3>7. QED
      BY <3>6 DEF Audited!AuditNext
  <2>7. ASSUME UNCHANGED <<trail, landings>>
        PROVE  UNCHANGED <<phase, landed, verdict>>
    BY <2>7 DEF HasLanded
  <2>8. ASSUME NEW c \in Calls, Admit(c) \/ PreReadReply(c) \/ PreReadFail(c)
                 \/ ReadbackReply(c) \/ WorkerStep(c) \/ CancelRead(c) \/ Lose(c)
        PROVE  UNCHANGED <<trail, landings>>
    BY <2>8 DEF Admit, PreReadReply, PreReadFail, ReadbackReply, WorkerStep,
         WorkerStart, WorkerSend, WorkerOk, WorkerFail, SetWorker, CancelRead, Lose, ioc
  <2>9. ASSUME NEW p \in PVs, (\E v \in Values : OutsideWrite(p, v)) \/ Clear(p)
        PROVE  UNCHANGED <<phase, landed, verdict>>
    <3>0. PICK w \in Values, who \in {Outsider, Itself} : Takes(p, w, who)
      BY <2>1, <2>9, StoredType DEF OutsideWrite, Clear
    <3> DEFINE r == [pv |-> p, val |-> w, by |-> who, drive |-> drive[p]]
    <3>1. UNCHANGED trail /\ landings' = Append(landings, r)
      BY <2>9, <3>0 DEF OutsideWrite, OutsideStep, Clear, Takes
    <3>2. \A d \in Calls : HasLanded(d)' <=> HasLanded(d)
      <4>1. r \in Landings
        BY <2>1 DEF Landings, TypeOK
      <4>2. QED
        BY <2>1, <3>1, <4>1, LandingAdded DEF TypeOK
    <3>3. QED
      BY <3>1, <3>2
  <2>10. CASE Expire \/ (\E p \in PVs, d \in Drives : OutsideLimits(p, d))
              \/ Restart \/ UNCHANGED vars
    BY <2>7, <2>10 DEF Expire, OutsideLimits, OutsideStep, Restart, vars, ioc
  <2>11. QED
    BY <2>2, <2>3, <2>4, <2>5, <2>6, <2>7, <2>8, <2>9, <2>10
       DEF Next, LoopStep, ReadStep
<1>3. QED
  BY <1>1, <1>2, InvariantHolds, PTL DEF Spec, AuditRefined, Audited!AuditSpec
=============================================================================
